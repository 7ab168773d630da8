SPECIFICATION Spec
CONSTANTS
    zero = zero
    one = one
    two = two
    infBytes = infBytes
    infinity = infinity
    word = word
    Stoi <- MCStoi
    Stod <- MCStod
    DocLength <- MCDocLength
    Cut <- MCCut
    NonFinite = {infinity}
    NotUTF8 = {infBytes}
    PinRange = 2
    CounterRange = 4
    Keys = {k1, k2}
    Texts = {word}
    PinTexts = {}
    PinsArguments = {1}
    MaxRegistrations = 3
    MaxRuns = 3
INVARIANTS
    AnswerIsServed
CHECK_DEADLOCK FALSE
