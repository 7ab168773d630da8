SPECIFICATION Spec
CONSTANTS
    zero = zero
    one = one
    two = two
    infBytes = infBytes
    infinity = infinity
    word = word
    Stoi <- MCStoi
    Stod <- MCStod
    DocLength <- MCDocLength
    Cut <- MCCut
    NonFinite = {infinity}
    NotUTF8 = {infBytes}
    PinRange = 2
    CounterRange = 4
    Keys = {k1}
    Texts = {zero}
    PinTexts = {zero, one, two, word}
    PinsArguments = {1}
    MaxRegistrations = 1
    MaxRuns = 3
INVARIANTS
    PinsWithinLimit
CHECK_DEADLOCK FALSE
