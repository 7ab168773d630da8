SPECIFICATION Spec
CONSTANTS
    zero = zero
    one = one
    two = two
    infBytes = infBytes
    infinity = infinity
    word = word
    Stoi <- MCStoi
    Stod <- MCStod
    DocLength <- MCDocLength
    Cut <- MCCut
    NonFinite = {infinity}
    NotUTF8 = {infBytes}
    PinRange = 2
    CounterRange = 4
    Keys = {k1, k2}
    Texts = {infBytes, word}
    PinTexts = {zero, two, word}
    PinsArguments = {4, 5}
    MaxRegistrations = 2
    MaxRuns = 3
SYMMETRY KeySymmetry
INVARIANTS
    TypeOK
    PinLimit
    LoadedPinLimit
PROPERTIES
    OnlyOwnerChanges
    RestartRestores
    ImplementsDeviceStore
CHECK_DEADLOCK FALSE
