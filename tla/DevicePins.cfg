SPECIFICATION Spec
CONSTANTS
    zero = zero
    one = one
    small = small
    word = word
    empty = empty
    zeroPointZero = zeroPointZero
    EmptyText = empty
    Texts = {zero, one, small, word, empty}
    Stoi <- MCStoi
    Stod <- MCStod
    NumberText <- MCNumberText
    PinRange = 2
    CounterRange = 4
    MaxPinsOptions = {1, 2}
INVARIANTS
    TypeOK
    MapsAgree
PROPERTIES
    ImplementsPinTable
