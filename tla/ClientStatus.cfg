SPECIFICATION ClientSpec
CONSTANTS
    Stoi <- MCStoi
    Stod <- MCStod
    NumberText <- MCNumberText
    TokenText <- MCTokenText
    DocLength <- MCDocLength
    Cut <- MCCut
    NonFinite = {}
    NotUTF8 = {}
    PinRange = 2
    CounterRange = 4
    PinTexts = {"0", "1"}
    PinsArguments = {1}
    Texts = {}
    Keys = {"a", "b"}
    MaxRegistrations = 1
    MaxRuns = 1
    MaxLate = 0
    Offered = {"REGISTER_DEVICE", "DEVICE_STATUS"}
INVARIANTS
    OnlineIsOnline
CHECK_DEADLOCK FALSE
