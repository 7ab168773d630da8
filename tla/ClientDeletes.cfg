SPECIFICATION ClientSpec
CONSTANTS
    Stoi <- MCStoi
    Stod <- MCStod
    NumberText <- MCNumberText
    TokenText <- MCTokenText
    DocLength <- MCDocLength
    Cut <- MCCut
    NonFinite = {}
    NotUTF8 = {}
    PinRange = 2
    CounterRange = 4
    PinTexts = {"0", "1"}
    PinsArguments = {1}
    Texts = {}
    Keys = {"a"}
    MaxRegistrations = 3
    MaxRuns = 2
    MaxLate = 1
    Offered = {"REGISTER_DEVICE", "DELETE_DEVICE", "DEVICE_STATUS",
               "DEVICE_STATUS_UPDATE"}
INVARIANTS
    DeletedStaysDeleted
    StatusShownIsServed
CHECK_DEADLOCK FALSE
