SPECIFICATION ClientSpec
CONSTANTS
    Stoi <- MCStoi
    Stod <- MCStod
    NumberText <- MCNumberText
    TokenText <- MCTokenText
    DocLength <- MCDocLength
    Cut <- MCCut
    NonFinite = {}
    NotUTF8 = {}
    PinRange = 2
    CounterRange = 4
    PinTexts = {"0", "1"}
    PinsArguments = {1}
    Texts = {"1", "x"}
    Keys = {"a", "b"}
    MaxRegistrations = 1
    MaxRuns = 1
    MaxLate = 1
    Offered = {"REGISTER_DEVICE", "DELETE_DEVICE", "CREATE_PIN", "UPDATE_PIN",
               "DELETE_PIN", "GET_PIN"}
INVARIANTS
    ClientTypeOK
    ReportedPinsHold
PROPERTIES
    ReadsOwnWrites
    CallsDoWhatTheyName
CHECK_DEADLOCK FALSE
