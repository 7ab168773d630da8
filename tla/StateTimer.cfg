SPECIFICATION Spec
CONSTANTS
    Delays = {0, 1, 3}
    DefaultOutdated = 1
    DefaultOffline = 2
    Horizon = 3
INVARIANTS
    TypeOK
    DelaysStoredBeforeUse
    StatusFollowsSilence
PROPERTIES
    StopIsBounded
    ImplementsDeviceStatus
    SilenceEndsOffline
    DestructorReturns
