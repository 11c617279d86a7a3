SPECIFICATION Spec
CONSTANTS
    NumRegs = 2
    Width = 1
    Drivers <- OneDriver
    Pins = {}
    NoDriver <- MCNoDriver
    DriverOps = {"request", "enable", "disable"}
    Trigger = "level"
    WakeupEvent = TRUE
    BusFails = TRUE
    MayRemove = TRUE
INVARIANTS HandlerGetsItsData
PROPERTIES AckOnlyRead
CHECK_DEADLOCK FALSE
