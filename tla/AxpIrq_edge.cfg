SPECIFICATION FairSpec
CONSTANTS
    NumRegs = 2
    Width = 1
    Drivers <- SmallDrivers
    Pins = {}
    NoDriver <- MCNoDriver
    DriverOps = {"request", "enable", "disable"}
    Trigger = "edge"
    WakeupEvent = TRUE
    BusFails = FALSE
    MayRemove = FALSE
PROPERTIES EventServed SuspendedIrqWakes
