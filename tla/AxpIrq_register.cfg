SPECIFICATION Spec
CONSTANTS
    NumRegs = 2
    Width = 2
    Drivers <- WideDrivers
    Pins = {}
    NoDriver <- MCNoDriver
    DriverOps = {"request"}
    Trigger = "level"
    WakeupEvent = TRUE
    BusFails = FALSE
    MayRemove = FALSE
PROPERTIES RegisterClearsPending
