SPECIFICATION Spec
CONSTANTS
    NumRegs = 2
    Width = 2
    Drivers <- WideDrivers
    Pins <- WidePins
    NoDriver <- MCNoDriver
    DriverOps = {"request", "free", "gpio", "irq_request", "irq_free", "irq_enable", "irq_disable"}
    Trigger = "level"
    WakeupEvent = TRUE
    BusFails = FALSE
    MayRemove = TRUE
INVARIANTS TypeOK HwWithinSw PendingWhileHandled EnabledKept FreedIsMasked QuietAfterRemove
CHECK_DEADLOCK FALSE
CONSTRAINT WideBounds
