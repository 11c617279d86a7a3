SPECIFICATION Spec
CONSTANTS
    Actors = {"irq", "mon", "usbin"}
    BatteryAtProbe = TRUE
    Interrupts = {"bat in", "bat out", "change"}
    BusFails = TRUE
    Trigger = "level"
    DetValid = {TRUE}
    SleepSuffices = TRUE
INVARIANTS TypeOK RegisteredOnce OnlyRegisteredUsed PolledWhileRegistered
