SPECIFICATION MCSpec
CONSTANTS
    Actors <- MCActors
    BatteryAtProbe = TRUE
    Interrupts = {"bat in", "bat out", "change"}
    BusFails = FALSE
    Trigger = "edge"
    DetValid = {TRUE, FALSE}
    SleepSuffices = TRUE
INVARIANTS RemovedIsQuiet 
PROPERTIES DetectionSettles CancelsReturn LateIsRegistered
\* Shutdown is the end, and an edge that is used up in suspend leaves nothing to do.
CHECK_DEADLOCK FALSE
