SPECIFICATION FairSpec
CONSTANTS
    Registers <- TheRegisters
    Regulators <- TheRegulators
    info <- TheInfo
    Rtc = {}
    Requests <- TheRequests
    PowerOn <- ThePowerOn
    BusFails = TRUE
INVARIANTS TypeOK ReadsBack SwitchedAsAsked ListAgrees RampOverOnSuccess
PROPERTIES CallsEnd
