---------------------------- MODULE AxpIrqProofs ----------------------------
(***************************************************************************)
(* Proofs about the interrupt controller for every number of registers,     *)
(* bits and drivers and for both kinds of trigger.  What a failing bus can   *)
(* break is proved under the assumption that it does not fail, and what an   *)
(* unbinding driver can break under the assumption that none unbinds; the    *)
(* theorems say so.                                                          *)
(***************************************************************************)
EXTENDS AxpIrq, TLAPS

(* What a step of each actor leaves alone. *)
LEMMA WorkLeaves ==
    ASSUME Work
    PROVE  UNCHANGED <<flag, chip, chipReg, handler, data, enabled,
                       lock, dpc, copy, irqchip, hwEnable>>
  BY DEF Work, WorkStart, WorkRead, WorkMask, WorkNext, WorkLoad, WorkCall,
         WorkHandled, WorkPin, WorkPinAck, WorkPinGone, WorkDispatched, WorkAck,
         WorkAfterFree, WorkFrame,
         Pmic, hwVars, chipVars, tableVars, driverVars

LEMMA DriverLeaves ==
    ASSUME NEW d \in Drivers, Calls(d) \/ DriverStep(d)
    PROVE  UNCHANGED <<status, flag, queued, chip, chipReg,
                       wpc, reg_val, irqs, cur, idata, ackReg>>
  BY DEF Calls, DriverCall, PinCall, PinClient, DriverStep, RequestIrq, GpioIrqRegister,
         GpioAlloc, GpioRemove, GpioFreeLock, PinIrqEnable, PinIrqDisable, PinRead,
         PinWrite, FreeIrq, EnableIrq, DisableIrq, SetHandler, SetData, LoadEnabled,
         StoreEnabled, SetHwEnable, FreeCheck, FreeData, FreeHandler, EnableLock,
         DriverFrame, Pmic, hwVars, chipVars, workVars

LEMMA ChipLeaves ==
    ASSUME Chip \/ ChipRemove
    PROVE  UNCHANGED <<flag, handler, data, enabled, lock, dpc, copy, irqchip,
                       wpc, reg_val, irqs, cur, idata, ackReg>>
  BY DEF Chip, ChipRemove, ChipMask, ChipAck, ChipRequest, ChipInitWork,
         ChipRemoveAck, ChipFrame, tableVars, driverVars, workVars

(* Events, interrupts, suspend and resume. *)
Environment ==
    \/ \E i \in Irqs : Event(i)
    \/ HardIrq \/ SharedIrq \/ Suspend \/ Resume

LEMMA EnvironmentLeaves ==
    ASSUME Environment
    PROVE  /\ UNCHANGED <<hwEnable, chip, chipReg, handler, data, enabled,
                          lock, dpc, copy, irqchip, wpc, reg_val, irqs, cur, idata,
                          ackReg>>
           /\ status \subseteq status'
  BY DEF Environment, Event, HardIrq, SharedIrq, TakeIrq, Suspend, Resume, Pmic,
         hwVars, chipVars, tableVars, driverVars, workVars

LEMMA NextCases ==
    Next <=> \/ Environment \/ Work \/ Chip \/ ChipRemove
             \/ \E d \in Drivers : Calls(d) \/ DriverStep(d)
  BY DEF Next, Environment

-----------------------------------------------------------------------------
(* Typing *)
LEMMA ZeroIrq == 0 \in Irqs /\ NumIrqs \in Nat
  BY IrqAssumption DEF Irqs, NumIrqs

LEMMA TypeStep == TypeOK /\ [Next]_vars => TypeOK'
  <1>. SUFFICES ASSUME TypeOK, [Next]_vars PROVE TypeOK'
    OBVIOUS
  <1>. USE DEF TypeOK
  <1>1. CASE Environment
    <2>1. ASSUME NEW i \in Irqs, Event(i) PROVE TypeOK'
      BY <2>1 DEF Event, Pmic, hwVars, chipVars, tableVars, driverVars, workVars, Low, LineLow
    <2>2. CASE HardIrq \/ SharedIrq
      BY <2>2 DEF HardIrq, SharedIrq, TakeIrq, chipVars, tableVars, driverVars, workVars
    <2>3. CASE Suspend \/ Resume
      BY <2>3 DEF Suspend, Resume, hwVars, chipVars, tableVars, driverVars, workVars
    <2>. QED BY <1>1, <2>1, <2>2, <2>3 DEF Environment
  <1>2. CASE Work
    <2>. USE DEF WorkFrame, hwVars, chipVars, tableVars, driverVars, WorkLabels
    <2>1. CASE WorkStart \/ WorkRead \/ WorkMask
      BY <2>1 DEF WorkStart, WorkRead, WorkMask
    <2>2. ASSUME NEW i \in Irqs, WorkNext(i) PROVE TypeOK'
      BY <2>2 DEF WorkNext
    <2>3. CASE WorkLoad \/ WorkCall
      BY <2>3 DEF WorkLoad, WorkCall
    <2>4. CASE WorkHandled \/ WorkPin \/ WorkPinAck \/ WorkPinGone
      <3>1. status' \in SUBSET Irqs /\ hwEnable' \in SUBSET Irqs /\ edge' \in BOOLEAN
        BY <2>4 DEF WorkHandled, WorkPin, WorkPinAck, WorkPinGone, Pmic, Low, LineLow
      <3>. QED BY <2>4, <3>1, ZeroIrq DEF WorkHandled, WorkPin, WorkPinAck, WorkPinGone
    <2>6. CASE WorkDispatched \/ WorkAfterFree
      BY <2>6 DEF WorkDispatched, WorkAfterFree
    <2>5. CASE WorkAck
      <3>1. ackReg' \in 0 .. (NumRegs - 1) /\ reg_val' \in SUBSET Irqs
            /\ wpc' \in WorkLabels
        BY <2>5, IrqAssumption DEF WorkAck
      <3>2. status' \in SUBSET Irqs /\ hwEnable' \in SUBSET Irqs /\ edge' \in BOOLEAN
        BY <2>5 DEF WorkAck, Pmic, Low, LineLow
      <3>. QED BY <2>5, <3>1, <3>2 DEF WorkAck
    <2>. QED BY <1>2, <2>1, <2>2, <2>3, <2>4, <2>5, <2>6 DEF Work
  <1>3. CASE Chip \/ ChipRemove
    <2>. USE DEF ChipFrame, hwVars, tableVars, driverVars, workVars, ChipLabels
    <2>1. status' \in SUBSET Irqs /\ hwEnable' \in SUBSET Irqs /\ edge' \in BOOLEAN
      BY <1>3 DEF Chip, ChipRemove, ChipMask, ChipAck, ChipRequest, ChipInitWork,
                  ChipRemoveAck, Pmic, Low, LineLow, ClearBySetBits
    <2>2. chip' \in ChipLabels /\ chipReg' \in 0 .. (NumRegs - 1)
      BY <1>3, IrqAssumption
      DEF Chip, ChipRemove, ChipMask, ChipAck, ChipRequest, ChipInitWork,
          ChipRemoveAck, NextReg
    <2>3. queued' \in BOOLEAN
      BY <1>3 DEF Chip, ChipRemove, ChipMask, ChipAck, ChipRequest, ChipInitWork,
                  ChipRemoveAck
    <2>. QED BY <1>3, <2>1, <2>2, <2>3, ChipLeaves
  <1>4. ASSUME NEW d \in Drivers,
               Calls(d) \/ DriverStep(d)
        PROVE  TypeOK'
    <2>. USE DEF DriverFrame, hwVars, tableVars, Goto, Unlock, DriverLabels, CallStart, BitsOf
    <2>0. d \in Irqs
      BY IrqAssumption
    <2>1. hwEnable' \in SUBSET Irqs /\ edge' \in BOOLEAN
      BY <1>4, <2>0
      DEF Calls, DriverCall, PinCall, PinClient, DriverStep, RequestIrq,
          GpioIrqRegister, GpioAlloc, GpioRemove, GpioFreeLock, PinIrqEnable,
          PinIrqDisable, PinRead, PinWrite, FreeIrq, EnableIrq, DisableIrq, SetHandler,
          SetData, LoadEnabled, StoreEnabled, SetHwEnable, FreeCheck, FreeData,
          FreeHandler, EnableLock, Pmic, Low, LineLow
    <2>2. dpc' \in [Drivers -> DriverLabels] /\ lock' \in Drivers \cup {NoDriver}
      BY <1>4
      DEF Calls, DriverCall, PinCall, PinClient, DriverStep, RequestIrq,
          GpioIrqRegister, GpioAlloc, GpioRemove, GpioFreeLock, PinIrqEnable,
          PinIrqDisable, PinRead, PinWrite, FreeIrq, EnableIrq, DisableIrq, SetHandler,
          SetData, LoadEnabled, StoreEnabled, SetHwEnable, FreeCheck, FreeData,
          FreeHandler, EnableLock
    <2>3. /\ handler' \in [Irqs -> {Null, "isr"}] /\ data' \in [Irqs -> {Null, "info"}]
          /\ enabled' \in SUBSET Irqs /\ copy' \in [Drivers -> SUBSET Irqs]
          /\ irqchip' \in [Pins -> {"none", Null, "client"}]
      BY <1>4, <2>0
      DEF Calls, DriverCall, PinCall, PinClient, DriverStep, RequestIrq,
          GpioIrqRegister, GpioAlloc, GpioRemove, GpioFreeLock, PinIrqEnable,
          PinIrqDisable, PinRead, PinWrite, FreeIrq, EnableIrq, DisableIrq, SetHandler,
          SetData, LoadEnabled, StoreEnabled, SetHwEnable, FreeCheck, FreeData,
          FreeHandler, EnableLock
    <2>. QED BY <1>4, <2>1, <2>2, <2>3, DriverLeaves
  <1>5. CASE UNCHANGED vars
    BY <1>5 DEF vars, hwVars, chipVars, tableVars, driverVars, workVars
  <1>. QED BY <1>1, <1>2, <1>3, <1>4, <1>5, NextCases

LEMMA TypeInit == Init => TypeOK
  <1>1. 0 \in Irqs /\ 0 \in 0 .. (NumRegs - 1)
    BY ZeroIrq, IrqAssumption
  <1>. QED BY <1>1 DEF Init, TypeOK, ChipLabels, DriverLabels, WorkLabels

(* Every state of every execution is well typed. *)
THEOREM Typing == Spec => []TypeOK
  BY TypeInit, TypeStep, PTL DEF Spec

-----------------------------------------------------------------------------
(* An event is still latched while its handler runs. *)

(* Nothing runs before the PMIC is up, and the pass works within what it     *)
(* read.                                                                     *)
PassOK ==
    /\ chip \in {"clr", "ack", "request", "hooked"} => wpc = "idle"
    /\ chip \in {"clr", "ack", "request"} => ~queued
    /\ wpc \in {"idle", "read"} => reg_val = {}
    /\ irqs \subseteq reg_val
    /\ wpc \in {"load", "call", "run", "pin"} => cur \in reg_val
    /\ wpc \in {"load", "call", "run", "pin"} => cur \notin irqs
    /\ wpc = "pin" => cur \in Pins
    /\ wpc = "ack" => irqs = {}

(* What has just been read is latched, a pin's event too. *)
JustRead == chip = "up" /\ wpc = "mask" => reg_val \subseteq status

PendingInv == TypeOK /\ PassOK /\ JustRead /\ PendingWhileHandled

LEMMA PassStep == TypeOK /\ PassOK /\ [Next]_vars => PassOK'
  <1>. SUFFICES ASSUME TypeOK, PassOK, [Next]_vars PROVE PassOK'
    OBVIOUS
  <1>. USE DEF PassOK
  <1>1. CASE Environment
    <2>1. chip \in {"clr", "ack", "request"} => queued' = queued
      BY <1>1 DEF Environment, Event, HardIrq, SharedIrq, Suspend, Resume, Requested
    <2>. QED BY <1>1, <2>1, EnvironmentLeaves
  <1>2. CASE Work
    <2>1. UNCHANGED chip
      BY <1>2, WorkLeaves
    <2>2. CASE WorkStart \/ WorkRead \/ WorkMask
      BY <2>1, <2>2 DEF WorkStart, WorkRead, WorkMask, Alive, ChipLabels, TypeOK
    <2>3. ASSUME NEW i \in Irqs, WorkNext(i) PROVE PassOK'
      BY <2>1, <2>3 DEF WorkNext
    <2>4. CASE WorkLoad \/ WorkCall \/ WorkDispatched
      BY <2>1, <2>4 DEF WorkLoad, WorkCall, WorkDispatched
    <2>6. CASE WorkHandled \/ WorkPin \/ WorkPinAck \/ WorkPinGone
      BY <2>1, <2>6 DEF WorkHandled, WorkPin, WorkPinAck, WorkPinGone
    <2>5. CASE WorkAck \/ WorkAfterFree
      BY <2>1, <2>5 DEF WorkAck, WorkAfterFree, Alive
    <2>. QED BY <1>2, <2>2, <2>3, <2>4, <2>5, <2>6 DEF Work
  <1>3. CASE Chip \/ ChipRemove
    <2>1. /\ chip' \in {"clr", "ack", "request", "hooked"} =>
                chip \in {"clr", "ack", "request", "hooked"}
          /\ chip' \in {"clr", "ack", "request"} =>
                chip \in {"clr", "ack", "request"} /\ queued' = queued
      BY <1>3 DEF Chip, ChipRemove, ChipMask, ChipAck, ChipRequest, ChipInitWork,
                  ChipRemoveAck, NextReg
    <2>. QED BY <1>3, <2>1, ChipLeaves
  <1>4. ASSUME NEW d \in Drivers,
               Calls(d) \/ DriverStep(d)
        PROVE  PassOK'
    BY <1>4, DriverLeaves
  <1>5. CASE UNCHANGED vars
    BY <1>5 DEF vars, chipVars, workVars
  <1>. QED BY <1>1, <1>2, <1>3, <1>4, <1>5, NextCases

(* Nothing but the pass that read it acknowledges an event of a live PMIC,   *)
(* whether or not transfers fail and drivers come and go.                    *)
THEOREM AcknowledgesOnlyWhatItRead == Spec => AckOnlyRead
  <1>1. PassOK /\ [Next]_vars => [chip = "up" => status \ status' \subseteq reg_val]_vars
    <2>. SUFFICES ASSUME PassOK, Next, chip = "up" PROVE status \ status' \subseteq reg_val
      OBVIOUS
    <2>1. CASE Environment
      BY <2>1, EnvironmentLeaves
    <2>2. CASE Work
      <3>1. CASE WorkAck
        BY <3>1 DEF WorkAck, Pmic, hwVars
      <3>2. CASE WorkPinAck
        <4>1. wpc = "pin" /\ cur \in reg_val
          BY <3>2 DEF WorkPinAck, PassOK
        <4>. QED BY <3>2, <4>1 DEF WorkPinAck, Pmic, hwVars
      <3>3. CASE ~WorkAck /\ ~WorkPinAck
        BY <2>2, <3>3 DEF Work, WorkStart, WorkRead, WorkMask, WorkNext, WorkLoad, WorkCall,
           WorkHandled, WorkPin, WorkPinGone, WorkDispatched, WorkAfterFree, hwVars
      <3>. QED BY <3>1, <3>2, <3>3
    <2>3. CASE Chip \/ ChipRemove
      BY <2>3 DEF Chip, ChipRemove, ChipMask, ChipAck, ChipRequest, ChipInitWork,
                  ChipRemoveAck
    <2>4. ASSUME NEW d \in Drivers,
                 Calls(d) \/ DriverStep(d)
          PROVE  status \ status' \subseteq reg_val
      BY <2>4, DriverLeaves
    <2>. QED BY <2>1, <2>2, <2>3, <2>4, NextCases
  <1>2. Init => TypeOK /\ PassOK
    BY TypeInit DEF Init, PassOK
  <1>3. TypeOK /\ PassOK /\ [Next]_vars => (TypeOK /\ PassOK)'
    BY TypeStep, PassStep
  <1>. QED BY <1>1, <1>2, <1>3, PTL DEF Spec, AckOnlyRead

LEMMA PendingStep ==
    ASSUME BusFails = FALSE
    PROVE  PendingInv /\ [Next]_vars => (JustRead /\ PendingWhileHandled)'
  <1>. DEFINE Goal == /\ irqs' \subseteq status'
                      /\ Unacked' \ Pins \subseteq status'
                      /\ wpc' \in {"load", "call", "run", "pin"} => cur' \in status'
                      /\ wpc' = "mask" => reg_val' \subseteq status'
  <1>. SUFFICES ASSUME TypeOK, PassOK, JustRead, PendingWhileHandled, [Next]_vars, chip' = "up"
                PROVE  Goal
    BY DEF PendingInv, PendingWhileHandled, JustRead
  <1>. USE DEF PendingWhileHandled, JustRead
  <1>1. CASE Environment
    BY <1>1, EnvironmentLeaves DEF Unacked
  <1>2. CASE Work
    <2>1. chip = "up"
      BY <1>2, WorkLeaves
    <2>2. CASE WorkStart \/ WorkRead \/ WorkMask
      BY <2>1, <2>2 DEF WorkStart, WorkRead, WorkMask, Unacked, PassOK, hwVars
    <2>3. ASSUME NEW i \in Irqs, WorkNext(i) PROVE Goal
      BY <2>1, <2>3 DEF WorkNext, Unacked, PassOK, hwVars
    <2>4. CASE WorkLoad \/ WorkCall \/ WorkDispatched \/ WorkHandled \/ WorkPin \/ WorkPinGone
      BY <2>1, <2>4 DEF WorkLoad, WorkCall, WorkHandled, WorkDispatched, WorkPin, WorkPinGone,
                        Unacked, hwVars
    <2>5. CASE WorkAck
      <3>1. status' = status \ (reg_val \cap BitsOf(ackReg)) /\ irqs' = irqs /\ irqs = {}
        BY <2>5 DEF WorkAck, Pmic, PassOK
      <3>2. wpc = "ack" /\ wpc' \in {"idle", "ack"}
        BY <2>5 DEF WorkAck
      <3>3. CASE wpc' = "idle"
        BY <2>5, <3>1, <3>3 DEF WorkAck, Unacked
      <3>4. CASE wpc' = "ack"
        <4>1. reg_val' = reg_val /\ ackReg' = ackReg + 1
          BY <2>5, <3>4 DEF WorkAck
        <4>2. ASSUME NEW i \in reg_val \ Pins, i \div Width >= ackReg + 1
              PROVE  i \in status'
          <5>1. i \in Irqs /\ ackReg \in Nat /\ i \div Width \in Nat
            BY IrqAssumption DEF TypeOK, Irqs
          <5>2. i \div Width >= ackReg /\ i \div Width # ackReg
            BY <4>2, <5>1
          <5>3. i \in status /\ i \notin BitsOf(ackReg)
            BY <2>1, <3>2, <5>2 DEF Unacked, BitsOf
          <5>. QED BY <3>1, <5>3
        <4>. QED BY <3>1, <3>4, <4>1, <4>2 DEF Unacked
      <3>. QED BY <3>2, <3>3, <3>4
    <2>6. CASE WorkPinAck
      <3>1. /\ status' = status \ {cur} /\ wpc = "pin" /\ wpc' = "next"
            /\ UNCHANGED <<reg_val, irqs, ackReg>>
        BY <2>6 DEF WorkPinAck, Pmic
      <3>2. cur \in Pins /\ cur \notin irqs
        BY <3>1 DEF PassOK
      <3>. QED BY <2>1, <3>1, <3>2 DEF Unacked
    <2>7. CASE WorkAfterFree
      BY <2>1, <2>7 DEF WorkAfterFree, Alive
    <2>. QED BY <1>2, <2>2, <2>3, <2>4, <2>5, <2>6, <2>7 DEF Work
  <1>3. CASE Chip \/ ChipRemove
    <2>1. ChipInitWork
      BY <1>3 DEF Chip, ChipRemove, ChipMask, ChipAck, ChipRequest, ChipRemoveAck,
                  NextReg
    <2>2. wpc' = "idle" /\ reg_val' = {} /\ irqs' = {}
      BY <1>3, <2>1, ChipLeaves DEF ChipInitWork, PassOK
    <2>. QED BY <2>2 DEF Unacked
  <1>4. ASSUME NEW d \in Drivers, Calls(d) \/ DriverStep(d) PROVE Goal
    BY <1>4, DriverLeaves DEF Unacked
  <1>5. CASE UNCHANGED vars
    BY <1>5 DEF vars, hwVars, chipVars, workVars, Unacked
  <1>. QED BY <1>1, <1>2, <1>3, <1>4, <1>5, NextCases

(* Over a bus that does not fail, __do_irq calls a handler only for an event  *)
(* that is still latched, and acknowledges it afterwards, or leaves it to the *)
(* handler of a pin.                                                         *)
THEOREM HandledBeforeAcknowledged ==
    ASSUME BusFails = FALSE
    PROVE  Spec => []PendingWhileHandled
  <1>1. Init => PendingInv
    BY TypeInit DEF Init, PendingInv, PassOK, JustRead, PendingWhileHandled, Unacked
  <1>2. PendingInv /\ [Next]_vars => PendingInv'
    BY TypeStep, PassStep, PendingStep DEF PendingInv
  <1>3. PendingInv => PendingWhileHandled
    BY DEF PendingInv
  <1>. QED BY <1>1, <1>2, <1>3, PTL DEF Spec

-----------------------------------------------------------------------------
(* irqs_enabled. *)

(* Where no lock is held. *)
Unlocked == {"idle", "en_lock", "gp_alloc", "fr_irqchip", "fr_lock",
             "ie_read", "ie_write", "id_read", "id_write"}

(* Where a pin's table is not there. *)
NoTable == {"gp_load", "gp_store", "gp_handler", "gp_data", "gp_alloc",
            "fr_lock", "fr_check", "fr_data", "fr_handler"}

(* The lock is held by the driver inside its critical section, what that     *)
(* driver has loaded of irqs_enabled is current, a driver's bit is set       *)
(* wherever its call has passed the store, and a pin has a table of clients  *)
(* only while its interrupt has a handler.                                   *)
DriverInv ==
    \A d \in Drivers :
        /\ lock = d <=> dpc[d] \notin Unlocked
        /\ chip # "up" => dpc[d] = "idle"
        /\ dpc[d] \in {"rq_store", "gp_store"} => copy[d] = enabled
        /\ dpc[d] \in {"rq_hw", "gp_handler", "gp_data", "en_lock", "en_hw"} => d \in enabled
        /\ handler[d] # Null /\ dpc[d] \notin {"rq_data", "rq_load", "rq_store"} => d \in enabled
        /\ dpc[d] \in {"gp_data", "gp_alloc"} => handler[d] # Null
        /\ dpc[d] \in {"ie_read", "ie_write", "id_read", "id_write"}
              => d \in Pins /\ irqchip[d] # "none"
        /\ d \in Pins /\ irqchip[d] # "none"
              => handler[d] # Null /\ dpc[d] \notin NoTable

(* A driver's step is its own: the others keep their place and their copy,   *)
(* and irqs_enabled only grows, and only under the lock.                     *)
LEMMA DriverAlone ==
    ASSUME TypeOK, DriverInv, NEW d \in Drivers,
           Calls(d) \/ DriverStep(d)
    PROVE  /\ \A e \in Drivers \ {d} : dpc'[e] = dpc[e] /\ copy'[e] = copy[e]
                                       /\ handler'[e] = handler[e]
           /\ \A e \in Pins \ {d} : irqchip'[e] = irqchip[e]
           /\ enabled \subseteq enabled'
           /\ enabled' = enabled \/ (lock = d /\ dpc[d] \in {"rq_store", "gp_store"})
  <1>. USE DEF Goto, TypeOK, tableVars
  <1>0. d \in Irqs /\ \A e \in Drivers : e \in Irqs
    BY IrqAssumption
  <1>1. CASE Calls(d)
    BY <1>1 DEF Calls, DriverCall, PinCall, PinClient
  <1>2. CASE RequestIrq(d)
    BY <1>0, <1>2 DEF RequestIrq, SetHandler, SetData, LoadEnabled,
       StoreEnabled, SetHwEnable, DriverInv, Unlocked
  <1>3. CASE GpioIrqRegister(d)
    BY <1>0, <1>3 DEF GpioIrqRegister, SetHandler, SetData, LoadEnabled,
       StoreEnabled, DriverInv, Unlocked
  <1>4. CASE FreeIrq(d)
    BY <1>0, <1>4 DEF FreeIrq, FreeCheck, FreeData, FreeHandler
  <1>5. CASE EnableIrq(d)
    BY <1>5 DEF EnableIrq, EnableLock, SetHwEnable
  <1>6. CASE DisableIrq(d)
    BY <1>6 DEF DisableIrq, SetHwEnable
  <1>7. CASE GpioAlloc(d) \/ GpioRemove(d) \/ GpioFreeLock(d)
    BY <1>7 DEF GpioAlloc, GpioRemove, GpioFreeLock
  <1>8. CASE PinIrqEnable(d) \/ PinIrqDisable(d)
    BY <1>8 DEF PinIrqEnable, PinIrqDisable, PinRead, PinWrite
  <1>. QED BY <1>1, <1>2, <1>3, <1>4, <1>5, <1>6, <1>7, <1>8 DEF DriverStep

(* Where a driver's call goes, and what holds of the driver there. *)
LEMMA DriverOwnStep ==
    ASSUME TypeOK, DriverInv, NEW d \in Drivers,
           Calls(d) \/ DriverStep(d)
    PROVE  /\ lock' = d <=> dpc'[d] \notin Unlocked
           /\ lock' \in {lock, d, NoDriver}
           /\ lock' # lock => lock \in {d, NoDriver}
           /\ chip' = "up"
           /\ dpc'[d] \in {"rq_store", "gp_store"} => copy'[d] = enabled'
           /\ dpc'[d] \in {"rq_hw", "gp_handler", "gp_data", "en_lock", "en_hw"} => d \in enabled'
           /\ handler'[d] # Null /\ dpc'[d] \notin {"rq_data", "rq_load", "rq_store"}
                => d \in enabled'
           /\ dpc'[d] \in {"gp_data", "gp_alloc"} => handler'[d] # Null
           /\ dpc'[d] \in {"ie_read", "ie_write", "id_read", "id_write"}
                => d \in Pins /\ irqchip'[d] # "none"
           /\ d \in Pins /\ irqchip'[d] # "none"
                => handler'[d] # Null
                   /\ dpc'[d] \notin NoTable
  <1>. USE DEF TypeOK, Goto, Unlock, DriverInv, Unlocked, NoTable
  <1>0. d \in Irqs /\ d # NoDriver
    BY IrqAssumption
  <1>1. chip' = "up"
    <2>1. chip = "up"
      BY DEF Calls, DriverCall, PinCall, PinClient, DriverStep, RequestIrq,
             GpioIrqRegister, GpioAlloc, GpioRemove, GpioFreeLock, PinIrqEnable,
             PinIrqDisable, PinRead, PinWrite, FreeIrq, EnableIrq, DisableIrq,
             SetHandler, SetData, LoadEnabled, StoreEnabled, SetHwEnable, FreeCheck,
             FreeData, FreeHandler, EnableLock
    <2>. QED BY <2>1, DriverLeaves
  <1>2. CASE Calls(d)
    <2>1. ASSUME NEW op \in DriverOps, DriverCall(d, op) PROVE dpc'[d] = CallStart(op)
                /\ op \in {"enable", "request", "free", "disable"}
      BY <2>1 DEF DriverCall
    <2>2. CASE \E op \in DriverOps : DriverCall(d, op)
      BY <1>0, <1>1, <2>1, <2>2 DEF DriverCall, CallStart, tableVars
    <2>3. CASE \E op \in DriverOps : PinCall(d, op)
      BY <1>0, <1>1, <2>3 DEF PinCall, CallStart, tableVars
    <2>4. CASE \E op \in DriverOps : PinClient(d, op)
      BY <1>0, <1>1, <2>4 DEF PinClient, tableVars
    <2>. QED BY <1>2, <2>2, <2>3, <2>4 DEF Calls
  <1>3. CASE SetHandler(d, "rq_handler", "rq_data") \/ SetHandler(d, "gp_handler", "gp_data")
    BY <1>0, <1>1, <1>3 DEF SetHandler, Null
  <1>4. CASE SetData(d, "rq_data", "rq_load") \/ SetData(d, "gp_data", "gp_alloc")
    BY <1>0, <1>1, <1>4 DEF SetData
  <1>5. CASE LoadEnabled(d, "rq_load", "rq_store") \/ LoadEnabled(d, "gp_load", "gp_store")
    BY <1>0, <1>1, <1>5 DEF LoadEnabled, tableVars
  <1>6. CASE StoreEnabled(d, "rq_store", "rq_hw") \/ StoreEnabled(d, "gp_store", "gp_handler")
    BY <1>0, <1>1, <1>6 DEF StoreEnabled
  <1>7. CASE \E e : SetHwEnable(d, "rq_hw", e) \/ SetHwEnable(d, "en_hw", e) \/ SetHwEnable(d, "di_hw", e)
    BY <1>0, <1>1, <1>7 DEF SetHwEnable, tableVars
  <1>8. CASE FreeIrq(d)
    BY <1>0, <1>1, <1>8 DEF FreeIrq, FreeCheck, FreeData, FreeHandler, tableVars
  <1>9. CASE EnableLock(d)
    BY <1>0, <1>1, <1>9 DEF EnableLock, tableVars
  <1>10. CASE GpioAlloc(d) \/ GpioRemove(d) \/ GpioFreeLock(d)
    BY <1>0, <1>1, <1>10 DEF GpioAlloc, GpioRemove, GpioFreeLock, tableVars, Null
  <1>11. CASE PinIrqEnable(d) \/ PinIrqDisable(d)
    BY <1>0, <1>1, <1>11 DEF PinIrqEnable, PinIrqDisable, PinRead, PinWrite, tableVars
  <1>. QED
    BY <1>2, <1>3, <1>4, <1>5, <1>6, <1>7, <1>8, <1>9, <1>10, <1>11
    DEF DriverStep, RequestIrq, GpioIrqRegister, EnableIrq, DisableIrq

LEMMA DriverInvStep == TypeOK /\ DriverInv /\ [Next]_vars => DriverInv'
  <1>. SUFFICES ASSUME TypeOK, DriverInv, [Next]_vars PROVE DriverInv'
    OBVIOUS
  <1>1. CASE Environment
    BY <1>1, EnvironmentLeaves DEF DriverInv
  <1>2. CASE Work
    BY <1>2, WorkLeaves DEF DriverInv
  <1>3. CASE Chip \/ ChipRemove
    <2>1. chip = "up" => \A d \in Drivers : dpc[d] = "idle"
      BY <1>3 DEF Chip, ChipRemove, ChipMask, ChipAck, ChipRequest, ChipInitWork,
                  ChipRemoveAck
    <2>. QED BY <1>3, <2>1, ChipLeaves DEF DriverInv
  <1>4. ASSUME NEW d \in Drivers,
               Calls(d) \/ DriverStep(d)
        PROVE  DriverInv'
    <2>1. ASSUME NEW e \in Drivers, e # d
          PROVE  /\ lock' = e <=> dpc'[e] \notin Unlocked
                 /\ dpc'[e] \in {"rq_store", "gp_store"} => copy'[e] = enabled'
                 /\ dpc'[e] \in {"rq_hw", "gp_handler", "gp_data", "en_lock", "en_hw"}
                      => e \in enabled'
                 /\ handler'[e] # Null /\ dpc'[e] \notin {"rq_data", "rq_load", "rq_store"}
                      => e \in enabled'
                 /\ dpc'[e] \in {"gp_data", "gp_alloc"} => handler'[e] # Null
                 /\ dpc'[e] \in {"ie_read", "ie_write", "id_read", "id_write"}
                      => e \in Pins /\ irqchip'[e] # "none"
                 /\ e \in Pins /\ irqchip'[e] # "none"
                      => handler'[e] # Null
                         /\ dpc'[e] \notin NoTable
      <3>1. /\ dpc'[e] = dpc[e] /\ copy'[e] = copy[e] /\ handler'[e] = handler[e]
            /\ e \in Pins => irqchip'[e] = irqchip[e]
        BY <1>4, <2>1, DriverAlone
      <3>2. lock' = e <=> lock = e
        BY <1>4, <2>1, DriverOwnStep, IrqAssumption
      <3>3. lock = e => enabled' = enabled
        BY <1>4, <2>1, DriverAlone
      <3>4. enabled \subseteq enabled'
        BY <1>4, DriverAlone
      <3>. QED BY <3>1, <3>2, <3>3, <3>4 DEF DriverInv, Unlocked
    <2>. QED BY <1>4, <2>1, DriverOwnStep DEF DriverInv
  <1>5. CASE UNCHANGED vars
    BY <1>5 DEF vars, chipVars, tableVars, driverVars, DriverInv
  <1>. QED BY <1>1, <1>2, <1>3, <1>4, <1>5, NextCases

LEMMA DriverInvInit == Init => DriverInv
  BY IrqAssumption DEF Init, DriverInv, Unlocked, NoTable

(* No driver's bit of irqs_enabled is lost to another driver's |=, whatever   *)
(* else runs or fails.                                                        *)
THEOREM EnabledBitsKept == Spec => []EnabledKept
  <1>1. TypeOK /\ DriverInv => EnabledKept
    BY DEF DriverInv, EnabledKept
  <1>2. TypeOK /\ DriverInv /\ [Next]_vars => (TypeOK /\ DriverInv)'
    BY TypeStep, DriverInvStep
  <1>. QED BY <1>1, <1>2, TypeInit, DriverInvInit, PTL DEF Spec

-----------------------------------------------------------------------------
(* What can pull the line. *)
LEMMA RegisterOf ==
    ASSUME NEW i \in Irqs
    PROVE  i \div Width \in 0 .. (NumRegs - 1)
  <1>1. i \in Nat /\ Width \in Nat /\ Width > 0 /\ NumRegs \in Nat /\ i < NumRegs * Width
    BY IrqAssumption, ZeroIrq DEF Irqs, NumIrqs
  <1>. DEFINE q == i \div Width
  <1>2. q \in Nat /\ q * Width <= i
    BY <1>1
  <1>3. ASSUME q >= NumRegs PROVE FALSE
    <2>. HIDE DEF q
    <2>1. q * Width >= NumRegs * Width
      BY <1>1, <1>2, <1>3
    <2>. QED BY <1>1, <1>2, <2>1
  <1>. QED BY <1>1, <1>2, <1>3

(* How far axp_irq_chip_register's loop has masked, and what holds after it: *)
(* also of what a pin's client has read of its enable register, however old. *)
MaskInv ==
    /\ chip = "clr" => \A i \in hwEnable : i \div Width >= chipReg
    /\ chip = "ack" => \A i \in hwEnable : i \div Width > chipReg
    /\ \A d \in Drivers :
          dpc[d] \in {"ie_write", "id_write"} => copy[d] \subseteq enabled \cap BitsOf(d \div Width)
    /\ HwWithinSw

LEMMA MaskStep ==
    ASSUME BusFails = FALSE
    PROVE  TypeOK /\ DriverInv /\ MaskInv /\ [Next]_vars => MaskInv'
  <1>. SUFFICES ASSUME TypeOK, DriverInv, MaskInv, [Next]_vars PROVE MaskInv'
    OBVIOUS
  <1>1. CASE Environment
    BY <1>1, EnvironmentLeaves DEF MaskInv, HwWithinSw
  <1>2. CASE Work
    BY <1>2, WorkLeaves DEF MaskInv, HwWithinSw
  <1>3. CASE ChipMask("clr", "ack")
    <2>1. hwEnable' = hwEnable \ BitsOf(chipReg) /\ chip' = "ack" /\ chipReg' = chipReg
      BY <1>3 DEF ChipMask, Pmic
    <2>2. ASSUME NEW i \in hwEnable' PROVE i \div Width > chipReg
      <3>1. i \in Irqs /\ i \div Width \in Nat /\ chipReg \in Nat
        BY <2>1, RegisterOf, IrqAssumption DEF TypeOK
      <3>2. i \div Width >= chipReg /\ i \div Width # chipReg
        BY <1>3, <2>1, <3>1 DEF MaskInv, ChipMask, BitsOf
      <3>. QED BY <3>1, <3>2
    <2>. QED BY <1>3, <2>1, <2>2 DEF ChipMask, ChipFrame, tableVars, driverVars, MaskInv, HwWithinSw
  <1>4. CASE ChipAck
    <2>1. chip = "ack" /\ hwEnable' = hwEnable /\ chipReg \in Nat
      BY <1>4 DEF ChipAck, Pmic, TypeOK
    <2>2. \A i \in hwEnable : i \div Width >= chipReg + 1 /\ i \div Width \in 0 .. (NumRegs - 1)
      BY <2>1, RegisterOf, IrqAssumption DEF MaskInv, TypeOK
    <2>3. CASE chipReg + 1 = NumRegs
      <3>1. hwEnable = {}
        BY <2>2, <2>3, IrqAssumption
      <3>. QED BY <1>4, <2>1, <2>3, <3>1 DEF ChipAck, NextReg, ChipFrame, tableVars, driverVars,
         MaskInv, HwWithinSw
    <2>4. CASE chipReg + 1 # NumRegs
      BY <1>4, <2>1, <2>2, <2>4 DEF ChipAck, NextReg, ChipFrame, tableVars, driverVars,
         MaskInv, HwWithinSw
    <2>. QED BY <2>3, <2>4
  <1>5. CASE ChipRequest \/ ChipInitWork
    BY <1>5 DEF ChipRequest, ChipInitWork, ChipFrame, hwVars, tableVars, driverVars, MaskInv, HwWithinSw
  <1>6. CASE ChipMask("rm_clr", "rm_ack") \/ ChipRemoveAck \/ ChipRemove
    BY <1>6 DEF ChipMask, ChipRemoveAck, ChipRemove, NextReg, ChipFrame, tableVars, driverVars,
       MaskInv, HwWithinSw
  <1>7. ASSUME NEW d \in Drivers,
               Calls(d) \/ DriverStep(d)
        PROVE  MaskInv'
    <2>1. chip = "up" /\ chip' = "up"
      BY <1>7, DriverOwnStep, DriverLeaves
    <2>2. enabled \subseteq enabled'
      BY <1>7, DriverAlone
    <2>5. hwEnable \subseteq enabled
      BY <2>1 DEF MaskInv, HwWithinSw
    <2>6. dpc[d] \in {"rq_hw", "en_hw"} => d \in enabled
      BY DEF DriverInv
    <2>7. hwEnable' \subseteq enabled'
      <3>1. CASE \E regval : PinWrite(d, "ie_write", regval) /\ regval = copy[d] \cup {d}
        <4>1. copy[d] \subseteq enabled /\ d \in enabled
          BY <3>1 DEF PinWrite, MaskInv, DriverInv
        <4>. QED BY <2>2, <2>5, <3>1, <4>1 DEF PinWrite, Pmic
      <3>2. CASE \E regval : PinWrite(d, "id_write", regval) /\ regval = copy[d] \ {d}
        <4>1. copy[d] \subseteq enabled
          BY <3>2 DEF PinWrite, MaskInv
        <4>. QED BY <2>2, <2>5, <3>2, <4>1 DEF PinWrite, Pmic
      <3>3. CASE ~PinWrite(d, "ie_write", copy[d] \cup {d}) /\ ~PinWrite(d, "id_write", copy[d] \ {d})
        <4>1. hwEnable' \subseteq hwEnable \cup {d}
          BY <1>7, <3>3
          DEF PinIrqEnable, PinIrqDisable, Calls, DriverCall, PinCall, PinClient,
              DriverStep, RequestIrq, GpioIrqRegister, GpioAlloc, GpioRemove,
              GpioFreeLock, PinRead, FreeIrq, EnableIrq, DisableIrq, SetHandler,
              SetData, LoadEnabled, StoreEnabled, SetHwEnable, FreeCheck, FreeData,
              FreeHandler, EnableLock, Pmic, hwVars
        <4>2. d \in hwEnable' => d \in hwEnable \/ dpc[d] \in {"rq_hw", "en_hw"}
          BY <1>7, <3>3
          DEF PinIrqEnable, PinIrqDisable, Calls, DriverCall, PinCall, PinClient,
              DriverStep, RequestIrq, GpioIrqRegister, GpioAlloc, GpioRemove,
              GpioFreeLock, PinRead, FreeIrq, EnableIrq, DisableIrq, SetHandler,
              SetData, LoadEnabled, StoreEnabled, SetHwEnable, FreeCheck, FreeData,
              FreeHandler, EnableLock, Pmic, hwVars
        <4>. QED BY <2>2, <2>5, <2>6, <4>1, <4>2
      <3>. QED BY <3>1, <3>2, <3>3
    <2>8. ASSUME NEW e \in Drivers, dpc'[e] \in {"ie_write", "id_write"}
          PROVE  copy'[e] \subseteq enabled' \cap BitsOf(e \div Width)
      <3>1. CASE e # d
        <4>1. dpc'[e] = dpc[e] /\ copy'[e] = copy[e]
          BY <1>7, <3>1, DriverAlone
        <4>. QED BY <2>2, <2>8, <4>1 DEF MaskInv
      <3>2. CASE e = d
        <4>1. PinRead(d, "ie_read", "ie_write") \/ PinRead(d, "id_read", "id_write")
          BY <1>7, <2>8, <3>2
          DEF PinIrqEnable, PinIrqDisable, PinWrite, Goto, TypeOK, tableVars, CallStart,
              Calls, DriverCall, PinCall, PinClient, DriverStep, RequestIrq,
              GpioIrqRegister, GpioAlloc, GpioRemove, GpioFreeLock, FreeIrq, EnableIrq,
              DisableIrq, SetHandler, SetData, LoadEnabled, StoreEnabled, SetHwEnable,
              FreeCheck, FreeData, FreeHandler, EnableLock
        <4>2. copy'[d] \subseteq hwEnable \cap BitsOf(d \div Width)
          BY <4>1 DEF PinRead, TypeOK
        <4>. QED BY <2>2, <2>5, <3>2, <4>2
      <3>. QED BY <3>1, <3>2
    <2>. QED BY <2>1, <2>7, <2>8 DEF MaskInv, HwWithinSw
  <1>8. CASE UNCHANGED vars
    BY <1>8 DEF vars, hwVars, chipVars, tableVars, driverVars, MaskInv, HwWithinSw
  <1>. QED BY <1>1, <1>2, <1>3, <1>4, <1>5, <1>6, <1>7, <1>8, NextCases DEF Chip

(* Over a bus that does not fail, once the PMIC is registered only an event   *)
(* __do_irq will serve and acknowledge can pull the line.                     *)
THEOREM OnlyEnabledPull ==
    ASSUME BusFails = FALSE
    PROVE  Spec => []HwWithinSw
  <1>1. Init => MaskInv
    <2>. SUFFICES ASSUME Init PROVE MaskInv
      OBVIOUS
    <2>1. \A i \in hwEnable : i \div Width >= 0
      BY RegisterOf, IrqAssumption DEF Init
    <2>. QED BY <2>1 DEF Init, MaskInv, HwWithinSw
  <1>2. /\ TypeOK /\ DriverInv /\ MaskInv
        /\ [Next]_vars
        => (TypeOK /\ DriverInv /\ MaskInv)'
    BY TypeStep, DriverInvStep, MaskStep
  <1>3. MaskInv => HwWithinSw
    BY DEF MaskInv
  <1>. QED BY <1>1, <1>2, <1>3, TypeInit, DriverInvInit, PTL DEF Spec

-----------------------------------------------------------------------------
(* Handlers get their data. *)

(* There are no drivers of pins, and none unbinds. *)
NeverFreed == Pins = {} /\ DriverOps \cap {"gpio", "free"} = {}

(* A bit of irqs_enabled is set last, so that all __do_irq lets through it    *)
(* has a handler and data in place.                                          *)
DataInv ==
    /\ \A i \in enabled : handler[i] = "isr" /\ data[i] = "info"
    /\ \A d \in Drivers :
          /\ dpc[d] \in {"idle", "rq_handler", "rq_data", "rq_load", "rq_store", "rq_hw",
                         "en_lock", "en_hw", "di_hw"}
          /\ dpc[d] \in {"rq_data", "rq_load", "rq_store"} => handler[d] = "isr"
          /\ dpc[d] \in {"rq_load", "rq_store"} => data[d] = "info"
    /\ irqs \subseteq enabled
    /\ wpc \in {"load", "call", "run"} => cur \in enabled
    /\ wpc \in {"call", "run"} => idata = "info"
    /\ wpc \notin {"oops", "pin"}

LEMMA DataStep ==
    ASSUME NeverFreed
    PROVE  TypeOK /\ DriverInv /\ DataInv /\ [Next]_vars => DataInv'
  <1>. SUFFICES ASSUME TypeOK, DriverInv, DataInv, [Next]_vars PROVE DataInv'
    OBVIOUS
  <1>. USE DEF DataInv
  <1>1. CASE Environment
    BY <1>1, EnvironmentLeaves
  <1>2. CASE Work
    <2>1. UNCHANGED <<handler, data, enabled, dpc>>
      BY <1>2, WorkLeaves
    <2>2. CASE WorkStart \/ WorkRead \/ WorkMask
      BY <2>1, <2>2 DEF WorkStart, WorkRead, WorkMask
    <2>3. ASSUME NEW i \in Irqs, WorkNext(i) PROVE DataInv'
      BY <2>1, <2>3 DEF WorkNext
    <2>4. CASE WorkLoad
      BY <2>1, <2>4 DEF WorkLoad
    <2>5. CASE WorkCall
      <3>1. handler[cur] # Null
        BY <2>5 DEF WorkCall, Null
      <3>. QED BY <2>1, <2>5, <3>1 DEF WorkCall
    <2>6. CASE WorkHandled \/ WorkPin \/ WorkDispatched \/ WorkAck \/ WorkAfterFree
      BY <2>1, <2>6 DEF WorkHandled, WorkPin, WorkDispatched, WorkAck, WorkAfterFree, NeverFreed
    <2>7. CASE WorkPinAck \/ WorkPinGone
      BY <2>7 DEF WorkPinAck, WorkPinGone
    <2>. QED BY <1>2, <2>2, <2>3, <2>4, <2>5, <2>6, <2>7 DEF Work
  <1>3. CASE Chip \/ ChipRemove
    BY <1>3, ChipLeaves
  <1>4. ASSUME NEW d \in Drivers,
               Calls(d) \/ DriverStep(d)
        PROVE  DataInv'
    <2>. USE DEF TypeOK, Goto, tableVars
    <2>0. d \in Irqs /\ \A e \in Drivers : e \in Irqs
      BY IrqAssumption
    <2>1. UNCHANGED <<wpc, irqs, cur, idata>>
      BY <1>4, DriverLeaves
    <2>2. CASE Calls(d)
      BY <2>0, <2>1, <2>2 DEF Calls, DriverCall, PinCall, PinClient, CallStart,
                              NeverFreed
    <2>3. CASE SetHandler(d, "rq_handler", "rq_data")
      BY <2>0, <2>1, <2>3 DEF SetHandler
    <2>4. CASE SetData(d, "rq_data", "rq_load")
      BY <2>0, <2>1, <2>4 DEF SetData
    <2>5. CASE LoadEnabled(d, "rq_load", "rq_store")
      BY <2>0, <2>1, <2>5 DEF LoadEnabled
    <2>6. CASE StoreEnabled(d, "rq_store", "rq_hw")
      <3>1. enabled' = enabled \cup {d} /\ handler[d] = "isr" /\ data[d] = "info"
        BY <2>6 DEF StoreEnabled, DriverInv
      <3>. QED BY <2>0, <2>1, <2>6, <3>1 DEF StoreEnabled
    <2>7. CASE SetHwEnable(d, "rq_hw", hwEnable \cup {d}) \/ EnableIrq(d) \/ DisableIrq(d)
      BY <2>0, <2>1, <2>7 DEF SetHwEnable, EnableIrq, EnableLock, DisableIrq
    <2>8. CASE GpioIrqRegister(d) \/ FreeIrq(d)
      BY <2>8 DEF GpioIrqRegister, FreeIrq, LoadEnabled, StoreEnabled, SetHandler, SetData,
                  FreeCheck, FreeData, FreeHandler
    <2>9. CASE \/ GpioAlloc(d) \/ GpioRemove(d) \/ GpioFreeLock(d)
               \/ PinIrqEnable(d) \/ PinIrqDisable(d)
      BY <2>9 DEF GpioAlloc, GpioRemove, GpioFreeLock, PinIrqEnable, PinIrqDisable,
                  PinRead, PinWrite
    <2>. QED
      BY <1>4, <2>2, <2>3, <2>4, <2>5, <2>6, <2>7, <2>8, <2>9 DEF DriverStep, RequestIrq
  <1>5. CASE UNCHANGED vars
    BY <1>5 DEF vars, tableVars, driverVars, workVars
  <1>. QED BY <1>1, <1>2, <1>3, <1>4, <1>5, NextCases

(* While no driver unbinds, __do_irq never calls through a NULL handler, nor  *)
(* with data that is not there, though it reads the table without the lock    *)
(* and drivers request their interrupts meanwhile; also over a failing bus.   *)
THEOREM HandlersGetTheirData ==
    ASSUME NeverFreed
    PROVE  Spec => []HandlerGetsItsData
  <1>1. Init => DataInv
    BY DEF Init, DataInv
  <1>2. /\ TypeOK /\ DriverInv /\ DataInv
        /\ [Next]_vars
        => (TypeOK /\ DriverInv /\ DataInv)'
    BY TypeStep, DriverInvStep, DataStep
  <1>3. DataInv => HandlerGetsItsData
    BY DEF DataInv, HandlerGetsItsData
  <1>. QED BY <1>1, <1>2, <1>3, TypeInit, DriverInvInit, PTL DEF Spec

-----------------------------------------------------------------------------
(* Freed interrupts. *)

(* An interrupt with no pin beside it that can pull the line has a handler,   *)
(* and its driver is not past the masking of axp_free_irq.                   *)
FreedInv ==
    /\ chip \in {"clr", "ack", "request", "hooked"} => enabled = {}
    /\ \A d \in Drivers :
          /\ chip = "up" /\ d \in hwEnable /\ NoPinBeside(d)
                => handler[d] # Null /\ dpc[d] \notin {"fr_data", "fr_handler"}
          /\ dpc[d] \in {"rq_data", "rq_load", "rq_store", "rq_hw", "en_lock", "en_hw"}
                => handler[d] # Null

LEMMA FreedStep ==
    ASSUME BusFails = FALSE
    PROVE  TypeOK /\ DriverInv /\ MaskInv /\ FreedInv /\ [Next]_vars => FreedInv'
  <1>. SUFFICES ASSUME TypeOK, DriverInv, MaskInv, FreedInv, [Next]_vars PROVE FreedInv'
    OBVIOUS
  <1>. USE DEF FreedInv
  <1>1. CASE Environment
    BY <1>1, EnvironmentLeaves
  <1>2. CASE Work
    BY <1>2, WorkLeaves
  <1>3. CASE Chip \/ ChipRemove
    <2>1. chip' \in {"clr", "ack", "request", "hooked"}
             => chip \in {"clr", "ack", "request", "hooked"}
      BY <1>3 DEF Chip, ChipRemove, ChipMask, ChipAck, ChipRequest, ChipInitWork,
                  ChipRemoveAck, NextReg
    <2>2. chip' = "up" => hwEnable' = {}
      BY <1>3 DEF Chip, ChipRemove, ChipMask, ChipAck, ChipRequest, ChipInitWork,
                  ChipRemoveAck, NextReg, hwVars, MaskInv, HwWithinSw
    <2>. QED BY <1>3, <2>1, <2>2, ChipLeaves
  <1>4. ASSUME NEW d \in Drivers,
               Calls(d) \/ DriverStep(d)
        PROVE  FreedInv'
    <2>. USE DEF TypeOK, Goto, tableVars
    <2>0. d \in Irqs /\ \A e \in Drivers : e \in Irqs
      BY IrqAssumption
    <2>1. chip = "up" /\ chip' = "up"
      BY <1>4, DriverOwnStep, DriverLeaves
    <2>2. ASSUME NEW e \in Drivers, e # d
          PROVE  /\ dpc'[e] = dpc[e] /\ handler'[e] = handler[e]
                 /\ e \in hwEnable' /\ NoPinBeside(e) => e \in hwEnable
      <3>1. dpc'[e] = dpc[e] /\ handler'[e] = handler[e]
        BY <1>4, <2>2, DriverAlone
      <3>2. CASE PinIrqEnable(d) \/ PinIrqDisable(d)
        <4>1. d \in Pins
          BY <3>2 DEF PinIrqEnable, PinIrqDisable, PinRead, PinWrite, DriverInv
        <4>2. NoPinBeside(e) => e \notin BitsOf(d \div Width)
          BY <2>2, <4>1 DEF NoPinBeside, BitsOf
        <4>3. hwEnable' \subseteq hwEnable \cup copy[d] \cup {d}
              /\ (hwEnable' # hwEnable => dpc[d] \in {"ie_write", "id_write"})
          BY <3>2 DEF PinIrqEnable, PinIrqDisable, PinRead, PinWrite, Pmic, hwVars
        <4>. QED BY <2>2, <3>1, <4>2, <4>3 DEF MaskInv
      <3>3. CASE ~PinIrqEnable(d) /\ ~PinIrqDisable(d)
        <4>1. e \in hwEnable' => e \in hwEnable
          BY <1>4, <2>2, <3>3
          DEF Calls, DriverCall, PinCall, PinClient, DriverStep, RequestIrq,
              GpioIrqRegister, GpioAlloc, GpioRemove, GpioFreeLock, FreeIrq, EnableIrq,
              DisableIrq, SetHandler, SetData, LoadEnabled, StoreEnabled, SetHwEnable,
              FreeCheck, FreeData, FreeHandler, EnableLock, Pmic, hwVars
        <4>. QED BY <3>1, <4>1
      <3>. QED BY <3>2, <3>3
    <2>3. /\ d \in hwEnable' /\ NoPinBeside(d)
                => handler'[d] # Null /\ dpc'[d] \notin {"fr_data", "fr_handler"}
          /\ dpc'[d] \in {"rq_data", "rq_load", "rq_store", "rq_hw", "en_lock", "en_hw"}
                => handler'[d] # Null
      <3>1. CASE Calls(d)
        BY <2>0, <2>1, <3>1 DEF Calls, DriverCall, PinCall, PinClient, CallStart, hwVars
      <3>2. CASE RequestIrq(d)
        BY <2>0, <2>1, <3>2 DEF RequestIrq, SetHandler, SetData, LoadEnabled, StoreEnabled,
           SetHwEnable, hwVars, Pmic, Null
      <3>3. CASE GpioIrqRegister(d)
        BY <2>0, <2>1, <3>3 DEF GpioIrqRegister, SetHandler, SetData, LoadEnabled,
           StoreEnabled, hwVars, Null
      <3>4. CASE FreeIrq(d)
        BY <2>0, <2>1, <3>4 DEF FreeIrq, FreeCheck, FreeData, FreeHandler, hwVars, Pmic
      <3>5. CASE EnableIrq(d)
        BY <2>0, <2>1, <3>5 DEF EnableIrq, EnableLock, SetHwEnable, hwVars, Pmic
      <3>6. CASE DisableIrq(d)
        BY <2>0, <2>1, <3>6 DEF DisableIrq, SetHwEnable, hwVars, Pmic
      <3>7. CASE GpioAlloc(d) \/ GpioRemove(d) \/ GpioFreeLock(d)
        BY <2>0, <2>1, <3>7 DEF GpioAlloc, GpioRemove, GpioFreeLock, hwVars
      <3>8. CASE PinIrqEnable(d) \/ PinIrqDisable(d)
        <4>1. handler[d] # Null
          BY <3>8 DEF PinIrqEnable, PinIrqDisable, PinRead, PinWrite, DriverInv
        <4>2. handler' = handler /\ dpc'[d] \in {"idle", "ie_write", "id_write"}
          BY <3>8 DEF PinIrqEnable, PinIrqDisable, PinRead, PinWrite
        <4>. QED BY <4>1, <4>2
      <3>. QED BY <1>4, <3>1, <3>2, <3>3, <3>4, <3>5, <3>6, <3>7, <3>8 DEF DriverStep
    <2>. QED BY <2>1, <2>2, <2>3
  <1>5. CASE UNCHANGED vars
    BY <1>5 DEF vars, hwVars, chipVars, tableVars, driverVars
  <1>. QED BY <1>1, <1>2, <1>3, <1>4, <1>5, NextCases

(* Over a bus that does not fail, an interrupt that no driver holds, with no  *)
(* other pin's in its enable register, cannot pull the line, whatever the     *)
(* drivers and the pins' clients request, free, enable and write back         *)
(* meanwhile.                                                                *)
THEOREM FreedStaysMasked ==
    ASSUME BusFails = FALSE
    PROVE  Spec => []FreedIsMasked
  <1>. DEFINE IInv == TypeOK /\ DriverInv /\ MaskInv /\ FreedInv
  <1>1. Init => IInv
    <2>. SUFFICES ASSUME Init PROVE IInv
      OBVIOUS
    <2>1. \A i \in hwEnable : i \div Width >= 0
      BY RegisterOf, IrqAssumption DEF Init
    <2>. QED BY <2>1, TypeInit, DriverInvInit DEF Init, MaskInv, HwWithinSw, FreedInv
  <1>2. IInv /\ [Next]_vars => IInv'
    BY TypeStep, DriverInvStep, MaskStep, FreedStep
  <1>3. IInv => FreedIsMasked
    BY DEF FreedInv, FreedIsMasked
  <1>. HIDE DEF IInv
  <1>. QED BY <1>1, <1>2, <1>3, PTL DEF Spec

-----------------------------------------------------------------------------
(* Removal. *)

(* How far axp_irq_chip_unregister's loop has masked; it starts at the first  *)
(* register, where the loop of the registration has left chipReg.             *)
RemoveInv ==
    /\ chip \in {"request", "hooked", "up"} => chipReg = 0
    /\ chip = "rm_clr" => \A i \in hwEnable : i \div Width >= chipReg
    /\ chip = "rm_ack" => \A i \in hwEnable : i \div Width > chipReg
    /\ chip = "gone" => hwEnable = {}

LEMMA RemoveStep ==
    ASSUME BusFails = FALSE
    PROVE  TypeOK /\ DriverInv /\ RemoveInv /\ [Next]_vars => RemoveInv'
  <1>. SUFFICES ASSUME TypeOK, DriverInv, RemoveInv, [Next]_vars PROVE RemoveInv'
    OBVIOUS
  <1>. USE DEF RemoveInv
  <1>0. chipReg \in Nat /\ \A i \in hwEnable : i \in Irqs /\ i \div Width \in 0 .. (NumRegs - 1)
    BY RegisterOf, IrqAssumption DEF TypeOK
  <1>1. CASE Environment
    BY <1>1, EnvironmentLeaves
  <1>2. CASE Work
    BY <1>2, WorkLeaves
  <1>3. CASE ChipMask("clr", "ack") \/ ChipInitWork
    BY <1>3 DEF ChipMask, ChipInitWork, hwVars
  <1>4. CASE ChipAck \/ ChipRequest
    BY <1>4 DEF ChipAck, ChipRequest, NextReg
  <1>5. CASE ChipRemove
    BY <1>0, <1>5 DEF ChipRemove
  <1>6. CASE ChipMask("rm_clr", "rm_ack")
    <2>1. /\ chip = "rm_clr" /\ chip' = "rm_ack" /\ chipReg' = chipReg
          /\ hwEnable' = hwEnable \ BitsOf(chipReg)
      BY <1>6 DEF ChipMask, Pmic
    <2>2. ASSUME NEW i \in hwEnable' PROVE i \div Width > chipReg
      <3>1. i \div Width >= chipReg /\ i \div Width # chipReg
        BY <1>0, <2>1 DEF BitsOf
      <3>. QED  BY <1>0, <2>1, <3>1
    <2>. QED  BY <2>1, <2>2
  <1>7. CASE ChipRemoveAck
    <2>1. chip = "rm_ack" /\ hwEnable' = hwEnable
      BY <1>7 DEF ChipRemoveAck, Pmic
    <2>2. \A i \in hwEnable : i \div Width >= chipReg + 1 /\ i \div Width < NumRegs
      BY <1>0, <2>1, IrqAssumption
    <2>3. CASE chipReg + 1 = NumRegs
      <3>1. hwEnable = {}
        BY <1>0, <2>2, <2>3, IrqAssumption
      <3>. QED  BY <1>7, <2>1, <2>3, <3>1 DEF ChipRemoveAck, NextReg
    <2>4. CASE chipReg + 1 # NumRegs
      BY <1>7, <2>1, <2>2, <2>4 DEF ChipRemoveAck, NextReg
    <2>. QED  BY <2>3, <2>4
  <1>8. ASSUME NEW d \in Drivers,
               Calls(d) \/ DriverStep(d)
        PROVE  RemoveInv'
    <2>1. chip = "up" /\ chip' = "up"
      BY <1>8, DriverOwnStep, DriverLeaves
    <2>. QED  BY <1>8, <2>1, DriverLeaves
  <1>9. CASE UNCHANGED vars
    BY <1>9 DEF vars, hwVars, chipVars
  <1>. QED
    BY <1>1, <1>2, <1>3, <1>4, <1>5, <1>6, <1>7, <1>8, <1>9, NextCases DEF Chip

(* Over a bus that does not fail, a PMIC whose driver has been removed leaves *)
(* the shared line alone for good, whatever it latches and however its        *)
(* registration, its drivers and its removal took turns before.               *)
THEOREM RemovedLeavesLine ==
    ASSUME BusFails = FALSE
    PROVE  Spec => []QuietAfterRemove
  <1>. DEFINE IInv == TypeOK /\ DriverInv /\ RemoveInv
  <1>1. Init => IInv
    BY TypeInit, DriverInvInit DEF Init, RemoveInv
  <1>2. IInv /\ [Next]_vars => IInv'
    <2>1. IInv /\ [Next]_vars => RemoveInv'
      BY RemoveStep
    <2>. QED  BY <2>1, TypeStep, DriverInvStep
  <1>3. IInv => QuietAfterRemove
    BY DEF RemoveInv, QuietAfterRemove, LineLow, Low
  <1>. HIDE DEF IInv
  <1>. QED  BY <1>1, <1>2, <1>3, PTL DEF Spec
=============================================================================
