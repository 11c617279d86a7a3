-------------------------- MODULE AxpBatteryProofs --------------------------
(***************************************************************************)
(* Safety of the battery's power supply.                                    *)
(*                                                                          *)
(*   Ownership  who owns the registered supply, and that it is polled: for  *)
(*              a system probed with its battery, outside suspend and       *)
(*              removal, when msleep(10) outlasts the end of axp_capchange; *)
(*              any interrupts, and reads may fail and return anything      *)
(*   Types      TypeOK, for all values of the constants                     *)
(*   Removal    what removal stops stays stopped, once the interrupts are   *)
(*              freed; with or without a battery, reads may fail            *)
(*   Suspend    polling stops in suspend and starts again, for a battery    *)
(*              that stays in and a bus that works                          *)
(***************************************************************************)
EXTENDS AxpBattery, TLAPS

(* Ownership: the system these theorems are about. *)
Usual ==
    /\ BatteryAtProbe /\ SleepSuffices
    /\ "pm" \notin Actors /\ "rm" \notin Actors

DefinedOn(f, D) == f = [x \in D |-> f[x]]

(* As much of the types as the invariant needs. *)
Shape ==
    /\ DefinedOn(pc, AllActors) /\ DefinedOn(canceller, Works)
    /\ registered \in BOOLEAN /\ battery_initialized \in BOOLEAN

(* Nobody polls the battery. *)
Unpolled == "work" \notin pending /\ pc["mon"] = "idle"

(* axp_capchange has registered the supply and not yet said so. *)
Announcing == {"c_notify", "c_set"}

(* Who owns the supply.  In general battery_initialized says whether it is    *)
(* registered; axp_capchange deviates from that between its own steps, and    *)
(* then the monitor is stopped or, just scheduled, asleep.                    *)
SupplyInv ==
    /\ registered <=> \/ pc["irq"] \in {"c_schedule"} \cup Announcing
                      \/ battery_initialized /\ pc["irq"] \notin {"c_null", "c_clear"}
    /\ batt = IF registered \/ pc["irq"] = "c_null" THEN "psy" ELSE "NULL"
    /\ pc["irq"] \in {"c_register", "c_schedule"} \cup Announcing => ~battery_initialized
    /\ pc["irq"] \in {"h_notify", "c_cancel", "c_wait"} \cup Unregistering => battery_initialized

MonitorInv ==
    /\ pc["mon"] \notin {"m_register", "m_set", "oops"} /\ pc["irq"] # "oops"
    /\ canceller["work"] = IF pc["irq"] = "c_wait" THEN "irq" ELSE Nobody
    /\ pc["irq"] \in Announcing => pc["mon"] \in {"idle", "m_read"}
    /\ pc["irq"] = "c_wait" => "work" \notin pending
    /\ Unpolled => \/ pc["irq"] \in {"c_wait"} \cup Unregistering
                   \/ ~battery_initialized /\ pc["irq"] \notin Announcing
    /\ pc["irq"] \in Unregistering => Unpolled
    /\ ~battery_initialized /\ pc["irq"] \notin Announcing => Unpolled

Inv == Shape /\ SupplyInv /\ MonitorInv

USE DEF DefinedOn, AllActors, Works, Nobody, Unregistering, Announcing, detVars, StoreLabels
-----------------------------------------------------------------------------
LEMMA Moved ==
    ASSUME Shape, NEW c \in AllActors, NEW to, Goto(c, to)
    PROVE  /\ DefinedOn(pc, AllActors)' /\ pc'[c] = to
           /\ \A d \in AllActors \ {c} : pc'[d] = pc[d]
  BY DEF Shape, Goto

(* What no step outside this list of labels has to do with the supply.        *)
Special == {"oops", "h_notify", "c_register", "c_schedule", "c_cancel", "c_wait"}
              \cup Announcing \cup Unregistering

SharedKept ==
    /\ UNCHANGED <<registered, batt, battery_initialized, canceller>>
    /\ "work" \in pending' <=> "work" \in pending

LEMMA OthersMove ==
    ASSUME Inv, SharedKept, DefinedOn(pc, AllActors)',
           pc'["irq"] = pc["irq"], pc'["mon"] = pc["mon"]
    PROVE  Inv'
  BY DEF Inv, Shape, SupplyInv, MonitorInv, Unpolled, SharedKept

LEMMA IrqMoves ==
    ASSUME Inv, SharedKept, NEW to, to \notin Special, pc["irq"] \notin Special, Goto("irq", to)
    PROVE  Inv'
  <1>1. DefinedOn(pc, AllActors)' /\ pc'["irq"] = to /\ pc'["mon"] = pc["mon"]
    BY Moved DEF Inv
  <1>2. Shape' /\ SupplyInv'
    BY <1>1 DEF Inv, Shape, SupplyInv, SharedKept, Special
  <1>3. MonitorInv'
    BY <1>1 DEF Inv, MonitorInv, Unpolled, SharedKept, Special
  <1>. QED  BY <1>2, <1>3 DEF Inv

(* A monitor that is past its msleep(10) finds the battery registered.        *)
LEMMA MonitorAwake ==
    ASSUME Inv, pc["mon"] # "idle", pc["irq"] \notin Announcing
    PROVE  battery_initialized /\ registered /\ batt = "psy" /\ pc["irq"] \notin Special \ {"h_notify", "c_cancel", "c_wait"}
  BY DEF Inv, Shape, SupplyInv, MonitorInv, Unpolled, Special

LEMMA MonitorMoves ==
    ASSUME Inv, SharedKept, NEW to, to \notin {"idle", "m_register", "m_set", "oops"},
           pc["mon"] # "idle", pc["irq"] \notin Announcing, Goto("mon", to)
    PROVE  Inv'
  <1>1. DefinedOn(pc, AllActors)' /\ pc'["mon"] = to /\ pc'["irq"] = pc["irq"]
    BY Moved DEF Inv
  <1>2. Shape' /\ SupplyInv'
    BY <1>1 DEF Inv, Shape, SupplyInv, SharedKept
  <1>3. MonitorInv'
    BY <1>1, MonitorAwake DEF Inv, MonitorInv, Unpolled, SharedKept, Special
  <1>. QED  BY <1>2, <1>3 DEF Inv
-----------------------------------------------------------------------------
(* axp_charging_monitor *)
LEMMA MonitorKeeps ==
    ASSUME Inv, SleepSuffices, Monitor
    PROVE  Inv'
  <1>. USE DEF At, supplyVars, workVars, SharedKept
  <1>1. CASE Start("work", "m_read")
    <2>1. /\ pc["mon"] = "idle" /\ "work" \in pending /\ Goto("mon", "m_read")
          /\ pending' = pending \ {"work"}
          /\ UNCHANGED <<registered, batt, battery_initialized, canceller>>
      BY <1>1 DEF Start, Runner
    <2>2. DefinedOn(pc, AllActors)' /\ pc'["mon"] = "m_read" /\ pc'["irq"] = pc["irq"]
      BY <2>1, Moved DEF Inv
    <2>3. Shape' /\ SupplyInv'
      BY <2>1, <2>2 DEF Inv, Shape, SupplyInv
    <2>4. MonitorInv'
      BY <2>1, <2>2 DEF Inv, MonitorInv, Unpolled
    <2>. QED  BY <2>3, <2>4 DEF Inv
  <1>2. CASE /\ SleepSuffices => pc["irq"] \notin {"c_notify", "c_set"}
             /\ ReadDet("mon", "m_read", "m_store")
    BY <1>2, MonitorMoves DEF ReadDet
  <1>3. ASSUME pc["mon"] \notin {"idle", "m_read"} PROVE pc["irq"] \notin Announcing
    BY <1>3 DEF Inv, MonitorInv
  <1>4. CASE StoreDet("mon", "m_store", "m_test")
    BY <1>3, <1>4, MonitorMoves DEF StoreDet
  <1>5. CASE Branch("mon", "m_test", bat_det, "m_init", "m_again")
    BY <1>3, <1>5, MonitorMoves DEF Branch
  <1>6. CASE Branch("mon", "m_init", battery_initialized, "m_change", "m_register")
    BY <1>3, <1>6, MonitorMoves, MonitorAwake DEF Branch
  <1>7. CASE Register("mon", "m_register", "m_set") \/ SetInitialized("mon", "m_set", "m_change", TRUE)
    BY <1>7 DEF Register, SetInitialized, Inv, MonitorInv
  <1>8. CASE \E changed \in BOOLEAN : Branch("mon", "m_change", changed, "m_notify", "m_again")
    BY <1>3, <1>8, MonitorMoves DEF Branch
  <1>9. CASE Notify("mon", "m_notify", "m_again")
    <2>1. BattIsRegistered
      BY <1>3, <1>9, MonitorAwake DEF Notify, Branch, BattIsRegistered
    <2>2. pc["mon"] = "m_notify" /\ Goto("mon", "m_again") /\ SharedKept
      BY <1>9, <2>1 DEF Notify, Branch
    <2>3. pc["irq"] \notin Announcing
      BY <1>3, <2>2
    <2>. QED  BY <2>2, <2>3, MonitorMoves
  <1>10. CASE Schedule("mon", "m_again", "idle", {"work"})
    <2>0. Goto("mon", "idle") /\ pending' = Scheduled({"work"})
      BY <1>10 DEF Schedule
    <2>1. /\ pc["mon"] = "m_again"
          /\ UNCHANGED <<registered, batt, battery_initialized, canceller>>
      BY <1>10 DEF Schedule
    <2>2. DefinedOn(pc, AllActors)' /\ pc'["mon"] = "idle" /\ pc'["irq"] = pc["irq"]
      BY <2>0, Moved DEF Inv
    <2>3. battery_initialized /\ pc["irq"] \notin {"c_notify", "c_set", "oops"} \cup Unregistering
      BY <1>3, <2>1, MonitorAwake DEF Special
    <2>4. canceller["work"] = Nobody => "work" \in pending'
      BY <2>0 DEF Scheduled
    <2>5. canceller["work"] # Nobody => pending' = pending
      BY <2>0 DEF Scheduled
    <2>6. Shape' /\ SupplyInv'
      BY <2>1, <2>2 DEF Inv, Shape, SupplyInv
    <2>7. MonitorInv'
      BY <2>1, <2>2, <2>3, <2>4, <2>5 DEF Inv, MonitorInv, Unpolled
    <2>. QED  BY <2>6, <2>7 DEF Inv
  <1>. QED  BY <1>1, <1>2, <1>4, <1>5, <1>6, <1>7, <1>8, <1>9, <1>10 DEF Monitor
-----------------------------------------------------------------------------
(* axp_capchange *)
LEMMA CapChangeKeeps ==
    ASSUME Inv, CapChange
    PROVE  Inv'
  <1>. USE DEF At, supplyVars, workVars, SharedKept
  <1>1. CASE ReadDet("irq", "c_read", "c_store")
    BY <1>1, IrqMoves DEF ReadDet, Special
  <1>2. CASE StoreDet("irq", "c_store", "c_test")
    BY <1>2, IrqMoves DEF StoreDet, Special
  <1>3. CASE Branch("irq", "c_test", bat_det, "c_in", "c_out")
    BY <1>3, IrqMoves DEF Branch, Special
  <1>4. CASE Branch("irq", "c_in", battery_initialized, "next", "c_register") /\ battery_initialized
    BY <1>4, IrqMoves DEF Branch, Special
  <1>5. CASE Branch("irq", "c_in", battery_initialized, "next", "c_register") /\ ~battery_initialized
    <2>1. /\ pc["irq"] = "c_in" /\ Goto("irq", "c_register")
          /\ ~battery_initialized /\ UNCHANGED <<registered, batt, battery_initialized>>
          /\ UNCHANGED <<pending, canceller>>
      BY <1>5 DEF Branch
    <2>2. pc'["irq"] = "c_register" /\ pc'["mon"] = pc["mon"] /\ DefinedOn(pc, AllActors)'
      BY <2>1, Moved DEF Inv
    <2>. QED  BY <2>1, <2>2 DEF Inv, Shape, SupplyInv, MonitorInv, Unpolled
  <1>6. CASE Register("irq", "c_register", "c_schedule")
    <2>1. /\ pc["irq"] = "c_register" /\ Goto("irq", "c_schedule")
          /\ registered' = TRUE /\ batt' = IF registered THEN "ERR" ELSE "psy"
          /\ UNCHANGED battery_initialized
          /\ UNCHANGED <<pending, canceller>>
      BY <1>6 DEF Register
    <2>2. pc'["irq"] = "c_schedule" /\ pc'["mon"] = pc["mon"] /\ DefinedOn(pc, AllActors)'
      BY <2>1, Moved DEF Inv
    <2>. QED  BY <2>1, <2>2 DEF Inv, Shape, SupplyInv, MonitorInv, Unpolled
  <1>7. CASE Schedule("irq", "c_schedule", "c_notify", {"usbwork", "work"})
    <2>1. /\ pc["irq"] = "c_schedule" /\ Goto("irq", "c_notify")
          /\ canceller["work"] = Nobody => "work" \in pending'
          /\ UNCHANGED <<registered, batt, battery_initialized>> /\ UNCHANGED canceller
      BY <1>7 DEF Schedule, Scheduled
    <2>2. pc'["irq"] = "c_notify" /\ pc'["mon"] = pc["mon"] /\ DefinedOn(pc, AllActors)'
      BY <2>1, Moved DEF Inv
    <2>. QED  BY <2>1, <2>2 DEF Inv, Shape, SupplyInv, MonitorInv, Unpolled
  <1>8. CASE Notify("irq", "c_notify", "c_set")
    <2>1. /\ pc["irq"] = "c_notify" /\ Goto("irq", "c_set")
          /\ UNCHANGED <<registered, batt, battery_initialized>>
          /\ UNCHANGED <<pending, canceller>>
      BY <1>8 DEF Notify, Branch, BattIsRegistered, Inv, SupplyInv
    <2>2. pc'["irq"] = "c_set" /\ pc'["mon"] = pc["mon"] /\ DefinedOn(pc, AllActors)'
      BY <2>1, Moved DEF Inv
    <2>. QED  BY <2>1, <2>2 DEF Inv, Shape, SupplyInv, MonitorInv, Unpolled
  <1>9. CASE SetInitialized("irq", "c_set", "next", TRUE)
    <2>1. /\ pc["irq"] = "c_set" /\ Goto("irq", "next")
          /\ battery_initialized' = TRUE /\ UNCHANGED <<registered, batt>>
          /\ UNCHANGED <<pending, canceller>>
      BY <1>9 DEF SetInitialized
    <2>2. pc'["irq"] = "next" /\ pc'["mon"] = pc["mon"] /\ DefinedOn(pc, AllActors)'
      BY <2>1, Moved DEF Inv
    <2>. QED  BY <2>1, <2>2 DEF Inv, Shape, SupplyInv, MonitorInv, Unpolled
  <1>10. CASE Branch("irq", "c_out", battery_initialized, "c_cancel", "next") /\ ~battery_initialized
    BY <1>10, IrqMoves DEF Branch, Special
  <1>11. CASE Branch("irq", "c_out", battery_initialized, "c_cancel", "next") /\ battery_initialized
    <2>1. /\ pc["irq"] = "c_out" /\ Goto("irq", "c_cancel")
          /\ battery_initialized /\ UNCHANGED <<registered, batt, battery_initialized>>
          /\ UNCHANGED <<pending, canceller>>
      BY <1>11 DEF Branch
    <2>2. pc'["irq"] = "c_cancel" /\ pc'["mon"] = pc["mon"] /\ DefinedOn(pc, AllActors)'
      BY <2>1, Moved DEF Inv
    <2>. QED  BY <2>1, <2>2 DEF Inv, Shape, SupplyInv, MonitorInv, Unpolled
  <1>12. CASE Cancel("irq", "work", "c_cancel", "c_wait")
    <2>1. /\ pc["irq"] = "c_cancel" /\ Goto("irq", "c_wait")
          /\ canceller' = [canceller EXCEPT !["work"] = "irq"] /\ "work" \notin pending'
          /\ UNCHANGED <<registered, batt, battery_initialized>>
      BY <1>12 DEF Cancel
    <2>2. pc'["irq"] = "c_wait" /\ pc'["mon"] = pc["mon"] /\ DefinedOn(pc, AllActors)'
      BY <2>1, Moved DEF Inv
    <2>. QED  BY <2>1, <2>2 DEF Inv, Shape, SupplyInv, MonitorInv, Unpolled
  <1>13. CASE Cancelled("irq", "work", "c_wait", "c_cancelusb")
    <2>1. /\ pc["irq"] = "c_wait" /\ Goto("irq", "c_cancelusb")
          /\ pc["mon"] = "idle"
          /\ canceller' = [canceller EXCEPT !["work"] = Nobody] /\ UNCHANGED pending
          /\ UNCHANGED <<registered, batt, battery_initialized>>
      BY <1>13 DEF Cancelled, Running, Runner
    <2>2. pc'["irq"] = "c_cancelusb" /\ pc'["mon"] = pc["mon"] /\ DefinedOn(pc, AllActors)'
      BY <2>1, Moved DEF Inv
    <2>. QED  BY <2>1, <2>2 DEF Inv, Shape, SupplyInv, MonitorInv, Unpolled
  <1>14. CASE Cancel("irq", "usbwork", "c_cancelusb", "c_waitusb")
    <2>1. /\ pc["irq"] = "c_cancelusb" /\ Goto("irq", "c_waitusb")
          /\ canceller' = [canceller EXCEPT !["usbwork"] = "irq"] /\ pending' = pending \ {"usbwork"}
          /\ UNCHANGED <<registered, batt, battery_initialized>>
      BY <1>14 DEF Cancel
    <2>2. pc'["irq"] = "c_waitusb" /\ pc'["mon"] = pc["mon"] /\ DefinedOn(pc, AllActors)'
      BY <2>1, Moved DEF Inv
    <2>. QED  BY <2>1, <2>2 DEF Inv, Shape, SupplyInv, MonitorInv, Unpolled
  <1>15. CASE Cancelled("irq", "usbwork", "c_waitusb", "c_unregister")
    <2>1. /\ pc["irq"] = "c_waitusb" /\ Goto("irq", "c_unregister")
          /\ canceller' = [canceller EXCEPT !["usbwork"] = Nobody] /\ UNCHANGED pending
          /\ UNCHANGED <<registered, batt, battery_initialized>>
      BY <1>15 DEF Cancelled
    <2>2. pc'["irq"] = "c_unregister" /\ pc'["mon"] = pc["mon"] /\ DefinedOn(pc, AllActors)'
      BY <2>1, Moved DEF Inv
    <2>. QED  BY <2>1, <2>2 DEF Inv, Shape, SupplyInv, MonitorInv, Unpolled
  <1>16. CASE Unregister("irq", "c_unregister", "c_null")
    <2>1. /\ pc["irq"] = "c_unregister" /\ Goto("irq", "c_null")
          /\ registered' = FALSE /\ UNCHANGED <<batt, battery_initialized>>
          /\ UNCHANGED <<pending, canceller>>
      BY <1>16 DEF Unregister, BattIsRegistered, Inv, SupplyInv
    <2>2. pc'["irq"] = "c_null" /\ pc'["mon"] = pc["mon"] /\ DefinedOn(pc, AllActors)'
      BY <2>1, Moved DEF Inv
    <2>. QED  BY <2>1, <2>2 DEF Inv, Shape, SupplyInv, MonitorInv, Unpolled
  <1>17. CASE ClearBatt("irq", "c_null", "c_clear")
    <2>1. /\ pc["irq"] = "c_null" /\ Goto("irq", "c_clear")
          /\ batt' = "NULL" /\ UNCHANGED <<registered, battery_initialized>>
          /\ UNCHANGED <<pending, canceller>>
      BY <1>17 DEF ClearBatt
    <2>2. pc'["irq"] = "c_clear" /\ pc'["mon"] = pc["mon"] /\ DefinedOn(pc, AllActors)'
      BY <2>1, Moved DEF Inv
    <2>. QED  BY <2>1, <2>2 DEF Inv, Shape, SupplyInv, MonitorInv, Unpolled
  <1>18. CASE SetInitialized("irq", "c_clear", "next", FALSE)
    <2>1. /\ pc["irq"] = "c_clear" /\ Goto("irq", "next")
          /\ battery_initialized' = FALSE /\ UNCHANGED <<registered, batt>>
          /\ UNCHANGED <<pending, canceller>>
      BY <1>18 DEF SetInitialized
    <2>2. pc'["irq"] = "next" /\ pc'["mon"] = pc["mon"] /\ DefinedOn(pc, AllActors)'
      BY <2>1, Moved DEF Inv
    <2>. QED  BY <2>1, <2>2 DEF Inv, Shape, SupplyInv, MonitorInv, Unpolled
  <1>. QED
    BY <1>1, <1>2, <1>3, <1>4, <1>5, <1>6, <1>7, <1>8, <1>9, <1>10, <1>11, <1>12, <1>13, <1>14, <1>15, <1>16, <1>17, <1>18 DEF CapChange
-----------------------------------------------------------------------------
(* axp_change, axp_usbac_in and axp_usbac_out in the interrupt work *)
LEMMA HandlersKeep ==
    ASSUME Inv, Handlers
    PROVE  Inv'
  <1>. USE DEF At, supplyVars, workVars, SharedKept, Special
  <1>1. CASE ReadDet("irq", "h_read", "h_store") \/ ReadDet("irq", "i_read", "i_store")
    BY <1>1, IrqMoves DEF ReadDet
  <1>2. CASE StoreDet("irq", "h_store", "h_test") \/ StoreDet("irq", "i_store", "i_arm")
    BY <1>2, IrqMoves DEF StoreDet
  <1>3. CASE Branch("irq", "h_test", bat_det, "h_init", "h_done")
    BY <1>3, IrqMoves DEF Branch
  <1>4. CASE Branch("irq", "h_init", battery_initialized, "h_notify", "h_done") /\ ~battery_initialized
    BY <1>4, IrqMoves DEF Branch
  <1>5. CASE Branch("irq", "h_init", battery_initialized, "h_notify", "h_done") /\ battery_initialized
    <2>1. /\ pc["irq"] = "h_init" /\ Goto("irq", "h_notify") /\ battery_initialized
          /\ UNCHANGED <<registered, batt, battery_initialized, pending, canceller>>
      BY <1>5 DEF Branch
    <2>2. pc'["irq"] = "h_notify" /\ pc'["mon"] = pc["mon"] /\ DefinedOn(pc, AllActors)'
      BY <2>1, Moved DEF Inv
    <2>. QED  BY <2>1, <2>2 DEF Inv, Shape, SupplyInv, MonitorInv, Unpolled
  <1>6. CASE Notify("irq", "h_notify", "h_done")
    <2>1. /\ pc["irq"] = "h_notify" /\ Goto("irq", "h_done")
          /\ UNCHANGED <<registered, batt, battery_initialized, pending, canceller>>
      BY <1>6 DEF Notify, Branch, BattIsRegistered, Inv, SupplyInv
    <2>2. pc'["irq"] = "h_done" /\ pc'["mon"] = pc["mon"] /\ DefinedOn(pc, AllActors)'
      BY <2>1, Moved DEF Inv
    <2>. QED  BY <2>1, <2>2 DEF Inv, Shape, SupplyInv, MonitorInv, Unpolled
  <1>7. CASE \/ Branch("irq", "h_done", TRUE, "next", "next")
             \/ Branch("irq", "h_done", TRUE, "i_stop", "next")
    BY <1>7, IrqMoves DEF Branch
  <1>8. CASE \/ SetTimer("irq", "h_done", "next", TRUE)
             \/ SetTimer("irq", "i_stop", "i_read", FALSE)
             \/ SetTimer("irq", "i_arm", "next", TRUE)
    BY <1>8, IrqMoves DEF SetTimer
  <1>. QED
    BY <1>1, <1>2, <1>3, <1>4, <1>5, <1>6, <1>7, <1>8, CapChangeKeeps DEF Handlers, Change, UsbAcIn

(* __do_irq *)
LEMMA IrqWorkKeeps ==
    ASSUME Inv, IrqWork
    PROVE  Inv'
  <1>. USE DEF At, supplyVars, workVars, SharedKept, Special
  <1>1. CASE Begin
    BY <1>1, IrqMoves DEF Begin
  <1>2. CASE Acknowledge
    BY <1>2, IrqMoves DEF Acknowledge
  <1>3. CASE \E e \in Events : Dispatch(e)
    BY <1>3, IrqMoves DEF Dispatch
  <1>. QED  BY <1>1, <1>2, <1>3, HandlersKeep DEF IrqWork
-----------------------------------------------------------------------------
(* axp_usb, axp_usb_isr_delayed, a reader of ONLINE.  (axp_usb_isr_delayed    *)
(* may reach "oops"; that is its own business.)                              *)
LEMMA ContextMoves ==
    ASSUME Inv, SharedKept, NEW c \in {"usb", "usbin", "reader"}, NEW to, Goto(c, to)
    PROVE  Inv'
  BY Moved, OthersMove DEF Inv

LEMMA ContextsKeep ==
    ASSUME Inv, Usb \/ UsbIn \/ Reader
    PROVE  Inv'
  <1>. USE DEF At, supplyVars, workVars, SharedKept
  <1>1. ASSUME NEW c \in {"usb", "usbin", "reader"}, NEW from, NEW to, ReadDet(c, from, to)
        PROVE  Inv'
    BY <1>1, ContextMoves DEF ReadDet
  <1>2. ASSUME NEW c \in {"usb", "usbin", "reader"}, NEW from, NEW to, StoreDet(c, from, to)
        PROVE  Inv'
    BY <1>2, ContextMoves DEF StoreDet
  <1>3. ASSUME NEW c \in {"usb", "usbin", "reader"}, NEW from, NEW cond, NEW yes, NEW no,
               Branch(c, from, cond, yes, no)
        PROVE  Inv'
    BY <1>3, ContextMoves DEF Branch
  <1>4. ASSUME NEW from, NEW to, NEW armed, SetTimer("usbin", from, to, armed)
        PROVE  Inv'
    BY <1>4, ContextMoves DEF SetTimer
  <1>5. CASE Start("usbwork", "u_read")
    BY <1>5, ContextMoves DEF Start, Runner
  <1>6. CASE Usb
    BY <1>1, <1>2, <1>5, <1>6 DEF Usb
  <1>7. CASE UsbIn
    BY <1>1, <1>2, <1>3, <1>4, <1>7 DEF UsbIn, Change, UsbAcIn, Notify
  <1>8. CASE Reader
    BY <1>1, <1>2, <1>3, <1>8 DEF Reader
  <1>. QED  BY <1>6, <1>7, <1>8

(* Steps that move no context: the timer, the battery, interrupts. *)
LEMMA QuietKeeps ==
    ASSUME Inv, SharedKept, UNCHANGED pc
    PROVE  Inv'
  BY OthersMove DEF Inv, Shape

LEMMA WorldKeeps ==
    ASSUME Inv, BatteryMove \/ OtherEvent \/ HardIrq \/ TimerFires \/ \E c \in Actors : FirstStore(c)
    PROVE  Inv'
  <1>. USE DEF supplyVars, workVars, SharedKept
  <1>1. CASE BatteryMove \/ OtherEvent \/ HardIrq
    BY <1>1, QuietKeeps DEF BatteryMove, OtherEvent, HardIrq
  <1>2. CASE TimerFires
    BY <1>2, QuietKeeps DEF TimerFires, Scheduled
  <1>3. CASE \E c \in Actors : FirstStore(c)
    BY <1>3, QuietKeeps DEF FirstStore
  <1>. QED  BY <1>1, <1>2, <1>3
-----------------------------------------------------------------------------
LEMMA InitInv == ASSUME Usual, Init PROVE Inv
  BY DEF Usual, Init, Inv, Shape, SupplyInv, MonitorInv, Unpolled

LEMMA StepInv == ASSUME Usual, Inv, [Next]_vars PROVE Inv'
  <1>1. CASE UNCHANGED vars
    BY <1>1, QuietKeeps DEF vars, SharedKept, supplyVars, workVars
  <1>2. ~SuspendOrShutdown /\ ~Resume /\ ~Remove
    BY DEF Usual, SuspendOrShutdown, Resume, Remove, At, SetAwake, ReadDet, StoreDet, Branch,
           Schedule, Flushed, Cancel, Cancelled, Notify, SetTimer, ClearBatt, Unregister,
           SetInitialized
  <1>3. CASE Next
    BY <1>2, <1>3, IrqWorkKeeps, MonitorKeeps, ContextsKeep, WorldKeeps DEF Next, Usual
  <1>. QED  BY <1>1, <1>3

LEMMA Invariance == ASSUME Usual PROVE Spec => []Inv
  BY InitInv, StepInv, PTL DEF Spec
-----------------------------------------------------------------------------
(* power_supply_register is never called for a battery that is registered:   *)
(* axp_capchange and the monitor do not both register it.                    *)
THEOREM NoSecondSupply == ASSUME Usual PROVE Spec => []RegisteredOnce
  <1>1. Inv => RegisteredOnce
    BY DEF Inv, SupplyInv, RegisteredOnce
  <1>. QED  BY <1>1, Invariance, PTL

(* The monitor and the interrupt handlers never pass the class a supply that *)
(* axp_capchange has taken away, or has not made yet.                        *)
THEOREM SupplyOutlivesUse == ASSUME Usual PROVE Spec => []OnlyRegisteredUsed
  <1>1. Inv => OnlyRegisteredUsed
    BY DEF Inv, MonitorInv, OnlyRegisteredUsed
  <1>. QED  BY <1>1, Invariance, PTL

(* A registered battery is polled until axp_capchange takes it away: no       *)
(* order of interrupts loses the monitor.                                    *)
THEOREM StaysPolled == ASSUME Usual PROVE Spec => []PolledWhileRegistered
  <1>1. Inv => PolledWhileRegistered
    BY DEF Inv, MonitorInv, Unpolled, PolledWhileRegistered, Running, Runner
  <1>. QED  BY <1>1, Invariance, PTL
-----------------------------------------------------------------------------
(* Types, whatever the values of the constants. *)

(* What TypeOK says of the program counters. *)
PcOK ==
    /\ pc \in [AllActors -> UNION {Labels[c] : c \in AllActors}]
    /\ \A c \in AllActors : pc[c] \in Labels[c] /\ (c \notin Actors => pc[c] = "idle")

LEMMA Labelled ==
    ASSUME TypeOK, NEW c \in AllActors, NEW to \in Labels[c], c \in Actors, Goto(c, to)
    PROVE  PcOK' /\ pc'["irq"] = IF c = "irq" THEN to ELSE pc["irq"]
  BY DEF TypeOK, PcOK, Goto

(* What else TypeOK says of variables that any context may change. *)
DataOK ==
    /\ battery \in BOOLEAN /\ edge \in BOOLEAN /\ awake \in BOOLEAN
    /\ det_valid \in BOOLEAN /\ storing \in AllActors \cup {Nobody}
    /\ registered \in BOOLEAN /\ batt \in {"NULL", "psy", "ERR"} /\ bat_det \in BOOLEAN
    /\ battery_initialized \in BOOLEAN /\ pending \in SUBSET Works
    /\ canceller \in [Works -> AllActors \cup {Nobody}] /\ timer \in BOOLEAN
    /\ det \in [AllActors -> BOOLEAN]

LEMMA StepTyped ==
    ASSUME TypeOK, NEW c \in AllActors, NEW to \in Labels[c], c \in Actors, Goto(c, to),
           c = "irq" => to # "idle", DataOK', UNCHANGED <<latched, queued, todo, read>>
    PROVE  TypeOK'
  <1>1. PcOK' /\ pc'["irq"] = IF c = "irq" THEN to ELSE pc["irq"]
    BY Labelled
  <1>. QED  BY <1>1 DEF TypeOK, PcOK, DataOK

LEMMA StepsTyped ==
    ASSUME TypeOK, NEW c \in AllActors, NEW from, NEW to \in Labels[c],
           c = "irq" => to # "idle",
           \/ ReadDet(c, from, to) \/ StoreDet(c, from, to) \/ Register(c, from, to)
           \/ ClearBatt(c, from, to) \/ SetInitialized(c, from, to, TRUE)
           \/ SetInitialized(c, from, to, FALSE)
           \/ SetTimer(c, from, to, TRUE) \/ SetTimer(c, from, to, FALSE)
    PROVE  TypeOK'
  <1>1. c \in Actors /\ Goto(c, to) /\ UNCHANGED <<latched, queued, todo, read>>
    BY DEF ReadDet, StoreDet, Register, ClearBatt, SetInitialized, SetTimer, At, irqVars
  <1>2. DataOK
    BY DEF TypeOK, DataOK
  <1>3. CASE ReadDet(c, from, to)
    <2>1. PICK v \in BOOLEAN : det' = [det EXCEPT ![c] = v]
      BY <1>3 DEF ReadDet
    <2>2. det' \in [AllActors -> BOOLEAN]
      BY <1>2, <2>1 DEF DataOK
    <2>. QED  BY <1>1, <1>2, <1>3, <2>2, StepTyped DEF ReadDet, supplyVars, workVars, irqVars, DataOK
  <1>4. CASE StoreDet(c, from, to)
    <2>1. det' \in [AllActors -> BOOLEAN] /\ bat_det' \in BOOLEAN
      BY <1>2, <1>4 DEF StoreDet, DataOK
    <2>. QED  BY <1>1, <1>2, <1>4, <2>1, StepTyped DEF StoreDet, supplyVars, workVars, irqVars, DataOK
  <1>5. CASE Register(c, from, to) \/ ClearBatt(c, from, to)
    <2>1. DataOK'
      <3>1. /\ UNCHANGED <<battery, irqVars, battery_initialized, detVars, workVars, det>>
            /\ registered' \in {registered, TRUE} /\ batt' \in {"NULL", "psy", "ERR"}
        BY <1>5 DEF Register, ClearBatt
      <3>. QED  BY <1>2, <3>1 DEF workVars, irqVars, DataOK
    <2>. QED  BY <1>1, <2>1, StepTyped
  <1>6. CASE SetInitialized(c, from, to, TRUE) \/ SetInitialized(c, from, to, FALSE)
    <2>1. DataOK'
      <3>1. /\ UNCHANGED <<battery, irqVars, registered, batt, detVars, workVars, det>>
            /\ battery_initialized' \in BOOLEAN
        BY <1>6 DEF SetInitialized
      <3>. QED  BY <1>2, <3>1 DEF workVars, irqVars, DataOK
    <2>. QED  BY <1>1, <2>1, StepTyped
  <1>7. CASE SetTimer(c, from, to, TRUE) \/ SetTimer(c, from, to, FALSE)
    <2>1. DataOK'
      <3>1. /\ UNCHANGED <<battery, irqVars, supplyVars, detVars, pending, canceller, det>>
            /\ timer' \in BOOLEAN
        BY <1>7 DEF SetTimer
      <3>. QED  BY <1>2, <3>1 DEF supplyVars, irqVars, DataOK
    <2>. QED  BY <1>1, <2>1, StepTyped
  <1>. QED  BY <1>3, <1>4, <1>5, <1>6, <1>7

LEMMA BranchTyped ==
    ASSUME TypeOK, NEW c \in AllActors, NEW from, NEW cond,
           NEW yes \in Labels[c], NEW no \in Labels[c],
           c = "irq" => yes # "idle" /\ no # "idle", Branch(c, from, cond, yes, no)
    PROVE  TypeOK'
  <1>1. PICK to \in {yes, no} : Goto(c, to)
    BY DEF Branch
  <1>2. c \in Actors /\ UNCHANGED <<latched, queued, todo, read>>
    BY DEF Branch, At, irqVars
  <1>3. DataOK'
    BY DEF Branch, At, irqVars, supplyVars, workVars, TypeOK, DataOK
  <1>4. to \in Labels[c] /\ (c = "irq" => to # "idle")
    BY <1>1
  <1>. QED  BY <1>1, <1>2, <1>3, <1>4, StepTyped

LEMMA NotifyTyped ==
    ASSUME TypeOK, NEW c \in AllActors, NEW from, NEW to \in Labels[c],
           "oops" \in Labels[c], c = "irq" => to # "idle", Notify(c, from, to)
    PROVE  TypeOK'
  BY BranchTyped DEF Notify

LEMMA UnregisterTyped ==
    ASSUME TypeOK, NEW c \in AllActors, NEW from, NEW to \in Labels[c],
           "oops" \in Labels[c], c = "irq" => to # "idle", Unregister(c, from, to)
    PROVE  TypeOK'
  <1>1. PICK label \in {to, "oops"} : Goto(c, label)
    BY DEF Unregister
  <1>2. c \in Actors /\ UNCHANGED <<latched, queued, todo, read>>
    BY DEF Unregister, At, irqVars
  <1>3. DataOK'
    <2>1. /\ UNCHANGED <<battery, irqVars, batt, battery_initialized, detVars, workVars, det>>
          /\ registered' \in {registered, FALSE}
      BY DEF Unregister
    <2>2. DataOK /\ registered' \in BOOLEAN
      BY <2>1 DEF TypeOK, DataOK
    <2>. QED  BY <2>1, <2>2 DEF irqVars, workVars, DataOK
  <1>4. label \in Labels[c] /\ (c = "irq" => label # "idle")
    BY <1>1
  <1>. QED  BY <1>1, <1>2, <1>3, <1>4, StepTyped

LEMMA ScheduleTyped ==
    ASSUME TypeOK, NEW c \in AllActors, NEW from, NEW to \in Labels[c], c = "irq" => to # "idle",
           NEW ws \in SUBSET Works, Schedule(c, from, to, ws)
    PROVE  TypeOK'
  <1>1. c \in Actors /\ Goto(c, to) /\ UNCHANGED <<latched, queued, todo, read>>
    BY DEF Schedule, At, irqVars
  <1>2. DataOK
    BY DEF TypeOK, DataOK
  <1>3. pending' \in SUBSET Works
    BY <1>2 DEF Schedule, Scheduled, DataOK
  <1>4. DataOK'
    BY <1>2, <1>3 DEF Schedule, supplyVars, irqVars, DataOK
  <1>. QED  BY <1>1, <1>4, StepTyped

LEMMA CancelTyped ==
    ASSUME TypeOK, NEW c \in AllActors, NEW from, NEW to \in Labels[c], c = "irq" => to # "idle",
           NEW w \in Works, Cancel(c, w, from, to) \/ Cancelled(c, w, from, to)
    PROVE  TypeOK'
  <1>1. c \in Actors /\ Goto(c, to) /\ UNCHANGED <<latched, queued, todo, read>>
    BY DEF Cancel, Cancelled, At, irqVars
  <1>2. DataOK
    BY DEF TypeOK, DataOK
  <1>3. CASE Cancel(c, w, from, to)
    <2>1. DataOK'
      BY <1>2, <1>3 DEF Cancel, supplyVars, irqVars, DataOK
    <2>. QED  BY <1>1, <2>1, StepTyped
  <1>4. CASE Cancelled(c, w, from, to)
    <2>1. DataOK'
      BY <1>2, <1>4 DEF Cancelled, supplyVars, irqVars, DataOK
    <2>. QED  BY <1>1, <2>1, StepTyped
  <1>. QED  BY <1>3, <1>4

LEMMA StartTyped ==
    ASSUME TypeOK,
           Start("work", "m_read") \/ Start("usbwork", "u_read")
    PROVE  TypeOK'
  <1>1. PICK c \in {"mon", "usb"}, to \in {"m_read", "u_read"} :
          c \in Actors /\ Goto(c, to) /\ to \in Labels[c]
    BY DEF Start, At, Runner, Labels
  <1>2. DataOK' /\ UNCHANGED <<latched, queued, todo, read>>
    <2>1. /\ UNCHANGED <<battery, irqVars, supplyVars, detVars, canceller, timer, det>>
          /\ pending' \subseteq pending
      BY DEF Start
    <2>. QED  BY <2>1 DEF irqVars, supplyVars, TypeOK, DataOK
  <1>. QED  BY <1>1, <1>2, StepTyped

LEMMA MonitorTyped == ASSUME TypeOK, Monitor PROVE TypeOK'
  <1>. USE DEF Labels
  <1>1. CASE Start("work", "m_read")
    BY <1>1, StartTyped
  <1>2. CASE ReadDet("mon", "m_read", "m_store") \/ StoreDet("mon", "m_store", "m_test")
    BY <1>2, StepsTyped
  <1>3. CASE Register("mon", "m_register", "m_set") \/ SetInitialized("mon", "m_set", "m_change", TRUE)
    BY <1>3, StepsTyped
  <1>4. CASE \/ Branch("mon", "m_test", bat_det, "m_init", "m_again")
             \/ Branch("mon", "m_init", battery_initialized, "m_change", "m_register")
             \/ \E changed \in BOOLEAN : Branch("mon", "m_change", changed, "m_notify", "m_again")
    BY <1>4, BranchTyped
  <1>5. CASE Notify("mon", "m_notify", "m_again")
    BY <1>5, NotifyTyped
  <1>6. CASE Schedule("mon", "m_again", "idle", {"work"})
    BY <1>6, ScheduleTyped
  <1>. QED  BY <1>1, <1>2, <1>3, <1>4, <1>5, <1>6 DEF Monitor

LEMMA UsbReaderTyped == ASSUME TypeOK, Usb \/ Reader PROVE TypeOK'
  <1>. USE DEF Labels
  <1>1. CASE Start("usbwork", "u_read")
    BY <1>1, StartTyped
  <1>2. CASE ReadDet("usb", "u_read", "u_store") \/ StoreDet("usb", "u_store", "idle")
    BY <1>2, StepsTyped
  <1>3. CASE Branch("reader", "idle", TRUE, "g_read", "idle")
    BY <1>3, BranchTyped
  <1>4. CASE ReadDet("reader", "g_read", "g_store") \/ StoreDet("reader", "g_store", "idle")
    BY <1>4, StepsTyped
  <1>. QED  BY <1>1, <1>2, <1>3, <1>4 DEF Usb, Reader

(* axp_change and axp_usbac_in, for both callers. *)
LEMMA ChangeTyped ==
    ASSUME TypeOK, NEW c \in {"irq", "usbin"}, NEW last \in Labels[c],
           c = "irq" => last # "idle", Change(c, last) \/ UsbAcIn(c, last)
    PROVE  TypeOK'
  <1>0. {"oops", "h_store", "h_test", "h_init", "h_notify", "i_stop", "i_read", "i_store", "i_arm"}
          \subseteq Labels[c]
    BY DEF Labels
  <1>1. CASE ReadDet(c, "h_read", "h_store") \/ ReadDet(c, "i_read", "i_store")
    BY <1>0, <1>1, StepsTyped
  <1>2. CASE StoreDet(c, "h_store", "h_test") \/ StoreDet(c, "i_store", "i_arm")
    BY <1>0, <1>2, StepsTyped
  <1>3. CASE \/ Branch(c, "h_test", bat_det, "h_init", last)
             \/ Branch(c, "h_init", battery_initialized, "h_notify", last)
    BY <1>0, <1>3, BranchTyped
  <1>4. CASE Notify(c, "h_notify", last)
    BY <1>0, <1>4, NotifyTyped
  <1>5. CASE SetTimer(c, "i_stop", "i_read", FALSE) \/ SetTimer(c, "i_arm", last, TRUE)
    BY <1>0, <1>5, StepsTyped
  <1>. QED  BY <1>1, <1>2, <1>3, <1>4, <1>5 DEF Change, UsbAcIn

LEMMA UsbInTyped == ASSUME TypeOK, UsbIn PROVE TypeOK'
  <1>. USE DEF Labels
  <1>1. CASE Branch("usbin", "idle", TRUE, "h_read", "idle")
    BY <1>1, BranchTyped
  <1>2. CASE Change("usbin", "i_stop") \/ UsbAcIn("usbin", "idle")
    BY <1>2, ChangeTyped
  <1>. QED  BY <1>1, <1>2 DEF UsbIn

LEMMA CapChangeTyped == ASSUME TypeOK, CapChange PROVE TypeOK'
  <1>. USE DEF Labels
  <1>1. CASE ReadDet("irq", "c_read", "c_store") \/ StoreDet("irq", "c_store", "c_test")
    BY <1>1, StepsTyped
  <1>2. CASE \/ Branch("irq", "c_test", bat_det, "c_in", "c_out")
             \/ Branch("irq", "c_in", battery_initialized, "next", "c_register")
             \/ Branch("irq", "c_out", battery_initialized, "c_cancel", "next")
    BY <1>2, BranchTyped
  <1>3. CASE Register("irq", "c_register", "c_schedule") \/ SetInitialized("irq", "c_set", "next", TRUE)
    BY <1>3, StepsTyped
  <1>4. CASE Schedule("irq", "c_schedule", "c_notify", {"usbwork", "work"})
    BY <1>4, ScheduleTyped
  <1>5. CASE Notify("irq", "c_notify", "c_set")
    BY <1>5, NotifyTyped
  <1>6. CASE Cancel("irq", "work", "c_cancel", "c_wait") \/ Cancelled("irq", "work", "c_wait", "c_cancelusb")
    BY <1>6, CancelTyped
  <1>7. CASE \/ Cancel("irq", "usbwork", "c_cancelusb", "c_waitusb")
             \/ Cancelled("irq", "usbwork", "c_waitusb", "c_unregister")
    BY <1>7, CancelTyped
  <1>8. CASE Unregister("irq", "c_unregister", "c_null")
    BY <1>8, UnregisterTyped
  <1>9. CASE ClearBatt("irq", "c_null", "c_clear") \/ SetInitialized("irq", "c_clear", "next", FALSE)
    BY <1>9, StepsTyped
  <1>. QED  BY <1>1, <1>2, <1>3, <1>4, <1>5, <1>6, <1>7, <1>8, <1>9 DEF CapChange

(* __do_irq takes what it is to handle from what it will acknowledge. *)
LEMMA IrqWorkTyped == ASSUME TypeOK, IrqWork PROVE TypeOK'
  <1>. USE DEF Labels
  <1>1. CASE CapChange
    BY <1>1, CapChangeTyped
  <1>2. CASE Change("irq", "h_done") \/ UsbAcIn("irq", "next")
    BY <1>2, ChangeTyped
  <1>3. CASE Branch("irq", "h_done", TRUE, "next", "next") \/ Branch("irq", "h_done", TRUE, "i_stop", "next")
    BY <1>3, BranchTyped
  <1>4. CASE SetTimer("irq", "h_done", "next", TRUE)
    BY <1>4, StepsTyped
  <1>5. ASSUME NEW to \in Labels.irq, At("irq", "next") \/ At("irq", "idle"), Goto("irq", to)
        PROVE  PcOK' /\ pc'["irq"] = to
    <2>1. "irq" \in Actors /\ to \in Labels["irq"]
      BY <1>5 DEF At
    <2>. QED  BY <1>5, <2>1, Labelled
  <1>6. CASE Begin
    <2>1. At("irq", "idle") /\ Goto("irq", "next")
      BY <1>6 DEF Begin
    <2>2. PcOK' /\ pc'["irq"] = "next"
      BY <1>5, <2>1
    <2>3. todo' = latched /\ read' = latched /\ latched' = latched /\ queued' = FALSE
      BY <1>6 DEF Begin
    <2>4. DataOK'
      BY <1>6 DEF Begin, TypeOK, DataOK, supplyVars, workVars
    <2>. QED  BY <2>2, <2>3, <2>4 DEF TypeOK, PcOK, DataOK
  <1>7. CASE Acknowledge
    <2>1. At("irq", "next") /\ Goto("irq", "idle")
      BY <1>7 DEF Acknowledge
    <2>2. PcOK' /\ pc'["irq"] = "idle"
      BY <1>5, <2>1
    <2>. QED  BY <1>7, <2>2 DEF Acknowledge, TypeOK, PcOK, supplyVars, workVars
  <1>8. ASSUME NEW e \in Events, Dispatch(e) PROVE TypeOK'
    <2>1. PICK to \in {"h_read", "c_read"} : At("irq", "next") /\ Goto("irq", to)
      BY <1>8 DEF Dispatch
    <2>2. PcOK' /\ pc'["irq"] = to
      BY <1>5, <2>1
    <2>. QED  BY <1>8, <2>2 DEF Dispatch, TypeOK, PcOK, supplyVars, workVars
  <1>. QED  BY <1>1, <1>2, <1>3, <1>4, <1>6, <1>7, <1>8 DEF IrqWork, Handlers

LEMMA PowerTyped == ASSUME TypeOK, SuspendOrShutdown \/ Resume PROVE TypeOK'
  <1>. USE DEF Labels
  <1>1. CASE SetAwake("idle", "s_read", FALSE) \/ SetAwake("asleep", "r_read", TRUE)
    <2>1. PICK to \in {"s_read", "r_read"} : Goto("pm", to)
      BY <1>1 DEF SetAwake
    <2>2. "pm" \in Actors /\ UNCHANGED <<latched, queued, todo, read>>
      BY <1>1 DEF SetAwake, At
    <2>3. DataOK'
      <3>1. /\ UNCHANGED <<battery, latched, edge, queued, todo, read, supplyVars, detVars, workVars, det>>
            /\ awake' \in BOOLEAN
        BY <1>1 DEF SetAwake
      <3>. QED  BY <3>1 DEF supplyVars, workVars, TypeOK, DataOK
    <2>. QED  BY <2>1, <2>2, <2>3, StepTyped
  <1>2. CASE \/ Branch("pm", "idle", TRUE, "s_read", "idle")
             \/ Branch("pm", "s_test", bat_det, "s_usb", "s_end")
             \/ Flushed("pm", "usbwork", "s_flush", "s_cancel")
             \/ Branch("pm", "s_end", awake, "down", "asleep")
             \/ Branch("pm", "r_test", bat_det, "r_notify", "idle")
    BY <1>2, BranchTyped DEF Flushed
  <1>3. CASE \/ ReadDet("pm", "s_read", "s_store") \/ StoreDet("pm", "s_store", "s_test")
             \/ ReadDet("pm", "r_read", "r_store") \/ StoreDet("pm", "r_store", "r_test")
    BY <1>3, StepsTyped
  <1>4. CASE Schedule("pm", "s_usb", "s_flush", {"usbwork"}) \/ Schedule("pm", "r_schedule", "idle", {"work", "usbwork"})
    BY <1>4, ScheduleTyped
  <1>5. CASE Cancel("pm", "work", "s_cancel", "s_wait") \/ Cancelled("pm", "work", "s_wait", "s_cancelusb")
    BY <1>5, CancelTyped
  <1>6. CASE Cancel("pm", "usbwork", "s_cancelusb", "s_waitusb") \/ Cancelled("pm", "usbwork", "s_waitusb", "s_end")
    BY <1>6, CancelTyped
  <1>7. CASE Notify("pm", "r_notify", "r_schedule")
    BY <1>7, NotifyTyped
  <1>. QED  BY <1>1, <1>2, <1>3, <1>4, <1>5, <1>6, <1>7 DEF SuspendOrShutdown, Resume

LEMMA RemoveTyped == ASSUME TypeOK, Remove PROVE TypeOK'
  <1>. USE DEF Labels
  <1>1. CASE SetTimer("rm", "idle", "x_null", FALSE)
    BY <1>1, StepsTyped
  <1>2. CASE \/ ClearBatt("rm", "x_null", "x_test") \/ ClearBatt("rm", "x_clear", "x_uninit")
             \/ SetInitialized("rm", "x_uninit", "freed", FALSE)
    BY <1>2, StepsTyped
  <1>3. CASE Branch("rm", "x_test", bat_det, "x_init", "left") \/ Branch("rm", "x_init", battery_initialized, "x_cancel", "left")
    BY <1>3, BranchTyped
  <1>4. CASE Cancel("rm", "work", "x_cancel", "x_wait") \/ Cancelled("rm", "work", "x_wait", "x_cancelusb")
    BY <1>4, CancelTyped
  <1>5. CASE Cancel("rm", "usbwork", "x_cancelusb", "x_waitusb") \/ Cancelled("rm", "usbwork", "x_waitusb", "x_unregister")
    BY <1>5, CancelTyped
  <1>6. CASE Unregister("rm", "x_unregister", "x_clear")
    BY <1>6, UnregisterTyped
  <1>. QED  BY <1>1, <1>2, <1>3, <1>4, <1>5, <1>6 DEF Remove

LEMMA WorldTyped ==
    ASSUME TypeOK, BatteryMove \/ OtherEvent \/ HardIrq \/ TimerFires \/ \E c \in Actors : FirstStore(c)
    PROVE  TypeOK'
  <1>1. CASE BatteryMove
    <2>1. battery' \in BOOLEAN /\ latched' \in SUBSET Events /\ edge' \in BOOLEAN
      BY <1>1 DEF BatteryMove, Latch, TypeOK, Events
    <2>2. UNCHANGED <<awake, queued, todo, read, supplyVars, detVars, workVars, pc, det>>
      BY <1>1 DEF BatteryMove
    <2>. QED  BY <2>1, <2>2 DEF TypeOK, supplyVars, workVars
  <1>2. CASE OtherEvent \/ HardIrq
    <2>1. latched' \in SUBSET Events /\ edge' \in BOOLEAN /\ queued' \in BOOLEAN
      BY <1>2 DEF OtherEvent, HardIrq, Latch, TypeOK, Events
    <2>2. UNCHANGED <<battery, awake, todo, read, supplyVars, detVars, workVars, pc, det>>
      BY <1>2 DEF OtherEvent, HardIrq
    <2>. QED  BY <2>1, <2>2 DEF TypeOK, supplyVars, workVars
  <1>3. CASE TimerFires
    <2>1. pending' \in SUBSET Works
      BY <1>3 DEF TimerFires, Scheduled, TypeOK
    <2>2. UNCHANGED <<battery, irqVars, supplyVars, detVars, canceller, pc, det>> /\ timer' \in BOOLEAN
      BY <1>3 DEF TimerFires
    <2>. QED  BY <2>1, <2>2 DEF TypeOK, irqVars, supplyVars
  <1>4. ASSUME NEW c \in Actors, FirstStore(c) PROVE TypeOK'
    <2>1. bat_det' \in BOOLEAN /\ storing' \in AllActors \cup {Nobody}
      BY <1>4, BatteryAssumption DEF FirstStore
    <2>. QED  BY <1>4, <2>1 DEF FirstStore, TypeOK, irqVars, supplyVars, workVars
  <1>. QED  BY <1>1, <1>2, <1>3, <1>4

(* Every variable keeps its type, contexts that are not there stay idle, and  *)
(* __do_irq never has an event to handle that it will not acknowledge.        *)
THEOREM Typing == Spec => []TypeOK
  <1>1. Init => TypeOK
    <2>. SUFFICES ASSUME Init PROVE TypeOK
      OBVIOUS
    <2>1. \A c \in AllActors : "idle" \in Labels[c]
      BY DEF Labels
    <2>2. pc \in [AllActors -> UNION {Labels[c] : c \in AllActors}] /\ \A c \in AllActors : pc[c] = "idle"
      BY <2>1 DEF Init
    <2>3. det \in [AllActors -> BOOLEAN] /\ canceller \in [Works -> AllActors \cup {Nobody}]
      BY DEF Init
    <2>. QED  BY <2>1, <2>2, <2>3, BatteryAssumption DEF Init, TypeOK
  <1>2. TypeOK /\ [Next]_vars => TypeOK'
    <2>1. ASSUME TypeOK, Next PROVE TypeOK'
      BY <2>1, MonitorTyped, UsbReaderTyped, UsbInTyped, IrqWorkTyped, PowerTyped, RemoveTyped,
         WorldTyped DEF Next
    <2>2. ASSUME TypeOK, UNCHANGED vars PROVE TypeOK'
      BY <2>2 DEF TypeOK, vars, irqVars, supplyVars, workVars
    <2>. QED  BY <2>1, <2>2
  <1>. QED  BY <1>1, <1>2, PTL DEF Spec
-----------------------------------------------------------------------------
(* Removal.  The chargers' remove functions free their interrupts before they *)
(* call axp_power_supply_unregister, and the driver core removes no device in *)
(* suspend: what is left are the monitor, axp_usb, the timer and readers.     *)
(* axp_usb_isr_delayed may also be left, when something was plugged in less   *)
(* than a second ago: it arms the timer again, and the theorem is false then. *)
InterruptsFreed == Actors \cap {"irq", "usbin", "pm"} = {}

(* What removal has got rid of, by how far it is. *)
MonitorGone ==
    pc["rm"] \in {"x_cancelusb", "x_waitusb", "x_unregister", "x_clear", "x_uninit", "oops", "freed"}
UsbGone == pc["rm"] \in {"x_unregister", "x_clear", "x_uninit", "oops", "freed"}

RemovalInv ==
    /\ timer => pc["rm"] = "idle"
    /\ canceller["work"] = IF pc["rm"] = "x_wait" THEN "rm" ELSE Nobody
    /\ canceller["usbwork"] = IF pc["rm"] = "x_waitusb" THEN "rm" ELSE Nobody
    /\ "work" \in pending => pc["rm"] # "x_wait" /\ ~MonitorGone
    /\ "usbwork" \in pending => pc["rm"] # "x_waitusb" /\ ~UsbGone
    /\ MonitorGone => pc["mon"] = "idle"
    /\ UsbGone => pc["usb"] = "idle"

LEMMA Pcs ==
    ASSUME TypeOK, NEW c \in AllActors, NEW to, Goto(c, to)
    PROVE  pc'[c] = to /\ \A d \in AllActors \ {c} : pc'[d] = pc[d]
  BY DEF TypeOK, Goto

LEMMA OthersIdle ==
    ASSUME InterruptsFreed, TypeOK
    PROVE  \A c \in {"irq", "usbin", "pm"} : \A label : ~At(c, label)
  BY DEF InterruptsFreed, At

(* A step of the monitor, of axp_usb or of a reader. *)
LEMMA RemovalWaits ==
    ASSUME TypeOK, RemovalInv, pc'["rm"] = pc["rm"], UNCHANGED <<timer, canceller>>,
           "work" \in pending' => \/ "work" \in pending
                                  \/ pc["mon"] # "idle" /\ canceller["work"] = Nobody,
           "usbwork" \in pending' => "usbwork" \in pending,
           pc'["mon"] # "idle" => pc["mon"] # "idle" \/ "work" \in pending,
           pc'["usb"] # "idle" => pc["usb"] # "idle" \/ "usbwork" \in pending
    PROVE  RemovalInv'
  BY DEF RemovalInv, MonitorGone, UsbGone

LEMMA RunningKeeps ==
    ASSUME TypeOK, RemovalInv, NEW c \in {"mon", "usb", "reader"}, NEW from, NEW to, At(c, from), Goto(c, to),
           from # "idle" \/ c = "reader", UNCHANGED <<timer, canceller, pending>>
    PROVE  RemovalInv'
  BY Pcs, RemovalWaits DEF At

LEMMA StartKeeps ==
    ASSUME TypeOK, RemovalInv, Start("work", "m_read") \/ Start("usbwork", "u_read")
    PROVE  RemovalInv'
  <1>1. CASE Start("work", "m_read")
    <2>1. pc["mon"] = "idle" /\ Goto("mon", "m_read") /\ "work" \in pending
      BY <1>1 DEF Start, Runner, At
    <2>2. pending' = pending \ {"work"} /\ UNCHANGED <<timer, canceller>>
      BY <1>1 DEF Start
    <2>. QED  BY <2>1, <2>2, Pcs, RemovalWaits
  <1>2. CASE Start("usbwork", "u_read")
    <2>1. pc["usb"] = "idle" /\ Goto("usb", "u_read") /\ "usbwork" \in pending
      BY <1>2 DEF Start, Runner, At
    <2>2. pending' = pending \ {"usbwork"} /\ UNCHANGED <<timer, canceller>>
      BY <1>2 DEF Start
    <2>. QED  BY <2>1, <2>2, Pcs, RemovalWaits
  <1>. QED  BY <1>1, <1>2

LEMMA PollersKeepRemoval ==
    ASSUME TypeOK, RemovalInv, Monitor \/ Usb \/ Reader
    PROVE  RemovalInv'
  <1>. USE DEF workVars
  <1>1. ASSUME NEW c \in {"mon", "usb", "reader"}, NEW from, NEW to, from # "idle",
               \/ ReadDet(c, from, to) \/ StoreDet(c, from, to) \/ Register(c, from, to)
               \/ SetInitialized(c, from, to, TRUE)
        PROVE  RemovalInv'
    <2>1. At(c, from) /\ Goto(c, to) /\ UNCHANGED <<timer, canceller, pending>>
      BY <1>1 DEF ReadDet, StoreDet, Register, SetInitialized
    <2>. QED  BY <1>1, <2>1, RunningKeeps
  <1>2. ASSUME NEW c \in {"mon", "reader"}, NEW from, NEW cond, NEW yes, NEW no,
               from # "idle" \/ c = "reader", Branch(c, from, cond, yes, no)
        PROVE  RemovalInv'
    <2>1. At(c, from) /\ UNCHANGED <<timer, canceller, pending>>
      BY <1>2 DEF Branch
    <2>2. PICK to \in {yes, no} : Goto(c, to)
      BY <1>2 DEF Branch
    <2>. QED  BY <1>2, <2>1, <2>2, RunningKeeps
  <1>3. CASE Schedule("mon", "m_again", "idle", {"work"})
    <2>1. pc["mon"] = "m_again" /\ Goto("mon", "idle") /\ UNCHANGED <<timer, canceller>>
      BY <1>3 DEF Schedule, At
    <2>2. /\ "work" \in pending' => "work" \in pending \/ canceller["work"] = Nobody
          /\ "usbwork" \in pending' => "usbwork" \in pending
      BY <1>3 DEF Schedule, Scheduled
    <2>. QED  BY <2>1, <2>2, Pcs, RemovalWaits
  <1>4. CASE Monitor
    BY <1>1, <1>2, <1>3, <1>4, StartKeeps DEF Monitor, Notify
  <1>5. CASE Usb \/ Reader
    BY <1>1, <1>2, <1>5, StartKeeps DEF Usb, Reader
  <1>. QED  BY <1>4, <1>5

(* axp_power_supply_unregister: each cancellation waits for the work and      *)
(* keeps the others from queueing it meanwhile.                               *)
LEMMA RemoveKeeps ==
    ASSUME TypeOK, RemovalInv, Remove
    PROVE  RemovalInv'
  <1>. USE DEF At, workVars
  <1>0. TypeOK'
    BY RemoveTyped
  <1>1. CASE SetTimer("rm", "idle", "x_null", FALSE)
    BY <1>1, Pcs DEF SetTimer, RemovalInv, MonitorGone, UsbGone
  <1>2. CASE ClearBatt("rm", "x_null", "x_test")
    BY <1>2, Pcs DEF ClearBatt, RemovalInv, MonitorGone, UsbGone
  <1>3. CASE \/ Branch("rm", "x_test", bat_det, "x_init", "left")
             \/ Branch("rm", "x_init", battery_initialized, "x_cancel", "left")
    <2>1. PICK to \in {"x_init", "x_cancel", "left"} : Goto("rm", to)
      BY <1>3 DEF Branch
    <2>2. pc["rm"] \in {"x_test", "x_init"} /\ UNCHANGED <<timer, canceller, pending>>
      BY <1>3 DEF Branch
    <2>. QED  BY <2>1, <2>2, Pcs DEF RemovalInv, MonitorGone, UsbGone
  <1>4. CASE Cancel("rm", "work", "x_cancel", "x_wait")
    <2>1. pc["rm"] = "x_cancel" /\ Goto("rm", "x_wait") /\ UNCHANGED timer
      BY <1>4 DEF Cancel
    <2>2. pending' = pending \ {"work"} /\ canceller'["work"] = "rm" /\ canceller'["usbwork"] = canceller["usbwork"]
      BY <1>4 DEF Cancel, TypeOK
    <2>. QED  BY <2>1, <2>2, Pcs DEF RemovalInv, MonitorGone, UsbGone
  <1>5. CASE Cancelled("rm", "work", "x_wait", "x_cancelusb")
    <2>1. pc["rm"] = "x_wait" /\ Goto("rm", "x_cancelusb") /\ pc["mon"] = "idle" /\ UNCHANGED <<timer, pending>>
      BY <1>5 DEF Cancelled, Running, Runner
    <2>2. canceller'["work"] = Nobody /\ canceller'["usbwork"] = canceller["usbwork"]
      BY <1>5 DEF Cancelled, TypeOK
    <2>. QED  BY <2>1, <2>2, Pcs DEF RemovalInv, MonitorGone, UsbGone
  <1>6. CASE Cancel("rm", "usbwork", "x_cancelusb", "x_waitusb")
    <2>1. pc["rm"] = "x_cancelusb" /\ Goto("rm", "x_waitusb") /\ UNCHANGED timer
      BY <1>6 DEF Cancel
    <2>2. pending' = pending \ {"usbwork"} /\ canceller'["usbwork"] = "rm" /\ canceller'["work"] = canceller["work"]
      BY <1>6 DEF Cancel, TypeOK
    <2>. QED  BY <2>1, <2>2, Pcs DEF RemovalInv, MonitorGone, UsbGone
  <1>7. CASE Cancelled("rm", "usbwork", "x_waitusb", "x_unregister")
    <2>1. pc["rm"] = "x_waitusb" /\ Goto("rm", "x_unregister") /\ pc["usb"] = "idle" /\ UNCHANGED <<timer, pending>>
      BY <1>7 DEF Cancelled, Running, Runner
    <2>2. canceller'["usbwork"] = Nobody /\ canceller'["work"] = canceller["work"]
      BY <1>7 DEF Cancelled, TypeOK
    <2>. QED  BY <2>1, <2>2, Pcs DEF RemovalInv, MonitorGone, UsbGone
  <1>8. CASE \/ Unregister("rm", "x_unregister", "x_clear") \/ ClearBatt("rm", "x_clear", "x_uninit")
             \/ SetInitialized("rm", "x_uninit", "freed", FALSE)
    <2>1. PICK to \in {"x_clear", "oops", "x_uninit", "freed"} : Goto("rm", to)
      BY <1>8 DEF Unregister, ClearBatt, SetInitialized
    <2>2. pc["rm"] \in {"x_unregister", "x_clear", "x_uninit"} /\ UNCHANGED <<timer, canceller, pending>>
      BY <1>8 DEF Unregister, ClearBatt, SetInitialized
    <2>. QED  BY <2>1, <2>2, Pcs DEF RemovalInv, MonitorGone, UsbGone
  <1>. QED  BY <1>1, <1>2, <1>3, <1>4, <1>5, <1>6, <1>7, <1>8 DEF Remove

LEMMA WorldKeepsRemoval ==
    ASSUME TypeOK, RemovalInv,
           BatteryMove \/ OtherEvent \/ HardIrq \/ TimerFires \/ \E c \in Actors : FirstStore(c)
    PROVE  RemovalInv'
  <1>1. CASE BatteryMove \/ OtherEvent \/ HardIrq
    BY <1>1, RemovalWaits DEF BatteryMove, OtherEvent, HardIrq, workVars
  <1>2. CASE TimerFires
    <2>1. timer /\ ~timer' /\ UNCHANGED <<canceller, pc>> /\ pc["rm"] = "idle"
      BY <1>2 DEF TimerFires, RemovalInv
    <2>. QED  BY <2>1 DEF RemovalInv, MonitorGone, UsbGone
  <1>3. CASE \E c \in Actors : FirstStore(c)
    BY <1>3, RemovalWaits DEF FirstStore, workVars
  <1>. QED  BY <1>1, <1>2, <1>3

(* When axp_power_supply_unregister has got as far as unregistering the       *)
(* battery, its works are gone for good: nothing brings them back before      *)
(* chg_dev is freed.                                                          *)
THEOREM RemovalStopsPolling == ASSUME InterruptsFreed PROVE Spec => []RemovedIsQuiet
  <1>1. Init => RemovalInv
    BY DEF Init, RemovalInv, MonitorGone, UsbGone
  <1>2. TypeOK /\ RemovalInv /\ [Next]_vars => RemovalInv'
    <2>. SUFFICES ASSUME TypeOK, RemovalInv, [Next]_vars PROVE RemovalInv'
      OBVIOUS
    <2>1. CASE UNCHANGED vars
      BY <2>1, RemovalWaits DEF vars, workVars
    <2>2. ~IrqWork /\ ~UsbIn /\ ~SuspendOrShutdown /\ ~Resume
      <3>1. ~Change("usbin", "i_stop") /\ ~UsbAcIn("usbin", "idle") /\ ~Change("irq", "h_done") /\ ~UsbAcIn("irq", "next")
        BY OthersIdle DEF Change, UsbAcIn, ReadDet, StoreDet, Branch, Notify, SetTimer
      <3>2. ~CapChange
        BY OthersIdle DEF CapChange, ReadDet, StoreDet, Branch, Register, Schedule, Notify, SetInitialized,
             Cancel, Cancelled, Unregister, ClearBatt
      <3>3. ~IrqWork
        BY <3>1, <3>2, OthersIdle DEF IrqWork, Handlers, Begin, Dispatch, Acknowledge, Branch, SetTimer
      <3>4. ~UsbIn
        BY <3>1, OthersIdle DEF UsbIn, Branch
      <3>5. ~SuspendOrShutdown /\ ~Resume
        BY OthersIdle DEF SuspendOrShutdown, Resume, SetAwake, ReadDet, StoreDet, Branch, Schedule, Flushed,
             Cancel, Cancelled, Notify
      <3>. QED  BY <3>3, <3>4, <3>5
    <2>3. CASE Next
      BY <2>2, <2>3, PollersKeepRemoval, RemoveKeeps, WorldKeepsRemoval DEF Next
    <2>. QED  BY <2>1, <2>3
  <1>3. TypeOK /\ RemovalInv => RemovedIsQuiet
    BY DEF TypeOK, RemovalInv, MonitorGone, UsbGone, RemovedIsQuiet, Running, Runner
  <1>. QED  BY <1>1, <1>2, <1>3, Typing, PTL DEF Spec
-----------------------------------------------------------------------------
(* Suspend, of a system whose battery stays in and whose bus works, and with  *)
(* a chip whose detection is stored in one step.                             *)
BatteryStays ==
    /\ TRUE \notin DetValid /\ BatteryAtProbe /\ ~BusFails
    /\ ~({"bat in", "bat out"} \subseteq Interrupts) /\ "rm" \notin Actors

(* What the interrupt work does when the battery is there and registered. *)
IrqKeepsSupply ==
    {"idle", "next", "h_read", "h_store", "h_test", "h_init", "h_notify", "h_done",
     "i_stop", "i_read", "i_store", "i_arm", "c_read", "c_store", "c_test", "c_in"}

(* The battery is there for everyone, and nobody takes the supply away.       *)
BatteryIn ==
    /\ ~det_valid /\ battery /\ bat_det /\ battery_initialized /\ registered /\ batt = "psy"
    /\ \A c \in AllActors : pc[c] \in StoreLabels => det[c]
    /\ pc["mon"] \notin {"m_register", "m_set"}
    /\ pc["irq"] \in IrqKeepsSupply
    /\ pc["pm"] # "oops"

(* Suspend has stopped the monitor, resume has not yet started it. *)
Stopped ==
    {"s_cancelusb", "s_waitusb", "s_end", "down", "asleep",
     "r_read", "r_store", "r_test", "r_notify", "r_schedule"}

SleepInv ==
    /\ BatteryIn
    /\ canceller["work"] = IF pc["pm"] = "s_wait" THEN "pm" ELSE Nobody
    /\ pc["pm"] = "s_wait" => "work" \notin pending
    /\ pc["pm"] \in Stopped => Unpolled
    /\ Unpolled => pc["pm"] \in Stopped \cup {"s_wait"}

USE DEF IrqKeepsSupply, Stopped

(* The labels a context may go through without the supply or the monitor. *)
Plain(c, from, to) ==
    /\ c = "mon" => from # "idle" /\ to \notin {"idle", "m_register", "m_set"}
    /\ c = "irq" => to \in IrqKeepsSupply
    /\ c = "pm" => /\ from # "s_wait" /\ to \notin {"s_wait", "oops"}
                    /\ (from \in Stopped <=> to \in Stopped)

(* A step that leaves the supply alone and the monitor as it is. *)
LEMMA SleepMoves ==
    ASSUME TypeOK, SleepInv, NEW c \in AllActors, NEW from, NEW to, At(c, from), Goto(c, to),
           UNCHANGED <<battery, battery_initialized, registered, batt, det_valid, canceller>>, bat_det',
           "work" \in pending' <=> "work" \in pending,
           \A d \in AllActors \ {c} : det'[d] = det[d], to \in StoreLabels => det'[c],
           Plain(c, from, to)
    PROVE  SleepInv'
  <1>1. pc'[c] = to /\ \A d \in AllActors \ {c} : pc'[d] = pc[d]
    BY Pcs
  <1>2. BatteryIn'
    <2>1. \A d \in AllActors : pc'[d] \in StoreLabels => det'[d]
      BY <1>1 DEF SleepInv, BatteryIn
    <2>. QED  BY <1>1, <2>1 DEF SleepInv, BatteryIn, Plain
  <1>. QED  BY <1>1, <1>2 DEF SleepInv, Unpolled, At, Plain

LEMMA SleepReads ==
    ASSUME BatteryStays, TypeOK, SleepInv, NEW c \in AllActors, NEW from, NEW to, Plain(c, from, to),
           \/ ReadDet(c, from, to)
           \/ from \in StoreLabels /\ to \notin StoreLabels /\ StoreDet(c, from, to)
    PROVE  SleepInv'
  <1>1. At(c, from) /\ Goto(c, to)
    BY DEF ReadDet, StoreDet
  <1>2. UNCHANGED <<battery, battery_initialized, registered, batt, det_valid, canceller, pending>>
    BY DEF ReadDet, StoreDet, supplyVars, workVars
  <1>3. battery /\ bat_det
    BY DEF SleepInv, BatteryIn
  <1>4. CASE ReadDet(c, from, to)
    <2>1. PICK v \in BOOLEAN : v /\ det' = [det EXCEPT ![c] = v]
      BY <1>3, <1>4 DEF ReadDet, BatteryStays, TypeOK
    <2>2. det'[c] /\ bat_det' /\ \A d \in AllActors \ {c} : det'[d] = det[d]
      BY <1>3, <1>4, <2>1 DEF ReadDet, TypeOK
    <2>. QED  BY <1>1, <1>2, <2>2, SleepMoves
  <1>5. CASE from \in StoreLabels /\ to \notin StoreLabels /\ StoreDet(c, from, to)
    <2>1. det[c]
      BY <1>1, <1>5 DEF SleepInv, BatteryIn, At
    <2>2. bat_det' /\ \A d \in AllActors \ {c} : det'[d] = det[d]
      BY <1>5, <2>1 DEF StoreDet, TypeOK
    <2>. QED  BY <1>1, <1>2, <1>5, <2>2, SleepMoves
  <1>. QED  BY <1>4, <1>5

LEMMA SleepBranches ==
    ASSUME TypeOK, SleepInv, NEW c \in AllActors, NEW from, NEW cond, NEW yes, NEW no,
           yes \notin StoreLabels, no \notin StoreLabels,
           cond => Plain(c, from, yes), ~cond => Plain(c, from, no),
           Branch(c, from, cond, yes, no)
    PROVE  SleepInv'
  <1>1. PICK to \in {yes, no} : Goto(c, to) /\ Plain(c, from, to)
    BY DEF Branch
  <1>2. At(c, from) /\ UNCHANGED <<battery, battery_initialized, registered, batt, det_valid, canceller, pending, bat_det, det>>
    BY DEF Branch, supplyVars, workVars
  <1>3. bat_det
    BY DEF SleepInv, BatteryIn
  <1>. QED  BY <1>1, <1>2, <1>3, SleepMoves

(* power_supply_changed: the supply is there. *)
LEMMA SleepNotifies ==
    ASSUME TypeOK, SleepInv, NEW c \in AllActors, NEW from, NEW to, to \notin StoreLabels,
           Plain(c, from, to), Notify(c, from, to)
    PROVE  SleepInv'
  <1>1. BattIsRegistered
    BY DEF SleepInv, BatteryIn, BattIsRegistered
  <1>. QED  BY <1>1, SleepBranches DEF Notify

LEMMA SleepTimers ==
    ASSUME TypeOK, SleepInv, NEW c \in AllActors, NEW from, NEW to, NEW armed, to \notin StoreLabels,
           Plain(c, from, to), SetTimer(c, from, to, armed)
    PROVE  SleepInv'
  <1>1. /\ At(c, from) /\ Goto(c, to)
        /\ UNCHANGED <<battery, battery_initialized, registered, batt, det_valid, canceller, pending, bat_det, det>>
    BY DEF SetTimer, supplyVars
  <1>2. bat_det
    BY DEF SleepInv, BatteryIn
  <1>. QED  BY <1>1, <1>2, SleepMoves

(* Steps in which no context moves, and what only the work usbwork sees.      *)
LEMMA SleepStutters ==
    ASSUME SleepInv, UNCHANGED <<pc, det, battery, bat_det, battery_initialized, registered, batt, det_valid, canceller>>,
           "work" \in pending' <=> "work" \in pending
    PROVE  SleepInv'
  BY DEF SleepInv, BatteryIn, Unpolled
-----------------------------------------------------------------------------
LEMMA MonitorSleeps ==
    ASSUME BatteryStays, TypeOK, SleepInv, Monitor
    PROVE  SleepInv'
  <1>. USE DEF Plain
  <1>0. bat_det /\ battery_initialized /\ pc["mon"] \notin {"m_register", "m_set"}
    BY DEF SleepInv, BatteryIn
  <1>1. CASE Start("work", "m_read")
    <2>1. /\ pc["mon"] = "idle" /\ "work" \in pending /\ Goto("mon", "m_read")
          /\ UNCHANGED <<battery, supplyVars, detVars, canceller, det>>
      BY <1>1 DEF Start, Runner, At
    <2>2. pc'["mon"] = "m_read" /\ \A d \in AllActors \ {"mon"} : pc'[d] = pc[d]
      BY <2>1, Pcs
    <2>3. BatteryIn'
      BY <2>1, <2>2 DEF SleepInv, BatteryIn, supplyVars
    <2>4. pc["pm"] \notin Stopped \cup {"s_wait"}
      BY <2>1 DEF SleepInv, Unpolled
    <2>. QED  BY <2>1, <2>2, <2>3, <2>4 DEF SleepInv, Unpolled
  <1>2. CASE \/ ReadDet("mon", "m_read", "m_store") \/ StoreDet("mon", "m_store", "m_test")
    BY <1>2, SleepReads
  <1>3. CASE \/ Branch("mon", "m_test", bat_det, "m_init", "m_again")
             \/ Branch("mon", "m_init", battery_initialized, "m_change", "m_register")
             \/ \E changed \in BOOLEAN : Branch("mon", "m_change", changed, "m_notify", "m_again")
    BY <1>0, <1>3, SleepBranches
  <1>4. CASE Notify("mon", "m_notify", "m_again")
    BY <1>4, SleepNotifies
  <1>5. CASE Register("mon", "m_register", "m_set") \/ SetInitialized("mon", "m_set", "m_change", TRUE)
    BY <1>0, <1>5 DEF Register, SetInitialized, At
  <1>6. CASE Schedule("mon", "m_again", "idle", {"work"})
    <2>1. /\ pc["mon"] = "m_again" /\ Goto("mon", "idle")
          /\ UNCHANGED <<battery, supplyVars, detVars, canceller, det>>
      BY <1>6 DEF Schedule, At
    <2>2. pc'["mon"] = "idle" /\ \A d \in AllActors \ {"mon"} : pc'[d] = pc[d]
      BY <2>1, Pcs
    <2>3. BatteryIn'
      BY <2>1, <2>2 DEF SleepInv, BatteryIn, supplyVars
    <2>4. pc["pm"] \notin Stopped
      BY <2>1 DEF SleepInv, Unpolled
    <2>5. /\ canceller["work"] = Nobody => "work" \in pending'
          /\ canceller["work"] # Nobody => pending' = pending
      BY <1>6 DEF Schedule, Scheduled
    <2>. QED  BY <2>1, <2>2, <2>3, <2>4, <2>5 DEF SleepInv, Unpolled
  <1>. QED  BY <1>1, <1>2, <1>3, <1>4, <1>5, <1>6 DEF Monitor

LEMMA ChangeSleeps ==
    ASSUME BatteryStays, TypeOK, SleepInv, NEW c \in {"irq", "usbin"}, NEW last, last \notin StoreLabels,
           c = "irq" => last \in IrqKeepsSupply, Change(c, last) \/ UsbAcIn(c, last)
    PROVE  SleepInv'
  <1>. USE DEF Plain
  <1>1. CASE \/ ReadDet(c, "h_read", "h_store") \/ StoreDet(c, "h_store", "h_test")
             \/ ReadDet(c, "i_read", "i_store") \/ StoreDet(c, "i_store", "i_arm")
    BY <1>1, SleepReads
  <1>2. CASE \/ Branch(c, "h_test", bat_det, "h_init", last)
             \/ Branch(c, "h_init", battery_initialized, "h_notify", last)
    BY <1>2, SleepBranches
  <1>3. CASE Notify(c, "h_notify", last)
    BY <1>3, SleepNotifies
  <1>4. CASE SetTimer(c, "i_stop", "i_read", FALSE) \/ SetTimer(c, "i_arm", last, TRUE)
    BY <1>4, SleepTimers
  <1>. QED  BY <1>1, <1>2, <1>3, <1>4 DEF Change, UsbAcIn

(* axp_capchange finds the battery there and registered, and does nothing.    *)
LEMMA CapChangeSleeps ==
    ASSUME BatteryStays, TypeOK, SleepInv, CapChange
    PROVE  SleepInv'
  <1>. USE DEF Plain
  <1>0. bat_det /\ battery_initialized /\ pc["irq"] \in IrqKeepsSupply
    BY DEF SleepInv, BatteryIn
  <1>1. CASE ReadDet("irq", "c_read", "c_store") \/ StoreDet("irq", "c_store", "c_test")
    BY <1>1, SleepReads
  <1>2. CASE \/ Branch("irq", "c_test", bat_det, "c_in", "c_out")
             \/ Branch("irq", "c_in", battery_initialized, "next", "c_register")
    BY <1>0, <1>2, SleepBranches
  <1>3. ~Register("irq", "c_register", "c_schedule") /\ ~Schedule("irq", "c_schedule", "c_notify", {"usbwork", "work"})
    BY <1>0 DEF Register, Schedule, At
  <1>4. /\ ~Notify("irq", "c_notify", "c_set") /\ ~SetInitialized("irq", "c_set", "next", TRUE)
        /\ ~Branch("irq", "c_out", battery_initialized, "c_cancel", "next")
    BY <1>0 DEF Notify, SetInitialized, Branch, At
  <1>5. /\ ~Cancel("irq", "work", "c_cancel", "c_wait") /\ ~Cancelled("irq", "work", "c_wait", "c_cancelusb")
        /\ ~Cancel("irq", "usbwork", "c_cancelusb", "c_waitusb")
        /\ ~Cancelled("irq", "usbwork", "c_waitusb", "c_unregister")
    BY <1>0 DEF Cancel, Cancelled, At
  <1>6. /\ ~Unregister("irq", "c_unregister", "c_null") /\ ~ClearBatt("irq", "c_null", "c_clear")
        /\ ~SetInitialized("irq", "c_clear", "next", FALSE)
    BY <1>0 DEF Unregister, ClearBatt, SetInitialized, At
  <1>. QED  BY <1>1, <1>2, <1>3, <1>4, <1>5, <1>6 DEF CapChange

LEMMA IrqWorkSleeps ==
    ASSUME BatteryStays, TypeOK, SleepInv, IrqWork
    PROVE  SleepInv'
  <1>. USE DEF Plain
  <1>1. CASE CapChange
    BY <1>1, CapChangeSleeps
  <1>2. CASE Change("irq", "h_done") \/ UsbAcIn("irq", "next")
    BY <1>2, ChangeSleeps
  <1>3. CASE Branch("irq", "h_done", TRUE, "next", "next") \/ Branch("irq", "h_done", TRUE, "i_stop", "next")
    BY <1>3, SleepBranches
  <1>4. CASE SetTimer("irq", "h_done", "next", TRUE)
    BY <1>4, SleepTimers
  <1>5. CASE Begin \/ Acknowledge \/ \E e \in Events : Dispatch(e)
    <2>1. PICK from \in {"idle", "next"}, to \in {"idle", "next", "h_read", "c_read"} :
            At("irq", from) /\ Goto("irq", to)
      BY <1>5 DEF Begin, Acknowledge, Dispatch
    <2>2. UNCHANGED <<battery, battery_initialized, registered, batt, det_valid, canceller, pending, bat_det, det>>
      BY <1>5 DEF Begin, Acknowledge, Dispatch, supplyVars, workVars
    <2>3. bat_det
      BY DEF SleepInv, BatteryIn
    <2>. QED  BY <2>1, <2>2, <2>3, SleepMoves
  <1>. QED  BY <1>1, <1>2, <1>3, <1>4, <1>5 DEF IrqWork, Handlers

LEMMA ContextsSleep ==
    ASSUME BatteryStays, TypeOK, SleepInv, Usb \/ UsbIn \/ Reader
    PROVE  SleepInv'
  <1>. USE DEF Plain
  <1>1. CASE Start("usbwork", "u_read")
    <2>1. /\ At("usb", "idle") /\ Goto("usb", "u_read") /\ ("work" \in pending' <=> "work" \in pending)
          /\ UNCHANGED <<battery, battery_initialized, registered, batt, det_valid, canceller, bat_det, det>>
      BY <1>1 DEF Start, Runner, supplyVars
    <2>2. bat_det
      BY DEF SleepInv, BatteryIn
    <2>. QED  BY <2>1, <2>2, SleepMoves
  <1>2. CASE \/ ReadDet("usb", "u_read", "u_store") \/ StoreDet("usb", "u_store", "idle")
             \/ ReadDet("reader", "g_read", "g_store") \/ StoreDet("reader", "g_store", "idle")
    BY <1>2, SleepReads
  <1>3. CASE \/ Branch("reader", "idle", TRUE, "g_read", "idle")
             \/ Branch("usbin", "idle", TRUE, "h_read", "idle")
    BY <1>3, SleepBranches
  <1>4. CASE Change("usbin", "i_stop") \/ UsbAcIn("usbin", "idle")
    BY <1>4, ChangeSleeps
  <1>. QED  BY <1>1, <1>2, <1>3, <1>4 DEF Usb, UsbIn, Reader

(* axp_charger_suspend waits for the monitor; axp_charger_resume starts it.   *)
LEMMA PowerSleeps ==
    ASSUME BatteryStays, TypeOK, SleepInv, SuspendOrShutdown \/ Resume
    PROVE  SleepInv'
  <1>. USE DEF Plain
  <1>0. bat_det /\ battery_initialized
    BY DEF SleepInv, BatteryIn
  <1>1. CASE SetAwake("idle", "s_read", FALSE) \/ SetAwake("asleep", "r_read", TRUE)
    <2>1. PICK from \in {"idle", "asleep"}, to \in {"s_read", "r_read"} :
            At("pm", from) /\ Goto("pm", to) /\ (from = "idle" <=> to = "s_read")
      BY <1>1 DEF SetAwake
    <2>2. UNCHANGED <<battery, battery_initialized, registered, batt, det_valid, canceller, pending, bat_det, det>>
      BY <1>1 DEF SetAwake, supplyVars, workVars
    <2>. QED  BY <1>0, <2>1, <2>2, SleepMoves
  <1>2. CASE \/ Branch("pm", "idle", TRUE, "s_read", "idle")
             \/ Branch("pm", "s_test", bat_det, "s_usb", "s_end")
             \/ Flushed("pm", "usbwork", "s_flush", "s_cancel")
             \/ Branch("pm", "s_end", awake, "down", "asleep")
             \/ Branch("pm", "r_test", bat_det, "r_notify", "idle")
    BY <1>0, <1>2, SleepBranches DEF Flushed
  <1>3. CASE \/ ReadDet("pm", "s_read", "s_store") \/ StoreDet("pm", "s_store", "s_test")
             \/ ReadDet("pm", "r_read", "r_store") \/ StoreDet("pm", "r_store", "r_test")
    BY <1>3, SleepReads
  <1>4. CASE Notify("pm", "r_notify", "r_schedule")
    BY <1>4, SleepNotifies
  <1>5. CASE Schedule("pm", "s_usb", "s_flush", {"usbwork"})
    <2>1. /\ At("pm", "s_usb") /\ Goto("pm", "s_flush") /\ ("work" \in pending' <=> "work" \in pending)
          /\ UNCHANGED <<battery, battery_initialized, registered, batt, det_valid, canceller, bat_det, det>>
      BY <1>5 DEF Schedule, Scheduled, supplyVars
    <2>. QED  BY <1>0, <2>1, SleepMoves
  <1>6. ASSUME NEW from, NEW to, to \notin StoreLabels \cup {"oops"}, At("pm", from), Goto("pm", to),
               UNCHANGED <<battery, supplyVars, detVars, det>>
        PROVE  /\ BatteryIn' /\ pc["pm"] = from /\ pc'["pm"] = to /\ pc'["mon"] = pc["mon"]
    <2>1. pc'["pm"] = to /\ \A d \in AllActors \ {"pm"} : pc'[d] = pc[d]
      BY <1>6, Pcs
    <2>. QED  BY <1>6, <2>1 DEF SleepInv, BatteryIn, supplyVars, At
  <1>7. CASE Cancel("pm", "work", "s_cancel", "s_wait")
    <2>1. BatteryIn' /\ pc["pm"] = "s_cancel" /\ pc'["pm"] = "s_wait" /\ pc'["mon"] = pc["mon"]
      BY <1>6, <1>7 DEF Cancel
    <2>2. "work" \notin pending' /\ canceller'["work"] = "pm"
      BY <1>7 DEF Cancel, TypeOK
    <2>. QED  BY <2>1, <2>2 DEF SleepInv, Unpolled
  <1>8. CASE Cancelled("pm", "work", "s_wait", "s_cancelusb")
    <2>1. BatteryIn' /\ pc["pm"] = "s_wait" /\ pc'["pm"] = "s_cancelusb" /\ pc'["mon"] = pc["mon"]
      BY <1>6, <1>8 DEF Cancelled
    <2>2. pending' = pending /\ pc["mon"] = "idle" /\ canceller'["work"] = Nobody
      BY <1>8 DEF Cancelled, Running, Runner, TypeOK
    <2>. QED  BY <2>1, <2>2 DEF SleepInv, Unpolled
  <1>9. CASE Cancel("pm", "usbwork", "s_cancelusb", "s_waitusb") \/ Cancelled("pm", "usbwork", "s_waitusb", "s_end")
    <2>1. PICK from \in Stopped, to \in Stopped : At("pm", from) /\ Goto("pm", to) /\ to \notin StoreLabels
      BY <1>9 DEF Cancel, Cancelled
    <2>2. UNCHANGED <<battery, supplyVars, detVars, det>>
      BY <1>9 DEF Cancel, Cancelled
    <2>3. BatteryIn' /\ pc["pm"] = from /\ pc'["pm"] = to /\ pc'["mon"] = pc["mon"]
      BY <1>6, <2>1, <2>2
    <2>4. canceller'["work"] = canceller["work"] /\ ("work" \in pending' <=> "work" \in pending)
      BY <1>9 DEF Cancel, Cancelled, TypeOK
    <2>. QED  BY <2>3, <2>4 DEF SleepInv, Unpolled
  <1>10. CASE Schedule("pm", "r_schedule", "idle", {"work", "usbwork"})
    <2>1. BatteryIn' /\ pc["pm"] = "r_schedule" /\ pc'["pm"] = "idle" /\ pc'["mon"] = pc["mon"]
      BY <1>6, <1>10 DEF Schedule
    <2>2. canceller' = canceller /\ (canceller["work"] = Nobody => "work" \in pending')
      BY <1>10 DEF Schedule, Scheduled
    <2>. QED  BY <2>1, <2>2 DEF SleepInv, Unpolled
  <1>. QED
    BY <1>1, <1>2, <1>3, <1>4, <1>5, <1>7, <1>8, <1>9, <1>10 DEF SuspendOrShutdown, Resume

(* With a battery that stays in, suspend and shutdown stop every poll of it   *)
(* and resume starts the monitor again: outside suspend it is always polled,  *)
(* in suspend never, whatever handlers, timer, axp_usb, axp_usb_isr_delayed   *)
(* and readers are doing.                                                     *)
THEOREM SuspendStopsPolling == ASSUME BatteryStays PROVE Spec => []PolledExceptAsleep
  <1>1. Init => SleepInv
    BY DEF Init, SleepInv, BatteryIn, Unpolled, BatteryStays
  <1>2. TypeOK /\ SleepInv /\ [Next]_vars => SleepInv'
    <2>. SUFFICES ASSUME TypeOK, SleepInv, [Next]_vars PROVE SleepInv'
      OBVIOUS
    <2>1. CASE UNCHANGED vars
      BY <2>1, SleepStutters DEF vars, supplyVars, workVars
    <2>2. CASE OtherEvent \/ HardIrq
      BY <2>2, SleepStutters DEF OtherEvent, HardIrq, supplyVars, workVars
    <2>3. CASE TimerFires
      <3>1. "work" \in pending' <=> "work" \in pending
        BY <2>3 DEF TimerFires, Scheduled
      <3>. QED  BY <2>3, <3>1, SleepStutters DEF TimerFires, supplyVars
    <2>6. ~\E c \in Actors : FirstStore(c)
      BY DEF FirstStore, SleepInv, BatteryIn
    <2>4. ~BatteryMove /\ ~Remove
      BY DEF BatteryMove, Remove, BatteryStays, SetTimer, ClearBatt, Branch, Cancel, Cancelled,
             Unregister, SetInitialized, At
    <2>5. CASE Next
      BY <2>2, <2>3, <2>4, <2>5, <2>6, MonitorSleeps, IrqWorkSleeps, ContextsSleep, PowerSleeps DEF Next
    <2>. QED  BY <2>1, <2>5
  <1>3. SleepInv => PolledExceptAsleep
    BY DEF SleepInv, Unpolled, PolledExceptAsleep, AsleepIsQuiet, PolledWhileRegistered, Running, Runner
  <1>. QED  BY <1>1, <1>2, <1>3, Typing, PTL DEF Spec
=============================================================================
