----------------------------- MODULE AxpBattery -----------------------------
(***************************************************************************)
(* The battery's power supply (axp-charger.c): who registers it with the    *)
(* power-supply class, who takes it away again, and the works that poll the *)
(* battery meanwhile.  Seven kernel contexts share chg_dev->bat_det,        *)
(* chg_dev->batt and battery_initialized:                                   *)
(*                                                                          *)
(*   irq     the interrupt work, which calls the charger's handlers         *)
(*   mon     axp_charging_monitor, a delayed work that re-arms itself       *)
(*   usb     axp_usb, the delayed work usbwork                              *)
(*   usbin   axp_usb_isr_delayed                                            *)
(*   reader  a reader of the battery's ONLINE property                      *)
(*   pm      suspend, resume and shutdown                                   *)
(*   rm      axp_power_supply_unregister, when the driver is removed        *)
(*                                                                          *)
(* What reads the shared fields does not take charger_lock: each access is a *)
(* step of its own, and the lock matters only where axp_charger_update_state *)
(* stores bat_det twice.  Of what that function reads, only the battery's    *)
(* presence matters here.                                                   *)
(***************************************************************************)
EXTENDS Naturals, FiniteSets

CONSTANTS
    Actors,         \* the contexts of this instance
    BatteryAtProbe, \* axp_power_supply_register found a battery
    Interrupts,     \* the interrupts that happen; without "bat in" and "bat out"
                    \* the battery stays as it is
    BusFails,       \* may a register read fail and leave val uninitialised?
    Trigger,        \* of the interrupt line: "edge" or "level"
    DetValid,       \* the values det_valid may have
    SleepSuffices   \* axp_capchange, once it has scheduled the monitor, returns
                    \* before the monitor's msleep(10) is over

AllActors == {"irq", "mon", "usb", "usbin", "reader", "pm", "rm"}
Works == {"work", "usbwork"}
Nobody == "nobody"
Events == {"bat in", "bat out", "change"}

ASSUME BatteryAssumption ==
    /\ Actors \subseteq AllActors
    /\ Interrupts \subseteq Events
    /\ BatteryAtProbe \in BOOLEAN /\ BusFails \in BOOLEAN
    /\ Trigger \in {"edge", "level"} /\ DetValid \subseteq BOOLEAN
    /\ SleepSuffices \in BOOLEAN

VARIABLES
    (* hardware *)
    battery,        \* a battery is plugged in
    latched,        \* latched charger interrupts: while there are any, the line is low
    edge,           \* the interrupt line has gone low and axp_irq has not run yet
    (* axp-core.c *)
    awake,          \* axp_suspend_flag = AXP_NOT_SUSPEND
    queued,         \* axp_irq_work is queued
    todo,           \* events of the running __do_irq whose handlers are still to run
    read,           \* events it will acknowledge
    (* the power-supply class *)
    registered,     \* a supply called "battery" is registered
    (* axp-charger.c *)
    batt,           \* chg_dev->batt : NULL, the registered supply, or an ERR_PTR
    bat_det,        \* chg_dev->bat_det
    det_valid,      \* batt->det_valid = 1: the detection is stored in two steps
    storing,        \* who is between the two, and holds charger_lock
    battery_initialized,
    pending,        \* the works that are scheduled
    canceller,      \* canceller[w] : who is inside cancel_delayed_work_sync(w)
    timer,          \* usb_status_timer is armed
    (* the contexts *)
    pc,
    det             \* det[c] : the register value c has read and not yet stored

irqVars == <<latched, edge, awake, queued, todo, read>>
supplyVars == <<registered, batt, battery_initialized>>
detVars == <<bat_det, det_valid, storing>>
workVars == <<pending, canceller, timer>>
vars == <<battery, irqVars, supplyVars, detVars, workVars, pc, det>>

Init ==
    /\ battery = BatteryAtProbe
    /\ latched = {} /\ edge = FALSE /\ awake = TRUE /\ queued = FALSE /\ todo = {} /\ read = {}
    /\ registered = BatteryAtProbe
    /\ batt = IF BatteryAtProbe THEN "psy" ELSE "NULL"
    /\ bat_det = BatteryAtProbe /\ battery_initialized = BatteryAtProbe
    /\ det_valid \in DetValid /\ storing = Nobody
    /\ pending = {"work"} /\ canceller = [w \in Works |-> Nobody] /\ timer = TRUE
    /\ pc = [c \in AllActors |-> "idle"]
    /\ det = [c \in AllActors |-> FALSE]

At(c, label) == c \in Actors /\ pc[c] = label
Goto(c, label) == pc' = [pc EXCEPT ![c] = label]
-----------------------------------------------------------------------------
(* What the contexts have in common. *)

(* axp_charger_update_state, first half: read the presence registers.        *)
ReadDet(c, from, to) ==
    /\ At(c, from) /\ Goto(c, to)
    /\ \E v \in BOOLEAN : (v = battery \/ BusFails) /\ det' = [det EXCEPT ![c] = v]
    /\ UNCHANGED <<battery, irqVars, supplyVars, detVars, workVars>>

(* Second half: store what was read.  Where det_valid = 1 and a charger is    *)
(* plugged in, 0 is stored first, under the same charger_lock; what tests     *)
(* bat_det does not take the lock.  (Without a charger that first store is 1, *)
(* as is then the battery, and the only one.)                                *)
StoreLabels == {"m_store", "u_store", "g_store", "h_store", "i_store", "c_store",
                "s_store", "r_store"}

FirstStore(c) ==
    /\ pc[c] \in StoreLabels
    /\ det_valid /\ storing = Nobody /\ storing' = c
    /\ bat_det' = FALSE
    /\ UNCHANGED <<battery, irqVars, supplyVars, workVars, det_valid, pc, det>>

StoreDet(c, from, to) ==
    /\ At(c, from) /\ Goto(c, to)
    /\ storing \in {c, Nobody} /\ storing' = Nobody
    /\ bat_det' = det[c]
    /\ det' = [det EXCEPT ![c] = FALSE]
    /\ UNCHANGED <<battery, irqVars, supplyVars, workVars, det_valid>>

(* Branch on a condition of the shared fields. *)
Branch(c, from, cond, yes, no) ==
    /\ At(c, from) /\ Goto(c, IF cond THEN yes ELSE no)
    /\ UNCHANGED <<battery, irqVars, supplyVars, detVars, workVars, det>>

(* chg_dev->batt = power_supply_register(...): the class takes no second     *)
(* supply of the same name and returns an ERR_PTR.                           *)
Register(c, from, to) ==
    /\ At(c, from) /\ Goto(c, to)
    /\ registered' = TRUE
    /\ batt' = IF registered THEN "ERR" ELSE "psy"
    /\ UNCHANGED <<battery, irqVars, battery_initialized, detVars, workVars, det>>

(* power_supply_changed(batt) of anything but a registered supply is an      *)
(* access through NULL, an error value or freed memory.                      *)
BattIsRegistered == batt = "psy" /\ registered
Notify(c, from, to) == Branch(c, from, BattIsRegistered, to, "oops")

(* power_supply_unregister(batt): no new readers of the supply's files, then *)
(* wait for those inside.                                                    *)
Unregister(c, from, to) ==
    /\ At(c, from)
    /\ IF BattIsRegistered THEN Goto(c, to) /\ registered' = FALSE
                           ELSE Goto(c, "oops") /\ registered' = registered
    /\ UNCHANGED <<battery, irqVars, batt, battery_initialized, detVars, workVars, det>>

(* chg_dev->batt = NULL; axp_capchange gets there when the readers have left. *)
ClearBatt(c, from, to) ==
    /\ At(c, from) /\ Goto(c, to)
    /\ c = "irq" => pc["reader"] \notin {"g_read", "g_store"}
    /\ batt' = "NULL"
    /\ UNCHANGED <<battery, irqVars, registered, battery_initialized, detVars, workVars, det>>

SetInitialized(c, from, to, value) ==
    /\ At(c, from) /\ Goto(c, to)
    /\ battery_initialized' = value
    /\ UNCHANGED <<battery, irqVars, registered, batt, detVars, workVars, det>>

(* schedule_delayed_work has no effect on a work that is being cancelled.    *)
Scheduled(ws) == pending \cup {w \in ws : canceller[w] = Nobody}

Schedule(c, from, to, ws) ==
    /\ At(c, from) /\ Goto(c, to)
    /\ pending' = Scheduled(ws)
    /\ UNCHANGED <<battery, irqVars, supplyVars, detVars, canceller, timer, det>>

(* The context that runs a work, and whether it is running. *)
Runner == [work |-> "mon", usbwork |-> "usb"]
Running(w) == pc[Runner[w]] # "idle"

(* cancel_delayed_work_sync: take the work off the queue, keep others from   *)
(* queueing it, and wait until it does not run.                              *)
Cancel(c, w, from, to) ==
    /\ At(c, from) /\ Goto(c, to)
    /\ canceller[w] = Nobody
    /\ canceller' = [canceller EXCEPT ![w] = c]
    /\ pending' = pending \ {w}
    /\ UNCHANGED <<battery, irqVars, supplyVars, detVars, timer, det>>

Cancelled(c, w, from, to) ==
    /\ At(c, from) /\ Goto(c, to)
    /\ ~Running(w)
    /\ canceller' = [canceller EXCEPT ![w] = Nobody]
    /\ UNCHANGED <<battery, irqVars, supplyVars, detVars, pending, timer, det>>

(* The workqueue starts a scheduled work. *)
Start(w, to) ==
    /\ At(Runner[w], "idle") /\ Goto(Runner[w], to)
    /\ w \in pending
    /\ pending' = pending \ {w}
    /\ UNCHANGED <<battery, irqVars, supplyVars, detVars, canceller, timer, det>>
-----------------------------------------------------------------------------
(* axp_charging_monitor *)

(* Slips: without a battery the monitor is not scheduled again; or it cancels *)
(* itself and waits.                                                          *)
MonitorStops ==
    \/ Start("work", "m_read")
    \/ /\ SleepSuffices => pc["irq"] \notin {"c_notify", "c_set"}
       /\ ReadDet("mon", "m_read", "m_store")
    \/ StoreDet("mon", "m_store", "m_test")
    \/ Branch("mon", "m_test", bat_det, "m_init", "idle")
    \/ Branch("mon", "m_init", battery_initialized, "m_change", "m_register")
    \/ Register("mon", "m_register", "m_set")
    \/ SetInitialized("mon", "m_set", "m_change", TRUE)
    \/ \E changed \in BOOLEAN : Branch("mon", "m_change", changed, "m_notify", "m_again")
    \/ Notify("mon", "m_notify", "m_again")
    \/ Schedule("mon", "m_again", "idle", {"work"})

MonitorCancelsItself ==
    \/ Start("work", "m_read")
    \/ ReadDet("mon", "m_read", "m_store")
    \/ StoreDet("mon", "m_store", "m_test")
    \/ Branch("mon", "m_test", bat_det, "m_change", "m_cancel")
    \/ Cancel("mon", "work", "m_cancel", "m_wait")
    \/ Cancelled("mon", "work", "m_wait", "idle")
    \/ \E changed \in BOOLEAN : Branch("mon", "m_change", changed, "m_notify", "m_again")
    \/ Notify("mon", "m_notify", "m_again")
    \/ Schedule("mon", "m_again", "idle", {"work"})

Monitor ==
    \/ Start("work", "m_read")
    \/ /\ SleepSuffices => pc["irq"] \notin {"c_notify", "c_set"}
       /\ ReadDet("mon", "m_read", "m_store")
    \/ StoreDet("mon", "m_store", "m_test")
    \/ Branch("mon", "m_test", bat_det, "m_init", "m_again")
    \/ Branch("mon", "m_init", battery_initialized, "m_change", "m_register")
    \/ Register("mon", "m_register", "m_set")
    \/ SetInitialized("mon", "m_set", "m_change", TRUE)
    \* has the capacity or the direction of the current changed?
    \/ \E changed \in BOOLEAN : Branch("mon", "m_change", changed, "m_notify", "m_again")
    \/ Notify("mon", "m_notify", "m_again")
    \/ Schedule("mon", "m_again", "idle", {"work"})

(* axp_usb: of all it does, only its axp_charger_update_state matters here.  *)
Usb ==
    \/ Start("usbwork", "u_read")
    \/ ReadDet("usb", "u_read", "u_store")
    \/ StoreDet("usb", "u_store", "idle")

(* axp_charger_update_usb_state, the timer's function. *)
TimerFires ==
    /\ timer /\ timer' = FALSE
    /\ pending' = IF bat_det THEN Scheduled({"usbwork"}) ELSE pending
    /\ UNCHANGED <<battery, irqVars, supplyVars, detVars, canceller, pc, det>>

(* axp_battery_get_property of ONLINE; user space is frozen in suspend, and  *)
(* a supply that is not registered has no files.                             *)
Reader ==
    \/ awake /\ registered /\ Branch("reader", "idle", TRUE, "g_read", "idle")
    \/ ReadDet("reader", "g_read", "g_store")
    \/ StoreDet("reader", "g_store", "idle")
-----------------------------------------------------------------------------
(* axp_change *)
Change(c, last) ==
    \/ ReadDet(c, "h_read", "h_store")
    \/ StoreDet(c, "h_store", "h_test")
    \/ Branch(c, "h_test", bat_det, "h_init", last)
    \/ Branch(c, "h_init", battery_initialized, "h_notify", last)
    \/ Notify(c, "h_notify", last)

SetTimer(c, from, to, armed) ==
    /\ At(c, from) /\ Goto(c, to)
    /\ timer' = armed
    /\ UNCHANGED <<battery, irqVars, supplyVars, detVars, pending, canceller, det>>

(* axp_usbac_in: stop the timer, update the state, arm the timer.            *)
UsbAcIn(c, last) ==
    \/ SetTimer(c, "i_stop", "i_read", FALSE)
    \/ ReadDet(c, "i_read", "i_store")
    \/ StoreDet(c, "i_store", "i_arm")
    \/ SetTimer(c, "i_arm", last, TRUE)

(* axp_usb_isr_delayed, some 850 ms after "usb in" *)
UsbIn ==
    \/ awake /\ Branch("usbin", "idle", TRUE, "h_read", "idle")
    \/ Change("usbin", "i_stop")
    \/ UsbAcIn("usbin", "idle")

(* Slip: the monitor is not cancelled. *)
CapChangeKeepsWork ==
    \/ ReadDet("irq", "c_read", "c_store")
    \/ StoreDet("irq", "c_store", "c_test")
    \/ Branch("irq", "c_test", bat_det, "c_in", "c_out")
    \/ Branch("irq", "c_in", battery_initialized, "next", "c_register")
    \/ Register("irq", "c_register", "c_schedule")
    \/ Schedule("irq", "c_schedule", "c_notify", {"usbwork", "work"})
    \/ Notify("irq", "c_notify", "c_set")
    \/ SetInitialized("irq", "c_set", "next", TRUE)
    \/ Branch("irq", "c_out", battery_initialized, "c_unregister", "next")
    \/ Unregister("irq", "c_unregister", "c_null")
    \/ ClearBatt("irq", "c_null", "c_clear")
    \/ SetInitialized("irq", "c_clear", "next", FALSE)

(* axp_capchange *)
CapChange ==
    \/ ReadDet("irq", "c_read", "c_store")
    \/ StoreDet("irq", "c_store", "c_test")
    \/ Branch("irq", "c_test", bat_det, "c_in", "c_out")
    \/ Branch("irq", "c_in", battery_initialized, "next", "c_register")
    \/ Register("irq", "c_register", "c_schedule")
    \/ Schedule("irq", "c_schedule", "c_notify", {"usbwork", "work"})
    \/ Notify("irq", "c_notify", "c_set")
    \/ SetInitialized("irq", "c_set", "next", TRUE)
    \/ Branch("irq", "c_out", battery_initialized, "c_cancel", "next")
    \/ Cancel("irq", "work", "c_cancel", "c_wait")
    \/ Cancelled("irq", "work", "c_wait", "c_cancelusb")
    \/ Cancel("irq", "usbwork", "c_cancelusb", "c_waitusb")
    \/ Cancelled("irq", "usbwork", "c_waitusb", "c_unregister")
    \/ Unregister("irq", "c_unregister", "c_null")
    \/ ClearBatt("irq", "c_null", "c_clear")
    \/ SetInitialized("irq", "c_clear", "next", FALSE)
-----------------------------------------------------------------------------
(* The interrupt work.  Two kinds of interrupts: "bat" (bat in, bat out),    *)
(* whose handler is axp_capchange_isr, and "change", whose handlers begin    *)
(* with axp_change; some of these go on with axp_usbac_in (ac in) or         *)
(* axp_usbac_out (ac out, usb out).                                          *)

Handlers ==
    \/ CapChange
    \/ Change("irq", "h_done")
    \/ Branch("irq", "h_done", TRUE, "next", "next")
    \/ Branch("irq", "h_done", TRUE, "i_stop", "next")
    \/ SetTimer("irq", "h_done", "next", TRUE)
    \/ UsbAcIn("irq", "next")

(* axp_irq queues the work, except in suspend.  An edge is used up either     *)
(* way; what is latched while the line is low already makes no new one.       *)
HardIrq ==
    /\ "irq" \in Actors
    /\ edge \/ (Trigger = "level" /\ latched # {} /\ awake /\ ~queued)
    /\ edge' = FALSE /\ queued' = (queued \/ awake)
    /\ UNCHANGED <<battery, latched, awake, todo, read, supplyVars, detVars, workVars, pc, det>>

Latch(e) ==
    /\ latched' = latched \cup {e}
    /\ edge' = (Trigger = "edge" /\ (edge \/ latched = {}))

(* __do_irq: read the status, call the handlers, write back what was read.   *)
Begin ==
    /\ At("irq", "idle") /\ Goto("irq", "next")
    /\ queued /\ queued' = FALSE
    /\ todo' = latched /\ read' = latched
    /\ UNCHANGED <<battery, latched, edge, awake, supplyVars, detVars, workVars, det>>

Dispatch(e) ==
    /\ At("irq", "next") /\ e \in todo
    /\ Goto("irq", IF e = "change" THEN "h_read" ELSE "c_read")
    /\ todo' = todo \ {e}
    /\ UNCHANGED <<battery, latched, edge, awake, queued, read, supplyVars, detVars, workVars, det>>

(* Slip: write back before every handler has run. *)
AcknowledgeTooSoon ==
    /\ At("irq", "next") /\ Goto("irq", "idle")
    /\ latched' = latched \ read /\ read' = {}
    /\ UNCHANGED <<battery, edge, awake, queued, todo, supplyVars, detVars, workVars, det>>

Acknowledge ==
    /\ At("irq", "next") /\ todo = {} /\ Goto("irq", "idle")
    /\ latched' = latched \ read /\ read' = {}
    /\ UNCHANGED <<battery, edge, awake, queued, todo, supplyVars, detVars, workVars, det>>

IrqWork ==
    \/ Begin \/ Handlers \/ Acknowledge
    \/ \E e \in Events : Dispatch(e)

(* The battery is inserted or pulled; something else is worth an interrupt.  *)
BatteryMove ==
    /\ {"bat in", "bat out"} \subseteq Interrupts
    /\ battery' = ~battery
    /\ Latch(IF battery THEN "bat out" ELSE "bat in")
    /\ UNCHANGED <<awake, queued, todo, read, supplyVars, detVars, workVars, pc, det>>

OtherEvent ==
    /\ "change" \in Interrupts \ latched
    /\ Latch("change")
    /\ UNCHANGED <<battery, awake, queued, todo, read, supplyVars, detVars, workVars, pc, det>>
-----------------------------------------------------------------------------
(* The chip drivers' suspend, resume, shutdown and remove. *)

SetAwake(from, to, value) ==
    /\ At("pm", from) /\ Goto("pm", to)
    /\ awake' = value
    /\ UNCHANGED <<battery, latched, edge, queued, todo, read, supplyVars, detVars, workVars, det>>

(* flush_delayed_work: wait until the work has run.                          *)
Flushed(c, w, from, to) ==
    Branch(c, from, TRUE, to, to) /\ w \notin pending /\ ~Running(w)

(* axp_charger_suspend and axp_charger_shutdown differ only in the flag and  *)
(* the charge current.                                                       *)
SuspendOrShutdown ==
    \/ SetAwake("idle", "s_read", FALSE)
    \/ Branch("pm", "idle", TRUE, "s_read", "idle")
    \/ ReadDet("pm", "s_read", "s_store")
    \/ StoreDet("pm", "s_store", "s_test")
    \/ Branch("pm", "s_test", bat_det, "s_usb", "s_end")
    \/ Schedule("pm", "s_usb", "s_flush", {"usbwork"})
    \/ Flushed("pm", "usbwork", "s_flush", "s_cancel")
    \/ Cancel("pm", "work", "s_cancel", "s_wait")
    \/ Cancelled("pm", "work", "s_wait", "s_cancelusb")
    \/ Cancel("pm", "usbwork", "s_cancelusb", "s_waitusb")
    \/ Cancelled("pm", "usbwork", "s_waitusb", "s_end")
    \/ Branch("pm", "s_end", awake, "down", "asleep")

(* Slip: the monitor is not scheduled. *)
ResumeForgetsWork ==
    \/ SetAwake("asleep", "r_read", TRUE)
    \/ ReadDet("pm", "r_read", "r_store")
    \/ StoreDet("pm", "r_store", "r_test")
    \/ Branch("pm", "r_test", bat_det, "r_notify", "idle")
    \/ Notify("pm", "r_notify", "idle")

Resume ==
    \/ SetAwake("asleep", "r_read", TRUE)
    \/ ReadDet("pm", "r_read", "r_store")
    \/ StoreDet("pm", "r_store", "r_test")
    \/ Branch("pm", "r_test", bat_det, "r_notify", "idle")
    \/ Notify("pm", "r_notify", "r_schedule")
    \/ Schedule("pm", "r_schedule", "idle", {"work", "usbwork"})

(* Slip: the works are not cancelled. *)
RemoveKeepsWork ==
    \/ awake /\ SetTimer("rm", "idle", "x_null", FALSE)
    \/ ClearBatt("rm", "x_null", "x_test")
    \/ Branch("rm", "x_test", bat_det, "x_init", "left")
    \/ Branch("rm", "x_init", battery_initialized, "x_unregister", "left")
    \/ Unregister("rm", "x_unregister", "x_clear")
    \/ ClearBatt("rm", "x_clear", "x_uninit")
    \/ SetInitialized("rm", "x_uninit", "freed", FALSE)

(* axp_power_supply_unregister.  It clears batt where it means usb, so that a *)
(* battery that was registered before is unregistered through NULL ("oops").  *)
(* Then chg_dev is freed ("freed" if the works were cancelled, else "left").  *)
Remove ==
    \/ awake /\ SetTimer("rm", "idle", "x_null", FALSE)
    \/ ClearBatt("rm", "x_null", "x_test")
    \/ Branch("rm", "x_test", bat_det, "x_init", "left")
    \/ Branch("rm", "x_init", battery_initialized, "x_cancel", "left")
    \/ Cancel("rm", "work", "x_cancel", "x_wait")
    \/ Cancelled("rm", "work", "x_wait", "x_cancelusb")
    \/ Cancel("rm", "usbwork", "x_cancelusb", "x_waitusb")
    \/ Cancelled("rm", "usbwork", "x_waitusb", "x_unregister")
    \/ Unregister("rm", "x_unregister", "x_clear")
    \/ ClearBatt("rm", "x_clear", "x_uninit")
    \/ SetInitialized("rm", "x_uninit", "freed", FALSE)
-----------------------------------------------------------------------------
Next ==
    \/ BatteryMove \/ OtherEvent \/ HardIrq \/ TimerFires
    \/ IrqWork \/ Monitor \/ Usb \/ UsbIn \/ Reader
    \/ SuspendOrShutdown \/ Resume \/ Remove
    \/ \E c \in Actors : FirstStore(c)

Spec == Init /\ [][Next]_vars

(* Works run, timers expire, handlers and calls go on once entered.  A work   *)
(* that is wanted by two cancellers is taken by each in turn, and so is        *)
(* charger_lock by those who wait for it: hence the strong fairness.           *)
Fairness ==
    /\ WF_vars(HardIrq) /\ WF_vars(TimerFires)
    /\ SF_vars(IrqWork) /\ SF_vars(Monitor) /\ SF_vars(Usb)
    /\ SF_vars(UsbIn /\ pc["usbin"] # "idle") /\ SF_vars(Reader /\ pc["reader"] # "idle")
    /\ SF_vars((SuspendOrShutdown \/ Resume) /\ pc["pm"] # "idle")

FairSpec == Spec /\ Fairness
-----------------------------------------------------------------------------
Labels ==
    [irq |-> {"idle", "next", "oops", "h_read", "h_store", "h_test", "h_init", "h_notify",
              "h_done", "i_stop", "i_read", "i_store", "i_arm",
              "c_read", "c_store", "c_test", "c_in", "c_register", "c_schedule",
              "c_notify", "c_set", "c_out", "c_cancel", "c_wait", "c_cancelusb",
              "c_waitusb", "c_unregister", "c_null", "c_clear"},
     mon |-> {"idle", "oops", "m_read", "m_store", "m_test", "m_init", "m_register",
              "m_set", "m_change", "m_notify", "m_again"},
     usb |-> {"idle", "u_read", "u_store"},
     usbin |-> {"idle", "oops", "h_read", "h_store", "h_test", "h_init", "h_notify",
                "i_stop", "i_read", "i_store", "i_arm"},
     reader |-> {"idle", "g_read", "g_store"},
     pm |-> {"idle", "oops", "s_read", "s_store", "s_test", "s_usb", "s_flush", "s_cancel",
             "s_wait", "s_cancelusb", "s_waitusb", "s_end", "down", "asleep",
             "r_read", "r_store", "r_test", "r_notify", "r_schedule"},
     rm |-> {"idle", "oops", "x_null", "x_test", "x_init", "x_cancel", "x_wait",
             "x_cancelusb", "x_waitusb", "x_unregister", "x_clear", "x_uninit", "freed",
             "left"}]

(* Types of the variables; contexts outside Actors do nothing, and a pass of  *)
(* __do_irq handles only what it will acknowledge.                           *)
TypeOK ==
    /\ battery \in BOOLEAN /\ latched \in SUBSET Events /\ edge \in BOOLEAN /\ awake \in BOOLEAN
    /\ queued \in BOOLEAN /\ todo \in SUBSET Events /\ read \in SUBSET Events
    /\ registered \in BOOLEAN /\ batt \in {"NULL", "psy", "ERR"} /\ bat_det \in BOOLEAN
    /\ det_valid \in BOOLEAN /\ storing \in AllActors \cup {Nobody}
    /\ battery_initialized \in BOOLEAN /\ pending \in SUBSET Works
    /\ canceller \in [Works -> AllActors \cup {Nobody}] /\ timer \in BOOLEAN
    /\ pc \in [AllActors -> UNION {Labels[c] : c \in AllActors}] /\ det \in [AllActors -> BOOLEAN]
    /\ \A c \in AllActors : pc[c] \in Labels[c] /\ (c \notin Actors => pc[c] = "idle")
    /\ todo \subseteq read /\ (pc["irq"] = "idle" => read = {})

(* power_supply_register is not called for a battery that is registered: the *)
(* class would refuse it and chg_dev->batt would be an error value.          *)
RegisteredOnce == batt # "ERR"

(* The monitor and the interrupt handlers pass power_supply_changed and       *)
(* power_supply_unregister only a registered supply, although axp_capchange   *)
(* takes it away under the monitor and bat_det may be stale or garbage.  (The *)
(* same is not true of axp_usb_isr_delayed and of resume.)                    *)
OnlyRegisteredUsed == pc["mon"] # "oops" /\ pc["irq"] # "oops"

Unregistering == {"c_cancelusb", "c_waitusb", "c_unregister", "c_null", "c_clear"}

(* While the battery is a registered supply somebody polls it: the monitor   *)
(* is scheduled or runs, unless axp_capchange is taking the supply away or    *)
(* the system is in suspend.  Nothing but the monitor itself and resume ever  *)
(* schedule it again.                                                         *)
PolledWhileRegistered ==
    battery_initialized /\ pc["irq"] \notin Unregistering /\ pc["pm"] = "idle" =>
        "work" \in pending \/ Running("work") \/ canceller["work"] # Nobody

(* In suspend nobody polls a registered battery: axp_charger_suspend has      *)
(* cancelled the monitor, and no handler that still runs brings it back.      *)
AsleepIsQuiet ==
    pc["pm"] = "asleep" /\ battery_initialized =>
        "work" \notin pending /\ ~Running("work")

(* Suspend stops every poll of the battery, and resume starts the monitor     *)
(* again, against handlers, timer and axp_usb, on the chips that store the    *)
(* detection once (the AXP202).  On the others suspend and resume may test    *)
(* bat_det between another context's two stores: see the README.              *)
PolledExceptAsleep == ~det_valid => AsleepIsQuiet /\ PolledWhileRegistered

(* When the battery has been registered for good and moves no more, bat_det   *)
(* (the property PRESENT) settles to what is there, whatever stale values     *)
(* were stored on the way, but for the moment between the two stores.         *)
PresentSettles ==
    <>[]battery_initialized =>
        /\ <>[]battery => <>[](storing = Nobody => bat_det)
        /\ <>[]~battery => <>[]~bat_det

(* A battery that stays in is in the end a registered supply.  As long as no  *)
(* axp_capchange has cancelled it, the monitor does not stop looking.         *)
InsertedIsRegistered ==
    <>[](battery /\ pc["rm"] = "idle") => <>[](battery_initialized /\ BattIsRegistered)

(* Every pass of the interrupt work ends: axp_capchange gets through its two  *)
(* cancel_delayed_work_sync although the works schedule themselves, each      *)
(* other and their cancellers.                                                *)
HandlersReturn == pc["irq"] # "idle" ~> pc["irq"] = "idle"

(* When axp_power_supply_unregister takes a battery away, neither of the      *)
(* battery's works is scheduled or runs any more, nor comes back: chg_dev is  *)
(* freed next.                                                               *)
RemovedIsQuiet ==
    pc["rm"] \in {"x_unregister", "x_clear", "x_uninit", "oops", "freed"} =>
        pending = {} /\ \A w \in Works : ~Running(w)
=============================================================================
