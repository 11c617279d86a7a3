---------------------------- MODULE MCAxpBattery ----------------------------
(***************************************************************************)
(* Three set-ups of AxpBattery that one state space holds side by side. A   *)
(* context that a set-up leaves out is "off" from the start.                *)
(*                                                                          *)
(*   Settling  the battery moves, and a reader stores stale detections; the *)
(*             bus works, so that detections come right in the end.  The    *)
(*             timer has fired: axp_capchange alone schedules axp_usb       *)
(*   Late      boot without a battery, and none of its interrupts: only the *)
(*             monitor can find it; the driver may be removed               *)
(*   Sleeper   the battery stays in; suspend, resume and shutdown           *)
(***************************************************************************)
EXTENDS AxpBattery

MCActors == AllActors \ {"usbin"}

SetUps == {{"pm", "rm"}, {"irq", "pm"}, {"reader", "rm"}}

Settling == pc["pm"] = "off" /\ pc["rm"] = "off"
Late == pc["irq"] = "off"
Sleeper == pc["pm"] # "off"

(* Init, for each of the sets of contexts that are off. *)
MCInit ==
    \E off \in SetUps :
        /\ battery = ("irq" \notin off)
        /\ latched = {} /\ edge = FALSE /\ awake = TRUE /\ queued = FALSE /\ todo = {} /\ read = {}
        /\ registered = battery /\ batt = (IF battery THEN "psy" ELSE "NULL")
        /\ det_valid \in DetValid /\ det_valid = ("pm" \in off) /\ storing = Nobody
        /\ bat_det = battery /\ battery_initialized = battery
        /\ pending = {"work"} /\ canceller = [w \in Works |-> Nobody]
        /\ timer = (off # {"pm", "rm"})
        /\ pc = [c \in AllActors |-> IF c \in off THEN "off" ELSE "idle"]
        /\ det = [c \in AllActors |-> FALSE]

(* Next, where the battery moves unless the system can sleep. *)
MCNext ==
    \/ ~Sleeper /\ BatteryMove
    \/ Sleeper /\ OtherEvent
    \/ HardIrq \/ TimerFires \/ IrqWork \/ Monitor \/ Usb \/ Reader
    \/ SuspendOrShutdown \/ Resume \/ Remove
    \/ \E c \in Actors : FirstStore(c)

(* Of AxpBattery's fairness no more than these properties need. *)
MCFairness ==
    /\ WF_vars(HardIrq) /\ SF_vars(IrqWork) /\ SF_vars(Monitor) /\ SF_vars(Usb)
    /\ SF_vars(pc["reader"] # "idle" /\ Reader)

MCSpec == MCInit /\ [][MCNext]_vars /\ MCFairness
-----------------------------------------------------------------------------
(* Stale detections that the monitor, a handler, axp_usb and a reader store do   *)
(* not last.                                                                  *)
DetectionSettles == Settling => PresentSettles

(* axp_capchange always gets through its cancellations.                       *)
CancelsReturn == Settling => HandlersReturn

(* A battery that was not there at boot is found, also when its interrupt is     *)
(* lost: the monitor registers it, whatever axp_usb and readers store.        *)
LateIsRegistered == Late => InsertedIsRegistered
=============================================================================
