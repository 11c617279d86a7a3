-------------------------------- MODULE AxpUsb --------------------------------
(***************************************************************************)
(* The USB supply of an AXP2585 (axp-charger.c): from the moment something  *)
(* is plugged in, through the interrupts, the handler delayed by 850 ms, the *)
(* battery charging detection (BC 1.2), the status timer and the work        *)
(* axp_usb, to what user space sees and to the current that is drawn.        *)
(*                                                                          *)
(* Four contexts store the detection and act on it: the interrupt work      *)
(* (irq), axp_usb_isr_delayed (usbin), axp_usb (usb), and the monitor or a  *)
(* reader of the battery's ONLINE property (poll).  axp_charger_update_state *)
(* is two steps, its reads and its stores; axp_usb_ac_check_status is one.  *)
(* A fifth, the USB driver that calls the exported axp_usb_det (usbdet),     *)
(* stores axp_usb_connect as well, without a lock.                          *)
(* The battery's presence does not change (AxpBattery is about that), and   *)
(* pmu_ac_cur, the adapter's limit, is set.                                 *)
(*                                                                          *)
(* Bound: the plug moves at most Moves times.                               *)
(***************************************************************************)
EXTENDS Naturals

CONSTANTS
    Moves,          \* how often the plug may move
    BatDet          \* the values of chg_dev->bat_det looked at

ASSUME UsbAssumption == Moves \in Nat /\ BatDet \subseteq BOOLEAN

(* What can be at the other end of the cable: nothing, a computer's port (SDP *)
(* in BC 1.2), a charger (DCP), or a port that axp_usb_isr_delayed has no case *)
(* for.                                                                       *)
Plugs == {"none", "sdp", "dcp", "other"}
Contexts == {"irq", "usbin", "usb", "poll", "usbdet"}

VARIABLES
    plug,           \* what is plugged in
    moves,          \* how often that has changed
    hasty,          \* the last change came before the one before it was handled
    raced,          \* the plug was last pulled between the read and the store of an axp_usb_det
    latched,        \* latched interrupts
    todo,           \* those whose handlers the running __do_irq has yet to call
    read,           \* those it will acknowledge
    bat_det, in_short,
    det,            \* ac_det, usb_det and so ext_valid; ac_valid, usb_valid
    axp_usbcurflag,
    charging,       \* usb_pc_charging, usb_adapter_charging, ac_charging
    axp_usb_connect,
    limit,          \* the current limit in the PMIC
    delayed,        \* axp_usbin_isr_delayed is scheduled
    timer,          \* usb_status_timer is armed
    usbwork,        \* usbwork is scheduled
    pc,
    got             \* what a context has read, or decided, and not yet stored

env == <<plug, moves, hasty, raced, bat_det, in_short>>
irqs == <<latched, todo, read>>
works == <<delayed, timer, usbwork>>
shown == <<charging, axp_usb_connect>>
vars == <<env, irqs, works, shown, det, axp_usbcurflag, limit, pc, got>>

Init ==
    /\ plug = "none" /\ moves = 0 /\ hasty = FALSE /\ raced = FALSE
    /\ latched = {} /\ todo = {} /\ read = {}
    /\ bat_det \in BatDet /\ in_short \in BOOLEAN
    /\ det = FALSE
    /\ axp_usbcurflag = "USB20"
    /\ charging = [pc |-> FALSE, adapter |-> FALSE, ac |-> FALSE]
    /\ axp_usb_connect = FALSE
    /\ limit = "none"
    /\ delayed = FALSE /\ timer = TRUE /\ usbwork = FALSE
    /\ pc = [c \in Contexts |-> "idle"]
    /\ got = [c \in Contexts |-> "none"]

Goto(c, from, to) == pc[c] = from /\ pc' = [pc EXCEPT ![c] = to]
-----------------------------------------------------------------------------
(* axp_charger_update_state: the two halves of it.                            *)
ReadState(c, from, to) ==
    /\ Goto(c, from, to)
    /\ got' = [got EXCEPT ![c] = plug]
    /\ UNCHANGED <<env, irqs, works, shown, det, axp_usbcurflag, limit>>

StoreState(c, from, to) ==
    /\ Goto(c, from, to)
    /\ det' = (got[c] # "none")
    /\ got' = [got EXCEPT ![c] = "none"]
    /\ UNCHANGED <<env, irqs, works, shown, axp_usbcurflag, limit>>

(* axp_usb_ac_check_status.  Of an AXP2585 ac_valid and usb_valid are the     *)
(* same bit as ext_valid.                                                     *)
Status ==
    LET pccharging == axp_usbcurflag = "USB20" /\ det
        adapter == ~det /\ axp_usbcurflag # "USB20" /\ det
    IN  [pc |-> pccharging, adapter |-> adapter,
         ac |-> IF in_short THEN ~adapter /\ ~pccharging /\ det ELSE det]

CheckStatus(c, from, to) ==
    /\ Goto(c, from, to)
    /\ charging' = Status
    /\ UNCHANGED <<env, irqs, works, axp_usb_connect, det, axp_usbcurflag, limit, got>>

SetTimer(c, from, to, armed) ==
    /\ Goto(c, from, to)
    /\ timer' = armed
    /\ UNCHANGED <<env, irqs, delayed, usbwork, shown, det, axp_usbcurflag, limit, got>>

(* axp_usbac_in: no limit is set with CONFIG_AXP_BC, without which the file   *)
(* does not compile.                                                          *)
axp_usbac_in(c, last) ==
    \/ SetTimer(c, "i_stop", "i_read", FALSE)
    \/ ReadState(c, "i_read", "i_store")
    \/ StoreState(c, "i_store", "i_arm")
    \/ SetTimer(c, "i_arm", "i_check", TRUE)
    \/ CheckStatus(c, "i_check", last)

(* Slip: the timer is not armed. *)
UsbacOutNoTimer(c, last) == CheckStatus(c, "o_arm", last)

axp_usbac_out(c, last) ==
    \/ SetTimer(c, "o_arm", "o_check", TRUE)
    \/ CheckStatus(c, "o_check", last)

(* axp_change: of what it does only the update matters here.                  *)
axp_change(c, last) ==
    \/ ReadState(c, "h_read", "h_store")
    \/ StoreState(c, "h_store", last)
-----------------------------------------------------------------------------
(* The interrupt work: read the status, call the handlers, write back what    *)
(* was read.  INIT_DELAYED_WORK of a work that is scheduled leaves the        *)
(* kernel's list of timers corrupt: "oops".  (On an edge-triggered line an     *)
(* event latched during a pass may have to wait; that is a hasty move.)       *)
Begin ==
    /\ Goto("irq", "idle", "next")
    /\ latched # {}
    /\ todo' = latched /\ read' = latched
    /\ UNCHANGED <<env, latched, works, shown, det, axp_usbcurflag, limit, got>>

(* The bits in their order: ACRE, "usb out", is before ACIN. *)
Dispatch(e, to) ==
    /\ Goto("irq", "next", to)
    /\ e \in todo /\ (e = "usb in" => "usb out" \notin todo)
    /\ todo' = todo \ {e}
    /\ UNCHANGED <<env, latched, read, charging, det, axp_usbcurflag, limit, got>>

axp_usb_in_isr ==
    /\ Dispatch("usb in", IF delayed THEN "oops" ELSE "next")
    /\ delayed' = TRUE
    /\ UNCHANGED <<timer, usbwork, axp_usb_connect>>

(* Slip: the connector is still taken for plugged. *)
OutKeepsConnect == Dispatch("usb out", "h_read") /\ UNCHANGED <<works, axp_usb_connect>>

axp_usb_out_isr ==
    /\ Dispatch("usb out", "h_read")
    /\ axp_usb_connect' = FALSE
    /\ UNCHANGED works

Acknowledge ==
    /\ Goto("irq", "next", "idle")
    /\ todo = {}
    /\ latched' = latched \ read /\ read' = {}
    /\ UNCHANGED <<env, todo, works, shown, det, axp_usbcurflag, limit, got>>

IrqWork ==
    \/ Begin \/ axp_usb_in_isr \/ axp_usb_out_isr \/ Acknowledge
    \/ axp_change("irq", "o_arm") \/ axp_usbac_out("irq", "next")
-----------------------------------------------------------------------------
(* axp_usb_isr_delayed.                                                       *)
StartDelayed ==
    /\ Goto("usbin", "idle", "h_read")
    /\ delayed /\ delayed' = FALSE
    /\ axp_usb_connect' = TRUE
    /\ UNCHANGED <<env, irqs, timer, usbwork, charging, det, axp_usbcurflag, limit, got>>

(* get_bc_result; with nothing plugged in it may still be any old one.        *)
GetBcResult ==
    /\ pc["usbin"] = "bc"
    /\ \E r \in IF plug = "none" THEN Plugs ELSE {plug} :
         pc' = [pc EXCEPT !["usbin"] =
                  CASE r = "dcp" -> "b_limit" [] r = "sdp" -> "b_usb" [] OTHER -> "idle"]
    /\ UNCHANGED <<env, irqs, works, shown, det, axp_usbcurflag, limit, got>>

set_usb_ihold(c, from, to, value) ==
    /\ Goto(c, from, to)
    /\ limit' = value
    /\ got' = [got EXCEPT ![c] = "none"]
    /\ UNCHANGED <<env, irqs, works, shown, det, axp_usbcurflag>>

axp_usbcur(c, from, to, type) ==
    /\ Goto(c, from, to)
    /\ axp_usbcurflag' = type
    /\ UNCHANGED <<env, irqs, works, shown, det, limit, got>>

(* Slip: a computer's port is not reported. *)
BcForgetsPort ==
    \/ StartDelayed
    \/ axp_change("usbin", "i_stop") \/ axp_usbac_in("usbin", "bc")
    \/ GetBcResult
    \/ set_usb_ihold("usbin", "b_limit", "b_ac", "ad") \/ axp_usbcur("usbin", "b_ac", "idle", "AC")
    \/ axp_usbcur("usbin", "b_usb", "idle", axp_usbcurflag)

axp_usb_isr_delayed ==
    \/ StartDelayed
    \/ axp_change("usbin", "i_stop") \/ axp_usbac_in("usbin", "bc")
    \/ GetBcResult
    \/ set_usb_ihold("usbin", "b_limit", "b_ac", "ad") \/ axp_usbcur("usbin", "b_ac", "idle", "AC")
    \/ axp_usbcur("usbin", "b_usb", "idle", "USB20")

(* axp_usb: the limit for what was detected and reported.  The one for a port *)
(* that is not plugged in is the smallest of them: "none".                    *)
DecideLimit ==
    /\ Goto("usb", "u_decide", "u_set")
    /\ got' = [got EXCEPT !["usb"] =
                 CASE ~det -> "none" [] det /\ axp_usbcurflag = "USB20" -> "sdp" [] OTHER -> "dcp"]
    /\ UNCHANGED <<env, irqs, works, shown, det, axp_usbcurflag, limit>>

LimitFor == [none |-> "none", sdp |-> "pc", dcp |-> "ad"]

axp_usb ==
    \/ /\ Goto("usb", "idle", "u_read")
       /\ usbwork /\ usbwork' = FALSE
       /\ UNCHANGED <<env, irqs, delayed, timer, shown, det, axp_usbcurflag, limit, got>>
    \/ ReadState("usb", "u_read", "u_store") \/ StoreState("usb", "u_store", "u_decide")
    \/ DecideLimit
    \/ pc["usb"] = "u_set" /\ set_usb_ihold("usb", "u_set", "idle", LimitFor[got["usb"]])

(* axp_charger_update_usb_state, the timer's function.  The 2 s or 5 s for    *)
(* which it is armed outlast the rest of the handler that armed it.           *)
axp_charger_update_usb_state ==
    /\ timer /\ timer' = FALSE
    /\ pc["irq"] # "o_check"
    /\ pc["usbin"] \notin {"i_check", "bc", "b_limit", "b_ac", "b_usb"}
    /\ charging' = Status
    /\ usbwork' = (usbwork \/ bat_det)
    /\ UNCHANGED <<env, irqs, delayed, axp_usb_connect, det, axp_usbcurflag, limit, pc, got>>

(* The monitor and readers of the battery's properties update the state at    *)
(* any time.                                                                  *)
Poll == ReadState("poll", "idle", "g_store") \/ StoreState("poll", "g_store", "idle")

(* axp_usb_det, which calls axp2585_usb_det: where it reads that something is  *)
(* plugged in it sets axp_usb_connect, whatever has happened since.           *)
axp2585_usb_det ==
    \/ /\ Goto("usbdet", "idle", "d_store")
       /\ plug # "none"
       /\ UNCHANGED <<env, irqs, works, shown, det, axp_usbcurflag, limit, got>>
    \/ /\ Goto("usbdet", "d_store", "idle")
       /\ axp_usb_connect' = TRUE
       /\ UNCHANGED <<env, irqs, works, charging, det, axp_usbcurflag, limit, got>>

(* Something is plugged in or pulled out.                                     *)
Calm ==
    /\ latched = {} /\ ~delayed
    /\ pc["irq"] = "idle" /\ pc["usbin"] = "idle" /\ pc["poll"] = "idle"
    /\ pc["usb"] # "u_store"

Move(p) ==
    /\ moves < Moves /\ moves' = moves + 1
    /\ p # plug /\ "none" \in {p, plug}
    /\ plug' = p
    /\ hasty' = ~Calm /\ raced' = (p = "none" /\ pc["usbdet"] = "d_store")
    /\ latched' = latched \cup {IF p = "none" THEN "usb out" ELSE "usb in"}
    /\ UNCHANGED <<bat_det, in_short, todo, read, works, shown, det, axp_usbcurflag, limit, pc, got>>

Next ==
    \/ \E p \in Plugs : Move(p)
    \/ IrqWork \/ axp_usb_isr_delayed \/ axp_usb \/ Poll
    \/ axp2585_usb_det \/ axp_charger_update_usb_state

Spec == Init /\ [][Next]_vars
-----------------------------------------------------------------------------
(* Nothing is under way.                                                      *)
Quiet == Calm /\ ~timer /\ ~usbwork /\ pc["usb"] = "idle"

(* Whenever nothing is under way axp_usb_connect tells the USB driver the     *)
(* truth, if the last move of the plug came when the one before had been      *)
(* handled, whatever the timer and axp_usb were still doing, and however the   *)
(* plug had bounced earlier.  (After a move that came too soon it may not.)   *)
(* An axp_usb_det that read the old state before the plug was pulled may have *)
(* undone axp_usb_out_isr's 0: then, and only then, it stays 1.               *)
Sane == pc["irq"] # "oops"
ConnectFollows ==
    Quiet /\ ~hasty /\ Sane =>
        /\ plug # "none" => axp_usb_connect
        /\ plug = "none" /\ ~raced => ~axp_usb_connect

(* Then user space is also told of the supply that is there: the usb supply   *)
(* is online exactly for a computer's port, the ac supply for a charger.      *)
(* (With the two inputs not in short it is online for the port as well.)      *)
OnlineShown ==
    Quiet /\ ~hasty /\ Sane /\ plug # "other" =>
        /\ charging.pc = (plug = "sdp")
        /\ (charging.ac \/ charging.adapter) =
             (plug = "dcp" \/ (plug = "sdp" /\ ~in_short))

(* With a battery, the current drawn has then come to the limit of what is    *)
(* plugged in, though the interrupt work, the delayed handler, the timer and  *)
(* axp_usb of the last plug interleave with those of this one.                *)
LimitSettles ==
    Quiet /\ ~hasty /\ Sane /\ bat_det /\ plug # "other" => limit = LimitFor[plug]
=============================================================================
