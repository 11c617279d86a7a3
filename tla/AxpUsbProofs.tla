---------------------------- MODULE AxpUsbProofs ----------------------------
(***************************************************************************)
(* What a move of the plug comes to, for any number of moves, with and      *)
(* without a battery: the three properties of AxpUsb.                       *)
(***************************************************************************)
EXTENDS AxpUsb, TLAPS

DefinedOn(f, D) == f = [x \in D |-> f[x]]

(* The interrupt that the last move of the plug raised. *)
LastEvent == IF plug = "none" THEN "usb out" ELSE "usb in"

(* It has not been dispatched to its handler, or the handler only schedules   *)
(* axp_usb_isr_delayed and that has not begun.                               *)
Unhandled ==
    \/ pc["irq"] = "idle" /\ latched # {}
    \/ todo # {}
    \/ delayed

(* Nor has the state been updated since. *)
Stale ==
    \/ Unhandled
    \/ pc["irq"] \in {"h_read", "h_store"} \/ pc["usbin"] \in {"h_read", "h_store"}

(* axp_usb_isr_delayed has armed the timer and not returned. *)
Detecting == pc["usbin"] \in {"i_check", "bc", "b_limit", "b_ac", "b_usb"}

(* The handlers of the last move are through, up to the timer. *)
Handled == ~Stale /\ pc["irq"] \notin {"o_arm", "o_check"} /\ pc["usbin"] = "idle"

Shape ==
    /\ DefinedOn(pc, Contexts) /\ DefinedOn(got, Contexts)
    /\ plug \in Plugs
    /\ {hasty, raced, bat_det, in_short, det, axp_usb_connect, timer, usbwork, delayed} \subseteq BOOLEAN
    /\ pc["irq"] = "idle" => todo = {} /\ read = {}

(* How far __do_irq and axp_usb_isr_delayed are with the last move. *)
Progress ==
    /\ latched \subseteq {LastEvent} /\ todo \subseteq {LastEvent}
    /\ pc["irq"] # "idle" => latched = {LastEvent} /\ read = {LastEvent}
    /\ todo # {} => pc["irq"] = "next"
    /\ pc["irq"] \in {"idle", "next"} \cup
                     (IF plug = "none" THEN {"h_read", "h_store", "o_arm", "o_check"} ELSE {})
    /\ delayed \/ pc["usbin"] # "idle" => plug # "none"
    /\ Unhandled => pc["usbin"] = "idle"
    /\ delayed => todo = {} /\ (pc["irq"] = "idle" => latched = {})
    /\ plug # "none" /\ pc["usbin"] # "idle" => pc["irq"] = "next" \/ latched = {}

(* What is stored of it. *)
Stored ==
    /\ pc["irq"] = "h_store" => got["irq"] = plug
    /\ pc["usbin"] \in {"h_store", "i_store"} => got["usbin"] = plug
    /\ pc["usb"] = "u_store" => got["usb"] = plug
    /\ pc["poll"] = "g_store" => got["poll"] = plug
    /\ ~Stale => (det <=> plug # "none")
    /\ ~Unhandled => /\ plug # "none" => axp_usb_connect
                     /\ plug = "none" /\ ~raced => ~axp_usb_connect
    /\ plug = "none" /\ ~raced => pc["usbdet"] # "d_store"

(* What charging detection has found, once it is through. *)
FlagRight ==
    /\ plug = "sdp" => axp_usbcurflag = "USB20"
    /\ plug = "dcp" => axp_usbcurflag = "AC"

Detected ==
    /\ pc["usbin"] \in {"b_limit", "b_ac"} => plug = "dcp"
    /\ pc["usbin"] = "b_usb" => plug = "sdp"
    /\ Detecting \/ pc["irq"] = "o_check" => timer
    /\ Handled => FlagRight

(* A wrong limit is still to be corrected. *)
LimitComing ==
    \/ timer \/ usbwork \/ pc["usb"] \in {"u_read", "u_store", "u_decide"}
    \/ pc["usb"] = "u_set" /\ got["usb"] = plug
    \/ pc["usb"] = "idle" /\ limit = LimitFor[plug]

Settling ==
    /\ Handled => timer \/ charging = Status
    /\ Handled /\ bat_det /\ plug # "other" => LimitComing

Inv == Shape /\ (~hasty => Progress /\ Stored /\ Detected /\ Settling)

USE DEF DefinedOn, Contexts, Plugs
-----------------------------------------------------------------------------
Steady == Progress /\ Stored /\ Detected /\ Settling
-----------------------------------------------------------------------------
(* __do_irq, axp_usb_in_isr, axp_usb_out_isr *)
LEMMA IrqWorkKeeps ==
    ASSUME Shape, Steady, ~hasty, IrqWork
    PROVE  Steady'
  <1>1. CASE Begin
    <2>. USE DEF Steady, Goto, env, irqs, works, shown, Begin
    <2>1. /\ pc["irq"] = "idle" /\ pc'["irq"] = "next"
          /\ pc'["usbin"] = pc["usbin"] /\ pc'["usb"] = pc["usb"] /\ pc'["poll"] = pc["poll"]
          /\ pc'["usbdet"] = pc["usbdet"]
      BY <1>1 DEF Shape
    <2>2. latched = {LastEvent}
      BY <1>1, <2>1 DEF Progress
    <2>3. Progress'
      BY <1>1, <2>1, <2>2 DEF Shape, Progress, LastEvent, Unhandled
    <2>4. Stored'
      BY <1>1, <2>1 DEF Shape, Progress, Stored, LastEvent, Unhandled, Stale
    <2>5. Detected'
      BY <1>1, <2>1 DEF Shape, Progress, Stored, Detected, Detecting, Stale, LastEvent, Handled, Unhandled,
           FlagRight
    <2>6. Settling'
      BY <1>1, <2>1 DEF Shape, Progress, Stored, Detected, Settling, Detecting, Stale, Handled, LastEvent,
           Unhandled, FlagRight, LimitComing, LimitFor, Status
    <2>. QED  BY <2>3, <2>4, <2>5, <2>6
  <1>2. CASE axp_usb_in_isr
    <2>. USE DEF Steady, Goto, env, irqs, works, shown, axp_usb_in_isr, Dispatch
    <2>1. /\ pc["irq"] = "next" /\ pc'["irq"] = "next"
          /\ pc'["usbin"] = pc["usbin"] /\ pc'["usb"] = pc["usb"] /\ pc'["poll"] = pc["poll"]
          /\ pc'["usbdet"] = pc["usbdet"]
      BY <1>2 DEF Shape, Progress
    <2>2. Progress'
      BY <1>2, <2>1 DEF Shape, Progress, LastEvent, Unhandled
    <2>3. Stored'
      BY <1>2, <2>1 DEF Shape, Progress, Stored, LastEvent, Unhandled, Stale
    <2>4. Detected'
      BY <1>2, <2>1 DEF Shape, Progress, Stored, Detected, Detecting, Stale, LastEvent, Handled, Unhandled,
           FlagRight
    <2>5. Settling'
      BY <1>2, <2>1 DEF Shape, Progress, Stored, Detected, Settling, Detecting, Stale, Handled, LastEvent,
           Unhandled, FlagRight, LimitComing, LimitFor, Status
    <2>. QED  BY <2>2, <2>3, <2>4, <2>5
  <1>3. CASE axp_usb_out_isr
    <2>. USE DEF Steady, Goto, env, irqs, works, shown, axp_usb_out_isr, Dispatch
    <2>1. /\ pc["irq"] = "next" /\ pc'["irq"] = "h_read"
          /\ pc'["usbin"] = pc["usbin"] /\ pc'["usb"] = pc["usb"] /\ pc'["poll"] = pc["poll"]
          /\ pc'["usbdet"] = pc["usbdet"]
      BY <1>3 DEF Shape
    <2>2. Progress'
      BY <1>3, <2>1 DEF Shape, Progress, LastEvent, Unhandled
    <2>3. Stored'
      BY <1>3, <2>1 DEF Shape, Progress, Stored, LastEvent, Unhandled, Stale
    <2>4. Detected'
      BY <1>3, <2>1 DEF Shape, Progress, Stored, Detected, Detecting, Stale, LastEvent, Handled, Unhandled,
           FlagRight
    <2>5. Settling'
      BY <1>3, <2>1 DEF Shape, Progress, Stored, Detected, Settling, Detecting, Stale, Handled, LastEvent,
           Unhandled, FlagRight, LimitComing, LimitFor, Status
    <2>. QED  BY <2>2, <2>3, <2>4, <2>5
  <1>4. CASE Acknowledge
    <2>. USE DEF Steady, Goto, env, irqs, works, shown, Acknowledge
    <2>1. /\ pc["irq"] = "next" /\ pc'["irq"] = "idle"
          /\ pc'["usbin"] = pc["usbin"] /\ pc'["usb"] = pc["usb"] /\ pc'["poll"] = pc["poll"]
          /\ pc'["usbdet"] = pc["usbdet"]
      BY <1>4 DEF Shape
    <2>2. Progress'
      BY <1>4, <2>1 DEF Shape, Progress, LastEvent, Unhandled
    <2>3. Stored'
      BY <1>4, <2>1 DEF Shape, Progress, Stored, LastEvent, Unhandled, Stale
    <2>4. Detected'
      BY <1>4, <2>1 DEF Shape, Progress, Stored, Detected, Detecting, Stale, LastEvent, Handled, Unhandled,
           FlagRight
    <2>5. Settling'
      BY <1>4, <2>1 DEF Shape, Progress, Stored, Detected, Settling, Detecting, Stale, Handled, LastEvent,
           Unhandled, FlagRight, LimitComing, LimitFor, Status
    <2>. QED  BY <2>2, <2>3, <2>4, <2>5
  <1>5. CASE ReadState("irq", "h_read", "h_store")
    <2>. USE DEF Steady, Goto, env, irqs, works, shown, ReadState
    <2>1. /\ pc["irq"] = "h_read" /\ pc'["irq"] = "h_store"
          /\ pc'["usbin"] = pc["usbin"] /\ pc'["usb"] = pc["usb"] /\ pc'["poll"] = pc["poll"]
          /\ pc'["usbdet"] = pc["usbdet"]
      BY <1>5 DEF Shape
    <2>2. Progress'
      BY <1>5, <2>1 DEF Shape, Progress, LastEvent, Unhandled
    <2>3. Stored'
      BY <1>5, <2>1 DEF Shape, Progress, Stored, LastEvent, Unhandled, Stale
    <2>4. Detected'
      BY <1>5, <2>1 DEF Shape, Progress, Stored, Detected, Detecting, Stale, LastEvent, Handled, Unhandled,
           FlagRight
    <2>5. Settling'
      BY <1>5, <2>1 DEF Shape, Progress, Stored, Detected, Settling, Detecting, Stale, Handled, LastEvent,
           Unhandled, FlagRight, LimitComing, LimitFor, Status
    <2>. QED  BY <2>2, <2>3, <2>4, <2>5
  <1>6. CASE StoreState("irq", "h_store", "o_arm")
    <2>. USE DEF Steady, Goto, env, irqs, works, shown, StoreState
    <2>1. /\ pc["irq"] = "h_store" /\ pc'["irq"] = "o_arm"
          /\ pc'["usbin"] = pc["usbin"] /\ pc'["usb"] = pc["usb"] /\ pc'["poll"] = pc["poll"]
          /\ pc'["usbdet"] = pc["usbdet"]
      BY <1>6 DEF Shape
    <2>2. Progress'
      BY <1>6, <2>1 DEF Shape, Progress, LastEvent, Unhandled
    <2>3. Stored'
      BY <1>6, <2>1 DEF Shape, Progress, Stored, LastEvent, Unhandled, Stale
    <2>4. Detected'
      BY <1>6, <2>1 DEF Shape, Progress, Stored, Detected, Detecting, Stale, LastEvent, Handled, Unhandled,
           FlagRight
    <2>5. Settling'
      BY <1>6, <2>1 DEF Shape, Progress, Stored, Detected, Settling, Detecting, Stale, Handled, LastEvent,
           Unhandled, FlagRight, LimitComing, LimitFor, Status
    <2>. QED  BY <2>2, <2>3, <2>4, <2>5
  <1>7. CASE SetTimer("irq", "o_arm", "o_check", TRUE)
    <2>. USE DEF Steady, Goto, env, irqs, works, shown, SetTimer
    <2>1. /\ pc["irq"] = "o_arm" /\ pc'["irq"] = "o_check"
          /\ pc'["usbin"] = pc["usbin"] /\ pc'["usb"] = pc["usb"] /\ pc'["poll"] = pc["poll"]
          /\ pc'["usbdet"] = pc["usbdet"]
      BY <1>7 DEF Shape
    <2>2. Progress'
      BY <1>7, <2>1 DEF Shape, Progress, LastEvent, Unhandled
    <2>3. Stored'
      BY <1>7, <2>1 DEF Shape, Progress, Stored, LastEvent, Unhandled, Stale
    <2>4. Detected'
      BY <1>7, <2>1 DEF Shape, Progress, Stored, Detected, Detecting, Stale, LastEvent, Handled, Unhandled,
           FlagRight
    <2>5. Settling'
      BY <1>7, <2>1 DEF Shape, Progress, Stored, Detected, Settling, Detecting, Stale, Handled, LastEvent,
           Unhandled, FlagRight, LimitComing, LimitFor, Status
    <2>. QED  BY <2>2, <2>3, <2>4, <2>5
  <1>8. CASE CheckStatus("irq", "o_check", "next")
    <2>. USE DEF Steady, Goto, env, irqs, works, shown, CheckStatus
    <2>1. /\ pc["irq"] = "o_check" /\ pc'["irq"] = "next"
          /\ pc'["usbin"] = pc["usbin"] /\ pc'["usb"] = pc["usb"] /\ pc'["poll"] = pc["poll"]
          /\ pc'["usbdet"] = pc["usbdet"]
      BY <1>8 DEF Shape
    <2>2. Progress'
      BY <1>8, <2>1 DEF Shape, Progress, LastEvent, Unhandled
    <2>3. Stored'
      BY <1>8, <2>1 DEF Shape, Progress, Stored, LastEvent, Unhandled, Stale
    <2>4. Detected'
      BY <1>8, <2>1 DEF Shape, Progress, Stored, Detected, Detecting, Stale, LastEvent, Handled, Unhandled,
           FlagRight
    <2>5. Settling'
      BY <1>8, <2>1 DEF Shape, Progress, Stored, Detected, Settling, Detecting, Stale, Handled, LastEvent,
           Unhandled, FlagRight, LimitComing, LimitFor, Status
    <2>. QED  BY <2>2, <2>3, <2>4, <2>5
  <1>. QED
    BY <1>1, <1>2, <1>3, <1>4, <1>5, <1>6, <1>7, <1>8 DEF IrqWork, axp_change, axp_usbac_out
-----------------------------------------------------------------------------
(* axp_usb_isr_delayed and the battery charging detection *)
LEMMA DelayedKeeps ==
    ASSUME Shape, Steady, ~hasty, axp_usb_isr_delayed
    PROVE  Steady'
  <1>1. CASE StartDelayed
    <2>. USE DEF Steady, Goto, env, irqs, works, shown, StartDelayed
    <2>1. /\ pc["usbin"] = "idle" /\ pc'["usbin"] = "h_read"
          /\ pc'["irq"] = pc["irq"] /\ pc'["usb"] = pc["usb"] /\ pc'["poll"] = pc["poll"]
          /\ pc'["usbdet"] = pc["usbdet"]
      BY <1>1 DEF Shape
    <2>2. Progress'
      BY <1>1, <2>1 DEF Shape, Progress, LastEvent, Unhandled
    <2>3. Stored'
      BY <1>1, <2>1 DEF Shape, Progress, Stored, LastEvent, Unhandled, Stale
    <2>4. Detected'
      BY <1>1, <2>1 DEF Shape, Progress, Stored, Detected, Detecting, Stale, LastEvent, Handled, Unhandled,
           FlagRight
    <2>5. Settling'
      BY <1>1, <2>1 DEF Shape, Progress, Stored, Detected, Settling, Detecting, Stale, Handled, LastEvent,
           Unhandled, FlagRight, LimitComing, LimitFor, Status
    <2>. QED  BY <2>2, <2>3, <2>4, <2>5
  <1>2. CASE ReadState("usbin", "h_read", "h_store")
    <2>. USE DEF Steady, Goto, env, irqs, works, shown, ReadState
    <2>1. /\ pc["usbin"] = "h_read" /\ pc'["usbin"] = "h_store"
          /\ pc'["irq"] = pc["irq"] /\ pc'["usb"] = pc["usb"] /\ pc'["poll"] = pc["poll"]
          /\ pc'["usbdet"] = pc["usbdet"]
      BY <1>2 DEF Shape
    <2>2. Progress'
      BY <1>2, <2>1 DEF Shape, Progress, LastEvent, Unhandled
    <2>3. Stored'
      BY <1>2, <2>1 DEF Shape, Progress, Stored, LastEvent, Unhandled, Stale
    <2>4. Detected'
      BY <1>2, <2>1 DEF Shape, Progress, Stored, Detected, Detecting, Stale, LastEvent, Handled, Unhandled,
           FlagRight
    <2>5. Settling'
      BY <1>2, <2>1 DEF Shape, Progress, Stored, Detected, Settling, Detecting, Stale, Handled, LastEvent,
           Unhandled, FlagRight, LimitComing, LimitFor, Status
    <2>. QED  BY <2>2, <2>3, <2>4, <2>5
  <1>3. CASE StoreState("usbin", "h_store", "i_stop")
    <2>. USE DEF Steady, Goto, env, irqs, works, shown, StoreState
    <2>1. /\ pc["usbin"] = "h_store" /\ pc'["usbin"] = "i_stop"
          /\ pc'["irq"] = pc["irq"] /\ pc'["usb"] = pc["usb"] /\ pc'["poll"] = pc["poll"]
          /\ pc'["usbdet"] = pc["usbdet"]
      BY <1>3 DEF Shape
    <2>2. Progress'
      BY <1>3, <2>1 DEF Shape, Progress, LastEvent, Unhandled
    <2>3. Stored'
      BY <1>3, <2>1 DEF Shape, Progress, Stored, LastEvent, Unhandled, Stale
    <2>4. Detected'
      BY <1>3, <2>1 DEF Shape, Progress, Stored, Detected, Detecting, Stale, LastEvent, Handled, Unhandled,
           FlagRight
    <2>5. Settling'
      BY <1>3, <2>1 DEF Shape, Progress, Stored, Detected, Settling, Detecting, Stale, Handled, LastEvent,
           Unhandled, FlagRight, LimitComing, LimitFor, Status
    <2>. QED  BY <2>2, <2>3, <2>4, <2>5
  <1>4. CASE SetTimer("usbin", "i_stop", "i_read", FALSE)
    <2>. USE DEF Steady, Goto, env, irqs, works, shown, SetTimer
    <2>1. /\ pc["usbin"] = "i_stop" /\ pc'["usbin"] = "i_read"
          /\ pc'["irq"] = pc["irq"] /\ pc'["usb"] = pc["usb"] /\ pc'["poll"] = pc["poll"]
          /\ pc'["usbdet"] = pc["usbdet"]
      BY <1>4 DEF Shape
    <2>2. Progress'
      BY <1>4, <2>1 DEF Shape, Progress, LastEvent, Unhandled
    <2>3. Stored'
      BY <1>4, <2>1 DEF Shape, Progress, Stored, LastEvent, Unhandled, Stale
    <2>4. Detected'
      BY <1>4, <2>1 DEF Shape, Progress, Stored, Detected, Detecting, Stale, LastEvent, Handled, Unhandled,
           FlagRight
    <2>5. Settling'
      BY <1>4, <2>1 DEF Shape, Progress, Stored, Detected, Settling, Detecting, Stale, Handled, LastEvent,
           Unhandled, FlagRight, LimitComing, LimitFor, Status
    <2>. QED  BY <2>2, <2>3, <2>4, <2>5
  <1>5. CASE ReadState("usbin", "i_read", "i_store")
    <2>. USE DEF Steady, Goto, env, irqs, works, shown, ReadState
    <2>1. /\ pc["usbin"] = "i_read" /\ pc'["usbin"] = "i_store"
          /\ pc'["irq"] = pc["irq"] /\ pc'["usb"] = pc["usb"] /\ pc'["poll"] = pc["poll"]
          /\ pc'["usbdet"] = pc["usbdet"]
      BY <1>5 DEF Shape
    <2>2. Progress'
      BY <1>5, <2>1 DEF Shape, Progress, LastEvent, Unhandled
    <2>3. Stored'
      BY <1>5, <2>1 DEF Shape, Progress, Stored, LastEvent, Unhandled, Stale
    <2>4. Detected'
      BY <1>5, <2>1 DEF Shape, Progress, Stored, Detected, Detecting, Stale, LastEvent, Handled, Unhandled,
           FlagRight
    <2>5. Settling'
      BY <1>5, <2>1 DEF Shape, Progress, Stored, Detected, Settling, Detecting, Stale, Handled, LastEvent,
           Unhandled, FlagRight, LimitComing, LimitFor, Status
    <2>. QED  BY <2>2, <2>3, <2>4, <2>5
  <1>6. CASE StoreState("usbin", "i_store", "i_arm")
    <2>. USE DEF Steady, Goto, env, irqs, works, shown, StoreState
    <2>1. /\ pc["usbin"] = "i_store" /\ pc'["usbin"] = "i_arm"
          /\ pc'["irq"] = pc["irq"] /\ pc'["usb"] = pc["usb"] /\ pc'["poll"] = pc["poll"]
          /\ pc'["usbdet"] = pc["usbdet"]
      BY <1>6 DEF Shape
    <2>2. Progress'
      BY <1>6, <2>1 DEF Shape, Progress, LastEvent, Unhandled
    <2>3. Stored'
      BY <1>6, <2>1 DEF Shape, Progress, Stored, LastEvent, Unhandled, Stale
    <2>4. Detected'
      BY <1>6, <2>1 DEF Shape, Progress, Stored, Detected, Detecting, Stale, LastEvent, Handled, Unhandled,
           FlagRight
    <2>5. Settling'
      BY <1>6, <2>1 DEF Shape, Progress, Stored, Detected, Settling, Detecting, Stale, Handled, LastEvent,
           Unhandled, FlagRight, LimitComing, LimitFor, Status
    <2>. QED  BY <2>2, <2>3, <2>4, <2>5
  <1>7. CASE SetTimer("usbin", "i_arm", "i_check", TRUE)
    <2>. USE DEF Steady, Goto, env, irqs, works, shown, SetTimer
    <2>1. /\ pc["usbin"] = "i_arm" /\ pc'["usbin"] = "i_check"
          /\ pc'["irq"] = pc["irq"] /\ pc'["usb"] = pc["usb"] /\ pc'["poll"] = pc["poll"]
          /\ pc'["usbdet"] = pc["usbdet"]
      BY <1>7 DEF Shape
    <2>2. Progress'
      BY <1>7, <2>1 DEF Shape, Progress, LastEvent, Unhandled
    <2>3. Stored'
      BY <1>7, <2>1 DEF Shape, Progress, Stored, LastEvent, Unhandled, Stale
    <2>4. Detected'
      BY <1>7, <2>1 DEF Shape, Progress, Stored, Detected, Detecting, Stale, LastEvent, Handled, Unhandled,
           FlagRight
    <2>5. Settling'
      BY <1>7, <2>1 DEF Shape, Progress, Stored, Detected, Settling, Detecting, Stale, Handled, LastEvent,
           Unhandled, FlagRight, LimitComing, LimitFor, Status
    <2>. QED  BY <2>2, <2>3, <2>4, <2>5
  <1>8. CASE CheckStatus("usbin", "i_check", "bc")
    <2>. USE DEF Steady, Goto, env, irqs, works, shown, CheckStatus
    <2>1. /\ pc["usbin"] = "i_check" /\ pc'["usbin"] = "bc"
          /\ pc'["irq"] = pc["irq"] /\ pc'["usb"] = pc["usb"] /\ pc'["poll"] = pc["poll"]
          /\ pc'["usbdet"] = pc["usbdet"]
      BY <1>8 DEF Shape
    <2>2. Progress'
      BY <1>8, <2>1 DEF Shape, Progress, LastEvent, Unhandled
    <2>3. Stored'
      BY <1>8, <2>1 DEF Shape, Progress, Stored, LastEvent, Unhandled, Stale
    <2>4. Detected'
      BY <1>8, <2>1 DEF Shape, Progress, Stored, Detected, Detecting, Stale, LastEvent, Handled, Unhandled,
           FlagRight
    <2>5. Settling'
      BY <1>8, <2>1 DEF Shape, Progress, Stored, Detected, Settling, Detecting, Stale, Handled, LastEvent,
           Unhandled, FlagRight, LimitComing, LimitFor, Status
    <2>. QED  BY <2>2, <2>3, <2>4, <2>5
  <1>9. CASE GetBcResult
    <2>. USE DEF Steady, Goto, env, irqs, works, shown, GetBcResult
    <2>1. /\ pc["usbin"] = "bc"
          /\ pc'["irq"] = pc["irq"] /\ pc'["usb"] = pc["usb"] /\ pc'["poll"] = pc["poll"]
          /\ pc'["usbdet"] = pc["usbdet"]
      BY <1>9 DEF Shape
    <2>2. Progress'
      BY <1>9, <2>1 DEF Shape, Progress, LastEvent, Unhandled
    <2>3. Stored'
      BY <1>9, <2>1 DEF Shape, Progress, Stored, LastEvent, Unhandled, Stale
    <2>4. Detected'
      BY <1>9, <2>1 DEF Shape, Progress, Stored, Detected, Detecting, Stale, LastEvent, Handled, Unhandled,
           FlagRight
    <2>5. Settling'
      BY <1>9, <2>1 DEF Shape, Progress, Stored, Detected, Settling, Detecting, Stale, Handled, LastEvent,
           Unhandled, FlagRight, LimitComing, LimitFor, Status
    <2>. QED  BY <2>2, <2>3, <2>4, <2>5
  <1>10. CASE set_usb_ihold("usbin", "b_limit", "b_ac", "ad")
    <2>. USE DEF Steady, Goto, env, irqs, works, shown, set_usb_ihold
    <2>1. /\ pc["usbin"] = "b_limit" /\ pc'["usbin"] = "b_ac"
          /\ pc'["irq"] = pc["irq"] /\ pc'["usb"] = pc["usb"] /\ pc'["poll"] = pc["poll"]
          /\ pc'["usbdet"] = pc["usbdet"]
      BY <1>10 DEF Shape
    <2>2. Progress'
      BY <1>10, <2>1 DEF Shape, Progress, LastEvent, Unhandled
    <2>3. Stored'
      BY <1>10, <2>1 DEF Shape, Progress, Stored, LastEvent, Unhandled, Stale
    <2>4. Detected'
      BY <1>10, <2>1 DEF Shape, Progress, Stored, Detected, Detecting, Stale, LastEvent, Handled, Unhandled,
           FlagRight
    <2>5. Settling'
      BY <1>10, <2>1 DEF Shape, Progress, Stored, Detected, Settling, Detecting, Stale, Handled, LastEvent,
           Unhandled, FlagRight, LimitComing, LimitFor, Status
    <2>. QED  BY <2>2, <2>3, <2>4, <2>5
  <1>11. CASE axp_usbcur("usbin", "b_ac", "idle", "AC")
    <2>. USE DEF Steady, Goto, env, irqs, works, shown, axp_usbcur
    <2>1. /\ pc["usbin"] = "b_ac" /\ pc'["usbin"] = "idle"
          /\ pc'["irq"] = pc["irq"] /\ pc'["usb"] = pc["usb"] /\ pc'["poll"] = pc["poll"]
          /\ pc'["usbdet"] = pc["usbdet"]
      BY <1>11 DEF Shape
    <2>2. Progress'
      BY <1>11, <2>1 DEF Shape, Progress, LastEvent, Unhandled
    <2>3. Stored'
      BY <1>11, <2>1 DEF Shape, Progress, Stored, LastEvent, Unhandled, Stale
    <2>4. Detected'
      BY <1>11, <2>1 DEF Shape, Progress, Stored, Detected, Detecting, Stale, LastEvent, Handled, Unhandled,
           FlagRight
    <2>5. Settling'
      BY <1>11, <2>1 DEF Shape, Progress, Stored, Detected, Settling, Detecting, Stale, Handled, LastEvent,
           Unhandled, FlagRight, LimitComing, LimitFor, Status
    <2>. QED  BY <2>2, <2>3, <2>4, <2>5
  <1>12. CASE axp_usbcur("usbin", "b_usb", "idle", "USB20")
    <2>. USE DEF Steady, Goto, env, irqs, works, shown, axp_usbcur
    <2>1. /\ pc["usbin"] = "b_usb" /\ pc'["usbin"] = "idle"
          /\ pc'["irq"] = pc["irq"] /\ pc'["usb"] = pc["usb"] /\ pc'["poll"] = pc["poll"]
          /\ pc'["usbdet"] = pc["usbdet"]
      BY <1>12 DEF Shape
    <2>2. Progress'
      BY <1>12, <2>1 DEF Shape, Progress, LastEvent, Unhandled
    <2>3. Stored'
      BY <1>12, <2>1 DEF Shape, Progress, Stored, LastEvent, Unhandled, Stale
    <2>4. Detected'
      BY <1>12, <2>1 DEF Shape, Progress, Stored, Detected, Detecting, Stale, LastEvent, Handled, Unhandled,
           FlagRight
    <2>5. Settling'
      BY <1>12, <2>1 DEF Shape, Progress, Stored, Detected, Settling, Detecting, Stale, Handled, LastEvent,
           Unhandled, FlagRight, LimitComing, LimitFor, Status
    <2>. QED  BY <2>2, <2>3, <2>4, <2>5
  <1>. QED
    BY <1>1, <1>2, <1>3, <1>4, <1>5, <1>6, <1>7, <1>8, <1>9, <1>10, <1>11, <1>12 DEF axp_usb_isr_delayed, axp_change, axp_usbac_in
-----------------------------------------------------------------------------
(* axp_usb *)
LEMMA UsbKeeps ==
    ASSUME Shape, Steady, ~hasty, axp_usb
    PROVE  Steady'
  <1>1. CASE /\ Goto("usb", "idle", "u_read")
             /\ usbwork /\ usbwork' = FALSE
             /\ UNCHANGED <<env, irqs, delayed, timer, shown, det, axp_usbcurflag, limit, got>>
    <2>. USE DEF Steady, Goto, env, irqs, works, shown
    <2>1. /\ pc["usb"] = "idle" /\ pc'["usb"] = "u_read"
          /\ pc'["irq"] = pc["irq"] /\ pc'["usbin"] = pc["usbin"] /\ pc'["poll"] = pc["poll"]
          /\ pc'["usbdet"] = pc["usbdet"]
      BY <1>1 DEF Shape
    <2>2. Progress'
      BY <1>1, <2>1 DEF Shape, Progress, LastEvent, Unhandled
    <2>3. Stored'
      BY <1>1, <2>1 DEF Shape, Progress, Stored, LastEvent, Unhandled, Stale
    <2>4. Detected'
      BY <1>1, <2>1 DEF Shape, Progress, Stored, Detected, Detecting, Stale, LastEvent, Handled, Unhandled,
           FlagRight
    <2>5. Settling'
      BY <1>1, <2>1 DEF Shape, Progress, Stored, Detected, Settling, Detecting, Stale, Handled, LastEvent,
           Unhandled, FlagRight, LimitComing, LimitFor, Status
    <2>. QED  BY <2>2, <2>3, <2>4, <2>5
  <1>2. CASE ReadState("usb", "u_read", "u_store")
    <2>. USE DEF Steady, Goto, env, irqs, works, shown, ReadState
    <2>1. /\ pc["usb"] = "u_read" /\ pc'["usb"] = "u_store"
          /\ pc'["irq"] = pc["irq"] /\ pc'["usbin"] = pc["usbin"] /\ pc'["poll"] = pc["poll"]
          /\ pc'["usbdet"] = pc["usbdet"]
      BY <1>2 DEF Shape
    <2>2. Progress'
      BY <1>2, <2>1 DEF Shape, Progress, LastEvent, Unhandled
    <2>3. Stored'
      BY <1>2, <2>1 DEF Shape, Progress, Stored, LastEvent, Unhandled, Stale
    <2>4. Detected'
      BY <1>2, <2>1 DEF Shape, Progress, Stored, Detected, Detecting, Stale, LastEvent, Handled, Unhandled,
           FlagRight
    <2>5. Settling'
      BY <1>2, <2>1 DEF Shape, Progress, Stored, Detected, Settling, Detecting, Stale, Handled, LastEvent,
           Unhandled, FlagRight, LimitComing, LimitFor, Status
    <2>. QED  BY <2>2, <2>3, <2>4, <2>5
  <1>3. CASE StoreState("usb", "u_store", "u_decide")
    <2>. USE DEF Steady, Goto, env, irqs, works, shown, StoreState
    <2>1. /\ pc["usb"] = "u_store" /\ pc'["usb"] = "u_decide"
          /\ pc'["irq"] = pc["irq"] /\ pc'["usbin"] = pc["usbin"] /\ pc'["poll"] = pc["poll"]
          /\ pc'["usbdet"] = pc["usbdet"]
      BY <1>3 DEF Shape
    <2>2. Progress'
      BY <1>3, <2>1 DEF Shape, Progress, LastEvent, Unhandled
    <2>3. Stored'
      BY <1>3, <2>1 DEF Shape, Progress, Stored, LastEvent, Unhandled, Stale
    <2>4. Detected'
      BY <1>3, <2>1 DEF Shape, Progress, Stored, Detected, Detecting, Stale, LastEvent, Handled, Unhandled,
           FlagRight
    <2>5. Settling'
      BY <1>3, <2>1 DEF Shape, Progress, Stored, Detected, Settling, Detecting, Stale, Handled, LastEvent,
           Unhandled, FlagRight, LimitComing, LimitFor, Status
    <2>. QED  BY <2>2, <2>3, <2>4, <2>5
  <1>4. CASE DecideLimit
    <2>. USE DEF Steady, Goto, env, irqs, works, shown, DecideLimit
    <2>1. /\ pc["usb"] = "u_decide" /\ pc'["usb"] = "u_set"
          /\ pc'["irq"] = pc["irq"] /\ pc'["usbin"] = pc["usbin"] /\ pc'["poll"] = pc["poll"]
          /\ pc'["usbdet"] = pc["usbdet"]
      BY <1>4 DEF Shape
    <2>2. Progress'
      BY <1>4, <2>1 DEF Shape, Progress, LastEvent, Unhandled
    <2>3. Stored'
      BY <1>4, <2>1 DEF Shape, Progress, Stored, LastEvent, Unhandled, Stale
    <2>4. Detected'
      BY <1>4, <2>1 DEF Shape, Progress, Stored, Detected, Detecting, Stale, LastEvent, Handled, Unhandled,
           FlagRight
    <2>5. Settling'
      BY <1>4, <2>1 DEF Shape, Progress, Stored, Detected, Settling, Detecting, Stale, Handled, LastEvent,
           Unhandled, FlagRight, LimitComing, LimitFor, Status
    <2>. QED  BY <2>2, <2>3, <2>4, <2>5
  <1>5. CASE set_usb_ihold("usb", "u_set", "idle", LimitFor[got["usb"]])
    <2>. USE DEF Steady, Goto, env, irqs, works, shown, set_usb_ihold
    <2>1. /\ pc["usb"] = "u_set" /\ pc'["usb"] = "idle"
          /\ pc'["irq"] = pc["irq"] /\ pc'["usbin"] = pc["usbin"] /\ pc'["poll"] = pc["poll"]
          /\ pc'["usbdet"] = pc["usbdet"]
      BY <1>5 DEF Shape
    <2>2. Progress'
      BY <1>5, <2>1 DEF Shape, Progress, LastEvent, Unhandled
    <2>3. Stored'
      BY <1>5, <2>1 DEF Shape, Progress, Stored, LastEvent, Unhandled, Stale
    <2>4. Detected'
      BY <1>5, <2>1 DEF Shape, Progress, Stored, Detected, Detecting, Stale, LastEvent, Handled, Unhandled,
           FlagRight
    <2>5. Settling'
      BY <1>5, <2>1 DEF Shape, Progress, Stored, Detected, Settling, Detecting, Stale, Handled, LastEvent,
           Unhandled, FlagRight, LimitComing, LimitFor, Status
    <2>. QED  BY <2>2, <2>3, <2>4, <2>5
  <1>. QED  BY <1>1, <1>2, <1>3, <1>4, <1>5 DEF axp_usb
-----------------------------------------------------------------------------
(* the monitor, readers, and the timer *)
LEMMA PollKeeps ==
    ASSUME Shape, Steady, ~hasty, Poll \/ axp_charger_update_usb_state
    PROVE  Steady'
  <1>1. CASE ReadState("poll", "idle", "g_store")
    <2>. USE DEF Steady, Goto, env, irqs, works, shown, ReadState
    <2>1. /\ pc["poll"] = "idle" /\ pc'["poll"] = "g_store"
          /\ pc'["irq"] = pc["irq"] /\ pc'["usbin"] = pc["usbin"] /\ pc'["usb"] = pc["usb"]
          /\ pc'["usbdet"] = pc["usbdet"]
      BY <1>1 DEF Shape
    <2>2. Progress'
      BY <1>1, <2>1 DEF Shape, Progress, LastEvent, Unhandled
    <2>3. Stored'
      BY <1>1, <2>1 DEF Shape, Progress, Stored, LastEvent, Unhandled, Stale
    <2>4. Detected'
      BY <1>1, <2>1 DEF Shape, Progress, Stored, Detected, Detecting, Stale, LastEvent, Handled, Unhandled,
           FlagRight
    <2>5. Settling'
      BY <1>1, <2>1 DEF Shape, Progress, Stored, Detected, Settling, Detecting, Stale, Handled, LastEvent,
           Unhandled, FlagRight, LimitComing, LimitFor, Status
    <2>. QED  BY <2>2, <2>3, <2>4, <2>5
  <1>2. CASE StoreState("poll", "g_store", "idle")
    <2>. USE DEF Steady, Goto, env, irqs, works, shown, StoreState
    <2>1. /\ pc["poll"] = "g_store" /\ pc'["poll"] = "idle"
          /\ pc'["irq"] = pc["irq"] /\ pc'["usbin"] = pc["usbin"] /\ pc'["usb"] = pc["usb"]
          /\ pc'["usbdet"] = pc["usbdet"]
      BY <1>2 DEF Shape
    <2>2. Progress'
      BY <1>2, <2>1 DEF Shape, Progress, LastEvent, Unhandled
    <2>3. Stored'
      BY <1>2, <2>1 DEF Shape, Progress, Stored, LastEvent, Unhandled, Stale
    <2>4. Detected'
      BY <1>2, <2>1 DEF Shape, Progress, Stored, Detected, Detecting, Stale, LastEvent, Handled, Unhandled,
           FlagRight
    <2>5. Settling'
      BY <1>2, <2>1 DEF Shape, Progress, Stored, Detected, Settling, Detecting, Stale, Handled, LastEvent,
           Unhandled, FlagRight, LimitComing, LimitFor, Status
    <2>. QED  BY <2>2, <2>3, <2>4, <2>5
  <1>3. CASE axp_charger_update_usb_state
    <2>. USE DEF Steady, Goto, env, irqs, works, shown, axp_charger_update_usb_state
    <2>1. UNCHANGED pc
      BY <1>3
    <2>2. Progress'
      BY <1>3, <2>1 DEF Shape, Progress, LastEvent, Unhandled
    <2>3. Stored'
      BY <1>3, <2>1 DEF Shape, Progress, Stored, LastEvent, Unhandled, Stale
    <2>4. Detected'
      BY <1>3, <2>1 DEF Shape, Progress, Stored, Detected, Detecting, Stale, LastEvent, Handled, Unhandled,
           FlagRight
    <2>5. Settling'
      BY <1>3, <2>1 DEF Shape, Progress, Stored, Detected, Settling, Detecting, Stale, Handled, LastEvent,
           Unhandled, FlagRight, LimitComing, LimitFor, Status
    <2>. QED  BY <2>2, <2>3, <2>4, <2>5
  <1>. QED  BY <1>1, <1>2, <1>3 DEF Poll
-----------------------------------------------------------------------------
(* axp_usb_det: what it stores is right, or the plug moved in between. *)
LEMMA UsbDetKeeps ==
    ASSUME Shape, Steady, axp2585_usb_det
    PROVE  Steady'
  <1>. USE DEF Steady, Goto, env, irqs, works, shown, axp2585_usb_det
  <1>1. \A c \in Contexts \ {"usbdet"} : pc'[c] = pc[c]
    BY DEF Shape
  <1>2. UNCHANGED <<plug, moves, hasty, raced, bat_det, in_short, latched, todo, read, delayed, timer, usbwork,
                    charging, det, axp_usbcurflag, limit, got>>
    OBVIOUS
  <1>5. pc'["irq"] = pc["irq"] /\ pc'["usbin"] = pc["usbin"] /\ pc'["usb"] = pc["usb"] /\ pc'["poll"] = pc["poll"]
    BY <1>1
  <1>6. (Unhandled' <=> Unhandled) /\ (Stale' <=> Stale) /\ (Detecting' <=> Detecting) /\ (Handled' <=> Handled)
    BY <1>2, <1>5 DEF Unhandled, Stale, Detecting, Handled
  <1>7. Progress'
    BY <1>2, <1>5, <1>6 DEF Progress, LastEvent
  <1>8. Detected'
    BY <1>2, <1>5, <1>6 DEF Detected, FlagRight
  <1>9. Settling'
    BY <1>2, <1>5, <1>6 DEF Settling, LimitComing, LimitFor, Status
  <1>3. CASE pc["usbdet"] = "idle" /\ plug # "none" /\ axp_usb_connect' = axp_usb_connect
    BY <1>2, <1>3, <1>5, <1>6, <1>7, <1>8, <1>9 DEF Stored
  <1>4. CASE /\ pc["usbdet"] = "d_store" /\ pc'["usbdet"] = "idle" /\ axp_usb_connect' = TRUE
    BY <1>2, <1>4, <1>5, <1>6, <1>7, <1>8, <1>9 DEF Stored
  <1>. QED  BY <1>3, <1>4 DEF Shape
-----------------------------------------------------------------------------
(* The types, and that __do_irq leaves nothing behind, in any state. *)
LEMMA ShapeKept == ASSUME Shape, Next PROVE Shape'
  <1>. USE DEF Goto, env, irqs, works, shown
  <1>1. ASSUME NEW c \in Contexts, NEW from, NEW to, c = "irq" => to # "idle",
               \/ ReadState(c, from, to) \/ StoreState(c, from, to)
               \/ SetTimer(c, from, to, TRUE) \/ SetTimer(c, from, to, FALSE)
               \/ CheckStatus(c, from, to)
        PROVE  Shape'
    BY <1>1 DEF Shape, ReadState, StoreState, SetTimer, CheckStatus
  <1>2. CASE Begin \/ axp_usb_in_isr \/ axp_usb_out_isr \/ Acknowledge
    BY <1>2 DEF Shape, Begin, axp_usb_in_isr, axp_usb_out_isr, Dispatch, Acknowledge
  <1>3. CASE IrqWork
    <2>0. ASSUME NEW from, NEW to \in {"h_store", "o_arm", "o_check", "next"},
                 \/ ReadState("irq", from, to) \/ StoreState("irq", from, to)
                 \/ SetTimer("irq", from, to, TRUE) \/ CheckStatus("irq", from, to)
          PROVE  Shape'
      BY <1>1, <2>0
    <2>1. CASE axp_change("irq", "o_arm")
      BY <2>0, <2>1 DEF axp_change
    <2>2. CASE axp_usbac_out("irq", "next")
      BY <2>0, <2>2 DEF axp_usbac_out
    <2>. QED  BY <1>2, <1>3, <2>1, <2>2 DEF IrqWork
  <1>4. ASSUME NEW c \in {"usbin", "usb"}, NEW from, NEW to, NEW value,
               set_usb_ihold(c, from, to, value) \/ axp_usbcur(c, from, to, value)
        PROVE  Shape'
    BY <1>4 DEF Shape, set_usb_ihold, axp_usbcur
  <1>5. CASE StartDelayed \/ GetBcResult
    BY <1>5 DEF Shape, StartDelayed, GetBcResult
  <1>6. CASE axp_usb_isr_delayed
    BY <1>1, <1>4, <1>5, <1>6 DEF axp_usb_isr_delayed, axp_change, axp_usbac_in
  <1>7. CASE /\ Goto("usb", "idle", "u_read")
             /\ usbwork /\ usbwork' = FALSE
             /\ UNCHANGED <<env, irqs, delayed, timer, shown, det, axp_usbcurflag, limit, got>>
    BY <1>7 DEF Shape
  <1>8. CASE DecideLimit
    BY <1>8 DEF Shape, DecideLimit
  <1>9. CASE axp_usb
    BY <1>1, <1>4, <1>7, <1>8, <1>9 DEF axp_usb
  <1>10. CASE Poll
    BY <1>1, <1>10 DEF Poll
  <1>11. CASE axp_charger_update_usb_state
    BY <1>11 DEF Shape, axp_charger_update_usb_state
  <1>12. ASSUME NEW p \in Plugs, Move(p) PROVE Shape'
    BY <1>12 DEF Shape, Move, Calm
  <1>13. CASE axp2585_usb_det
    BY <1>13 DEF Shape, axp2585_usb_det
  <1>. QED  BY <1>3, <1>6, <1>9, <1>10, <1>11, <1>12, <1>13 DEF Next

(* A move begins everything anew, if the one before has been handled.         *)
LEMMA MoveKeeps ==
    ASSUME Inv, NEW p \in Plugs, Move(p), ~hasty'
    PROVE  Steady'
  <1>1. UNCHANGED <<todo, read, det, axp_usb_connect, delayed, pc, got>>
    BY DEF Move, works, shown
  <1>2. /\ pc["irq"] = "idle" /\ pc["usbin"] = "idle" /\ pc["poll"] = "idle" /\ pc["usb"] # "u_store"
        /\ latched = {} /\ ~delayed /\ todo = {} /\ read = {}
    BY DEF Move, Calm, Inv, Shape
  <1>3. latched' = {LastEvent}'
    BY <1>2 DEF Move, LastEvent
  <1>4. Unhandled' /\ Stale' /\ ~Handled'
    BY <1>1, <1>2, <1>3 DEF Unhandled, Stale, Handled
  <1>5. Progress'
    BY <1>1, <1>2, <1>3 DEF Progress
  <1>6. Stored'
    <2>1. plug' = "none" /\ ~raced' => pc'["usbdet"] # "d_store"
      BY <1>1 DEF Move
    <2>. QED  BY <1>1, <1>2, <1>4, <2>1 DEF Stored
  <1>7. Detected' /\ Settling'
    BY <1>1, <1>2, <1>4 DEF Detected, Settling, Detecting
  <1>. QED  BY <1>5, <1>6, <1>7 DEF Steady
-----------------------------------------------------------------------------
LEMMA InitInv == ASSUME Init PROVE Inv
  <1>1. Shape
    BY UsbAssumption DEF Init, Shape
  <1>2. Progress /\ Stored /\ Detected
    BY DEF Init, Progress, Stored, Detected, Unhandled, Detecting, FlagRight
  <1>3. Settling
    BY DEF Init, Settling, LimitComing
  <1>. QED  BY <1>1, <1>2, <1>3 DEF Inv

LEMMA StepInv == ASSUME Inv, [Next]_vars PROVE Inv'
  <1>1. CASE UNCHANGED vars
    <2>. USE <1>1 DEF vars, env, irqs, works, shown
    <2>1. Shape' <=> Shape
      BY DEF Shape
    <2>2. (Progress' <=> Progress) /\ (Stored' <=> Stored)
      BY DEF Progress, Stored, Stale, Unhandled, LastEvent
    <2>3. (Handled' <=> Handled) /\ (FlagRight' <=> FlagRight) /\ (Detecting' <=> Detecting)
      BY DEF Handled, FlagRight, Detecting, Stale, Unhandled
    <2>4. (Detected' <=> Detected) /\ (Settling' <=> Settling)
      BY <2>3 DEF Detected, Settling, LimitComing, Status
    <2>. QED  BY <2>1, <2>2, <2>4 DEF Inv
  <1>2. CASE Next
    <2>1. Shape'
      BY <1>2, ShapeKept DEF Inv
    <2>2. ASSUME ~hasty' PROVE Steady'
      <3>1. CASE \E p \in Plugs : Move(p)
        BY <2>2, <3>1, MoveKeeps
      <3>2. CASE IrqWork \/ axp_usb_isr_delayed \/ axp_usb \/ Poll \/ axp_charger_update_usb_state \/ axp2585_usb_det
        <4>1. hasty' = hasty
          BY <3>2 DEF env, IrqWork, axp_usb_isr_delayed, axp_usb, Poll, axp_charger_update_usb_state, axp2585_usb_det,
             axp_change, axp_usbac_in, axp_usbac_out, Begin, axp_usb_in_isr, axp_usb_out_isr, Dispatch,
             Acknowledge, ReadState, StoreState, SetTimer, CheckStatus, StartDelayed, GetBcResult,
             set_usb_ihold, axp_usbcur, DecideLimit
        <4>2. Shape /\ Steady
          BY <2>2, <4>1 DEF Inv, Steady
        <4>. QED  BY <2>2, <3>2, <4>1, <4>2, IrqWorkKeeps, DelayedKeeps, UsbKeeps, PollKeeps, UsbDetKeeps
      <3>. QED  BY <1>2, <3>1, <3>2 DEF Next
    <2>. QED  BY <2>1, <2>2 DEF Inv, Steady
  <1>. QED  BY <1>1, <1>2

LEMMA Invariance == Spec => []Inv
  BY InitInv, StepInv, PTL DEF Spec

(* When nothing is under way, the last move has been handled. *)
LEMMA QuietHandled ==
    ASSUME Inv, Quiet, ~hasty
    PROVE  ~Unhandled /\ Handled /\ Stored /\ Detected /\ Settling
  BY DEF Inv, Shape, Quiet, Calm, Progress, Unhandled, Stale, Handled
-----------------------------------------------------------------------------
(* axp_usb_connect tells the USB driver the truth, once the last move has been *)
(* handled, if it came when the one before had been: however the plug has     *)
(* bounced, and whatever the timer, axp_usb, the monitor and readers do.      *)
(* Only an axp_usb_det that was half done when the plug was pulled may leave  *)
(* it 1.                                                                     *)
THEOREM ConnectTold == Spec => []ConnectFollows
  <1>1. Inv => ConnectFollows
    <2>. SUFFICES ASSUME Inv, Quiet, ~hasty
                  PROVE  /\ plug # "none" => axp_usb_connect
                         /\ plug = "none" /\ ~raced => ~axp_usb_connect
      BY DEF ConnectFollows
    <2>. QED  BY QuietHandled DEF Stored
  <1>. QED  BY <1>1, Invariance, PTL

(* User space is told of the supply that is there: a stale detection stored   *)
(* late, or a status computed before charging detection was through, does not *)
(* last.                                                                     *)
THEOREM StatusShown == Spec => []OnlineShown
  <1>1. Inv => OnlineShown
    <2>. SUFFICES ASSUME Inv, Quiet, ~hasty, plug # "other"
                  PROVE  /\ charging.pc = (plug = "sdp")
                         /\ (charging.ac \/ charging.adapter) =
                              (plug = "dcp" \/ (plug = "sdp" /\ ~in_short))
      BY DEF OnlineShown
    <2>1. charging = Status /\ FlagRight /\ (det <=> plug # "none")
      BY QuietHandled DEF Settling, Detected, Stored, Handled, Quiet
    <2>. QED  BY <2>1 DEF Status, FlagRight, Inv, Shape
  <1>. QED  BY <1>1, Invariance, PTL

(* With a battery, the current drawn comes to the limit of what is plugged    *)
(* in: the timer that the last handler armed starts axp_usb once more.        *)
THEOREM LimitFollows == Spec => []LimitSettles
  <1>1. Inv => LimitSettles
    BY QuietHandled DEF LimitSettles, Quiet, Settling, LimitComing
  <1>. QED  BY <1>1, Invariance, PTL
=============================================================================
