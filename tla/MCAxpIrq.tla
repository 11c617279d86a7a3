----------------------------- MODULE MCAxpIrq -----------------------------
(***************************************************************************)
(* Instances of the interrupt controller.  Small: two status registers of   *)
(* one bit, one interrupt each, both with a driver.  Wide: two registers of *)
(* two bits; interrupt 1 is a pin's and shares its register with 0, and 2   *)
(* has the other register with 3, which no driver requests.                 *)
(***************************************************************************)
EXTENDS AxpIrq

SmallDrivers == {0, 1}
WideDrivers == {0, 1, 2}
WidePins == {1}
OneDriver == {0}
MCNoDriver == 99

(* The bounds of the wide instance: the system is awake, at most two events  *)
(* are latched and event 3 does not occur, at most two drivers hold or       *)
(* request their interrupt at a time, at most two of the drivers and the     *)
(* work are in the middle of something, and nothing is followed past a NULL  *)
(* call.                                                                     *)
WideBounds ==
    /\ flag = "NOT_SUSPEND" /\ wpc # "oops"
    /\ 3 \notin status \cup hwEnable /\ Cardinality(status) <= 2
    /\ Cardinality({d \in Drivers : handler[d] # Null \/ dpc[d] # "idle"}) <= 2
    /\ wpc = "idle" \/ Cardinality({d \in Drivers : dpc[d] # "idle"}) <= 1
=============================================================================
