----------------------------- MODULE AtomicRegs -----------------------------
(***************************************************************************)
(* What axp-core.c promises the chip drivers: a register file in which each *)
(* set, clear, update and single read or write takes effect in one step, at *)
(* some moment between its call and its return, on the contents the         *)
(* register has at THAT moment.  A call that fails has either taken effect  *)
(* or not.  A block write is weaker: its values land in order, some at a    *)
(* time, and a failure leaves a prefix of them behind.  There are no locks  *)
(* and no local copies here.                                                *)
(***************************************************************************)
EXTENDS AxpRegOps

CONSTANT Threads

VARIABLES
    regs,       \* the registers
    pending,    \* pending[t] : the call thread t is in, or NoOp
    landed,     \* landed[t]  : how many values of its block write are in
    outcome,    \* outcome[t] : "none" until the call has taken effect or failed
    result      \* result[t]  : the byte a read delivers

avars == <<regs, pending, landed, outcome, result>>

Init ==
    /\ regs \in [Regs -> Byte]
    /\ pending = [t \in Threads |-> NoOp]
    /\ landed  = [t \in Threads |-> 0]
    /\ outcome = [t \in Threads |-> "none"]
    /\ result  = [t \in Threads |-> {}]

Begin(t, o) ==
    /\ pending[t] = NoOp
    /\ pending' = [pending EXCEPT ![t] = o]
    /\ UNCHANGED <<regs, landed, outcome, result>>

(* The call takes effect as a whole. *)
Take(t) ==
    LET o == pending[t] IN
    /\ o # NoOp /\ o.kind # "writes" /\ outcome[t] = "none"
    /\ outcome' = [outcome EXCEPT ![t] = "ok"]
    /\ regs' = [regs EXCEPT ![o.reg] = Modified(o, regs[o.reg])]
    /\ result' = [result EXCEPT ![t] = IF o.kind = "read" THEN regs[o.reg] ELSE {}]
    /\ UNCHANGED <<pending, landed>>

(* Some more values of a block write land. *)
TakeSome(t) ==
    LET o == pending[t] IN
    /\ o # NoOp /\ o.kind = "writes" /\ outcome[t] = "none"
    /\ \E k \in 1 .. (Len(o.vals) - landed[t]) :
          /\ regs' = Landed(o, regs, landed[t], landed[t] + k)
          /\ landed' = [landed EXCEPT ![t] = landed[t] + k]
          /\ outcome' = [outcome EXCEPT
                           ![t] = IF landed[t] + k = Len(o.vals) THEN "ok" ELSE "none"]
    /\ UNCHANGED <<pending, result>>

(* The call fails: the bus reported an error. *)
Fail(t) ==
    LET o == pending[t] IN
    /\ o # NoOp /\ outcome[t] = "none"
    /\ outcome' = [outcome EXCEPT ![t] = "fail"]
    /\ \/ regs' = regs
       \/ /\ o.kind # "writes"
          /\ regs' = [regs EXCEPT ![o.reg] = Modified(o, regs[o.reg])]
       \/ /\ o.kind = "writes"
          /\ \E k \in 1 .. (Len(o.vals) - landed[t]) :
                regs' = Landed(o, regs, landed[t], landed[t] + k)
    /\ UNCHANGED <<pending, landed, result>>

End(t) ==
    /\ outcome[t] # "none"
    /\ pending' = [pending EXCEPT ![t] = NoOp]
    /\ outcome' = [outcome EXCEPT ![t] = "none"]
    /\ landed'  = [landed  EXCEPT ![t] = 0]
    /\ result'  = [result  EXCEPT ![t] = {}]
    /\ UNCHANGED regs

Next ==
    \E t \in Threads :
        \/ \E o \in Ops : Begin(t, o)
        \/ Take(t)
        \/ TakeSome(t)
        \/ Fail(t)
        \/ End(t)

Spec == Init /\ [][Next]_avars
=============================================================================
