----------------------------- MODULE AxpRegmap -----------------------------
(***************************************************************************)
(* The register map of one PMIC (axp-core.c): kernel threads read and write *)
(* PMIC registers over I2C.  Plain reads take no lock.  Writes and          *)
(* read-modify-writes hold map->lock; the _sync variants hold map->spinlock *)
(* instead in a build without CONFIG_AXP_TWI_USED.  Every I2C transfer may  *)
(* fail, and a failed write may still have reached the register.            *)
(***************************************************************************)
EXTENDS AxpRegOps

CONSTANTS
    Threads,    \* kernel contexts that call the accessors
    NoThread,   \* the owner of a free lock
    MaxChunk,   \* register/value pairs of one block transfer (15 in the code)
    TwiUsed     \* CONFIG_AXP_TWI_USED

Locks == {"mutex", "spinlock"}

(* The lock an accessor takes. *)
LockOf(o) == IF o.sync /\ ~TwiUsed THEN "spinlock" ELSE "mutex"

(* In a build with two locks, calls that take different ones must stay off   *)
(* each other's registers.                                                   *)
ASSUME RegmapAssumption ==
    /\ NoThread \notin Threads
    /\ MaxChunk \in Nat \ {0}
    /\ TwiUsed \in BOOLEAN
    /\ \A o, p \in Ops : LockOf(o) # LockOf(p) => Footprint(o) \cap Footprint(p) = {}

VARIABLES
    regs,       \* the PMIC's registers
    lock,       \* lock[l]    : the thread that holds lock l, or NoThread
    pc,         \* pc[t]      : where thread t is in the accessor
    call,       \* call[t]    : the arguments of the accessor
    reg_val,    \* reg_val[t] : the accessor's local copy of the register
    done,       \* done[t]    : values of a block write already sent
    ok          \* ok[t]      : ret == 0 so far

vars == <<regs, lock, pc, call, reg_val, done, ok>>

Labels == {"idle", "lock", "read", "write", "ret"}

Min2(a, b) == IF a < b THEN a ELSE b

Init ==
    /\ regs \in [Regs -> Byte]
    /\ lock    = [l \in Locks |-> NoThread]
    /\ pc      = [t \in Threads |-> "idle"]
    /\ call    = [t \in Threads |-> NoOp]
    /\ reg_val = [t \in Threads |-> {}]
    /\ done    = [t \in Threads |-> 0]
    /\ ok      = [t \in Threads |-> TRUE]

Goto(t, label) == pc' = [pc EXCEPT ![t] = label]

(* A driver calls an accessor; only a plain read goes to the bus unlocked.   *)
Call(t, o) ==
    /\ pc[t] = "idle"
    /\ call' = [call EXCEPT ![t] = o]
    /\ Goto(t, IF o.kind = "read" THEN "read" ELSE "lock")
    /\ UNCHANGED <<regs, lock, reg_val, done, ok>>

(* Slip: the lock is not waited for. *)
LockWithoutWaiting(t) ==
    /\ pc[t] = "lock"
    /\ lock' = [lock EXCEPT ![LockOf(call[t])] = t]
    /\ Goto(t, IF call[t].kind \in Modifiers THEN "read" ELSE "write")
    /\ UNCHANGED <<regs, call, reg_val, done, ok>>

(* mutex_lock or spin_lock_irqsave. *)
Lock(t) ==
    LET l == LockOf(call[t]) IN
    /\ pc[t] = "lock"
    /\ lock[l] = NoThread
    /\ lock' = [lock EXCEPT ![l] = t]
    /\ Goto(t, IF call[t].kind \in Modifiers THEN "read" ELSE "write")
    /\ UNCHANGED <<regs, call, reg_val, done, ok>>

(* _axp_read delivers the register. *)
Read(t) ==
    LET v == regs[call[t].reg] IN
    /\ pc[t] = "read"
    /\ reg_val' = [reg_val EXCEPT ![t] = v]
    /\ Goto(t, IF NeedsWrite(call[t], v) THEN "write" ELSE "ret")
    /\ UNCHANGED <<regs, lock, call, done, ok>>

(* Slip: return ret instead of goto out. *)
ReadFailsKeepingLock(t) ==
    /\ pc[t] = "read"
    /\ Goto(t, "idle")
    /\ UNCHANGED <<regs, lock, call, reg_val, done, ok>>

(* Slip: the result of _axp_read is not looked at. *)
ReadFailsUnnoticed(t) ==
    /\ pc[t] = "read"
    /\ Goto(t, IF NeedsWrite(call[t], reg_val[t]) THEN "write" ELSE "ret")
    /\ UNCHANGED <<regs, lock, call, reg_val, done, ok>>

(* _axp_read fails: goto out, nothing is written. *)
ReadFails(t) ==
    /\ pc[t] = "read"
    /\ ok' = [ok EXCEPT ![t] = FALSE]
    /\ Goto(t, "ret")
    /\ UNCHANGED <<regs, lock, call, reg_val, done>>

(* _axp_write of one byte. *)
Write(t) ==
    LET o == call[t] IN
    /\ pc[t] = "write" /\ o.kind # "writes"
    /\ \/ /\ regs' = [regs EXCEPT ![o.reg] = Modified(o, reg_val[t])]
          /\ ok' \in {ok, [ok EXCEPT ![t] = FALSE]}
       \/ /\ regs' = regs
          /\ ok' = [ok EXCEPT ![t] = FALSE]
    /\ Goto(t, "ret")
    /\ UNCHANGED <<lock, call, reg_val, done>>

(* Slip: every pass writes to the first registers. *)
WriteChunkAtStart(t) ==
    LET o == call[t]
        n == Min2(Len(o.vals) - done[t], MaxChunk)
    IN
    /\ pc[t] = "write" /\ o.kind = "writes"
    /\ regs' = [a \in Regs |-> IF a \in o.reg .. (o.reg + n - 1)
                               THEN o.vals[done[t] + a - o.reg + 1] ELSE regs[a]]
    /\ done' = [done EXCEPT ![t] = done[t] + n]
    /\ Goto(t, IF done[t] + n = Len(o.vals) THEN "ret" ELSE "write")
    /\ UNCHANGED <<lock, call, reg_val, ok>>

(* One pass of the while (len) loop of _axp_writes: at most MaxChunk values. *)
WriteChunk(t) ==
    LET o == call[t]
        n == Min2(Len(o.vals) - done[t], MaxChunk)
    IN
    /\ pc[t] = "write" /\ o.kind = "writes"
    /\ regs' = Landed(o, regs, done[t], done[t] + n)
    /\ done' = [done EXCEPT ![t] = done[t] + n]
    /\ Goto(t, IF done[t] + n = Len(o.vals) THEN "ret" ELSE "write")
    /\ UNCHANGED <<lock, call, reg_val, ok>>

(* The block transfer breaks off after k of its values: return ret, the      *)
(* remaining chunks are not sent.                                            *)
WriteChunkFails(t) ==
    LET o == call[t]
        n == Min2(Len(o.vals) - done[t], MaxChunk)
    IN
    /\ pc[t] = "write" /\ o.kind = "writes"
    /\ \E k \in 0 .. n : regs' = Landed(o, regs, done[t], done[t] + k)
    /\ ok' = [ok EXCEPT ![t] = FALSE]
    /\ Goto(t, "ret")
    /\ UNCHANGED <<lock, call, reg_val, done>>

(* out: unlock and return; the locals of the call are gone. *)
Return(t) ==
    /\ pc[t] = "ret"
    /\ lock' = IF call[t].kind = "read" THEN lock
               ELSE [lock EXCEPT ![LockOf(call[t])] = NoThread]
    /\ Goto(t, "idle")
    /\ call'    = [call    EXCEPT ![t] = NoOp]
    /\ reg_val' = [reg_val EXCEPT ![t] = {}]
    /\ done'    = [done    EXCEPT ![t] = 0]
    /\ ok'      = [ok      EXCEPT ![t] = TRUE]
    /\ UNCHANGED regs

Step(t) ==
    \/ Read(t)
    \/ ReadFails(t)
    \/ Write(t)
    \/ WriteChunk(t)
    \/ WriteChunkFails(t)
    \/ Return(t)

Next ==
    \E t \in Threads : (\E o \in Ops : Call(t, o)) \/ Lock(t) \/ Step(t)

Spec == Init /\ [][Next]_vars

(* An I2C transfer ends, with an error at the latest when the adapter times  *)
(* out, so a thread inside an accessor keeps running.  A kernel mutex hands  *)
(* itself to its waiters in turn, so a thread that keeps finding it free is  *)
(* not passed over for ever.  Nobody is obliged to make a call.              *)
Fairness == \A t \in Threads : WF_vars(Step(t)) /\ SF_vars(Lock(t))
FairSpec == Spec /\ Fairness
-----------------------------------------------------------------------------
(* Between its lock and its unlock. *)
Holding(t) ==
    \/ pc[t] \in {"write", "ret"} /\ call[t].kind # "read"
    \/ pc[t] = "read" /\ call[t].kind # "read"

(* Types of the variables, and a call under way exactly outside "idle". *)
TypeOK ==
    /\ regs \in [Regs -> Byte]
    /\ lock \in [Locks -> Threads \cup {NoThread}]
    /\ pc \in [Threads -> Labels]
    /\ call \in [Threads -> Ops \cup {NoOp}]
    /\ reg_val \in [Threads -> Byte]
    /\ done \in [Threads -> Nat]
    /\ ok \in [Threads -> BOOLEAN]
    /\ \A t \in Threads : pc[t] = "idle" <=> call[t] = NoOp

(* A lock is held by exactly the thread between its mutex_lock and its        *)
(* mutex_unlock (spin_lock_irqsave, spin_unlock_irqrestore): two threads are  *)
(* never both there, and every exit of an accessor gives the lock back.       *)
LockDiscipline ==
    \A t \in Threads, l \in Locks :
        lock[l] = t <=> Holding(t) /\ LockOf(call[t]) = l

(* A block write under way (_axp_writes) has sent a proper prefix of its      *)
(* values, and that prefix is what the registers still hold: other writers    *)
(* keep out between its transfers.                                            *)
PrefixStands ==
    \A t \in Threads :
        LET o == call[t] IN
        pc[t] = "write" /\ o.kind = "writes" =>
            /\ done[t] < Len(o.vals)
            /\ \A i \in 1 .. done[t] : regs[o.reg + i - 1] = o.vals[i]

(* A thread that is about to write back a modified copy (axp_regmap_set_bits,*)
(* clr_bits, update and their _sync twins) holds the register's CURRENT      *)
(* contents: nobody has written the register since it was read, although     *)
(* block writes and single writes of other threads are under way.            *)
CopyIsCurrent ==
    \A t \in Threads :
        pc[t] = "write" /\ call[t].kind \in Modifiers =>
            reg_val[t] = regs[call[t].reg]

(* A call that returns 0 from under the lock leaves behind what its caller   *)
(* asked for, in every register it names and whatever the other threads did  *)
(* meanwhile: also a block write cut into several transfers.                 *)
SuccessMeansDone ==
    \A t \in Threads : pc[t] = "ret" /\ ok[t] => Delivered(call[t], regs)

(* No step of a read-modify-write accessor changes a bit outside its mask    *)
(* (and the value it was given), on any path, failed transfers included: no  *)
(* other thread's update is ever lost to it.                                 *)
KeepsOtherBits(t) ==
    LET o == call[t] IN
    pc[t] = "write" /\ pc'[t] # "write" /\ o.kind \in Modifiers =>
        /\ \A a \in Regs \ {o.reg} : regs'[a] = regs[a]
        /\ regs'[o.reg] \ (o.mask \cup o.val) = regs[o.reg] \ (o.mask \cup o.val)

NoLostUpdate == [][\A t \in Threads : KeepsOtherBits(t)]_vars

(* The detailed accessors implement the atomic register file: a call takes   *)
(* effect at its write, or at its read when the register needs no write.     *)
Finished(t) == pc[t] = "ret"
Atomic == INSTANCE AtomicRegs WITH
    pending <- call,
    landed  <- done,
    outcome <- [t \in Threads |-> IF ~Finished(t) THEN "none"
                                  ELSE IF ok[t] THEN "ok" ELSE "fail"],
    result  <- [t \in Threads |-> IF Finished(t) /\ ok[t] /\ call[t].kind = "read"
                                  THEN reg_val[t] ELSE {}]
AtomicSpec == Atomic!Spec

(* Every accessor call returns: no path leaves a lock held and no thread     *)
(* waits for a lock for ever.                                                *)
CallsReturn == \A t \in Threads : pc[t] # "idle" ~> pc[t] = "idle"
=============================================================================
