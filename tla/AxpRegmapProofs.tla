-------------------------- MODULE AxpRegmapProofs --------------------------
(***************************************************************************)
(* Proofs about the register map for every number of threads, registers,    *)
(* bits and calls, and for both settings of CONFIG_AXP_TWI_USED.            *)
(***************************************************************************)
EXTENDS AxpRegmap, TLAPS

(* Which accessors pass which label, and that a call starts afresh. *)
PathOK ==
    \A t \in Threads :
        /\ pc[t] \in {"lock", "write"} => call[t].kind # "read"
        /\ pc[t] = "read" => call[t].kind \in Modifiers \cup {"read"}
        /\ pc[t] \in {"idle", "lock", "read"} => done[t] = 0
        /\ pc[t] # "ret" => ok[t]

(* The invariant that carries the safety properties: the lock discipline     *)
(* makes a thread's copy current, the current copy makes its write right,    *)
(* and the prefix of a block write grows into the whole block.               *)
IInv ==
    /\ TypeOK
    /\ PathOK
    /\ LockDiscipline
    /\ CopyIsCurrent
    /\ PrefixStands
    /\ SuccessMeansDone

-----------------------------------------------------------------------------
(* What a call writes is a byte. *)
LEMMA ModifiedIsByte ==
    ASSUME NEW o \in Ops, NEW v \in Byte
    PROVE  Modified(o, v) \in Byte
  BY OpsAssumption DEF OpType, Byte, Modified, Kinds

(* Block values land as bytes, and nothing lands outside the block. *)
LEMMA LandedType ==
    ASSUME NEW o \in Ops, o.kind = "writes", NEW r \in [Regs -> Byte],
           NEW i \in Nat, NEW j \in Nat, i <= j, j <= Len(o.vals)
    PROVE  /\ Landed(o, r, i, j) \in [Regs -> Byte]
           /\ \A a \in Regs \ Footprint(o) : Landed(o, r, i, j)[a] = r[a]
  <1>1. o.vals \in Seq(Byte) /\ o.reg \in Nat /\ Len(o.vals) \in Nat
    BY OpsAssumption DEF OpType, Regs
  <1>2. ASSUME NEW a \in Regs, a \in (o.reg + i) .. (o.reg + j - 1)
        PROVE  a - o.reg + 1 \in 1 .. Len(o.vals)
    BY <1>1, <1>2 DEF Regs
  <1>3. ASSUME NEW a \in Regs, a \in (o.reg + i) .. (o.reg + j - 1)
        PROVE  o.vals[a - o.reg + 1] \in Byte
    BY <1>1, <1>2, <1>3
  <1>4. Landed(o, r, i, j) \in [Regs -> Byte]
    BY <1>3 DEF Landed
  <1>5. ASSUME NEW a \in Regs \ Footprint(o)
        PROVE  Landed(o, r, i, j)[a] = r[a]
    BY <1>1, <1>5 DEF Landed, Footprint, Regs
  <1>. QED BY <1>4, <1>5

(* The registers of a block write are its footprint, and they exist. *)
LEMMA BlockInside ==
    ASSUME NEW o \in Ops, o.kind = "writes", NEW i \in 1 .. Len(o.vals)
    PROVE  o.reg + i - 1 \in Footprint(o) \cap Regs
  <1>1. o.reg \in Nat /\ Len(o.vals) \in Nat
        /\ o.reg + Len(o.vals) <= NRegs /\ NRegs \in Nat
    BY OpsAssumption DEF OpType, Regs
  <1>2. o.reg + i - 1 \in o.reg .. (o.reg + Len(o.vals) - 1)
    BY <1>1
  <1>3. o.reg + i - 1 \in Regs
    BY <1>1 DEF Regs
  <1>. QED BY <1>2, <1>3 DEF Footprint

(* The chunk a block write sends next is not empty and stays inside the block. *)
LEMMA ChunkSize ==
    ASSUME TypeOK, PrefixStands, NEW t \in Threads,
           pc[t] = "write", call[t].kind = "writes"
    PROVE  LET n == Min2(Len(call[t].vals) - done[t], MaxChunk) IN
           /\ call[t] \in Ops
           /\ n \in Nat \ {0}
           /\ done[t] + n <= Len(call[t].vals)
  <1>1. call[t] \in Ops
    BY DEF TypeOK
  <1>2. call[t].vals \in Seq(Byte)
    BY <1>1, OpsAssumption DEF OpType
  <1>3. Len(call[t].vals) \in Nat /\ done[t] \in Nat /\ done[t] < Len(call[t].vals)
    BY <1>2 DEF TypeOK, PrefixStands
  <1>. QED BY <1>1, <1>3, RegmapAssumption DEF Min2

(* A step of thread t changes registers only from the label "write", only    *)
(* inside the footprint of its call, and leaves them bytes.                  *)
LEMMA StepStaysInside ==
    ASSUME TypeOK, PathOK, PrefixStands, NEW t \in Threads, Step(t)
    PROVE  /\ regs' \in [Regs -> Byte]
           /\ \/ regs' = regs
              \/ /\ pc[t] = "write"
                 /\ \A a \in Regs \ Footprint(call[t]) : regs'[a] = regs[a]
  <1>1. CASE Read(t) \/ ReadFails(t) \/ Return(t)
    BY <1>1 DEF Read, ReadFails, Return, TypeOK
  <1>2. CASE Write(t)
    <2>1. call[t] \in Ops /\ call[t].kind # "writes"
      BY <1>2 DEF Write, TypeOK
    <2>2. Modified(call[t], reg_val[t]) \in Byte
      BY <2>1, ModifiedIsByte DEF TypeOK
    <2>3. pc[t] = "write" /\ call[t].kind # "read"
      BY <1>2 DEF Write, PathOK
    <2>. QED BY <1>2, <2>1, <2>2, <2>3 DEF Write, TypeOK, Footprint
  <1>3. CASE WriteChunk(t)
    <2>. DEFINE n == Min2(Len(call[t].vals) - done[t], MaxChunk)
    <2>1. pc[t] = "write" /\ call[t].kind = "writes"
          /\ regs' = Landed(call[t], regs, done[t], done[t] + n)
      BY <1>3 DEF WriteChunk
    <2>2. call[t] \in Ops /\ n \in Nat /\ done[t] + n <= Len(call[t].vals)
      BY <2>1, ChunkSize
    <2>3. done[t] \in Nat /\ regs \in [Regs -> Byte]
      BY DEF TypeOK
    <2>. HIDE DEF n
    <2>. QED BY <2>1, <2>2, <2>3, LandedType
  <1>4. CASE WriteChunkFails(t)
    <2>. DEFINE n == Min2(Len(call[t].vals) - done[t], MaxChunk)
    <2>1. pc[t] = "write" /\ call[t].kind = "writes"
          /\ \E k \in 0 .. n : regs' = Landed(call[t], regs, done[t], done[t] + k)
      BY <1>4 DEF WriteChunkFails
    <2>2. call[t] \in Ops /\ n \in Nat /\ done[t] + n <= Len(call[t].vals)
      BY <2>1, ChunkSize
    <2>3. done[t] \in Nat /\ regs \in [Regs -> Byte]
      BY DEF TypeOK
    <2>4. Len(call[t].vals) \in Nat
      BY <2>2, OpsAssumption DEF OpType
    <2>. HIDE DEF n
    <2>5. PICK k \in 0 .. n : regs' = Landed(call[t], regs, done[t], done[t] + k)
      BY <2>1
    <2>6. k \in Nat /\ done[t] + k <= Len(call[t].vals)
      BY <2>2, <2>3, <2>4
    <2>. QED BY <2>1, <2>2, <2>3, <2>5, <2>6, LandedType
  <1>. QED BY <1>1, <1>2, <1>3, <1>4 DEF Step

(* Two threads inside their critical sections never touch a common register. *)
LEMMA Exclusion ==
    ASSUME TypeOK, LockDiscipline,
           NEW t \in Threads, NEW u \in Threads, t # u, Holding(t), Holding(u)
    PROVE  Footprint(call[t]) \cap Footprint(call[u]) = {}
  <1>1. call[t] \in Ops /\ call[u] \in Ops
    BY DEF Holding, TypeOK
  <1>2. LockOf(call[t]) \in Locks /\ LockOf(call[u]) \in Locks
    BY DEF LockOf, Locks
  <1>3. lock[LockOf(call[t])] = t /\ lock[LockOf(call[u])] = u
    BY <1>2 DEF LockDiscipline
  <1>4. LockOf(call[t]) # LockOf(call[u])
    BY <1>3
  <1>. QED BY <1>1, <1>4, RegmapAssumption

-----------------------------------------------------------------------------
(* Every part of IInv survives every step. *)

LEMMA TypeStep == IInv /\ [Next]_vars => TypeOK'
  <1>. SUFFICES ASSUME IInv, [Next]_vars PROVE TypeOK'
    OBVIOUS
  <1>. USE DEF IInv
  <1>1. ASSUME NEW t \in Threads, NEW o \in Ops, Call(t, o) PROVE TypeOK'
    BY <1>1, OpsAssumption DEF Call, TypeOK, Goto, Labels
  <1>2. ASSUME NEW t \in Threads, Lock(t) PROVE TypeOK'
    BY <1>2, RegmapAssumption DEF Lock, TypeOK, Goto, Labels, LockOf, Locks
  <1>3. ASSUME NEW t \in Threads, Read(t) PROVE TypeOK'
    <2>1. call[t] \in Ops
      BY <1>3 DEF Read, TypeOK
    <2>2. regs[call[t].reg] \in Byte
      BY <2>1, OpsAssumption DEF TypeOK, OpType
    <2>. QED BY <1>3, <2>2 DEF Read, TypeOK, Goto, Labels
  <1>4. ASSUME NEW t \in Threads, ReadFails(t) PROVE TypeOK'
    BY <1>4 DEF ReadFails, TypeOK, Goto, Labels
  <1>5. ASSUME NEW t \in Threads, Write(t) PROVE TypeOK'
    <2>1. regs' \in [Regs -> Byte]
      BY <1>5, StepStaysInside DEF Step
    <2>2. ok' \in [Threads -> BOOLEAN]
      BY <1>5 DEF Write, TypeOK
    <2>. QED BY <1>5, <2>1, <2>2 DEF Write, TypeOK, Goto, Labels
  <1>6. ASSUME NEW t \in Threads, WriteChunk(t) PROVE TypeOK'
    <2>. DEFINE n == Min2(Len(call[t].vals) - done[t], MaxChunk)
    <2>1. regs' \in [Regs -> Byte]
      BY <1>6, StepStaysInside DEF Step
    <2>2. n \in Nat
      BY <1>6, ChunkSize DEF WriteChunk
    <2>3. done' = [done EXCEPT ![t] = done[t] + n]
      BY <1>6 DEF WriteChunk
    <2>. HIDE DEF n
    <2>4. done' \in [Threads -> Nat]
      BY <2>2, <2>3 DEF TypeOK
    <2>. QED BY <1>6, <2>1, <2>4 DEF WriteChunk, TypeOK, Goto, Labels
  <1>7. ASSUME NEW t \in Threads, WriteChunkFails(t) PROVE TypeOK'
    <2>1. regs' \in [Regs -> Byte]
      BY <1>7, StepStaysInside DEF Step
    <2>. QED BY <1>7, <2>1 DEF WriteChunkFails, TypeOK, Goto, Labels
  <1>8. ASSUME NEW t \in Threads, Return(t) PROVE TypeOK'
    BY <1>8, OpsAssumption, RegmapAssumption
    DEF Return, TypeOK, Goto, Labels, LockOf, Locks, Byte
  <1>9. CASE UNCHANGED vars
    BY <1>9 DEF vars, TypeOK
  <1>. QED
    BY <1>1, <1>2, <1>3, <1>4, <1>5, <1>6, <1>7, <1>8, <1>9 DEF Next, Step

LEMMA PathStep == IInv /\ [Next]_vars => PathOK'
  <1>. SUFFICES ASSUME IInv, [Next]_vars PROVE PathOK'
    OBVIOUS
  <1>. USE DEF IInv, PathOK, Goto, TypeOK, Labels
  <1>1. ASSUME NEW t \in Threads, NEW o \in Ops, Call(t, o) PROVE PathOK'
    BY <1>1 DEF Call
  <1>2. ASSUME NEW t \in Threads, Lock(t) PROVE PathOK'
    BY <1>2 DEF Lock
  <1>3. ASSUME NEW t \in Threads, Step(t) PROVE PathOK'
    <2>1. CASE Read(t)
      BY <2>1 DEF Read, NeedsWrite
    <2>2. CASE ReadFails(t) \/ Write(t) \/ WriteChunk(t) \/ WriteChunkFails(t)
      BY <2>2 DEF ReadFails, Write, WriteChunk, WriteChunkFails
    <2>3. CASE Return(t)
      BY <2>3 DEF Return
    <2>. QED BY <1>3, <2>1, <2>2, <2>3 DEF Step
  <1>4. CASE UNCHANGED vars
    BY <1>4 DEF vars
  <1>. QED BY <1>1, <1>2, <1>3, <1>4 DEF Next

LEMMA LockStep == IInv /\ [Next]_vars => LockDiscipline'
  <1>. SUFFICES ASSUME IInv, [Next]_vars PROVE LockDiscipline'
    OBVIOUS
  <1>. USE DEF IInv, LockDiscipline, Holding, Goto, TypeOK, Labels
  <1>1. ASSUME NEW t \in Threads, NEW o \in Ops, Call(t, o) PROVE LockDiscipline'
    BY <1>1 DEF Call
  <1>2. ASSUME NEW t \in Threads, Lock(t) PROVE LockDiscipline'
    <2>1. call[t] \in Ops /\ LockOf(call[t]) \in Locks
      BY <1>2 DEF Lock, LockOf, Locks
    <2>2. NoThread \notin Threads
      BY RegmapAssumption
    <2>3. call[t].kind # "read"
      BY <1>2 DEF Lock, PathOK
    <2>. QED BY <1>2, <2>1, <2>2, <2>3 DEF Lock
  <1>3. ASSUME NEW t \in Threads, Step(t) PROVE LockDiscipline'
    <2>1. CASE Read(t) \/ ReadFails(t) \/ Write(t) \/ WriteChunk(t) \/ WriteChunkFails(t)
      BY <2>1 DEF Read, ReadFails, Write, WriteChunk, WriteChunkFails, PathOK, NeedsWrite
    <2>2. CASE Return(t)
      BY <2>2, RegmapAssumption DEF Return, LockOf, Locks
    <2>. QED BY <1>3, <2>1, <2>2 DEF Step
  <1>4. CASE UNCHANGED vars
    BY <1>4 DEF vars
  <1>. QED BY <1>1, <1>2, <1>3, <1>4 DEF Next

(* A step of one thread leaves another thread where it is, with its locals,  *)
(* and leaves alone the registers the other is working on under its lock.    *)
LEMMA OthersUndisturbed ==
    ASSUME IInv, NEW t \in Threads, NEW u \in Threads, t # u,
           (\E o \in Ops : Call(t, o)) \/ Lock(t) \/ Step(t)
    PROVE  /\ pc'[u] = pc[u] /\ call'[u] = call[u] /\ reg_val'[u] = reg_val[u]
           /\ done'[u] = done[u] /\ ok'[u] = ok[u]
           /\ Holding(u) => \A a \in Footprint(call[u]) \cap Regs : regs'[a] = regs[a]
  <1>. USE DEF IInv
  <1>1. CASE (\E o \in Ops : Call(t, o)) \/ Lock(t)
    BY <1>1 DEF Call, Lock, Goto, TypeOK
  <1>2. CASE Step(t)
    <2>1. /\ pc'[u] = pc[u] /\ call'[u] = call[u] /\ reg_val'[u] = reg_val[u]
          /\ done'[u] = done[u] /\ ok'[u] = ok[u]
      BY <1>2 DEF Step, Read, ReadFails, Write, WriteChunk, WriteChunkFails,
                  Return, Goto, TypeOK
    <2>2. ASSUME Holding(u), NEW a \in Footprint(call[u]) \cap Regs
          PROVE  regs'[a] = regs[a]
      <3>1. CASE regs' = regs
        BY <3>1
      <3>2. CASE /\ pc[t] = "write"
                 /\ \A b \in Regs \ Footprint(call[t]) : regs'[b] = regs[b]
        <4>1. Holding(t)
          BY <3>2 DEF Holding, PathOK
        <4>2. a \notin Footprint(call[t])
          BY <2>2, <4>1, Exclusion
        <4>. QED BY <3>2, <4>2
      <3>. QED BY <1>2, <3>1, <3>2, StepStaysInside
    <2>. QED BY <2>1, <2>2
  <1>. QED BY <1>1, <1>2

LEMMA CopyStep == IInv /\ [Next]_vars => CopyIsCurrent'
  <1>. SUFFICES ASSUME IInv, [Next]_vars,
                       NEW u \in Threads,
                       (pc[u] = "write" /\ call[u].kind \in Modifiers)'
                PROVE  (reg_val[u] = regs[call[u].reg])'
    BY DEF CopyIsCurrent
  <1>. USE DEF IInv
  <1>1. ASSUME NEW t \in Threads, t # u,
               (\E o \in Ops : Call(t, o)) \/ Lock(t) \/ Step(t)
        PROVE  (reg_val[u] = regs[call[u].reg])'
    <2>1. pc[u] = "write" /\ call[u].kind \in Modifiers /\ call'[u] = call[u]
      BY <1>1, OthersUndisturbed
    <2>2. Holding(u)
      BY <2>1 DEF Holding, Modifiers
    <2>3. call[u] \in Ops
      BY <2>1 DEF TypeOK
    <2>4. call[u].reg \in Footprint(call[u]) \cap Regs
      BY <2>1, <2>3, OpsAssumption DEF Footprint, Modifiers, OpType
    <2>. QED BY <1>1, <2>1, <2>2, <2>4, OthersUndisturbed DEF CopyIsCurrent
  <1>2. CASE (\E o \in Ops : Call(u, o)) \/ Lock(u)
    BY <1>2 DEF Call, Lock, Goto, TypeOK
  <1>3. CASE Read(u)
    BY <1>3 DEF Read, TypeOK
  <1>4. CASE ReadFails(u) \/ Write(u) \/ WriteChunkFails(u) \/ Return(u)
    BY <1>4 DEF ReadFails, Write, WriteChunkFails, Return, Goto, TypeOK
  <1>5. CASE WriteChunk(u)
    BY <1>5 DEF WriteChunk, Modifiers
  <1>6. CASE UNCHANGED vars
    BY <1>6 DEF vars, CopyIsCurrent
  <1>. QED BY <1>1, <1>2, <1>3, <1>4, <1>5, <1>6 DEF Next, Step

LEMMA PrefixStep == IInv /\ [Next]_vars => PrefixStands'
  <1>. SUFFICES ASSUME IInv, [Next]_vars,
                       NEW u \in Threads,
                       (pc[u] = "write" /\ call[u].kind = "writes")'
                PROVE  (/\ done[u] < Len(call[u].vals)
                        /\ \A i \in 1 .. done[u] :
                              regs[call[u].reg + i - 1] = call[u].vals[i])'
    BY DEF PrefixStands
  <1>. USE DEF IInv
  <1>1. ASSUME NEW t \in Threads, t # u,
               (\E o \in Ops : Call(t, o)) \/ Lock(t) \/ Step(t)
        PROVE  (/\ done[u] < Len(call[u].vals)
                /\ \A i \in 1 .. done[u] :
                      regs[call[u].reg + i - 1] = call[u].vals[i])'
    <2>1. pc[u] = "write" /\ call[u].kind = "writes" /\ call'[u] = call[u]
          /\ done'[u] = done[u]
      BY <1>1, OthersUndisturbed
    <2>2. Holding(u)
      BY <2>1 DEF Holding
    <2>3. call[u] \in Ops /\ done[u] \in Nat
      BY <2>1 DEF TypeOK
    <2>4. /\ done[u] < Len(call[u].vals)
          /\ \A i \in 1 .. done[u] : regs[call[u].reg + i - 1] = call[u].vals[i]
      BY <2>1 DEF PrefixStands
    <2>5. call[u].reg \in Nat /\ Len(call[u].vals) \in Nat
          /\ call[u].reg + Len(call[u].vals) <= NRegs /\ NRegs \in Nat
      BY <2>1, <2>3, OpsAssumption DEF OpType, Regs
    <2>6. ASSUME NEW i \in 1 .. done[u]
          PROVE  call[u].reg + i - 1 \in Footprint(call[u]) \cap Regs
      <3>1. i \in 1 .. Len(call[u].vals)
        BY <2>3, <2>4, <2>5
      <3>. QED BY <2>1, <2>3, <3>1, BlockInside
    <2>. QED BY <1>1, <2>1, <2>2, <2>4, <2>6, OthersUndisturbed
  <1>2. CASE \E o \in Ops : Call(u, o)
    BY <1>2 DEF Call, Goto, TypeOK
  <1>3. CASE Lock(u)
    <2>1. done'[u] = 0 /\ call'[u] = call[u] /\ call[u] \in Ops
      BY <1>3 DEF Lock, PathOK, TypeOK
    <2>. QED BY <2>1, OpsAssumption
  <1>4. CASE Read(u)
    BY <1>4 DEF Read, Goto, TypeOK, NeedsWrite
  <1>5. CASE ReadFails(u) \/ Write(u) \/ WriteChunkFails(u) \/ Return(u)
    BY <1>5 DEF ReadFails, Write, WriteChunkFails, Return, Goto, TypeOK
  <1>6. CASE WriteChunk(u)
    <2>. DEFINE o == call[u]
                n == Min2(Len(o.vals) - done[u], MaxChunk)
    <2>1. /\ pc[u] = "write" /\ o.kind = "writes" /\ call' = call
          /\ regs' = Landed(o, regs, done[u], done[u] + n)
          /\ done'[u] = done[u] + n
          /\ done[u] + n # Len(o.vals)
      BY <1>6 DEF WriteChunk, Goto, TypeOK
    <2>2. o \in Ops /\ n \in Nat \ {0} /\ done[u] + n <= Len(o.vals)
      BY <2>1, ChunkSize
    <2>3. done[u] \in Nat
      BY DEF TypeOK
    <2>4. o.reg \in Nat /\ Len(o.vals) \in Nat
          /\ o.reg + Len(o.vals) <= NRegs /\ NRegs \in Nat
      BY <2>1, <2>2, OpsAssumption DEF OpType, Regs
    <2>5. \A i \in 1 .. done[u] : regs[o.reg + i - 1] = o.vals[i]
      BY <2>1 DEF PrefixStands
    <2>. HIDE DEF n, o
    <2>6. ASSUME NEW i \in 1 .. (done[u] + n)
          PROVE  regs'[o.reg + i - 1] = o.vals[i]
      <3>1. o.reg + i - 1 \in Regs
        BY <2>2, <2>3, <2>4 DEF Regs
      <3>2. CASE i <= done[u]
        BY <2>1, <2>2, <2>3, <2>4, <2>5, <3>1, <3>2 DEF Landed
      <3>3. CASE i > done[u]
        <4>1. o.reg + i - 1 \in (o.reg + done[u]) .. (o.reg + (done[u] + n) - 1)
          BY <2>2, <2>3, <2>4, <3>3
        <4>2. (o.reg + i - 1) - o.reg + 1 = i
          BY <2>4
        <4>. QED BY <2>1, <3>1, <4>1, <4>2 DEF Landed
      <3>. QED BY <2>2, <2>3, <3>2, <3>3
    <2>7. done'[u] < Len(o.vals)
      BY <2>1, <2>2, <2>3, <2>4
    <2>. QED BY <2>1, <2>6, <2>7 DEF o
  <1>7. CASE UNCHANGED vars
    BY <1>7 DEF vars, PrefixStands
  <1>. QED BY <1>1, <1>2, <1>3, <1>4, <1>5, <1>6, <1>7 DEF Next, Step

(* Delivered looks at the footprint only. *)
LEMMA DeliveredLocal ==
    ASSUME NEW o \in Ops, NEW r, NEW s, Delivered(o, r),
           \A a \in Footprint(o) \cap Regs : s[a] = r[a]
    PROVE  Delivered(o, s)
  <1>1. o.reg \in Regs /\ o.kind \in Kinds
    BY OpsAssumption DEF OpType
  <1>2. CASE o.kind = "writes"
    <2>1. ASSUME NEW i \in 1 .. Len(o.vals)
          PROVE  s[o.reg + i - 1] = o.vals[i]
      <3>1. r[o.reg + i - 1] = o.vals[i]
        BY <1>2 DEF Delivered
      <3>. QED BY <1>2, <3>1, BlockInside
    <2>. QED BY <1>2, <2>1 DEF Delivered
  <1>3. CASE o.kind = "read"
    BY <1>3 DEF Delivered
  <1>4. CASE o.kind \notin {"read", "writes"}
    <2>1. s[o.reg] = r[o.reg]
      BY <1>1, <1>4 DEF Footprint
    <2>. QED BY <1>4, <2>1 DEF Delivered
  <1>. QED BY <1>2, <1>3, <1>4

LEMMA SuccessStep == IInv /\ [Next]_vars => SuccessMeansDone'
  <1>. SUFFICES ASSUME IInv, [Next]_vars,
                       NEW u \in Threads,
                       pc'[u] = "ret", ok'[u]
                PROVE  Delivered(call'[u], regs')
    BY DEF SuccessMeansDone, Delivered
  <1>. USE DEF IInv
  <1>1. ASSUME NEW t \in Threads, t # u,
               (\E o \in Ops : Call(t, o)) \/ Lock(t) \/ Step(t)
        PROVE  Delivered(call'[u], regs')
    <2>1. pc[u] = "ret" /\ ok[u] /\ call'[u] = call[u]
      BY <1>1, OthersUndisturbed
    <2>2. call[u] \in Ops /\ Delivered(call[u], regs)
      BY <2>1 DEF TypeOK, SuccessMeansDone, Delivered
    <2>3. CASE call[u].kind = "read"
      BY <2>1, <2>3 DEF Delivered
    <2>4. CASE call[u].kind # "read"
      <3>1. Holding(u)
        BY <2>1, <2>4 DEF Holding
      <3>. QED BY <1>1, <2>1, <2>2, <3>1, OthersUndisturbed, DeliveredLocal
    <2>. QED BY <2>3, <2>4
  <1>2. CASE (\E o \in Ops : Call(u, o)) \/ Lock(u)
    BY <1>2 DEF Call, Lock, Goto, TypeOK
  <1>3. CASE Read(u)
    <2>1. ~ NeedsWrite(call[u], regs[call[u].reg]) /\ call' = call /\ regs' = regs
      BY <1>3 DEF Read, Goto, TypeOK
    <2>2. call[u].kind \in Modifiers \cup {"read"}
      BY <1>3 DEF Read, PathOK
    <2>. QED BY <2>1, <2>2 DEF NeedsWrite, Delivered, Modifiers
  <1>4. CASE ReadFails(u)
    BY <1>4 DEF ReadFails, TypeOK
  <1>5. CASE Write(u)
    <2>. DEFINE o == call[u]
    <2>1. /\ pc[u] = "write" /\ o.kind \notin {"writes", "read"}
          /\ call' = call /\ o \in Ops
      BY <1>5 DEF Write, PathOK, TypeOK
    <2>2. o.reg \in Regs
      BY <2>1, OpsAssumption DEF OpType
    <2>3. regs'[o.reg] = Modified(o, reg_val[u])
      BY <1>5, <2>2 DEF Write, TypeOK
    <2>4. o.kind \in {"set", "clr", "update", "write"}
      BY <2>1, OpsAssumption DEF OpType, Kinds
    <2>. HIDE DEF o
    <2>5. Delivered(o, regs')
      BY <2>3, <2>4 DEF Delivered, Modified
    <2>. QED BY <2>1, <2>5 DEF o
  <1>6. CASE WriteChunk(u)
    <2>. DEFINE o == call[u]
                n == Min2(Len(o.vals) - done[u], MaxChunk)
    <2>1. /\ pc[u] = "write" /\ o.kind = "writes" /\ call' = call
          /\ regs' = Landed(o, regs, done[u], done[u] + n)
          /\ done[u] + n = Len(o.vals)
      BY <1>6 DEF WriteChunk, Goto, TypeOK
    <2>2. o \in Ops /\ n \in Nat \ {0}
      BY <2>1, ChunkSize
    <2>3. done[u] \in Nat
      BY DEF TypeOK
    <2>4. o.reg \in Nat
      BY <2>2, OpsAssumption DEF OpType, Regs
    <2>5. \A i \in 1 .. done[u] : regs[o.reg + i - 1] = o.vals[i]
      BY <2>1 DEF PrefixStands
    <2>. HIDE DEF n, o
    <2>6. ASSUME NEW i \in 1 .. Len(o.vals)
          PROVE  regs'[o.reg + i - 1] = o.vals[i]
      <3>1. o.reg + i - 1 \in Regs
        BY <2>1, <2>2, BlockInside
      <3>2. CASE i <= done[u]
        BY <2>1, <2>2, <2>3, <2>4, <2>5, <3>1, <3>2 DEF Landed
      <3>3. CASE i > done[u]
        <4>1. o.reg + i - 1 \in (o.reg + done[u]) .. (o.reg + (done[u] + n) - 1)
          BY <2>1, <2>2, <2>3, <2>4, <3>3
        <4>2. (o.reg + i - 1) - o.reg + 1 = i
          BY <2>4
        <4>. QED BY <2>1, <3>1, <4>1, <4>2 DEF Landed
      <3>. QED BY <2>1, <2>2, <2>3, <3>2, <3>3
    <2>. QED BY <2>1, <2>6 DEF o, Delivered
  <1>7. CASE WriteChunkFails(u)
    BY <1>7 DEF WriteChunkFails, TypeOK
  <1>8. CASE Return(u)
    BY <1>8 DEF Return, Goto, TypeOK
  <1>9. CASE UNCHANGED vars
    BY <1>9 DEF vars, SuccessMeansDone, Delivered
  <1>. QED
    BY <1>1, <1>2, <1>3, <1>4, <1>5, <1>6, <1>7, <1>8, <1>9 DEF Next, Step

-----------------------------------------------------------------------------
LEMMA InitIInv == Init => IInv
  <1>. SUFFICES ASSUME Init PROVE IInv
    OBVIOUS
  <1>1. TypeOK
    BY OpsAssumption, RegmapAssumption DEF Init, TypeOK, Byte, Labels, Locks
  <1>2. LockDiscipline
    BY RegmapAssumption DEF Init, LockDiscipline, Holding
  <1>3. PathOK /\ CopyIsCurrent /\ PrefixStands /\ SuccessMeansDone
    BY DEF Init, PathOK, CopyIsCurrent, PrefixStands, SuccessMeansDone
  <1>. QED BY <1>1, <1>2, <1>3 DEF IInv

LEMMA Inductive == Spec => []IInv
  <1>1. IInv /\ [Next]_vars => IInv'
    BY TypeStep, PathStep, LockStep, CopyStep, PrefixStep, SuccessStep DEF IInv
  <1>. QED BY <1>1, InitIInv, PTL DEF Spec

(* Every state of every execution is well typed. *)
THEOREM Typing == Spec => []TypeOK
  BY Inductive, PTL DEF IInv

(* A lock is held by the one thread in its critical section, and given back  *)
(* on every path (axp_regmap_set_bits ... axp_regmap_update_sync).           *)
THEOREM Locking == Spec => []LockDiscipline
  BY Inductive, PTL DEF IInv

(* The copy an accessor modifies and writes back is the register's current   *)
(* contents.                                                                 *)
THEOREM CurrentCopy == Spec => []CopyIsCurrent
  BY Inductive, PTL DEF IInv

(* A call that returns 0 under the lock has done what it was asked. *)
THEOREM Success == Spec => []SuccessMeansDone
  BY Inductive, PTL DEF IInv

(* A read-modify-write changes no bit outside its mask: the body of           *)
(* NoLostUpdate, from the invariant in the state before the step.            *)
LEMMA WriteBackKeepsBits ==
    ASSUME IInv, [Next]_vars, NEW u \in Threads
    PROVE  KeepsOtherBits(u)
  <1>. USE DEF IInv
  <1>. SUFFICES ASSUME pc[u] = "write", pc'[u] # "write", call[u].kind \in Modifiers
                PROVE  /\ \A a \in Regs \ {call[u].reg} : regs'[a] = regs[a]
                       /\ regs'[call[u].reg] \ (call[u].mask \cup call[u].val)
                            = regs[call[u].reg] \ (call[u].mask \cup call[u].val)
    BY DEF KeepsOtherBits
  <1>1. Write(u)
    <2>1. ASSUME NEW t \in Threads, t # u,
                 (\E o \in Ops : Call(t, o)) \/ Lock(t) \/ Step(t)
          PROVE  FALSE
      BY <2>1, OthersUndisturbed
    <2>2. pc'[u] # pc[u]
      OBVIOUS
    <2>3. (\E o \in Ops : Call(u, o)) \/ Lock(u) \/ Step(u)
      BY <2>1, <2>2 DEF Next, vars
    <2>. QED
      BY <2>3 DEF Call, Lock, Step, Read, ReadFails, WriteChunk, WriteChunkFails,
                  Return, Modifiers
  <1>2. call[u] \in Ops /\ call[u].reg \in Regs
    BY OpsAssumption DEF TypeOK, OpType
  <1>3. \/ regs' = regs
        \/ regs' = [regs EXCEPT ![call[u].reg] = Modified(call[u], regs[call[u].reg])]
    BY <1>1 DEF Write, CopyIsCurrent
  <1>4. Modified(call[u], regs[call[u].reg]) \ (call[u].mask \cup call[u].val)
          = regs[call[u].reg] \ (call[u].mask \cup call[u].val)
    BY DEF Modified, Modifiers
  <1>. QED BY <1>2, <1>3, <1>4 DEF TypeOK

(* No update of a register is lost to a concurrent set_bits, clr_bits or      *)
(* update of another bit field.                                              *)
THEOREM UpdatesSurvive == Spec => NoLostUpdate
  <1>1. IInv /\ [Next]_vars => [\A t \in Threads : KeepsOtherBits(t)]_vars
    BY WriteBackKeepsBits
  <1>. QED BY <1>1, Inductive, PTL DEF Spec, NoLostUpdate

-----------------------------------------------------------------------------
(* The refinement: each step of an accessor is a step of AtomicRegs or none. *)

LEMMA InitMaps == Init => Atomic!Init
  BY DEF Init, Atomic!Init, Regs, Byte, Atomic!Regs, Atomic!Byte, Finished

(* The operators of AxpRegOps mean the same on both sides. *)
LEMMA SameOps ==
    ASSUME NEW o, NEW v, NEW r, NEW i, NEW j
    PROVE  /\ Atomic!Modified(o, v) = Modified(o, v)
           /\ Atomic!Landed(o, r, i, j) = Landed(o, r, i, j)
  BY DEF Modified, Atomic!Modified, Landed, Atomic!Landed, Regs, Atomic!Regs

(* The abstract outcome and result, as functions of the concrete state. *)
Outcome == [t \in Threads |-> IF ~Finished(t) THEN "none"
                              ELSE IF ok[t] THEN "ok" ELSE "fail"]
Result == [t \in Threads |-> IF Finished(t) /\ ok[t] /\ call[t].kind = "read"
                             THEN reg_val[t] ELSE {}]

(* A register that needs no write already has the modified value. *)
LEMMA NoWriteNeeded ==
    ASSUME NEW o \in Ops, o.kind \in Modifiers \cup {"read"}, NEW v \in Byte,
           ~ NeedsWrite(o, v)
    PROVE  Modified(o, v) = v
  BY DEF NeedsWrite, Modified, Modifiers

LEMMA StepMaps == IInv /\ [Next]_vars => [Atomic!Next]_<<regs, call, done, Outcome, Result>>
  <1>. SUFFICES ASSUME IInv, [Next]_vars
                PROVE  Atomic!Next \/ UNCHANGED <<regs, call, done, Outcome, Result>>
    OBVIOUS
  <1>. USE DEF IInv
  <1>1. ASSUME NEW t \in Threads, NEW o \in Ops, Call(t, o)
        PROVE  Atomic!Begin(t, o)
    <2>1. pc[t] = "idle" /\ call[t] = NoOp
      BY <1>1 DEF Call, TypeOK
    <2>2. pc' = [pc EXCEPT ![t] = IF o.kind = "read" THEN "read" ELSE "lock"]
      BY <1>1 DEF Call, Goto
    <2>3. \A u \in Threads : (Finished(u) <=> Finished(u)') /\ ~Finished(t)
      BY <2>1, <2>2 DEF Finished, TypeOK
    <2>4. Outcome' = Outcome
      BY <1>1, <2>3 DEF Outcome, Call
    <2>5. \A u \in Threads : u # t => call'[u] = call[u]
      BY <1>1 DEF Call, TypeOK
    <2>6. Result' = Result
      BY <1>1, <2>3, <2>5 DEF Result, Call
    <2>. QED BY <1>1, <2>1, <2>4, <2>6 DEF Call, Atomic!Begin, Outcome, Result
  <1>2. ASSUME NEW t \in Threads, Lock(t)
        PROVE  UNCHANGED <<regs, call, done, Outcome, Result>>
    BY <1>2 DEF Lock, Goto, TypeOK, Finished, Outcome, Result
  <1>3. ASSUME NEW t \in Threads, Read(t), NeedsWrite(call[t], regs[call[t].reg])
        PROVE  UNCHANGED <<regs, call, done, Outcome, Result>>
    BY <1>3 DEF Read, Goto, TypeOK, Finished, Outcome, Result
  <1>4. ASSUME NEW t \in Threads, Read(t), ~ NeedsWrite(call[t], regs[call[t].reg])
        PROVE  Atomic!Take(t)
    <2>. DEFINE o == call[t]
    <2>1. /\ pc[t] = "read" /\ o.kind \in Modifiers \cup {"read"} /\ o \in Ops /\ ok[t]
          /\ o # NoOp
      BY <1>4, OpsAssumption DEF Read, PathOK, TypeOK
    <2>2. regs[o.reg] \in Byte
      BY <2>1, OpsAssumption DEF TypeOK, OpType
    <2>3. Modified(o, regs[o.reg]) = regs[o.reg]
      BY <1>4, <2>1, <2>2, NoWriteNeeded
    <2>4. regs' = [regs EXCEPT ![o.reg] = Atomic!Modified(o, regs[o.reg])]
      <3>1. regs' = [regs EXCEPT ![o.reg] = Modified(o, regs[o.reg])]
        BY <1>4, <2>3 DEF Read, TypeOK
      <3>. QED BY <3>1, SameOps
    <2>5. Outcome[t] = "none" /\ Outcome' = [Outcome EXCEPT ![t] = "ok"]
      BY <1>4, <2>1 DEF Read, Goto, TypeOK, Finished, Outcome
    <2>6. Result' = [Result EXCEPT ![t] = IF o.kind = "read" THEN regs[o.reg] ELSE {}]
      BY <1>4, <2>1 DEF Read, Goto, TypeOK, Finished, Result
    <2>7. o.kind # "writes" /\ call' = call /\ done' = done
      BY <1>4, <2>1 DEF Modifiers, Read
    <2>. QED BY <2>1, <2>4, <2>5, <2>6, <2>7, Zenon
             DEF Atomic!Take, Outcome, Result
  <1>5. ASSUME NEW t \in Threads, ReadFails(t)
        PROVE  Atomic!Fail(t)
    <2>1. pc[t] = "read" /\ call[t] # NoOp
      BY <1>5, OpsAssumption DEF ReadFails, TypeOK
    <2>2. Outcome[t] = "none" /\ Outcome' = [Outcome EXCEPT ![t] = "fail"]
      BY <1>5, <2>1 DEF ReadFails, Goto, TypeOK, Finished, Outcome
    <2>3. Result' = Result
      BY <1>5, <2>1 DEF ReadFails, Goto, TypeOK, Finished, Result
    <2>. QED BY <1>5, <2>1, <2>2, <2>3 DEF ReadFails, Atomic!Fail, Outcome, Result
  <1>6. ASSUME NEW t \in Threads, Write(t)
        PROVE  Atomic!Take(t) \/ Atomic!Fail(t)
    <2>. DEFINE o == call[t]
    <2>1. /\ pc[t] = "write" /\ o.kind \notin {"writes", "read"} /\ o \in Ops
          /\ ok[t] /\ o # NoOp
      BY <1>6, OpsAssumption DEF Write, PathOK, TypeOK
    <2>2. Modified(o, reg_val[t]) = Modified(o, regs[o.reg])
      <3>1. CASE o.kind \in Modifiers
        BY <2>1, <3>1 DEF CopyIsCurrent
      <3>2. CASE o.kind = "write"
        BY <3>2 DEF Modified
      <3>. QED BY <2>1, <3>1, <3>2, OpsAssumption DEF OpType, Kinds, Modifiers
    <2>3. Outcome[t] = "none"
      BY <2>1 DEF Outcome, Finished
    <2>4. /\ Result' = [Result EXCEPT ![t] = IF o.kind = "read" THEN regs[o.reg] ELSE {}]
          /\ Result' = Result
          /\ call' = call /\ done' = done
      BY <1>6, <2>1 DEF Write, Goto, TypeOK, Finished, Result
    <2>5. CASE ok'[t]
      <3>1. regs' = [regs EXCEPT ![o.reg] = Modified(o, regs[o.reg])]
        BY <1>6, <2>2, <2>5 DEF Write, TypeOK
      <3>2. Outcome' = [Outcome EXCEPT ![t] = "ok"]
        BY <1>6, <2>1, <2>5 DEF Write, Goto, TypeOK, Finished, Outcome
      <3>3. regs' = [regs EXCEPT ![o.reg] = Atomic!Modified(o, regs[o.reg])]
        BY <3>1, SameOps
      <3>. QED BY <2>1, <2>3, <2>4, <3>2, <3>3, Zenon
               DEF Atomic!Take, Outcome, Result
    <2>6. CASE ~ok'[t]
      <3>1. \/ regs' = regs
            \/ regs' = [regs EXCEPT ![o.reg] = Modified(o, regs[o.reg])]
        BY <1>6, <2>2 DEF Write
      <3>2. Outcome' = [Outcome EXCEPT ![t] = "fail"]
        BY <1>6, <2>1, <2>6 DEF Write, Goto, TypeOK, Finished, Outcome
      <3>. QED BY <2>1, <2>3, <2>4, <3>1, <3>2, SameOps
               DEF Atomic!Fail, Outcome, Result
    <2>. QED BY <2>5, <2>6
  <1>7. ASSUME NEW t \in Threads, WriteChunk(t)
        PROVE  Atomic!TakeSome(t)
    <2>. DEFINE o == call[t]
                n == Min2(Len(o.vals) - done[t], MaxChunk)
    <2>1. /\ pc[t] = "write" /\ o.kind = "writes" /\ call' = call
          /\ regs' = Landed(o, regs, done[t], done[t] + n)
          /\ done' = [done EXCEPT ![t] = done[t] + n]
          /\ pc' = [pc EXCEPT ![t] = IF done[t] + n = Len(o.vals) THEN "ret" ELSE "write"]
          /\ reg_val' = reg_val /\ ok' = ok
      BY <1>7 DEF WriteChunk, Goto
    <2>2. o \in Ops /\ n \in Nat \ {0} /\ done[t] + n <= Len(o.vals)
      BY <2>1, ChunkSize
    <2>3. done[t] \in Nat /\ ok[t] /\ o # NoOp
      BY <2>1, <2>2, OpsAssumption DEF TypeOK, PathOK
    <2>4. o.reg \in Nat /\ Len(o.vals) \in Nat
          /\ o.reg + Len(o.vals) <= NRegs /\ NRegs \in Nat
      BY <2>1, <2>2, OpsAssumption DEF OpType, Regs
    <2>. HIDE DEF n
    <2>5. n \in 1 .. (Len(o.vals) - done[t])
      BY <2>2, <2>3, <2>4
    <2>6. /\ Outcome[t] = "none"
          /\ Outcome' = [Outcome EXCEPT
                           ![t] = IF done[t] + n = Len(o.vals) THEN "ok" ELSE "none"]
      BY <2>1, <2>3 DEF TypeOK, Finished, Outcome
    <2>7. Result' = Result
      BY <2>1 DEF TypeOK, Finished, Result
    <2>8. \E k \in 1 .. (Len(o.vals) - done[t]) :
             /\ regs' = Atomic!Landed(o, regs, done[t], done[t] + k)
             /\ done' = [done EXCEPT ![t] = done[t] + k]
             /\ Outcome' = [Outcome EXCEPT
                              ![t] = IF done[t] + k = Len(o.vals) THEN "ok" ELSE "none"]
      <3>1. regs' = Atomic!Landed(o, regs, done[t], done[t] + n)
        BY <2>1, SameOps
      <3>. QED BY <2>1, <2>5, <2>6, <3>1, Zenon
    <2>. QED BY <2>1, <2>3, <2>6, <2>7, <2>8, Zenon DEF Atomic!TakeSome, Outcome, Result
  <1>8. ASSUME NEW t \in Threads, WriteChunkFails(t)
        PROVE  Atomic!Fail(t)
    <2>. DEFINE o == call[t]
                n == Min2(Len(o.vals) - done[t], MaxChunk)
    <2>1. /\ pc[t] = "write" /\ o.kind = "writes" /\ call' = call
          /\ pc' = [pc EXCEPT ![t] = "ret"]
          /\ ok' = [ok EXCEPT ![t] = FALSE]
          /\ reg_val' = reg_val /\ done' = done
      BY <1>8 DEF WriteChunkFails, Goto
    <2>2. o \in Ops /\ n \in Nat \ {0} /\ done[t] + n <= Len(o.vals)
      BY <2>1, ChunkSize
    <2>3. done[t] \in Nat /\ o # NoOp
      BY <2>2, OpsAssumption DEF TypeOK
    <2>4. o.reg \in Nat /\ Len(o.vals) \in Nat
      BY <2>1, <2>2, OpsAssumption DEF OpType, Regs
    <2>5. \E k \in 0 .. n : regs' = Landed(o, regs, done[t], done[t] + k)
      BY <1>8 DEF WriteChunkFails
    <2>. HIDE DEF n
    <2>6. PICK k \in 0 .. n : regs' = Landed(o, regs, done[t], done[t] + k)
      BY <2>5
    <2>7. ASSUME k = 0 PROVE regs' = regs
      <3>1. ASSUME NEW a \in Regs
            PROVE  a \notin (o.reg + done[t]) .. (o.reg + (done[t] + k) - 1)
        BY <2>3, <2>4, <2>7
      <3>. QED BY <2>6, <3>1 DEF Landed, TypeOK
    <2>8. ASSUME k # 0 PROVE k \in 1 .. (Len(o.vals) - done[t])
      BY <2>2, <2>3, <2>4, <2>8
    <2>9. \/ regs' = regs
          \/ \E j \in 1 .. (Len(o.vals) - done[t]) :
                regs' = Landed(o, regs, done[t], done[t] + j)
      BY <2>6, <2>7, <2>8
    <2>10. Outcome[t] = "none" /\ Outcome' = [Outcome EXCEPT ![t] = "fail"]
      BY <2>1 DEF TypeOK, Finished, Outcome
    <2>11. Result' = Result
      BY <2>1 DEF TypeOK, Finished, Result
    <2>. QED BY <2>1, <2>3, <2>9, <2>10, <2>11, SameOps DEF Atomic!Fail, Outcome, Result
  <1>9. ASSUME NEW t \in Threads, Return(t)
        PROVE  Atomic!End(t)
    <2>1. Outcome[t] # "none" /\ Outcome' = [Outcome EXCEPT ![t] = "none"]
      BY <1>9 DEF Return, Goto, TypeOK, Finished, Outcome
    <2>2. Result' = [Result EXCEPT ![t] = {}]
      BY <1>9 DEF Return, Goto, TypeOK, Finished, Result
    <2>. QED BY <1>9, <2>1, <2>2 DEF Return, Atomic!End, Outcome, Result
  <1>10. CASE UNCHANGED vars
    BY <1>10 DEF vars, Outcome, Result, Finished
  <1>. QED
    BY <1>1, <1>2, <1>3, <1>4, <1>5, <1>6, <1>7, <1>8, <1>9, <1>10
    DEF Next, Step, Atomic!Next

(* The locked accessors over a bus that fails implement the register file in  *)
(* which every call takes effect in one step.                                 *)
THEOREM Refinement == Spec => AtomicSpec
  <1>1. IInv /\ [Next]_vars => [Atomic!Next]_(Atomic!avars)
    BY StepMaps DEF Atomic!avars, Outcome, Result
  <1>. QED BY <1>1, InitMaps, Inductive, PTL DEF Spec, AtomicSpec, Atomic!Spec
=============================================================================
