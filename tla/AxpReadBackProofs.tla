------------------------- MODULE AxpReadBackProofs -------------------------
(***************************************************************************)
(* Proofs that a pin's direction and a supply's limit read back as they      *)
(* were last asked for, after any number of calls of other devices.  On top  *)
(* of AxpChipProofs they rest on one more fact about the drivers' tables,    *)
(* AsksBrought of AxpCalls, which TLC evaluates (MCAxpBoot).               *)
(***************************************************************************)
EXTENDS AxpChipProofs

(* What is claimed for an item is what was asked for last. *)
Stands(i) ==
    i \in DOMAIN made \cap DOMAIN asked => Answers(chip, i, made[i], asked[i])

(* It will be when the program g of the device that sets it is done: what is   *)
(* left of g still brings it about, or leaves it alone.                       *)
WillStand(g, i) ==
    \/ i \in DOMAIN g.asks /\ Brings(chip, g.steps, i, g.asks[i])
    \/ /\ LeavesAlone(g.steps, i)
       /\ i \in DOMAIN made /\ i \in DOMAIN g.asks => Answers(chip, i, made[i], g.asks[i])
       /\ i \in DOMAIN made /\ i \in DOMAIN asked \ DOMAIN g.asks
            => Answers(chip, i, made[i], asked[i])

Due(i) == IF SetBy(i) \in DOMAIN running THEN WillStand(running[SetBy(i)], i) ELSE Stands(i)
OthersLeave(i) ==
    \A a \in DOMAIN running \ {SetBy(i)} :
        LeavesAlone(running[a].steps, i) /\ i \notin DOMAIN running[a].asks

Asked ==
    /\ \A a \in DOMAIN running : {"steps", "asks"} \subseteq DOMAIN running[a]
    /\ \A i \in Readable(chip) : Due(i) /\ OthersLeave(i)
-----------------------------------------------------------------------------
(* What a program still has to do, one step later. *)
LEMMA LeavesTail ==
    ASSUME NEW S, NEW q \in Seq(S), q # <<>>, NEW i, LeavesAlone(q, i)
    PROVE  ~SetsItem(Head(q), i) /\ (Len(q) > 1 => LeavesAlone(Tail(q), i))
  <1>1. Head(q) = q[1] /\ Len(q) \in Nat \ {0}
    BY HeadOf
  <1>2. \A n \in 1 .. Len(q) : ~SetsItem(q[n], i)
    BY DEF LeavesAlone
  <1>3. ASSUME Len(q) > 1 PROVE LeavesAlone(Tail(q), i)
    <2>1. Len(Tail(q)) = Len(q) - 1 /\ \A n \in 1 .. Len(q) - 1 : Tail(q)[n] = q[n + 1]
      BY <1>3, TailOf
    <2>2. ASSUME NEW n \in 1 .. Len(Tail(q)) PROVE ~SetsItem(Tail(q)[n], i)
      <3>1. n + 1 \in 1 .. Len(q) /\ Tail(q)[n] = q[n + 1]
        BY <1>1, <2>1
      <3>. QED  BY <1>2, <3>1
    <2>. QED  BY <2>2 DEF LeavesAlone
  <1>. QED  BY <1>1, <1>2, <1>3

LEMMA BringsTail ==
    ASSUME NEW S, NEW q \in Seq(S), q # <<>>, NEW p, NEW i, NEW v, Brings(p, q, i, v)
    PROVE  \/ Len(q) > 1 /\ Brings(p, Tail(q), i, v)
           \/ NoLimit(i, v)
           \/ /\ SetsItem(Head(q), i) /\ Answers(p, i, Claim(Head(q)), v)
              /\ Len(q) > 1 => LeavesAlone(Tail(q), i)
  <1>1. Head(q) = q[1] /\ Len(q) \in Nat \ {0}
    BY HeadOf
  <1>. SUFFICES ASSUME ~NoLimit(i, v)
                PROVE  \/ Len(q) > 1 /\ Brings(p, Tail(q), i, v)
                       \/ /\ SetsItem(Head(q), i) /\ Answers(p, i, Claim(Head(q)), v)
                          /\ Len(q) > 1 => LeavesAlone(Tail(q), i)
    OBVIOUS
  <1>2. PICK n \in 1 .. Len(q) :
           /\ SetsItem(q[n], i) /\ Answers(p, i, Claim(q[n]), v)
           /\ \A m \in n + 1 .. Len(q) : ~SetsItem(q[m], i)
    BY DEF Brings
  <1>3. Len(q) > 1 => /\ Len(Tail(q)) = Len(q) - 1
                      /\ \A m \in 1 .. Len(q) - 1 : Tail(q)[m] = q[m + 1]
    BY TailOf
  <1>4. CASE n = 1
    <2>1. ASSUME Len(q) > 1 PROVE LeavesAlone(Tail(q), i)
      <3>1. ASSUME NEW m \in 1 .. Len(Tail(q)) PROVE ~SetsItem(Tail(q)[m], i)
        <4>1. m + 1 \in n + 1 .. Len(q) /\ Tail(q)[m] = q[m + 1]
          BY <1>1, <1>3, <1>4, <2>1
        <4>. QED  BY <1>2, <4>1
      <3>. QED  BY <3>1 DEF LeavesAlone
    <2>. QED  BY <1>1, <1>2, <1>4, <2>1
  <1>5. CASE n # 1
    <2>1. Len(q) > 1 /\ n - 1 \in 1 .. Len(Tail(q)) /\ Tail(q)[n - 1] = q[n]
      BY <1>1, <1>2, <1>3, <1>5
    <2>2. ASSUME NEW m \in (n - 1) + 1 .. Len(Tail(q)) PROVE ~SetsItem(Tail(q)[m], i)
      <3>1. m + 1 \in n + 1 .. Len(q) /\ Tail(q)[m] = q[m + 1]
        BY <1>1, <1>3, <2>1
      <3>. QED  BY <1>2, <3>1
    <2>3. SetsItem(Tail(q)[n - 1], i) /\ Answers(p, i, Claim(Tail(q)[n - 1]), v)
      BY <1>2, <2>1
    <2>4. Brings(p, Tail(q), i, v)
      BY <2>1, <2>2, <2>3 DEF Brings
    <2>. QED  BY <2>1, <2>4
  <1>. QED  BY <1>4, <1>5
-----------------------------------------------------------------------------
(* A step of a program keeps what is due, if it claims what it sets and takes   *)
(* nothing else up.                                                           *)
LEMMA StepKeepsDue ==
    ASSUME Inv, Asked, NEW a \in DOMAIN running, Advance(a), chip' = chip,
           \A i \in DOMAIN made' :
              IF SetsItem(Head(running[a].steps), i)
              THEN made'[i] = Claim(Head(running[a].steps))
              ELSE i \in DOMAIN made /\ made'[i] = made[i]
    PROVE  Asked'
  <1>. DEFINE g == running[a]
              s == Head(g.steps)
  <1>1. PICK S : g.steps \in Seq(S)
    BY DEF Inv, Phases, Booting, Working, Ending
  <1>2. g.steps # <<>> /\ {"steps", "asks"} \subseteq DOMAIN g
    BY DEF Inv, Programmed, Asked
  <1>3. CASE Len(g.steps) > 1
    <2>1. /\ DOMAIN running' = DOMAIN running /\ asked' = asked
          /\ \A b \in DOMAIN running \ {a} : running'[b] = running[b]
          /\ DOMAIN running'[a] = DOMAIN g
          /\ running'[a].steps = Tail(g.steps) /\ running'[a].asks = g.asks
      BY <1>2, <1>3 DEF Advance
    <2>2. \A b \in DOMAIN running' : {"steps", "asks"} \subseteq DOMAIN running'[b]
      BY <2>1 DEF Asked
    <2>. SUFFICES ASSUME NEW i \in Readable(chip) PROVE Due(i)' /\ OthersLeave(i)'
      BY <2>2 DEF Asked
    <2>3. Due(i) /\ OthersLeave(i)
      BY DEF Asked
    <2>4. LeavesAlone(g.steps, i) => ~SetsItem(s, i) /\ LeavesAlone(Tail(g.steps), i)
      BY <1>1, <1>2, <1>3, LeavesTail
    <2>5. OthersLeave(i)'
      BY <2>1, <2>3, <2>4 DEF OthersLeave
    <2>6. CASE a = SetBy(i)
      <3>1. WillStand(g, i)
        BY <2>3, <2>6 DEF Due
      <3>2. CASE LeavesAlone(g.steps, i)
                  /\ (i \in DOMAIN made /\ i \in DOMAIN g.asks => Answers(chip, i, made[i], g.asks[i]))
                  /\ (i \in DOMAIN made /\ i \in DOMAIN asked \ DOMAIN g.asks
                        => Answers(chip, i, made[i], asked[i]))
        <4>1. i \in DOMAIN made' => i \in DOMAIN made /\ made'[i] = made[i]
          BY <2>4, <3>2
        <4>2. WillStand(running[a], i)'
          BY <2>1, <2>4, <3>2, <4>1 DEF WillStand
        <4>. QED  BY <2>1, <2>5, <2>6, <4>2 DEF Due
      <3>3. CASE i \in DOMAIN g.asks /\ Brings(chip, g.steps, i, g.asks[i])
        <4>1. CASE Brings(chip, Tail(g.steps), i, g.asks[i])
          <5>1. WillStand(running[a], i)'
            BY <2>1, <3>3, <4>1 DEF WillStand
          <5>. QED  BY <2>1, <2>5, <2>6, <5>1 DEF Due
        <4>2. CASE NoLimit(i, g.asks[i])
          <5>1. Brings(chip, Tail(g.steps), i, g.asks[i])
            BY <4>2 DEF Brings
          <5>. QED  BY <4>1, <5>1
        <4>3. CASE /\ SetsItem(s, i) /\ Answers(chip, i, Claim(s), g.asks[i])
                   /\ LeavesAlone(Tail(g.steps), i)
          <5>1. i \in DOMAIN made' => made'[i] = Claim(s)
            BY <4>3
          <5>2. WillStand(running[a], i)'
            BY <2>1, <3>3, <4>3, <5>1 DEF WillStand
          <5>. QED  BY <2>1, <2>5, <2>6, <5>2 DEF Due
        <4>. QED  BY <1>1, <1>2, <1>3, <3>3, <4>1, <4>2, <4>3, BringsTail
      <3>. QED  BY <3>1, <3>2, <3>3 DEF WillStand
    <2>7. CASE a # SetBy(i)
      <3>1. LeavesAlone(g.steps, i)
        BY <2>3, <2>7 DEF OthersLeave
      <3>2. i \in DOMAIN made' => i \in DOMAIN made /\ made'[i] = made[i]
        BY <2>4, <3>1
      <3>3. CASE SetBy(i) \in DOMAIN running
        <4>1. WillStand(running[SetBy(i)], i) /\ running'[SetBy(i)] = running[SetBy(i)]
          BY <2>1, <2>3, <2>7, <3>3 DEF Due
        <4>2. WillStand(running[SetBy(i)], i)'
          BY <2>1, <3>2, <4>1 DEF WillStand
        <4>. QED  BY <2>1, <2>5, <3>3, <4>2 DEF Due
      <3>4. CASE SetBy(i) \notin DOMAIN running
        <4>1. Stands(i)'
          BY <2>1, <2>3, <3>2, <3>4 DEF Due, Stands
        <4>. QED  BY <2>1, <2>5, <3>4, <4>1 DEF Due
      <3>. QED  BY <3>3, <3>4
    <2>. QED  BY <2>6, <2>7
  <1>4. CASE ~(Len(g.steps) > 1)
    <2>1. /\ DOMAIN running' = DOMAIN running \ {a}
          /\ \A b \in DOMAIN running' : running'[b] = running[b]
          /\ DOMAIN asked' = DOMAIN asked \cup DOMAIN g.asks
          /\ \A i \in DOMAIN asked' :
               asked'[i] = IF i \in DOMAIN g.asks THEN g.asks[i] ELSE asked[i]
      BY <1>4 DEF Advance
    <2>2. \A b \in DOMAIN running' : {"steps", "asks"} \subseteq DOMAIN running'[b]
      BY <2>1 DEF Asked
    <2>. SUFFICES ASSUME NEW i \in Readable(chip) PROVE Due(i)' /\ OthersLeave(i)'
      BY <2>2 DEF Asked
    <2>3. Due(i) /\ OthersLeave(i)
      BY DEF Asked
    <2>4. LeavesAlone(g.steps, i) => ~SetsItem(s, i)
      BY <1>1, <1>2, LeavesTail
    <2>5. OthersLeave(i)'
      BY <2>1, <2>3 DEF OthersLeave
    <2>6. CASE a = SetBy(i)
      <3>1. WillStand(g, i)
        BY <2>3, <2>6 DEF Due
      <3>2. CASE LeavesAlone(g.steps, i)
                  /\ (i \in DOMAIN made /\ i \in DOMAIN g.asks => Answers(chip, i, made[i], g.asks[i]))
                  /\ (i \in DOMAIN made /\ i \in DOMAIN asked \ DOMAIN g.asks
                        => Answers(chip, i, made[i], asked[i]))
        <4>1. i \in DOMAIN made' => i \in DOMAIN made /\ made'[i] = made[i]
          BY <2>4, <3>2
        <4>2. Stands(i)'
          BY <2>1, <3>2, <4>1 DEF Stands
        <4>. QED  BY <2>1, <2>5, <2>6, <4>2 DEF Due
      <3>3. CASE i \in DOMAIN g.asks /\ Brings(chip, g.steps, i, g.asks[i])
        <4>1. i \in DOMAIN made' => Answers(chip, i, made'[i], g.asks[i])
          <5>1. CASE NoLimit(i, g.asks[i])
            BY <5>1 DEF Answers
          <5>2. CASE SetsItem(s, i) /\ Answers(chip, i, Claim(s), g.asks[i])
            BY <5>2
          <5>. QED  BY <1>1, <1>2, <1>4, <3>3, <5>1, <5>2, BringsTail
        <4>2. Stands(i)'
          BY <2>1, <3>3, <4>1 DEF Stands
        <4>. QED  BY <2>1, <2>5, <2>6, <4>2 DEF Due
      <3>. QED  BY <3>1, <3>2, <3>3 DEF WillStand
    <2>7. CASE a # SetBy(i)
      <3>1. LeavesAlone(g.steps, i) /\ i \notin DOMAIN g.asks
        BY <2>3, <2>7 DEF OthersLeave
      <3>2. /\ i \in DOMAIN made' => i \in DOMAIN made /\ made'[i] = made[i]
            /\ i \in DOMAIN asked' <=> i \in DOMAIN asked
            /\ i \in DOMAIN asked => asked'[i] = asked[i]
        BY <2>1, <2>4, <3>1
      <3>3. CASE SetBy(i) \in DOMAIN running
        <4>1. /\ WillStand(running[SetBy(i)], i) /\ SetBy(i) \in DOMAIN running'
              /\ running'[SetBy(i)] = running[SetBy(i)]
          BY <2>1, <2>3, <2>7, <3>3 DEF Due
        <4>2. WillStand(running[SetBy(i)], i)'
          BY <3>2, <4>1 DEF WillStand
        <4>. QED  BY <2>5, <4>1, <4>2 DEF Due
      <3>4. CASE SetBy(i) \notin DOMAIN running
        <4>1. Stands(i)'
          BY <2>3, <3>2, <3>4 DEF Due, Stands
        <4>. QED  BY <2>1, <2>5, <3>4, <4>1 DEF Due
      <3>. QED  BY <3>3, <3>4
    <2>. QED  BY <2>6, <2>7
  <1>. QED  BY <1>3, <1>4

LEMMA InitAsked ==
    ASSUME ProgramsPaired, AsksBrought, Init
    PROVE  Asked
  <1>1. /\ chip \in Chips /\ config \in 1 .. 4
        /\ DOMAIN made = {} /\ DOMAIN asked = {}
    BY DEF Init
  <1>2. CASE chip = "axp152"
    <2>1. DOMAIN running = {}
      BY <1>2 DEF Init
    <2>. QED  BY <1>1, <2>1 DEF Asked, Due, OthersLeave, Stands
  <1>3. CASE chip # "axp152"
    <2>. DEFINE g == InitProgram(chip, config)
    <2>1. DOMAIN running = {<<"chip">>} /\ running[<<"chip">>] = g
      BY <1>3 DEF Init
    <2>2. DOMAIN g = {"actor", "steps", "asks"}
      BY <1>1 DEF ProgramsPaired
    <2>3. DOMAIN g.asks = {}
      BY DEF InitProgram, Program
    <2>4. \A i \in Readable(chip) : LeavesAlone(g.steps, i)
      BY <1>1, <2>3 DEF AsksBrought
    <2>. HIDE DEF g
    <2>5. \A i \in Readable(chip) : Due(i)
      BY <1>1, <2>1, <2>3, <2>4 DEF Due, Stands, WillStand
    <2>6. \A i \in Readable(chip) : OthersLeave(i)
      BY <2>1, <2>3, <2>4 DEF OthersLeave
    <2>. QED  BY <2>1, <2>2, <2>5, <2>6 DEF Asked
  <1>. QED  BY <1>2, <1>3

LEMMA StartAsked ==
    ASSUME ProgramsPaired, AsksBrought, Inv, Asked, NEW g \in Callable[chip][config], Start(g)
    PROVE  Asked'
  <1>1. /\ chip \in Chips /\ config \in 1 .. 4
        /\ DOMAIN g = {"actor", "steps", "asks"}
    BY DEF Inv, Types, ProgramsPaired
  <1>2. /\ DOMAIN running' = DOMAIN running \cup {g.actor} /\ running'[g.actor] = g
        /\ \A b \in DOMAIN running : running'[b] = running[b]
        /\ g.actor \notin DOMAIN running
        /\ DOMAIN asked' = DOMAIN asked \ DOMAIN g.asks
        /\ \A i \in DOMAIN asked' : asked'[i] = asked[i]
        /\ chip' = chip /\ made' = made
    BY DEF Start, With
  <1>3. \A b \in DOMAIN running' : {"steps", "asks"} \subseteq DOMAIN running'[b]
    BY <1>1, <1>2 DEF Asked
  <1>. SUFFICES ASSUME NEW i \in Readable(chip) PROVE Due(i)' /\ OthersLeave(i)'
    BY <1>2, <1>3 DEF Asked
  <1>4. Due(i) /\ OthersLeave(i)
    BY DEF Asked
  <1>5. IF i \in DOMAIN g.asks THEN g.actor = SetBy(i) /\ Brings(chip, g.steps, i, g.asks[i])
                               ELSE LeavesAlone(g.steps, i)
    BY <1>1 DEF AsksBrought
  <1>6. OthersLeave(i)'
    BY <1>2, <1>4, <1>5 DEF OthersLeave
  <1>7. CASE g.actor = SetBy(i)
    <2>1. Stands(i)
      BY <1>2, <1>4, <1>7 DEF Due
    <2>2. WillStand(running[SetBy(i)], i)'
      BY <1>2, <1>5, <1>7, <2>1 DEF WillStand, Stands
    <2>. QED  BY <1>2, <1>6, <1>7, <2>2 DEF Due
  <1>8. CASE g.actor # SetBy(i)
    <2>1. i \notin DOMAIN g.asks
      BY <1>5, <1>8
    <2>2. CASE SetBy(i) \in DOMAIN running
      <3>1. WillStand(running[SetBy(i)], i) /\ running'[SetBy(i)] = running[SetBy(i)]
        BY <1>2, <1>4, <2>2 DEF Due
      <3>2. WillStand(running[SetBy(i)], i)'
        BY <1>2, <2>1, <3>1 DEF WillStand
      <3>. QED  BY <1>2, <1>6, <2>2, <3>2 DEF Due
    <2>3. CASE SetBy(i) \notin DOMAIN running
      <3>1. Stands(i)'
        BY <1>2, <1>4, <2>3 DEF Due, Stands
      <3>. QED  BY <1>2, <1>6, <1>8, <2>3, <3>1 DEF Due
    <2>. QED  BY <2>2, <2>3
  <1>. QED  BY <1>7, <1>8

LEMMA OffSetsNothing ==
    ASSUME NEW p, NEW i \in Readable(p), NEW s \in OffSteps(p)
    PROVE  ~SetsItem(s, i)
  <1>1. p # "axp2585"
    <2>1. SUFFICES ASSUME p = "axp2585" PROVE FALSE
      OBVIOUS
    <2>2. DOMAIN Pins(p) = {}
      BY <2>1 DEF Pins
    <2>. QED  BY <2>1, <2>2 DEF Readable
  <1>2. s.item[1] = "off"
    BY <1>1, OffStepIs
  <1>3. i[1] # "off"
    BY DEF Readable, PinItem, VbusHold, Chg
  <1>. QED  BY <1>2, <1>3 DEF SetsItem

LEMMA PowerOffAsked ==
    ASSUME Inv, Asked, NEW g \in OffPrograms(chip, regs), PowerOff(g)
    PROVE  Asked'
  <1>1. PICK q : q \in Seq(OffSteps(chip)) /\ g = Program(<<"off">>, q)
    BY OffProgram DEF Inv, Types
  <1>2. /\ DOMAIN g = {"actor", "steps", "asks"} /\ DOMAIN g.asks = {}
        /\ g.steps = q /\ g.actor = <<"off">>
    BY <1>1 DEF Program
  <1>3. /\ DOMAIN running = {} /\ DOMAIN running' = {g.actor} /\ running'[g.actor] = g
        /\ chip' = chip /\ made' = made /\ asked' = asked
    BY DEF PowerOff, With
  <1>4. \A i \in Readable(chip) : LeavesAlone(q, i)
    BY <1>1, OffSetsNothing DEF LeavesAlone
  <1>. SUFFICES ASSUME NEW i \in Readable(chip) PROVE Due(i)' /\ OthersLeave(i)'
    BY <1>2, <1>3 DEF Asked
  <1>5. Stands(i)
    BY <1>3 DEF Asked, Due
  <1>6. WillStand(g, i)'
    BY <1>2, <1>3, <1>4, <1>5 DEF WillStand, Stands
  <1>7. Stands(i)'
    BY <1>3, <1>5 DEF Stands
  <1>. QED  BY <1>2, <1>3, <1>4, <1>6, <1>7 DEF Due, OthersLeave

LEMMA NextAsked ==
    ASSUME ProgramsPaired, AsksBrought, Inv, Asked, [Next]_vars
    PROVE  Asked'
  <1>1. ASSUME NEW g \in Callable[chip][config], Start(g) PROVE Asked'
    BY <1>1, StartAsked
  <1>2. ASSUME NEW g \in OffPrograms(chip, regs), PowerOff(g) PROVE Asked'
    BY <1>2, PowerOffAsked
  <1>3. ASSUME NEW a \in DOMAIN running, Read(a) PROVE Asked'
    <2>1. /\ Advance(a) /\ chip' = chip /\ made' = made
          /\ \A i \in DOMAIN made' : ~SetsItem(Head(running[a].steps), i)
      BY <1>3 DEF Read, SetsItem
    <2>. QED  BY <2>1, StepKeepsDue
  <1>4. ASSUME NEW a \in DOMAIN running, Locked(a) \/ WriteBack(a) PROVE Asked'
    <2>. DEFINE s == Head(running[a].steps)
    <2>1. /\ Advance(a) /\ chip' = chip /\ s.how # "read"
          /\ made' = With([j \in Kept(s) |-> made[j]], s.item, Claim(s))
      BY <1>4 DEF Locked, WriteBack, Set, Copies
    <2>2. Kept(s) \subseteq DOMAIN made \ {s.item}
      BY DEF Kept
    <2>. HIDE DEF s
    <2>3. \A i \in DOMAIN made' :
            IF SetsItem(s, i) THEN made'[i] = Claim(s) ELSE i \in DOMAIN made /\ made'[i] = made[i]
      BY <2>1, <2>2 DEF With, SetsItem
    <2>. QED  BY <2>1, <2>3, StepKeepsDue DEF s
  <1>5. CASE UNCHANGED vars
    BY <1>5 DEF vars, Asked, Due, OthersLeave, Stands, WillStand
  <1>. QED  BY <1>1, <1>2, <1>3, <1>4, <1>5 DEF Next, Done
-----------------------------------------------------------------------------
(* What is read back is a matter of the one register's eight bits. *)
LEMMA PinsOf ==
    ASSUME NEW p \in Chips, NEW g \in DOMAIN Pins(p)
    PROVE  \/ p \in {"axp22x", "axp233"} /\ g \in {0, 1}
           \/ p = "axp803" /\ g \in 0 .. 3
           \/ p = "axp202" /\ g \in 0 .. 2
           \/ p = "axp152" /\ g \in 0 .. 3
           \/ p = "axp80x" /\ g = 0
           \/ p = "axp15060" /\ g \in {1, 2}
  <1>1. p \in {"axp22x", "axp233", "axp803", "axp202", "axp152", "axp80x", "axp15060", "axp2585"}
    BY ChipsAssumption
  <1>2. CASE p = "axp2585"
    BY <1>2 DEF Pins
  <1>3. CASE p # "axp2585"
    BY <1>1, <1>3 DEF Pins, axp22x_pins, axp803_pins, axp20_pins, axp152_pins, axp80x_pins,
                      axp15060_pins
  <1>. QED  BY <1>2, <1>3

LEMMA PinRead ==
    ASSUME NEW p \in Chips, NEW g \in DOMAIN Pins(p), NEW b, NEW c,
           b[ReadFrom(p, PinItem(g))] \cap Byte = c[ReadFrom(p, PinItem(g))] \cap Byte
    PROVE  pmx_get(p, b, g) = pmx_get(p, c, g)
  <1>. DEFINE r == ReadFrom(p, PinItem(g))
  <1>1. PinItem(g) # VbusHold /\ PinItem(g)[2] = g
    BY DEF PinItem, VbusHold, Chg
  <1>2. /\ b[r] \cap {1, 2} = c[r] \cap {1, 2}
        /\ b[r] \cap {0, 1, 2} = c[r] \cap {0, 1, 2}
        /\ b[r] \cap {5, 6} = c[r] \cap {5, 6}
        /\ 4 \in b[r] <=> 4 \in c[r]
    BY DEF Byte
  <1>3. CASE p \in {"axp22x", "axp233"} /\ g \in {0, 1}
    <2>1. r = axp22x_cfg[g]
      BY <1>1, <1>3 DEF ReadFrom
    <2>. QED  BY <1>2, <1>3, <2>1 DEF pmx_get, axp22x_pmx_get, Direction
  <1>4. CASE p = "axp803" /\ g \in {0, 1}
    <2>1. r = axp22x_cfg[g]
      BY <1>1, <1>4 DEF ReadFrom
    <2>. QED  BY <1>2, <1>4, <2>1 DEF pmx_get, axp803_pmx_get, Direction
  <1>5. CASE p = "axp803" /\ g \in 2 .. 3
    <2>1. r = "8f"
      BY <1>1, <1>5 DEF ReadFrom
    <2>. QED  BY <1>2, <1>5, <2>1 DEF pmx_get, axp803_pmx_get
  <1>6. CASE p = "axp202"
    <2>1. r = axp20_cfg[g]
      BY <1>1, <1>6 DEF ReadFrom
    <2>. QED  BY <1>2, <1>6, <2>1 DEF pmx_get, axp20_pmx_get, Direction
  <1>7. CASE p = "axp152"
    <2>1. r = axp152_cfg[g]
      BY <1>1, <1>7 DEF ReadFrom
    <2>. QED  BY <1>2, <1>7, <2>1 DEF pmx_get, axp152_pmx_get, Direction
  <1>8. CASE p = "axp80x"
    <2>1. r = "35"
      BY <1>1, <1>8 DEF ReadFrom
    <2>. QED  BY <1>2, <1>8, <2>1 DEF pmx_get, axp80x_pmx_get
  <1>9. CASE p = "axp15060" /\ g = 1
    <2>1. r = "2b"
      BY <1>1, <1>9 DEF ReadFrom
    <2>2. b["2b"] \cap {5, 6} = c["2b"] \cap {5, 6}
      BY <1>2, <2>1
    <2>. QED  BY <1>9, <2>2 DEF pmx_get, axp15060_pmx_get
  <1>10. CASE p = "axp15060" /\ g = 2
    <2>1. r = "2c"
      BY <1>1, <1>10 DEF ReadFrom
    <2>. QED  BY <1>2, <1>10, <2>1 DEF pmx_get, axp15060_pmx_get
  <1>. QED  BY PinsOf, <1>3, <1>4, <1>5, <1>6, <1>7, <1>8, <1>9, <1>10

LEMMA VholdRead ==
    ASSUME NEW p \in Chips, p # "axp2585", NEW b, NEW c,
           b[ReadFrom(p, VbusHold)] \cap Byte = c[ReadFrom(p, VbusHold)] \cap Byte
    PROVE  get_usb_vhold(p, b) = get_usb_vhold(p, c)
  <1>1. CASE p \in {"axp22x", "axp233", "axp803", "axp202"}
    <2>1. ReadFrom(p, VbusHold) = "30"
      BY <1>1 DEF ReadFrom
    <2>2. b["30"] \cap {3, 4, 5} = c["30"] \cap {3, 4, 5}
      BY <2>1 DEF Byte
    <2>. QED  BY <1>1, <2>2 DEF get_usb_vhold, axp22x_get_usb_vhold, axp803_get_usb_vhold,
                                axp202_get_usb_vhold
  <1>2. CASE p \notin {"axp22x", "axp233", "axp803", "axp202"}
    <2>1. ReadFrom(p, VbusHold) = "11"
      BY <1>2 DEF ReadFrom
    <2>2. \A k \in 0 .. 7 : k \in b["11"] <=> k \in c["11"]
      BY <2>1 DEF Byte
    <2>3. Num(b["11"]) = Num(c["11"])
      BY <2>2 DEF Num
    <2>. QED  BY <1>2, <2>3 DEF get_usb_vhold, axp2585_get_usb_vhold
  <1>. QED  BY <1>1, <1>2

(* An item that is claimed as v, with the claim still in the registers, reads   *)
(* back as v.                                                                 *)
LEMMA ClaimRead ==
    ASSUME NEW p \in Chips, NEW i \in Readable(p), NEW m, NEW v, NEW b,
           Shows(b, m), Answers(p, i, m, v), ~NoLimit(i, v)
    PROVE  ReadsAs(p, i, b, v)
  <1>. DEFINE r == ReadFrom(p, i)
              x == b[r] \cap Byte
              c == [q \in {m.reg} |-> x]
  <1>1. /\ m.reg = r /\ m.bits \subseteq Byte
        /\ \A y \in SUBSET Byte : y \cap m.bits = m.val => ReadsAs(p, i, [q \in {m.reg} |-> y], v)
    BY DEF Answers
  <1>2. x \in SUBSET Byte /\ x \cap m.bits = m.val
    BY <1>1 DEF Shows
  <1>3. ReadsAs(p, i, c, v)
    BY <1>1, <1>2
  <1>4. c[r] \cap Byte = b[r] \cap Byte
    BY <1>1
  <1>. HIDE DEF c
  <1>5. CASE i = VbusHold
    <2>1. p # "axp2585"
      <3>1. ASSUME p = "axp2585" PROVE FALSE
        <4>1. DOMAIN Pins(p) = {}
          BY <3>1 DEF Pins
        <4>. QED  BY <1>5, <3>1, <4>1 DEF Readable
      <3>. QED  BY <3>1
    <2>2. get_usb_vhold(p, b) = get_usb_vhold(p, c)
      BY <1>4, <1>5, <2>1, VholdRead
    <2>. QED  BY <1>3, <1>5, <2>2 DEF ReadsAs
  <1>6. CASE i # VbusHold
    <2>1. PICK g \in DOMAIN Pins(p) : i = PinItem(g)
      BY <1>6 DEF Readable
    <2>2. i[2] = g
      BY <2>1 DEF PinItem
    <2>3. pmx_get(p, b, g) = pmx_get(p, c, g)
      BY <1>4, <2>1, PinRead
    <2>. QED  BY <1>3, <1>6, <2>2, <2>3 DEF ReadsAs
  <1>. QED  BY <1>5, <1>6

(* After any calls of a PMIC's drivers in any order, the direction that pinctrl *)
(* reads back is never the other one than the last asked for, and the supply   *)
(* voltage is the limit last asked for, as long as in the drivers' tables each  *)
(* call that asks for one writes it.                                          *)
THEOREM AsksReadBack ==
    ASSUME MasksApart, CopiesKnown, ProgramsPaired, AsksBrought
    PROVE  Spec => []AskedReadsBack
  <1>1. Init => Inv /\ KeepsApart /\ Asked
    BY InitInv, InitAsked
  <1>2. Inv /\ KeepsApart /\ Asked /\ [Next]_vars => (Inv /\ KeepsApart /\ Asked)'
    BY NextKeeps, NextAsked
  <1>3. Inv /\ KeepsApart /\ Asked => AskedReadsBack
    <2>. SUFFICES ASSUME Inv, KeepsApart, Asked PROVE AskedReadsBack
      OBVIOUS
    <2>1. ASSUME NEW i \in Readable(chip), Settled(i), ~NoLimit(i, asked[i])
          PROVE  ReadsAs(chip, i, regs, asked[i])
      <3>1. SetBy(i) \in {i, <<i[1]>>}
        BY DEF SetBy, VbusHold, Chg
      <3>2. Stands(i) /\ i \in DOMAIN made \cap DOMAIN asked /\ i \notin lost
        BY <2>1, <3>1 DEF Asked, Due, Settled
      <3>3. Answers(chip, i, made[i], asked[i]) /\ Shows(regs, made[i])
        BY <3>2 DEF Stands, KeepsApart
      <3>. QED  BY <2>1, <3>3, ClaimRead DEF Inv, Types
    <2>2. ASSUME NEW g \in DOMAIN Pins(chip), Settled(PinItem(g))
          PROVE  pmx_get(chip, regs, g) \in {asked[PinItem(g)], ENXIO}
      <3>1. PinItem(g) # VbusHold /\ PinItem(g)[2] = g /\ PinItem(g) \in Readable(chip)
        BY DEF PinItem, VbusHold, Chg, Readable
      <3>2. ReadsAs(chip, PinItem(g), regs, asked[PinItem(g)])
        BY <2>1, <2>2, <3>1 DEF NoLimit
      <3>. QED  BY <3>1, <3>2 DEF ReadsAs
    <2>3. ASSUME chip # "axp2585", Settled(VbusHold), asked[VbusHold] # 0
          PROVE  get_usb_vhold(chip, regs) = 100 * (asked[VbusHold] \div 100)
      <3>1. VbusHold \in Readable(chip) /\ ~NoLimit(VbusHold, asked[VbusHold])
        BY <2>3 DEF Readable, NoLimit
      <3>2. ReadsAs(chip, VbusHold, regs, asked[VbusHold])
        BY <2>1, <2>3, <3>1
      <3>. QED  BY <3>2 DEF ReadsAs
    <2>. QED  BY <2>2, <2>3 DEF AskedReadsBack
  <1>. QED  BY <1>1, <1>2, <1>3, PTL DEF Spec
=============================================================================
