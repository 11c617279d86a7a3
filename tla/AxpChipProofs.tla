--------------------------- MODULE AxpChipProofs ---------------------------
(***************************************************************************)
(* Proofs about the calls of a PMIC's drivers on its registers, for any      *)
(* number of calls in any order.  They rest on three facts about the tables  *)
(* of registers and masks in the drivers, MasksApart, CopiesKnown and        *)
(* ProgramsPaired of AxpCalls, which say nothing of runs: TLC evaluates      *)
(* them (MCAxpBoot).                                                       *)
(***************************************************************************)
EXTENDS AxpChip, SequenceTheorems, TLAPS

(* What a power off does (the table of AxpPmics). *)
OffRegs == {"0f", "10", "17", "31", "32", "b9"}
OffSettings == {"flag", "off", "vol", "led", "timer", "batfet"}
OffWrites ==
    [how : {"update", "write"}, item : {"off"} \X OffSettings, reg : OffRegs,
     val : SUBSET Byte, mask : SUBSET Byte]
OffSteps(p) ==
    {s \in OffWrites : ~Copies(s)} \cup (IF p = "axp2585" THEN ToSet(axp2585_shutdown) ELSE {})
-----------------------------------------------------------------------------
(* The inductive invariant.  A PMIC is being initialised, or its devices'      *)
(* drivers run their programs, or it is being switched off.                   *)
Booting ==
    /\ chip # "axp152" /\ DOMAIN running = {<<"chip">>}
    /\ running[<<"chip">>].steps \in Seq(StepsOf(chip, config))
Working == \A a \in DOMAIN running : running[a].steps \in Seq(StepsBy(chip, config, a))
Ending ==
    /\ ran.n = Programs + 1
    /\ \A a \in DOMAIN running : running[a].steps \in Seq(OffSteps(chip))

Types ==
    /\ chip \in Chips /\ config \in 1 .. 4
    /\ DOMAIN regs = Registers(chip, config)
    /\ "n" \in DOMAIN ran
Phases == Booting \/ Working \/ Ending

(* The rest of a program: a write back comes after its read. *)
Programmed ==
    \A a \in DOMAIN running :
        /\ "steps" \in DOMAIN running[a]
        /\ running[a].steps # <<>> /\ Paired(running[a].steps)

(* What is claimed was claimed by a step of the tables. *)
Claimed ==
    \A j \in DOMAIN made :
        \E s \in StepsOf(chip, config) \cup OffSteps(chip) :
            /\ s.item = j /\ made[j] = Claim(s)
            /\ Ending \/ s \in StepsOf(chip, config)

(* The copy that a device is about to write back differs from the register in  *)
(* nothing that may not be lost.                                              *)
Fresh(a) ==
    LET s == Head(running[a].steps)
    IN  Copies(s) =>
          /\ a \in DOMAIN copy
          /\ \A j \in DOMAIN made :
               /\ made[j].reg = s.reg /\ j # s.item
               /\ made[j].bits \cap Claim(s).bits = {}
               /\ ~MayBeLost(j)
               => made[j].bits \cap copy[a] = made[j].bits \cap regs[s.reg]
Copied == \A a \in DOMAIN running : Fresh(a)

Inv == Types /\ Phases /\ Programmed /\ Claimed /\ Copied
-----------------------------------------------------------------------------
(* Functions and sequences. *)
LEMMA TailOf ==
    ASSUME NEW S, NEW q \in Seq(S), Len(q) > 1
    PROVE  /\ Tail(q) \in Seq(S) /\ Tail(q) # <<>> /\ Len(Tail(q)) = Len(q) - 1
           /\ \A n \in 1 .. Len(q) - 1 : Tail(q)[n] = q[n + 1]
           /\ Head(Tail(q)) = q[2]
  <1>1. q # <<>> /\ Len(q) \in Nat
    BY EmptySeq
  <1>2. /\ Tail(q) \in Seq(S) /\ Len(Tail(q)) = Len(q) - 1
        /\ \A n \in 1 .. Len(q) - 1 : Tail(q)[n] = q[n + 1]
    BY <1>1, HeadTailProperties
  <1>3. Tail(q) # <<>>
    <2>1. Len(<<>>) = 0
      BY EmptySeq
    <2>2. Len(Tail(q)) # 0
      BY <1>1, <1>2
    <2>. QED  BY <2>1, <2>2, Zenon
  <1>4. Head(Tail(q)) = Tail(q)[1] /\ 1 \in 1 .. Len(q) - 1
    BY <1>1, <1>2
  <1>. QED  BY <1>2, <1>3, <1>4

LEMMA HeadOf ==
    ASSUME NEW S, NEW q \in Seq(S), q # <<>>
    PROVE  Head(q) \in S /\ Head(q) = q[1] /\ Len(q) \in Nat \ {0}
  OBVIOUS

(* What is left of a program is one, and begins with a write back only after   *)
(* the read of it.                                                            *)
LEMMA PairedTail ==
    ASSUME NEW S, NEW q \in Seq(S), Len(q) > 1, Paired(q)
    PROVE  /\ Paired(Tail(q))
           /\ Copies(Head(Tail(q))) => Head(q) = ReadOf(Head(Tail(q)))
  <1>1. /\ Tail(q) \in Seq(S) /\ Len(Tail(q)) = Len(q) - 1
        /\ \A n \in 1 .. Len(q) - 1 : Tail(q)[n] = q[n + 1]
        /\ Head(Tail(q)) = q[2] /\ Head(q) = q[1] /\ Len(q) \in Nat
    BY TailOf
  <1>2. \A n \in 2 .. Len(q) : Copies(q[n]) => q[n - 1] = ReadOf(q[n])
    BY DEF Paired
  <1>3. Copies(q[2]) => q[1] = ReadOf(q[2])
    BY <1>1, <1>2
  <1>4. ASSUME NEW n \in 2 .. Len(Tail(q)), Copies(Tail(q)[n])
        PROVE  Tail(q)[n - 1] = ReadOf(Tail(q)[n])
    <2>1. n + 1 \in 2 .. Len(q) /\ Tail(q)[n] = q[n + 1] /\ Tail(q)[n - 1] = q[n]
      BY <1>1
    <2>2. Copies(q[n + 1]) => q[(n + 1) - 1] = ReadOf(q[n + 1])
      BY <1>2, <2>1
    <2>. QED  BY <1>1, <1>4, <2>1, <2>2
  <1>. QED  BY <1>1, <1>3, <1>4 DEF Paired

-----------------------------------------------------------------------------
(* The tables. *)
LEMMA ShutdownStep ==
    /\ axp2585_shutdown \in Seq(ToSet(axp2585_shutdown)) \ {<<>>}
    /\ \A s \in ToSet(axp2585_shutdown) : s.reg = "14" /\ s.how = "update"
  BY DEF axp2585_shutdown, SetBits, Update, Step, ToSet

LEMMA OffStepIs ==
    ASSUME NEW p, NEW s \in OffSteps(p)
    PROVE  /\ ~Copies(s) /\ s.how # "read"
           /\ \/ s.item[1] = "off" /\ s.reg \in OffRegs
              \/ p = "axp2585" /\ s \in ToSet(axp2585_shutdown) /\ s.reg = "14"
  <1>1. CASE s \in OffWrites /\ ~Copies(s)
    BY <1>1 DEF OffWrites
  <1>2. CASE p = "axp2585" /\ s \in ToSet(axp2585_shutdown)
    BY <1>2, ShutdownStep DEF Copies
  <1>. QED  BY <1>1, <1>2 DEF OffSteps

LEMMA StepHasRegister ==
    ASSUME NEW p \in Chips, NEW k \in 1 .. 4, NEW s \in StepsOf(p, k) \cup OffSteps(p)
    PROVE  s.reg \in Registers(p, k)
  <1>1. CASE s \in OffSteps(p)
    BY <1>1, OffStepIs DEF Registers, OffRegs
  <1>2. CASE s \in StepsOf(p, k)
    <2>1. CASE s \in ToSet(axp2585_shutdown)
      BY <2>1, ShutdownStep DEF Registers
    <2>2. CASE \E g \in Callable[p][k] \cup {InitProgram(p, k)} : s \in ToSet(g.steps)
      BY <2>2 DEF Registers, RegsOf
    <2>. QED  BY <1>2, <2>1, <2>2 DEF StepsOf
  <1>. QED  BY <1>1, <1>2

LEMMA StepsByInAll ==
    ASSUME NEW p, NEW k, NEW a
    PROVE  StepsBy(p, k, a) \subseteq StepsOf(p, k)
  BY DEF StepsBy, StepsOf

(* Two steps on the same bits set the same item, or the later one supersedes   *)
(* what the earlier one has set.                                              *)
LEMMA NoClash ==
    ASSUME MasksApart, NEW p \in Chips, NEW k \in 1 .. 4, NEW s, NEW t,
           \/ s \in StepsOf(p, k) /\ t \in StepsOf(p, k)
           \/ s \in OffSteps(p) /\ t \in StepsOf(p, k) \cup OffSteps(p),
           s.reg = t.reg, s.item # t.item, Claim(s).bits \cap Claim(t).bits # {}
    PROVE  Supersedes(p, s, t.item, Claim(t).bits)
  <1>1. CASE s \in StepsOf(p, k) /\ t \in StepsOf(p, k)
    BY <1>1 DEF MasksApart
  <1>2. CASE s \in OffSteps(p) /\ t \in StepsOf(p, k) \cup OffSteps(p)
    <2>1. CASE s.item[1] = "off"
      BY <2>1 DEF Supersedes
    <2>2. CASE p = "axp2585" /\ s \in ToSet(axp2585_shutdown) /\ s.reg = "14"
      <3>1. s \in StepsOf(p, k)
        BY <2>2 DEF StepsOf
      <3>2. t \in StepsOf(p, k)
        <4>1. CASE t \in OffSteps(p)
          <5>1. t.reg \notin OffRegs
            BY <2>2 DEF OffRegs
          <5>2. t \in ToSet(axp2585_shutdown)
            BY <4>1, <5>1, OffStepIs
          <5>. QED  BY <2>2, <5>2 DEF StepsOf
        <4>. QED  BY <1>2, <4>1
      <3>. QED  BY <1>1, <3>1, <3>2
    <2>. QED  BY <1>2, <2>1, <2>2, OffStepIs
  <1>. QED  BY <1>1, <1>2

(* A power off writes nothing but what OffSteps says. *)
LEMMA OffAccess ==
    ASSUME NEW p, NEW item \in {"off"} \X OffSettings, NEW reg \in OffRegs,
           NEW val \in SUBSET Byte, NEW mask \in SUBSET Byte
    PROVE  /\ Update(item, reg, val, mask) \in Seq(OffSteps(p))
           /\ SetBits(item, reg, mask) \in Seq(OffSteps(p))
           /\ ClrBits(item, reg, mask) \in Seq(OffSteps(p))
           /\ Write(item, reg, val) \in Seq(OffSteps(p))
  <1>. DEFINE step(how, v, m) == Step(how, item, reg, v, m)
  <1>1. ASSUME NEW v \in SUBSET Byte, NEW m \in SUBSET Byte, NEW how \in {"update", "write"},
               how = "write" => m = Byte
        PROVE  step(how, v, m) \in OffSteps(p)
    <2>1. step(how, v, m) \in OffWrites
      BY <1>1 DEF OffWrites, Step
    <2>2. ~Copies(step(how, v, m))
      BY <1>1 DEF Copies, Step
    <2>. QED  BY <2>1, <2>2 DEF OffSteps
  <1>2. /\ step("update", val, mask) \in OffSteps(p)
        /\ step("update", mask, mask) \in OffSteps(p)
        /\ step("update", {}, mask) \in OffSteps(p)
        /\ step("write", val, Byte) \in OffSteps(p)
    BY <1>1
  <1>. HIDE DEF step
  <1>3. ASSUME NEW x \in OffSteps(p) PROVE <<x>> \in Seq(OffSteps(p))
    OBVIOUS
  <1>4. /\ <<step("update", val, mask)>> \in Seq(OffSteps(p))
        /\ <<step("update", mask, mask)>> \in Seq(OffSteps(p))
        /\ <<step("update", {}, mask)>> \in Seq(OffSteps(p))
        /\ <<step("write", val, Byte)>> \in Seq(OffSteps(p))
    BY <1>2, <1>3
  <1>. QED  BY <1>4 DEF step, Update, SetBits, ClrBits, Write

LEMMA Concatenated ==
    ASSUME NEW S, NEW q \in Seq(S), NEW r \in Seq(S)
    PROVE  q \o r \in Seq(S)
  OBVIOUS

LEMMA OffPieces ==
    ASSUME NEW p, NEW b
    PROVE  /\ \A flag \in SUBSET Byte : OffFlag(b, flag) \in Seq(OffSteps(p))
           /\ \A reg \in {"32", "17"} : Off(reg) \in Seq(OffSteps(p)) /\ SetBits(<<"off", "off">>, reg, {0}) \in Seq(OffSteps(p))
           /\ \A flag \in SUBSET Byte : Write(<<"off", "flag">>, "0f", flag) \in Seq(OffSteps(p))
           /\ ClrBits(<<"off", "led">>, "32", {3, 4, 5}) \in Seq(OffSteps(p))
           /\ ClrBits(<<"off", "timer">>, "b9", {7}) \in Seq(OffSteps(p))
           /\ SetBits(<<"off", "batfet">>, "10", {7}) \in Seq(OffSteps(p))
           /\ \A val \in SUBSET Byte : Update(<<"off", "vol">>, "31", val, {0, 1, 2}) \in Seq(OffSteps(p))
           /\ Write(<<"off", "off">>, "32", {7}) \in Seq(OffSteps(p))
           /\ <<>> \in Seq(OffSteps(p))
  <1>1. /\ \A x \in OffSettings : <<"off", x>> \in {"off"} \X OffSettings
        /\ {"flag", "off", "vol", "led", "timer", "batfet"} \subseteq OffSettings
        /\ {"0f", "10", "17", "31", "32", "b9"} \subseteq OffRegs
        /\ {{0}, {7}, {3, 4, 5}, {0, 1, 2}} \subseteq SUBSET Byte
    BY DEF OffSettings, OffRegs, Byte
  <1>2. \A flag \in SUBSET Byte : Write(<<"off", "flag">>, "0f", flag) \in Seq(OffSteps(p))
    BY <1>1, OffAccess
  <1>3. <<>> \in Seq(OffSteps(p))
    OBVIOUS
  <1>4. \A flag \in SUBSET Byte : OffFlag(b, flag) \in Seq(OffSteps(p))
    BY <1>2, <1>3 DEF OffFlag
  <1>5. \A reg \in {"32", "17"} :
           Off(reg) \in Seq(OffSteps(p)) /\ SetBits(<<"off", "off">>, reg, {0}) \in Seq(OffSteps(p))
    BY <1>1, OffAccess DEF Off
  <1>6. /\ ClrBits(<<"off", "led">>, "32", {3, 4, 5}) \in Seq(OffSteps(p))
        /\ ClrBits(<<"off", "timer">>, "b9", {7}) \in Seq(OffSteps(p))
        /\ SetBits(<<"off", "batfet">>, "10", {7}) \in Seq(OffSteps(p))
        /\ Write(<<"off", "off">>, "32", {7}) \in Seq(OffSteps(p))
    BY <1>1, OffAccess
  <1>7. \A val \in SUBSET Byte : Update(<<"off", "vol">>, "31", val, {0, 1, 2}) \in Seq(OffSteps(p))
    BY <1>1, OffAccess
  <1>. QED  BY <1>2, <1>3, <1>4, <1>5, <1>6, <1>7

LEMMA BinIsByte ==
    ASSUME NEW n
    PROVE  Bin(n) \in SUBSET Byte
  BY DEF Bin, Byte

LEMMA OffCalls ==
    ASSUME NEW p \in Chips, NEW b, NEW c
    PROVE  /\ axp22x_power_off(b, c) \in Seq(OffSteps(p))
           /\ axp803_power_off(b, c) \in Seq(OffSteps(p))
           /\ axp202_power_off(b, c) \in Seq(OffSteps(p))
           /\ axp152_power_off \in Seq(OffSteps(p))
           /\ axp80x_power_off \in Seq(OffSteps(p))
           /\ axp15060_power_off \in Seq(OffSteps(p))
           /\ p = "axp2585" => axp2585_shutdown \o axp2585_power_off \in Seq(OffSteps(p))
  <1>. DEFINE S == Seq(OffSteps(p))
  <1>1. {} \in SUBSET Byte /\ Bin(15) \in SUBSET Byte /\ Bin(PwroffVol(c.pwroff_vol)) \in SUBSET Byte
    BY BinIsByte
  <1>2. OffFlag(b, {}) \in S /\ OffFlag(b, Bin(15)) \in S /\ Off("32") \in S
    BY <1>1, OffPieces
  <1>3. OffFlag(b, {}) \o Off("32") \in S
    BY <1>2, Concatenated
  <1>4. axp22x_power_off(b, c) \in S /\ axp803_power_off(b, c) \in S
    BY <1>2, <1>3 DEF axp22x_power_off, axp803_power_off
  <1>5. axp202_power_off(b, c) \in S
    <2>1. /\ Update(<<"off", "vol">>, "31", Bin(PwroffVol(c.pwroff_vol)), {0, 1, 2}) \in S
          /\ <<>> \in S
      BY <1>1, OffPieces
    <2>2. /\ ClrBits(<<"off", "led">>, "32", {3, 4, 5}) \in S
          /\ ClrBits(<<"off", "timer">>, "b9", {7}) \in S
      BY OffPieces
    <2>3. /\ Write(<<"off", "flag">>, "0f", Bin(15)) \in S
          /\ Write(<<"off", "flag">>, "0f", {}) \in S
      BY <1>1, OffPieces
    <2>. DEFINE vol == IF c.pwroff_vol \in 2600 .. 3300
                       THEN Update(<<"off", "vol">>, "31", Bin(PwroffVol(c.pwroff_vol)), {0, 1, 2})
                       ELSE <<>>
                led == ClrBits(<<"off", "led">>, "32", {3, 4, 5})
                timer == ClrBits(<<"off", "timer">>, "b9", {7})
                flag(v) == Write(<<"off", "flag">>, "0f", v)
                last == IF Restarts(b, c, {5}) THEN flag(Bin(15)) ELSE flag({}) \o Off("32")
    <2>4. flag({}) \o Off("32") \in S
      BY <1>2, <2>3, Concatenated
    <2>5. last \in S
      BY <2>3, <2>4
    <2>6. vol \in S /\ led \in S /\ timer \in S
      BY <2>1, <2>2
    <2>7. axp202_power_off(b, c) = vol \o led \o timer \o last
      BY DEF axp202_power_off
    <2>. HIDE DEF vol, led, timer, flag, last
    <2>8. vol \o led \in S
      BY <2>6, Concatenated
    <2>9. vol \o led \o timer \in S
      BY <2>6, <2>8, Concatenated
    <2>10. vol \o led \o timer \o last \in S
      BY <2>5, <2>9, Concatenated
    <2>. QED  BY <2>7, <2>10
  <1>6. axp152_power_off \in S /\ axp80x_power_off \in S /\ axp15060_power_off \in S
    BY <1>2, OffPieces DEF axp152_power_off, axp80x_power_off, axp15060_power_off
  <1>7. ASSUME p = "axp2585" PROVE axp2585_shutdown \o axp2585_power_off \in S
    <2>1. ToSet(axp2585_shutdown) \subseteq OffSteps(p)
      BY <1>7 DEF OffSteps
    <2>2. axp2585_shutdown \in S
      BY <2>1, ShutdownStep, SeqMonotonic
    <2>3. axp2585_power_off \in S
      BY OffPieces, Concatenated DEF axp2585_power_off
    <2>. QED  BY <2>2, <2>3, Concatenated
  <1>. QED  BY <1>4, <1>5, <1>6, <1>7

LEMMA OffProgram ==
    ASSUME NEW p \in Chips, NEW b, NEW g \in OffPrograms(p, b)
    PROVE  /\ g.steps \in Seq(OffSteps(p))
           /\ g = Program(<<"off">>, g.steps)
  <1>1. p \in {"axp22x", "axp233", "axp803", "axp202", "axp152", "axp80x", "axp15060", "axp2585"}
    BY ChipsAssumption
  <1>2. PICK q : q \in Seq(OffSteps(p)) /\ g = Program(<<"off">>, q)
    <2>1. CASE p \in {"axp22x", "axp233"}
      <3>1. PICK c \in PowerConfigs : g = Program(<<"off">>, axp22x_power_off(b, c))
        BY <2>1 DEF OffPrograms
      <3>. QED  BY <3>1, OffCalls
    <2>2. CASE p = "axp803"
      <3>1. PICK c \in PowerConfigs : g = Program(<<"off">>, axp803_power_off(b, c))
        BY <2>2 DEF OffPrograms
      <3>. QED  BY <3>1, OffCalls
    <2>3. CASE p = "axp202"
      <3>1. PICK c \in PowerConfigs : g = Program(<<"off">>, axp202_power_off(b, c))
        BY <2>3 DEF OffPrograms
      <3>. QED  BY <3>1, OffCalls
    <2>4. CASE p = "axp152"
      BY <2>4, OffCalls DEF OffPrograms
    <2>5. CASE p = "axp80x"
      BY <2>5, OffCalls DEF OffPrograms
    <2>6. CASE p = "axp15060"
      BY <2>6, OffCalls DEF OffPrograms
    <2>7. CASE p = "axp2585"
      BY <2>7, OffCalls DEF OffPrograms
    <2>. QED  BY <1>1, <2>1, <2>2, <2>3, <2>4, <2>5, <2>6, <2>7
  <1>. QED  BY <1>2 DEF Program
-----------------------------------------------------------------------------
(* The steps that are taken. *)
LEMMA HeadFrom ==
    ASSUME Phases, Programmed, NEW a \in DOMAIN running
    PROVE  /\ IF Ending THEN Head(running[a].steps) \in OffSteps(chip)
                        ELSE Head(running[a].steps) \in StepsOf(chip, config)
           /\ \A b \in DOMAIN running \ {a} :
                ~Ending => Head(running[a].steps) \in StepsBy(chip, config, a)
           /\ Len(running[a].steps) \in Nat \ {0}
  <1>1. "steps" \in DOMAIN running[a] /\ running[a].steps # <<>>
    BY DEF Programmed
  <1>2. CASE Ending
    <2>1. running[a].steps \in Seq(OffSteps(chip))
      BY <1>2 DEF Ending
    <2>. QED  BY <1>1, <1>2, <2>1, HeadOf
  <1>3. CASE ~Ending /\ Booting
    <2>1. a = <<"chip">> /\ DOMAIN running = {a} /\ running[a].steps \in Seq(StepsOf(chip, config))
      BY <1>3 DEF Booting
    <2>. QED  BY <1>1, <1>3, <2>1, HeadOf
  <1>4. CASE ~Ending /\ Working
    <2>1. running[a].steps \in Seq(StepsBy(chip, config, a))
      BY <1>4 DEF Working
    <2>. QED  BY <1>1, <1>4, <2>1, HeadOf, StepsByInAll
  <1>. QED  BY <1>2, <1>3, <1>4 DEF Phases

(* What a program leaves to be done is a program. *)
LEMMA AdvanceKeeps ==
    ASSUME Phases, Programmed, NEW a \in DOMAIN running, Advance(a),
           UNCHANGED <<chip, config, ran>>
    PROVE  /\ Phases' /\ Programmed' /\ (Ending => Ending')
           /\ DOMAIN running' \subseteq DOMAIN running
           /\ \A b \in DOMAIN running' \ {a} : running'[b] = running[b]
           /\ a \in DOMAIN running' /\ Copies(Head(running'[a].steps))
                => Head(running[a].steps) = ReadOf(Head(running'[a].steps))
  <1>1. "steps" \in DOMAIN running[a] /\ Paired(running[a].steps)
    BY DEF Programmed
  <1>. DEFINE q == running[a].steps
  <1>2. CASE Len(q) > 1
    <2>1. /\ running' = [running EXCEPT ![a].steps = Tail(@)]
          /\ DOMAIN running' = DOMAIN running
          /\ \A b \in DOMAIN running \ {a} : running'[b] = running[b]
          /\ running'[a].steps = Tail(q) /\ "steps" \in DOMAIN running'[a]
      BY <1>1, <1>2 DEF Advance
    <2>2. ASSUME NEW S, q \in Seq(S)
          PROVE  /\ Tail(q) \in Seq(S) /\ Tail(q) # <<>> /\ Paired(Tail(q))
                 /\ Copies(Head(Tail(q))) => Head(q) = ReadOf(Head(Tail(q)))
      BY <1>1, <1>2, <2>2, TailOf, PairedTail
    <2>3. /\ Booting => q \in Seq(StepsOf(chip, config))
          /\ Working => q \in Seq(StepsBy(chip, config, a))
          /\ Ending => q \in Seq(OffSteps(chip))
      BY DEF Booting, Working, Ending
    <2>4. Booting => Booting'
      BY <2>1, <2>2, <2>3 DEF Booting
    <2>5. Working => Working'
      BY <2>1, <2>2, <2>3 DEF Working
    <2>6. Ending => Ending'
      BY <2>1, <2>2, <2>3 DEF Ending
    <2>7. /\ Tail(q) # <<>> /\ Paired(Tail(q))
          /\ Copies(Head(Tail(q))) => Head(q) = ReadOf(Head(Tail(q)))
      BY <2>2, <2>3 DEF Phases
    <2>8. Programmed'
      BY <2>1, <2>7 DEF Programmed
    <2>. QED  BY <2>1, <2>4, <2>5, <2>6, <2>7, <2>8 DEF Phases
  <1>3. CASE ~(Len(q) > 1)
    <2>1. /\ DOMAIN running' = DOMAIN running \ {a}
          /\ \A b \in DOMAIN running' : running'[b] = running[b]
      BY <1>3 DEF Advance
    <2>2. Booting => Working'
      BY <2>1 DEF Booting, Working
    <2>3. Working => Working'
      BY <2>1 DEF Working
    <2>4. Ending => Ending'
      BY <2>1 DEF Ending
    <2>5. Programmed'
      BY <2>1 DEF Programmed
    <2>. QED  BY <2>1, <2>2, <2>3, <2>4, <2>5 DEF Phases
  <1>. QED  BY <1>2, <1>3
-----------------------------------------------------------------------------
(* A register written.  The step s is the head of the program of a. *)

(* An item that a step does not set and leaves standing, and whose bits it     *)
(* writes back as they are, is in the registers as before.                    *)
LEMMA FieldStands ==
    ASSUME MasksApart, Types, Phases, Programmed, Claimed, NEW a \in DOMAIN running,
           NEW old, Set(a, Head(running[a].steps), old),
           NEW j \in Kept(Head(running[a].steps)) \ Stale(Head(running[a].steps), old)
    PROVE  made[j].bits \cap regs'[made[j].reg] = made[j].bits \cap regs[made[j].reg]
  <1>. DEFINE s == Head(running[a].steps)
  <1>1. /\ chip \in Chips /\ config \in 1 .. 4
        /\ IF Ending THEN s \in OffSteps(chip) ELSE s \in StepsOf(chip, config)
    BY HeadFrom DEF Types
  <1>2. s.reg \in DOMAIN regs
    BY <1>1, StepHasRegister DEF Types
  <1>3. PICK t : /\ t \in StepsOf(chip, config) \cup OffSteps(chip)
                 /\ t.item = j /\ made[j] = Claim(t)
                 /\ Ending \/ t \in StepsOf(chip, config)
    BY DEF Claimed, Kept
  <1>4. made[j].reg = t.reg /\ made[j].bits = Claim(t).bits /\ s.item # t.item
    BY <1>3 DEF Claim, Kept
  <1>5. /\ regs' = [regs EXCEPT ![s.reg] = Updated(old, s.val, s.mask)]
        /\ j \in Kept(s) /\ j \notin Stale(s, old)
    BY DEF Set
  <1>. HIDE DEF s
  <1>6. CASE made[j].reg # s.reg
    BY <1>5, <1>6
  <1>7. CASE made[j].reg = s.reg
    <2>1. made[j].bits \cap Claim(s).bits = {}
      <3>1. SUFFICES ASSUME made[j].bits \cap Claim(s).bits # {} PROVE FALSE
        OBVIOUS
      <3>2. ~Supersedes(chip, s, j, made[j].bits)
        BY <1>5, <1>7, <3>1 DEF Kept
      <3>3. Claim(s).bits \cap Claim(t).bits # {} /\ s.reg = t.reg
        BY <1>4, <1>7, <3>1
      <3>4. Supersedes(chip, s, t.item, Claim(t).bits)
        BY <1>1, <1>3, <1>4, <3>3, NoClash
      <3>. QED  BY <1>3, <1>4, <3>2, <3>4
    <2>2. made[j].bits \cap old = made[j].bits \cap regs[s.reg]
      BY <1>5, <1>7, <2>1 DEF Stale
    <2>3. Claim(s).bits = s.mask \cup s.val
      BY DEF Claim
    <2>4. regs'[s.reg] = (old \ s.mask) \cup s.val
      BY <1>2, <1>5 DEF Updated
    <2>. QED  BY <1>7, <2>1, <2>2, <2>3, <2>4
  <1>. QED  BY <1>6, <1>7

(* A step that writes back what it has of the register undoes nothing that may *)
(* not be lost.                                                               *)
LEMMA StaleMayBeLost ==
    ASSUME NEW a \in DOMAIN running, Fresh(a), Locked(a) \/ WriteBack(a),
           NEW old, Set(a, Head(running[a].steps), old),
           old = IF Copies(Head(running[a].steps)) THEN copy[a]
                                                   ELSE regs[Head(running[a].steps).reg],
           NEW j \in Stale(Head(running[a].steps), old)
    PROVE  MayBeLost(j)
  BY DEF Stale, Kept, Fresh

(* What the registers hold and what is claimed, after it. *)
LEMMA SetKeeps ==
    ASSUME MasksApart, Types, Phases, Programmed, Claimed, NEW a \in DOMAIN running,
           NEW old, Set(a, Head(running[a].steps), old)
    PROVE  /\ Types' /\ Phases' /\ Programmed' /\ Claimed'
           /\ KeepsApart => KeepsApart'
  <1>. DEFINE s == Head(running[a].steps)
  <1>1. /\ chip' = chip /\ config' = config /\ ran' = ran
        /\ regs' = [regs EXCEPT ![s.reg] = Updated(old, s.val, s.mask)]
        /\ made' = With([j \in Kept(s) |-> made[j]], s.item, Claim(s))
        /\ lost' = (lost \cap Kept(s)) \cup Stale(s, old)
        /\ Advance(a)
    BY DEF Set
  <1>2. Phases' /\ Programmed' /\ (Ending => Ending')
    BY <1>1, AdvanceKeeps
  <1>3. Types'
    BY <1>1 DEF Types
  <1>4. /\ chip \in Chips /\ config \in 1 .. 4
        /\ IF Ending THEN s \in OffSteps(chip) ELSE s \in StepsOf(chip, config)
        /\ Kept(s) \subseteq DOMAIN made \ {s.item}
    BY HeadFrom DEF Types, Kept
  <1>5. /\ DOMAIN made' = Kept(s) \cup {s.item} /\ made'[s.item] = Claim(s)
        /\ \A j \in Kept(s) : made'[j] = made[j]
    <2>1. Kept(s) \subseteq DOMAIN made /\ s.item \notin Kept(s)
      BY DEF Kept
    <2>. HIDE DEF s
    <2>. QED  BY <1>1, <2>1 DEF With
  <1>6. Claimed'
    <2>. SUFFICES ASSUME NEW j \in DOMAIN made'
                  PROVE  \E t \in StepsOf(chip, config) \cup OffSteps(chip) :
                            /\ t.item = j /\ made'[j] = Claim(t)
                            /\ Ending' \/ t \in StepsOf(chip, config)
      BY <1>1 DEF Claimed
    <2>1. CASE j = s.item
      BY <1>2, <1>4, <1>5, <2>1
    <2>2. CASE j \in Kept(s)
      BY <1>2, <1>4, <1>5, <2>2 DEF Claimed
    <2>. QED  BY <1>5, <2>1, <2>2
  <1>7. ASSUME KeepsApart PROVE KeepsApart'
    <2>. SUFFICES ASSUME NEW j \in DOMAIN made' \ lost'
                  PROVE  regs'[made'[j].reg] \cap made'[j].bits = made'[j].val
      BY DEF KeepsApart, Shows
    <2>1. CASE j = s.item
      <3>1. s.reg \in DOMAIN regs
        BY <1>4, StepHasRegister DEF Types
      <3>2. regs'[s.reg] = (old \ s.mask) \cup s.val
        BY <1>1, <3>1 DEF Updated
      <3>3. /\ made'[j].reg = s.reg /\ made'[j].bits = s.mask \cup s.val
            /\ made'[j].val = s.val
        BY <1>5, <2>1 DEF Claim
      <3>. QED  BY <3>2, <3>3
    <2>2. CASE j \in Kept(s)
      <3>1. j \in Kept(s) \ Stale(s, old) /\ j \in DOMAIN made \ lost
        BY <1>1, <1>4, <2>2
      <3>2. made[j].bits \cap regs'[made[j].reg] = made[j].bits \cap regs[made[j].reg]
        BY <3>1, FieldStands
      <3>3. regs[made[j].reg] \cap made[j].bits = made[j].val
        BY <1>7, <3>1 DEF KeepsApart, Shows
      <3>. QED  BY <1>5, <2>2, <3>2, <3>3
    <2>. QED  BY <1>5, <2>1, <2>2
  <1>. QED  BY <1>2, <1>3, <1>6, <1>7

(* Two programs have steps to take: neither the initialisation nor a power off *)
(* is running, if one of them is about to write back.                         *)
LEMMA BothWork ==
    ASSUME Phases, Programmed, NEW a \in DOMAIN running, NEW b \in DOMAIN running \ {a},
           Copies(Head(running[b].steps))
    PROVE  /\ ~Ending
           /\ Head(running[a].steps) \in StepsBy(chip, config, a)
           /\ Head(running[b].steps) \in StepsBy(chip, config, b)
  <1>1. ~Ending
    BY HeadFrom, OffStepIs
  <1>. QED  BY <1>1, HeadFrom

LEMMA ActorOf ==
    ASSUME NEW p, NEW k, NEW a, NEW s \in StepsBy(p, k, a)
    PROVE  a \in {g.actor : g \in Callable[p][k]}
  BY DEF StepsBy

(* Steps of two devices, of which one writes a copy back. *)
LEMMA LossKnown ==
    ASSUME CopiesKnown, NEW p \in Chips, NEW k \in 1 .. 4, NEW a, NEW b, a # b,
           NEW s \in StepsBy(p, k, a), Copies(s), NEW t \in StepsBy(p, k, b),
           s.reg = t.reg, s.item # t.item, Claim(s).bits \cap Claim(t).bits = {}
    PROVE  MayBeLost(t.item)
  <1>1. a \in {g.actor : g \in Callable[p][k]} /\ b \in {g.actor : g \in Callable[p][k]} \ {a}
    BY ActorOf
  <1>. QED  BY <1>1 DEF CopiesKnown

(* The copies of the others are as good as before. *)
LEMMA CopiesKeep ==
    ASSUME MasksApart, CopiesKnown, Inv, NEW a \in DOMAIN running, Locked(a) \/ WriteBack(a)
    PROVE  Copied'
  <1>. DEFINE s == Head(running[a].steps)
              old == IF Copies(s) THEN copy[a] ELSE regs[s.reg]
  <1>1. Set(a, s, old) /\ s.how # "read" /\ Copied
        /\ Types /\ Phases /\ Programmed /\ Claimed
    BY DEF Locked, WriteBack, Copies, Inv
  <1>2. /\ chip' = chip /\ config' = config /\ ran' = ran /\ Advance(a)
        /\ regs' = [regs EXCEPT ![s.reg] = Updated(old, s.val, s.mask)]
        /\ made' = With([j \in Kept(s) |-> made[j]], s.item, Claim(s))
    BY <1>1 DEF Set
  <1>3. /\ DOMAIN running' \subseteq DOMAIN running
        /\ \A b \in DOMAIN running' \ {a} : running'[b] = running[b]
        /\ a \in DOMAIN running' /\ Copies(Head(running'[a].steps))
             => s = ReadOf(Head(running'[a].steps))
    BY <1>1, <1>2, AdvanceKeeps
  <1>4. /\ DOMAIN made' = Kept(s) \cup {s.item} /\ made'[s.item] = Claim(s)
        /\ \A j \in Kept(s) : made'[j] = made[j] /\ j \in DOMAIN made
    <2>1. Kept(s) \subseteq DOMAIN made /\ s.item \notin Kept(s)
      BY DEF Kept
    <2>. HIDE DEF s, old
    <2>. QED  BY <1>2, <2>1 DEF With
  <1>. SUFFICES ASSUME NEW b \in DOMAIN running' PROVE Fresh(b)'
    BY DEF Copied
  <1>5. CASE b = a
    <2>1. Copies(Head(running'[a].steps)) => s.how = "read"
      BY <1>3, <1>5 DEF ReadOf, Step
    <2>. QED  BY <1>1, <1>5, <2>1 DEF Fresh
  <1>6. CASE b # a
    <2>. DEFINE t == Head(running[b].steps)
    <2>1. b \in DOMAIN running \ {a} /\ Head(running'[b].steps) = t
      BY <1>3, <1>6
    <2>. SUFFICES ASSUME Copies(t)
                  PROVE  /\ b \in DOMAIN copy'
                         /\ \A j \in DOMAIN made' :
                              /\ made'[j].reg = t.reg /\ j # t.item
                              /\ made'[j].bits \cap Claim(t).bits = {}
                              /\ ~MayBeLost(j)
                              => made'[j].bits \cap copy'[b] = made'[j].bits \cap regs'[t.reg]
      BY <2>1 DEF Fresh
    <2>2. /\ ~Ending /\ s \in StepsBy(chip, config, a) /\ t \in StepsBy(chip, config, b)
          /\ chip \in Chips /\ config \in 1 .. 4
      BY <1>1, <2>1, BothWork DEF Types
    <2>3. /\ b \in DOMAIN copy
          /\ \A j \in DOMAIN made :
               /\ made[j].reg = t.reg /\ j # t.item
               /\ made[j].bits \cap Claim(t).bits = {}
               /\ ~MayBeLost(j)
               => made[j].bits \cap copy[b] = made[j].bits \cap regs[t.reg]
      BY <1>1, <2>1 DEF Copied, Fresh
    <2>4. b \in DOMAIN copy' /\ copy'[b] = copy[b]
      BY <1>6, <2>3 DEF Locked, WriteBack
    <2>. HIDE DEF s, t, old
    <2>5. ASSUME NEW j \in DOMAIN made', made'[j].reg = t.reg, j # t.item,
                 made'[j].bits \cap Claim(t).bits = {}, ~MayBeLost(j)
          PROVE  made'[j].bits \cap copy'[b] = made'[j].bits \cap regs'[t.reg]
      <3>1. CASE j = s.item
        <4>1. s.reg = t.reg /\ Claim(t).bits \cap Claim(s).bits = {}
          BY <1>4, <2>5, <3>1 DEF Claim
        <4>2. MayBeLost(s.item)
          BY <1>6, <2>2, <2>5, <3>1, <4>1, LossKnown
        <4>. QED  BY <2>5, <3>1, <4>2
      <3>2. CASE j \in Kept(s)
        <4>1. made'[j] = made[j] /\ j \in DOMAIN made
          BY <1>4, <3>2
        <4>2. made[j].bits \cap copy[b] = made[j].bits \cap regs[t.reg]
          BY <2>3, <2>5, <4>1
        <4>3. j \notin Stale(s, old)
          BY <1>1, <2>5, StaleMayBeLost DEF s, old, Copied
        <4>4. made[j].bits \cap regs'[made[j].reg] = made[j].bits \cap regs[made[j].reg]
          BY <1>1, <3>2, <4>3, FieldStands DEF s
        <4>. QED  BY <2>4, <2>5, <4>1, <4>2, <4>4
      <3>. QED  BY <1>4, <3>1, <3>2
    <2>. QED  BY <2>4, <2>5
  <1>. QED  BY <1>5, <1>6
-----------------------------------------------------------------------------
(* The invariant holds at first, and every step keeps it. *)
LEMMA CallIs ==
    ASSUME ProgramsPaired, NEW p \in Chips, NEW k \in 1 .. 4,
           NEW g \in Callable[p][k] \cup {InitProgram(p, k)}
    PROVE  /\ "steps" \in DOMAIN g /\ g.steps # <<>>
           /\ g.steps \in Seq(ToSet(g.steps))
           /\ ~Copies(Head(g.steps)) /\ Paired(g.steps)
           /\ g.steps \in Seq(StepsOf(p, k))
           /\ g \in Callable[p][k] => g.steps \in Seq(StepsBy(p, k, g.actor))
  <1>1. /\ DOMAIN g = {"actor", "steps", "asks"}
        /\ g.steps \in Seq(ToSet(g.steps)) \ {<<>>}
        /\ ~Copies(Head(g.steps)) /\ Paired(g.steps)
    BY DEF ProgramsPaired
  <1>2. ToSet(g.steps) \subseteq StepsOf(p, k)
    BY DEF StepsOf
  <1>3. g \in Callable[p][k] => ToSet(g.steps) \subseteq StepsBy(p, k, g.actor)
    BY DEF StepsBy
  <1>. QED  BY <1>1, <1>2, <1>3, SeqMonotonic

LEMMA InitInv ==
    ASSUME ProgramsPaired, Init
    PROVE  Inv /\ KeepsApart /\ OnlyTheseLost
  <1>1. Types
    BY DEF Init, Types
  <1>2. DOMAIN made = {} /\ lost = {}
    BY DEF Init
  <1>3. CASE chip = "axp152"
    <2>1. DOMAIN running = {}
      BY <1>3 DEF Init
    <2>. QED
      BY <1>1, <1>2, <2>1
      DEF Inv, Phases, Working, Programmed, Claimed, Copied, KeepsApart, OnlyTheseLost
  <1>4. CASE chip # "axp152"
    <2>. DEFINE g == InitProgram(chip, config)
    <2>1. DOMAIN running = {<<"chip">>} /\ running[<<"chip">>] = g
      BY <1>4 DEF Init
    <2>2. /\ "steps" \in DOMAIN g /\ g.steps # <<>> /\ ~Copies(Head(g.steps)) /\ Paired(g.steps)
          /\ g.steps \in Seq(StepsOf(chip, config))
      BY <1>1, CallIs DEF Types
    <2>. HIDE DEF g
    <2>3. Booting /\ Programmed /\ Copied
      BY <1>4, <2>1, <2>2 DEF Booting, Programmed, Copied, Fresh
    <2>. QED
      BY <1>1, <1>2, <2>3 DEF Inv, Phases, Claimed, KeepsApart, OnlyTheseLost
  <1>. QED  BY <1>3, <1>4

(* A call that starts has read nothing yet. *)
LEMMA Starting ==
    ASSUME Inv, NEW g, "steps" \in DOMAIN g, g.steps # <<>>, Paired(g.steps),
           ~Copies(Head(g.steps)), running' = With(running, g.actor, g), Phases', Types',
           UNCHANGED <<chip, config, regs, copy, made, lost>>, Ending => Ending'
    PROVE  Inv'
  <1>1. /\ DOMAIN running' = DOMAIN running \cup {g.actor} /\ running'[g.actor] = g
        /\ \A b \in DOMAIN running \ {g.actor} : running'[b] = running[b]
    BY DEF With
  <1>2. Programmed'
    BY <1>1 DEF Inv, Programmed
  <1>3. Claimed'
    BY DEF Inv, Claimed
  <1>4. Copied'
    <2>. SUFFICES ASSUME NEW b \in DOMAIN running' PROVE Fresh(b)'
      BY DEF Copied
    <2>1. CASE b = g.actor
      BY <1>1, <2>1 DEF Fresh
    <2>2. CASE b # g.actor
      <3>1. b \in DOMAIN running /\ running'[b] = running[b] /\ Fresh(b)
        BY <1>1, <2>2 DEF Inv, Copied
      <3>. QED  BY <3>1 DEF Fresh
    <2>. QED  BY <2>1, <2>2
  <1>. QED  BY <1>2, <1>3, <1>4 DEF Inv

LEMMA StartKeeps ==
    ASSUME ProgramsPaired, Inv, NEW g \in Callable[chip][config], Start(g)
    PROVE  Inv'
  <1>1. /\ "steps" \in DOMAIN g /\ g.steps # <<>> /\ ~Copies(Head(g.steps)) /\ Paired(g.steps)
        /\ g.steps \in Seq(StepsBy(chip, config, g.actor))
    BY CallIs DEF Inv, Types
  <1>2. /\ running' = With(running, g.actor, g)
        /\ UNCHANGED <<chip, config, regs, copy, made, lost>>
        /\ ran' = [regs |-> ran.regs \cup RegsOf(g), n |-> ran.n + 1]
        /\ ran.n < Programs /\ g.actor \notin DOMAIN running
        /\ chip = "axp152" \/ <<"chip">> \notin DOMAIN running
    BY DEF Start
  <1>3. Types'
    BY <1>2 DEF Inv, Types
  <1>4. ~Booting /\ ~Ending
    BY <1>2, ProgramsAssumption DEF Booting, Ending
  <1>5. /\ DOMAIN running' = DOMAIN running \cup {g.actor} /\ running'[g.actor] = g
        /\ \A b \in DOMAIN running \ {g.actor} : running'[b] = running[b]
    BY <1>2 DEF With
  <1>6. Working'
    BY <1>1, <1>2, <1>4, <1>5 DEF Inv, Phases, Working
  <1>. QED  BY <1>1, <1>2, <1>3, <1>4, <1>6, Starting DEF Phases

LEMMA PowerOffKeeps ==
    ASSUME Inv, NEW g \in OffPrograms(chip, regs), PowerOff(g)
    PROVE  Inv'
  <1>1. "steps" \in DOMAIN g /\ g.steps # <<>> /\ g.steps \in Seq(OffSteps(chip))
    <2>1. g = Program(<<"off">>, g.steps) /\ g.steps \in Seq(OffSteps(chip))
      BY OffProgram DEF Inv, Types
    <2>2. "steps" \in DOMAIN g
      BY <2>1 DEF Program
    <2>. QED  BY <2>1, <2>2 DEF PowerOff
  <1>2. /\ running' = With(running, g.actor, g)
        /\ UNCHANGED <<chip, config, regs, copy, made, lost>>
        /\ ran' = [ran EXCEPT !.n = Programs + 1]
        /\ DOMAIN running = {}
    BY DEF PowerOff
  <1>3. Types' /\ ran'.n = Programs + 1
    BY <1>2 DEF Inv, Types
  <1>4. DOMAIN running' = {g.actor} /\ running'[g.actor] = g
    BY <1>2 DEF With
  <1>5. Ending'
    BY <1>1, <1>2, <1>3, <1>4 DEF Ending
  <1>6. \A n \in 1 .. Len(g.steps) : g.steps[n] \in OffSteps(chip)
    BY <1>1
  <1>7. \A n \in 1 .. Len(g.steps) : ~Copies(g.steps[n])
    BY <1>6, OffStepIs
  <1>8. Paired(g.steps) /\ ~Copies(Head(g.steps))
    BY <1>1, <1>7, HeadOf DEF Paired
  <1>. QED  BY <1>1, <1>2, <1>3, <1>5, <1>8, Starting DEF Phases

LEMMA ReadKeeps ==
    ASSUME Inv, NEW a \in DOMAIN running, Read(a)
    PROVE  Inv'
  <1>. DEFINE s == Head(running[a].steps)
  <1>1. /\ copy' = With(copy, a, regs[s.reg]) /\ Advance(a)
        /\ UNCHANGED <<chip, config, regs, made, lost, ran>>
    BY DEF Read
  <1>2. /\ Phases' /\ Programmed' /\ (Ending => Ending')
        /\ DOMAIN running' \subseteq DOMAIN running
        /\ \A b \in DOMAIN running' \ {a} : running'[b] = running[b]
        /\ a \in DOMAIN running' /\ Copies(Head(running'[a].steps))
             => s = ReadOf(Head(running'[a].steps))
    BY <1>1, AdvanceKeeps DEF Inv
  <1>3. Types' /\ Claimed'
    BY <1>1, <1>2 DEF Inv, Types, Claimed
  <1>4. /\ DOMAIN copy' = DOMAIN copy \cup {a} /\ copy'[a] = regs[s.reg]
        /\ \A b \in DOMAIN copy \ {a} : copy'[b] = copy[b]
    BY <1>1 DEF With
  <1>5. ASSUME NEW b \in DOMAIN running' PROVE Fresh(b)'
    <2>1. CASE b = a
      <3>1. Copies(Head(running'[a].steps)) => s.reg = Head(running'[a].steps).reg
        BY <1>2, <1>5, <2>1 DEF ReadOf, Step
      <3>. QED  BY <1>1, <1>4, <2>1, <3>1 DEF Fresh
    <2>2. CASE b # a
      <3>1. b \in DOMAIN running /\ running'[b] = running[b] /\ Fresh(b)
        BY <1>2, <1>5, <2>2 DEF Inv, Copied
      <3>. QED  BY <1>1, <1>4, <2>2, <3>1 DEF Fresh
    <2>. QED  BY <2>1, <2>2
  <1>. QED  BY <1>2, <1>3, <1>5 DEF Inv, Copied

(* A step that writes, locked or with a copy, and what it undoes. *)
LEMMA WriteKeeps ==
    ASSUME MasksApart, CopiesKnown, Inv, NEW a \in DOMAIN running, Locked(a) \/ WriteBack(a)
    PROVE  /\ Inv' /\ (KeepsApart => KeepsApart')
           /\ OnlyTheseLost => OnlyTheseLost'
  <1>. DEFINE s == Head(running[a].steps)
              old == IF Copies(s) THEN copy[a] ELSE regs[s.reg]
  <1>1. /\ Set(a, s, old) /\ Fresh(a)
        /\ Types /\ Phases /\ Programmed /\ Claimed
    BY DEF Locked, WriteBack, Copies, Inv, Copied
  <1>2. lost' = (lost \cap Kept(s)) \cup Stale(s, old)
    BY <1>1 DEF Set
  <1>3. \A j \in Stale(s, old) : MayBeLost(j)
    BY <1>1, StaleMayBeLost
  <1>4. OnlyTheseLost => OnlyTheseLost'
    BY <1>2, <1>3 DEF OnlyTheseLost
  <1>5. Types' /\ Phases' /\ Programmed' /\ Claimed' /\ (KeepsApart => KeepsApart')
    BY <1>1, SetKeeps
  <1>. QED  BY <1>4, <1>5, CopiesKeep DEF Inv

LEMMA NextKeeps ==
    ASSUME MasksApart, CopiesKnown, ProgramsPaired, Inv, [Next]_vars
    PROVE  /\ Inv' /\ (KeepsApart => KeepsApart')
           /\ OnlyTheseLost => OnlyTheseLost'
  <1>1. ASSUME UNCHANGED <<regs, made, lost>>
        PROVE  (KeepsApart => KeepsApart') /\ (OnlyTheseLost => OnlyTheseLost')
    BY <1>1 DEF KeepsApart, OnlyTheseLost, Shows
  <1>2. ASSUME NEW g \in Callable[chip][config], Start(g)
        PROVE  Inv' /\ UNCHANGED <<regs, made, lost>>
    BY <1>2, StartKeeps DEF Start
  <1>3. ASSUME NEW g \in OffPrograms(chip, regs), PowerOff(g)
        PROVE  Inv' /\ UNCHANGED <<regs, made, lost>>
    BY <1>3, PowerOffKeeps DEF PowerOff
  <1>4. ASSUME NEW a \in DOMAIN running, Read(a)
        PROVE  Inv' /\ UNCHANGED <<regs, made, lost>>
    BY <1>4, ReadKeeps DEF Read
  <1>5. ASSUME NEW a \in DOMAIN running, Locked(a) \/ WriteBack(a)
        PROVE  /\ Inv' /\ (KeepsApart => KeepsApart')
               /\ OnlyTheseLost => OnlyTheseLost'
    BY <1>5, WriteKeeps
  <1>6. CASE UNCHANGED vars
    <2>1. Inv'
      BY <1>6
      DEF vars, Inv, Types, Phases, Booting, Working, Ending, Programmed, Claimed, Copied, Fresh
    <2>. QED  BY <1>1, <1>6, <2>1 DEF vars
  <1>. QED  BY <1>1, <1>2, <1>3, <1>4, <1>5, <1>6 DEF Next, Done

(* However many calls of a PMIC's drivers run, in whatever order and however    *)
(* they interleave, no mask of one driver reaches into a field of another, as  *)
(* long as the masks in the drivers' tables do not.                           *)
THEOREM CellsApart ==
    ASSUME MasksApart, CopiesKnown, ProgramsPaired
    PROVE  Spec => []KeepsApart
  <1>1. Init => Inv /\ KeepsApart
    BY InitInv
  <1>2. Inv /\ KeepsApart /\ [Next]_vars => (Inv /\ KeepsApart)'
    BY NextKeeps
  <1>. QED  BY <1>1, <1>2, PTL DEF Spec

(* In the same runs, an unlocked read-modify-write undoes nothing but enable    *)
(* bits of interrupts and the charger's settings in the power key's registers,  *)
(* for nothing else is set where another device's driver may write a copy back. *)
THEOREM LossesBounded ==
    ASSUME MasksApart, CopiesKnown, ProgramsPaired
    PROVE  Spec => []OnlyTheseLost
  <1>1. Init => Inv /\ OnlyTheseLost
    BY InitInv
  <1>2. Inv /\ OnlyTheseLost /\ [Next]_vars => (Inv /\ OnlyTheseLost)'
    BY NextKeeps
  <1>. QED  BY <1>1, <1>2, PTL DEF Spec
=============================================================================
