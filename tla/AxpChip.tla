------------------------------ MODULE AxpChip ------------------------------
(***************************************************************************)
(* One PMIC and the calls of all the drivers of its devices on its          *)
(* registers.                                                               *)
(*                                                                          *)
(* The drivers divide a PMIC's registers among them bit by bit, by masks    *)
(* spread over the sources of seven chips.  Here the chip driver, the power *)
(* key, the regulators, the charger and the pins of a chip run against one  *)
(* another.  Each call is a program, a sequence of register accesses        *)
(* (module AxpSettings); two programs of different devices may interleave   *)
(* between accesses.  The probes and removals run at any time, as they may  *)
(* by bind and unbind.                                                      *)
(*                                                                          *)
(* Bound: up to Programs of them run after the chip's own initialisation;   *)
(* the first is chosen freely, a later one uses a register of those before. *)
(***************************************************************************)
EXTENDS AxpCalls

CONSTANT Programs  \* how many programs run after the chip's init

ASSUME ProgramsAssumption == Programs \in Nat

VARIABLES chip,      \* which PMIC it is
          config,    \* the device tree's configuration, 1 .. 4
          regs,      \* its registers
          running,   \* the programs that have steps to take, by actor
          copy,      \* actor |-> what axp_regmap_read gave it
          made,      \* what was set: item |-> where, and as what
          lost,      \* the items a stale copy of their register has undone
          asked,     \* item |-> what the call that set it was to set
          ran        \* the registers of the programs run so far, and their number

vars == <<chip, config, regs, running, copy, made, lost, asked, ran>>
-----------------------------------------------------------------------------
Init ==
    /\ chip \in Chips
    /\ config \in 1 .. 4
    /\ \E b \in {{}, Byte} : regs = [r \in Registers(chip, config) |-> b]
    /\ running = IF chip = "axp152" THEN <<>>
                 ELSE [a \in {<<"chip">>} |-> InitProgram(chip, config)]
    /\ copy = <<>>
    /\ made = <<>>
    /\ lost = {}
    /\ asked = <<>>
    /\ ran = [regs |-> {}, n |-> 0]

With(f, a, v) == [x \in DOMAIN f \cup {a} |-> IF x = a THEN v ELSE f[x]]

(* A call starts.  While the chip driver initialises the PMIC there are no    *)
(* devices yet, but on the AXP152 that comes after their probes.              *)
Start(g) ==
    /\ ran.n < Programs
    /\ g.actor \notin DOMAIN running
    /\ chip = "axp152" \/ <<"chip">> \notin DOMAIN running
    /\ ran.n = 0 \/ RegsOf(g) \cap ran.regs # {}
    /\ running' = With(running, g.actor, g)
    /\ ran' = [regs |-> ran.regs \cup RegsOf(g), n |-> ran.n + 1]
    /\ asked' = [i \in DOMAIN asked \ DOMAIN g.asks |-> asked[i]]
    /\ UNCHANGED <<chip, config, regs, copy, made, lost>>

PowerOff(g) ==
    /\ running = <<>>
    /\ g.steps # <<>>
    /\ ran.n \in 1 .. Programs
    /\ running' = With(running, g.actor, g)
    /\ ran' = [ran EXCEPT !.n = Programs + 1]
    /\ UNCHANGED <<chip, config, regs, copy, made, lost, asked>>

(* The rest of a call whose first step is done; when that was the last, what  *)
(* it was to bring about stands.                                              *)
Advance(a) ==
    LET g == running[a]
    IN  IF Len(g.steps) > 1
        THEN /\ running' = [running EXCEPT ![a].steps = Tail(@)]
             /\ UNCHANGED asked
        ELSE /\ running' = [x \in DOMAIN running \ {a} |-> running[x]]
             /\ asked' = [i \in DOMAIN asked \cup DOMAIN g.asks |->
                            IF i \in DOMAIN g.asks THEN g.asks[i] ELSE asked[i]]

(* axp_regmap_read, with a write of the register to follow                    *)
Read(a) ==
    LET s == Head(running[a].steps)
    IN  /\ s.how = "read"
        /\ copy' = With(copy, a, regs[s.reg])
        /\ Advance(a)
        /\ UNCHANGED <<chip, config, regs, made, lost, ran>>

(* Of the items set before, those that a step leaves standing, and those       *)
(* among them that it undoes because old is not what is in the register.       *)
Kept(s) ==
    {j \in DOMAIN made \ {s.item} :
       ~ (/\ made[j].reg = s.reg
          /\ made[j].bits \cap Claim(s).bits # {}
          /\ Supersedes(chip, s, j, made[j].bits))}
Stale(s, old) ==
    {j \in Kept(s) : /\ made[j].reg = s.reg
                     /\ made[j].bits \cap Claim(s).bits = {}
                     /\ made[j].bits \cap old # made[j].bits \cap regs[s.reg]}

(* axp_regmap_update, axp_regmap_write: old is what the other bits come from, *)
(* the register itself or the copy read before.                               *)
Set(a, s, old) ==
    /\ regs' = [regs EXCEPT ![s.reg] = Updated(old, s.val, s.mask)]
    /\ made' = With([j \in Kept(s) |-> made[j]], s.item, Claim(s))
    /\ lost' = (lost \cap Kept(s)) \cup Stale(s, old)
    /\ Advance(a)
    /\ UNCHANGED <<chip, config, ran>>

Locked(a) ==
    LET s == Head(running[a].steps)
    IN  /\ s.how = "update" \/ (s.how = "write" /\ s.mask = Byte)
        /\ Set(a, s, regs[s.reg])
        /\ UNCHANGED copy

WriteBack(a) ==
    LET s == Head(running[a].steps)
    IN  /\ Copies(s)
        /\ Set(a, s, copy[a])
        /\ copy' = [x \in DOMAIN copy \ {a} |-> copy[x]]

Done == ran.n > Programs /\ running = <<>> /\ UNCHANGED vars

Next ==
    \/ \E g \in Callable[chip][config] : Start(g)
    \/ \E g \in OffPrograms(chip, regs) : PowerOff(g)
    \/ \E a \in DOMAIN running : Read(a) \/ Locked(a) \/ WriteBack(a)
    \/ Done

Spec == Init /\ [][Next]_vars
-----------------------------------------------------------------------------
(* Whatever calls of whatever devices have run, in whatever order, what each  *)
(* of them set is still what the registers say, unless the same device set it *)
(* anew, a twin of it did, or a stale copy undid it (the next property): no   *)
(* mask of one driver reaches into a field of another, on any of the PMICs.   *)
KeepsApart == \A i \in DOMAIN made \ lost : Shows(regs, made[i])

(* Under every interleaving of two calls, all that the unlocked               *)
(* read-modify-write of axp_regmap_read and axp_regmap_write can undo is an   *)
(* enable bit of an interrupt, or, when the power key and the charger are     *)
(* probed at the same time, a setting of the charger in the power key's       *)
(* registers.  A rail, a supply's limit, a pin and a time of the power key    *)
(* always stand.                                                              *)
OnlyTheseLost == \A i \in lost : MayBeLost(i)

(* The direction that pinctrl reads back is never the other one than the last *)
(* asked for, and the supply voltage read back is the limit last asked for,   *)
(* after any other call has had its way with the register.  (Not on the       *)
(* AXP2585, which reads its limit back with the other bits of the register.)  *)
Settled(i) ==
    /\ i \in DOMAIN asked /\ i \in DOMAIN made /\ i \notin lost
    /\ DOMAIN running \cap {i, <<i[1]>>} = {}
AskedReadsBack ==
    /\ \A g \in DOMAIN Pins(chip) :
         Settled(PinItem(g)) => pmx_get(chip, regs, g) \in {asked[PinItem(g)], ENXIO}
    /\ \A i \in IF chip = "axp2585" THEN {} ELSE {VbusHold} :
         Settled(i) /\ asked[i] # 0 => get_usb_vhold(chip, regs) = 100 * (asked[i] \div 100)
=============================================================================
