---------------------------- MODULE AxpRegulator ----------------------------
(***************************************************************************)
(* The regulator core (axp-regulator.c): how a voltage becomes the contents *)
(* of a register and back, and the calls of the regulator framework on      *)
(* regulators that share registers.                                         *)
(*                                                                          *)
(* The framework holds a regulator's mutex during a call, so there is one   *)
(* call at a time on each regulator and any number on different ones.       *)
(* axp_regmap_update is one step (see AxpRegmap).  A register is the set of *)
(* its bits that are 1.  Voltages are in mV, the unit of the tables.        *)
(***************************************************************************)
EXTENDS AxpVoltages, Sequences, FiniteSets

CONSTANTS
    Registers,      \* the registers they use
    Regulators,     \* the regulators of this instance
    info,           \* info[r] : struct axp_regulator_info
    Rtc,            \* those with "rtc" in the name of their constraints
    Requests,       \* Requests[r] : what the framework asks for: voltages
                    \* (min_uV), or selectors for a regulator with a table
    PowerOn,        \* register contents the driver may find
    BusFails        \* may a transfer fail?

None == -1

VARIABLES
    reg,            \* the PMIC's registers
    pc,             \* pc[r] : where the call on r is
    result,         \* result[r] : of the last axp_set_voltage(_sel) on r
    asked,          \* asked[r] : the last request that reached the PMIC
    switched        \* switched[r] : the last enable (TRUE) or disable that did

vars == <<reg, pc, result, asked, switched>>
-----------------------------------------------------------------------------
(* What axp_set_voltage and axp_set_voltage_sel may put into the register.    *)
Writes(r) ==
    LET i == info[r]
    IN  IF HasTable(i) THEN {Shifted(Bin(sel), i.shift) : sel \in Requests[r]}
        ELSE {VolBits(i, mv) : mv \in Requests[r] \cap i.min .. i.max}

(* What the tables of the chips have in common: fields lie in their registers, *)
(* enable fields of different regulators do not overlap, and no voltage and no *)
(* ramp reaches an enable field.  The second steps begin at a voltage that the *)
(* first ones reach.  A regulator whose PMIC reports the end of ramps has the  *)
(* register of its voltage for itself, and the register that enables ramps has *)
(* neither voltages nor enable bits of regulators.                             *)
Fields(i) ==
    /\ {i.vol_reg, i.enable_reg} \subseteq Registers
    /\ i.enable_mask \subseteq 0 .. 7
    /\ i.enable_val \subseteq i.enable_mask /\ i.disable_val \subseteq i.enable_mask
    /\ i.enable_val # i.disable_val
    /\ i.dvm_finish_flag \in BOOLEAN
    /\ i.dvm_finish_flag => /\ i.dvm_reg \in Registers /\ i.dvm_reg # "none"
                             /\ ~HasTable(i)

Steps(i) ==
    /\ {i.min, i.max, i.switch, i.new_level} \subseteq Int
    /\ {i.step1, i.step2} \subseteq Nat
    /\ TwoSteps(i) => i.step1 > 0 /\ i.switch >= i.min /\ (i.switch - i.min) % i.step1 = 0

Apart(r, s) ==
    LET i == info[r]
        j == info[s]
    IN  /\ i.enable_reg = j.vol_reg =>
              /\ i.enable_mask \cap (Mask(j) \cup UNION Writes(s)) = {}
              /\ ~j.dvm_finish_flag
        /\ i.dvm_finish_flag => i.dvm_reg \notin {j.vol_reg, j.enable_reg}
        /\ i.dvm_finish_flag => i.vol_reg # j.enable_reg

Sharing(i, j) ==
    /\ i.enable_reg = j.enable_reg => i.enable_mask \cap j.enable_mask = {}
    /\ i.dvm_finish_flag => i.vol_reg # j.vol_reg

ASSUME RtcAssumption == Rtc \subseteq Regulators

ASSUME InfoAssumption ==
    /\ \A r \in Regulators : Fields(info[r]) /\ Steps(info[r])
    /\ \A r, s \in Regulators : Apart(r, s)
    /\ \A r, s \in Regulators : r # s => Sharing(info[r], info[s])

(* The framework hands over no selector beyond the table; a register is a byte. *)
ASSUME InputsAssumption ==
    /\ \A r \in Regulators : Requests[r] \subseteq Int
    /\ \A r \in Regulators :
         HasTable(info[r]) => Requests[r] \subseteq 0 .. (Len(info[r].vtable) - 1)
    /\ PowerOn \subseteq [Registers -> SUBSET (0 .. 7)]

(* Two things that most rows of the tables have, and that nothing but reading   *)
(* a voltage back depends on.                                                  *)
RangesHeld == \A r \in Regulators : HoldsRange(info[r])
VoltagesApart ==
    \A r, s \in Regulators :
        r # s /\ info[r].vol_reg = info[s].vol_reg => Mask(info[r]) \cap Mask(info[s]) = {}
-----------------------------------------------------------------------------
Init ==
    /\ reg \in PowerOn
    /\ pc = [r \in Regulators |-> "idle"]
    /\ result = [r \in Regulators |-> "none"]
    /\ asked = [r \in Regulators |-> None]
    /\ switched = [r \in Regulators |-> "none"]

(* A field with a status bit shows in bit 7 whether the ramp is over; writing *)
(* another selector starts one.                                              *)
HasRamp(i) == i.dvm_finish_flag /\ i.dvm_bit \in reg[i.dvm_reg]
Ramped(i, b) ==
    IF HasRamp(i) /\ b \cap Mask(i) # reg[i.vol_reg] \cap Mask(i) THEN b \ {7} ELSE b

Finish(r, res) == pc' = [pc EXCEPT ![r] = "idle"] /\ result' = [result EXCEPT ![r] = res]

(* The PMIC's register takes the value; the call goes on. *)
WriteVol(r, val, request, next) ==
    LET i == info[r] IN
    /\ reg' = [reg EXCEPT ![i.vol_reg] = Ramped(i, Updated(@, val, Mask(i)))]
    /\ asked' = [asked EXCEPT ![r] = request]
    /\ IF next = "idle" THEN Finish(r, "ok")
       ELSE pc' = [pc EXCEPT ![r] = next] /\ UNCHANGED result
    /\ UNCHANGED switched

(* A failed transfer: the write may have reached the PMIC all the same.       *)
VolFails(r, val) ==
    LET i == info[r] IN
    /\ BusFails
    /\ \/ UNCHANGED <<reg, asked>>
       \/ /\ reg' = [reg EXCEPT ![i.vol_reg] = Ramped(i, Updated(@, val, Mask(i)))]
          /\ asked' = [asked EXCEPT ![r] = None]
    /\ Finish(r, "error") /\ UNCHANGED switched

(* Slip: the range is not looked at. *)
SetVoltageUnchecked(r) ==
    /\ pc[r] = "idle" /\ ~HasTable(info[r])
    /\ \E mv \in Requests[r] :
         WriteVol(r, VolBits(info[r], mv), mv, IF info[r].dvm_reg = "none" THEN "idle" ELSE "dvm")

(* axp_set_voltage up to its update; check_range first.                       *)
SetVoltage(r) ==
    /\ pc[r] = "idle" /\ ~HasTable(info[r])
    /\ \E mv \in Requests[r] :
         IF mv < info[r].min \/ mv > info[r].max
         THEN Finish(r, "error") /\ UNCHANGED <<reg, asked, switched>>
         ELSE \/ WriteVol(r, VolBits(info[r], mv), mv,
                          IF info[r].dvm_reg = "none" THEN "idle" ELSE "dvm")
              \/ VolFails(r, VolBits(info[r], mv))

(* axp_set_voltage_sel *)
SetVoltageSel(r) ==
    /\ pc[r] = "idle" /\ HasTable(info[r])
    /\ \E sel \in Requests[r] :
         LET val == Shifted(Bin(sel), info[r].shift) IN
         WriteVol(r, val, sel, "idle") \/ VolFails(r, val)

(* Is the ramp enabled, and does the PMIC say when it is over?                *)
DvmCheck(r) ==
    /\ pc[r] = "dvm"
    /\ \/ ~HasRamp(info[r]) /\ Finish(r, "ok")
       \/ HasRamp(info[r]) /\ pc' = [pc EXCEPT ![r] = "wait"] /\ UNCHANGED result
    /\ UNCHANGED <<reg, asked, switched>>

(* Slips: one look is enough; or the bit is taken to mean that the ramp is    *)
(* under way.                                                                *)
DvmWaitOnce(r) ==
    pc[r] = "wait" /\ Finish(r, "ok") /\ UNCHANGED <<reg, asked, switched>>

DvmWaitInverted(r) ==
    /\ pc[r] = "wait" /\ 7 \notin reg[info[r].vol_reg]
    /\ Finish(r, "ok") /\ UNCHANGED <<reg, asked, switched>>

(* The loop that waits for bit 7; a pass that finds it clear changes nothing. *)
DvmWait(r) ==
    /\ pc[r] = "wait" /\ 7 \in reg[info[r].vol_reg]
    /\ Finish(r, "ok") /\ UNCHANGED <<reg, asked, switched>>

(* Either read fails: the call returns the error.                             *)
DvmReadFails(r) ==
    /\ BusFails /\ pc[r] \in {"dvm", "wait"}
    /\ Finish(r, "error") /\ UNCHANGED <<reg, asked, switched>>

(* axp_enable, axp_disable *)
Switch(r, on) ==
    LET i == info[r]
        val == IF on THEN i.enable_val ELSE i.disable_val
    IN
    /\ pc[r] = "idle"
    /\ \/ /\ reg' = [reg EXCEPT ![i.enable_reg] = Updated(@, val, i.enable_mask)]
          /\ switched' = [switched EXCEPT ![r] = IF on THEN "on" ELSE "off"]
       \/ BusFails /\ UNCHANGED <<reg, switched>>
    /\ UNCHANGED <<pc, result, asked>>

(* The PMIC has reached the voltage of a register's field. *)
RampEnds(a) ==
    /\ 7 \notin reg[a]
    /\ \E r \in Regulators : info[r].vol_reg = a /\ HasRamp(info[r])
    /\ reg' = [reg EXCEPT ![a] = @ \cup {7}]
    /\ UNCHANGED <<pc, result, asked, switched>>

Call(r) == SetVoltage(r) \/ SetVoltageSel(r) \/ \E on \in BOOLEAN : Switch(r, on)
Wait(r) == DvmCheck(r) \/ DvmWait(r)

Next ==
    \/ \E r \in Regulators : Call(r) \/ Wait(r) \/ DvmReadFails(r)
    \/ \E a \in Registers : RampEnds(a)

Spec == Init /\ [][Next]_vars

(* A ramp ends, and a call goes on; no transfer has to fail.                  *)
FairSpec ==
    /\ Spec
    /\ \A a \in Registers : WF_vars(RampEnds(a))
    /\ \A r \in Regulators : WF_vars(Wait(r))
-----------------------------------------------------------------------------
VoltageNow(r) == Voltage(info[r], SelOf(info[r], reg[info[r].vol_reg]))

(* axp_is_enabled: the RTC's regulator is on whatever its bit says.           *)
IsEnabled(r) ==
    r \in Rtc \/ reg[info[r].enable_reg] \cap info[r].enable_mask = info[r].enable_val

TypeOK ==
    /\ reg \in [Registers -> SUBSET (0 .. 7)]
    /\ pc \in [Regulators -> {"idle", "dvm", "wait"}]
    /\ result \in [Regulators -> {"none", "ok", "error"}]
    /\ asked \in [Regulators -> Int]
    /\ \A r \in Regulators :
         asked[r] = None \/ asked[r] \in (IF HasTable(info[r]) THEN 0 .. (Len(info[r].vtable) - 1)
                                          ELSE info[r].min .. info[r].max)
    /\ switched \in [Regulators -> {"none", "on", "off"}]

(* axp_get_voltage reads back what axp_set_voltage was asked for: not less     *)
(* and less than a step more in the first part of the range, not more and less *)
(* than a step less above the switch voltage; axp_get_voltage_sel the selector *)
(* that was set.  Calls on regulators in the same registers change nothing of  *)
(* it.                                                                        *)
ReadsBack ==
    \A r \in Regulators : asked[r] # None =>
        LET i == info[r] IN
        IF HasTable(i) THEN SelOf(i, reg[i.vol_reg]) = asked[r]
        ELSE IF TwoSteps(i) /\ asked[r] > i.switch
        THEN asked[r] - i.step2 < VoltageNow(r) /\ VoltageNow(r) <= asked[r]
        ELSE asked[r] <= VoltageNow(r) /\ VoltageNow(r) < asked[r] + i.step1

(* A regulator is on exactly when the last call that reached the PMIC enabled  *)
(* it, whatever happens to others in its enable register and to its voltage;   *)
(* that of the RTC counts as on.                                              *)
SwitchedAsAsked ==
    \A r \in Regulators :
        switched[r] # "none" => (IsEnabled(r) <=> r \in Rtc \/ switched[r] = "on")

(* The framework learns of a regulator's voltage by axp_get_voltage and of the *)
(* voltages it has by axp_list_voltage: for whatever is in the register, the   *)
(* two agree, or the selector is beyond the range.                            *)
ListAgrees ==
    \A r \in Regulators : ~HasTable(info[r]) =>
        LET listed == Listed(info[r], SelOf(info[r], reg[info[r].vol_reg])) IN
        listed = VoltageNow(r) \/ (listed = EINVAL /\ VoltageNow(r) = info[r].max)

(* axp_set_voltage of a regulator whose PMIC reports the end of a ramp does    *)
(* not return 0 before the ramp is over: its caller may now raise the clock.   *)
RampOverOnSuccess ==
    \A r \in Regulators :
        pc[r] = "idle" /\ result[r] = "ok" /\ HasRamp(info[r]) => 7 \in reg[info[r].vol_reg]

(* Every call returns, although the loop on bit 7 has no bound: the ramp ends. *)
CallsEnd == \A r \in Regulators : pc[r] # "idle" ~> pc[r] = "idle"
=============================================================================
