---------------------------- MODULE AxpVoltages ----------------------------
(***************************************************************************)
(* Registers and voltages: how the regulator core (axp-regulator.c) makes a *)
(* voltage the contents of a register's field and reads it back.  An i is a *)
(* regulator's struct axp_regulator_info.  A register is the set of its     *)
(* bits that are 1; voltages are in mV, the unit of the chips' tables.      *)
(***************************************************************************)
EXTENDS Integers, Sequences

EINVAL == -22
-----------------------------------------------------------------------------
(* Bytes.  Weight[k + 1] is the weight of bit k. *)
Weight == <<1, 2, 4, 8, 16, 32, 64, 128>>
Bin(n) == {k \in 0 .. 7 : (n \div Weight[k + 1]) % 2 = 1}
Num(b) == LET bit(k) == IF k \in b THEN Weight[k + 1] ELSE 0
          IN  bit(0) + bit(1) + bit(2) + bit(3) + bit(4) + bit(5) + bit(6) + bit(7)

Shifted(b, n) == {k + n : k \in b} \cap 0 .. 7

(* ((1 << vol_nbits) - 1) << vol_shift *)
Mask(i) == i.shift .. (i.shift + i.nbits - 1)

(* Slip: the rest of the register is not kept. *)
UpdatedWhole(b, val, mask) == val

(* axp_regmap_update *)
Updated(b, val, mask) == (b \ mask) \cup val
-----------------------------------------------------------------------------
(* Voltages and selectors.  In the first step1-wide part of its range a       *)
(* regulator's voltage is min + step1 * selector; some go on in steps of      *)
(* step2 above switch, or from new_level.  0 stands for "has none".           *)
RoundedUp(n, d) == (n + d - 1) \div d
TwoSteps(i) == i.switch # 0 /\ i.step2 # 0
SwitchSel(i) == IF i.step1 = 0 THEN 0 ELSE RoundedUp(i.switch - i.min, i.step1)

(* Slip: the voltage is rounded down. *)
SelectorRoundsDown(i, mv) ==
    IF ~(TwoSteps(i) /\ mv > i.switch) THEN (mv - i.min) \div i.step1
    ELSE IF i.new_level = 0 THEN SwitchSel(i) + (mv - i.switch) \div i.step2
    ELSE IF mv <= i.new_level THEN SwitchSel(i) + 1
    ELSE SwitchSel(i) + (mv - i.new_level) \div i.step2 + 1

(* axp_set_voltage: the selector of a voltage                                *)
Selector(i, mv) ==
    IF ~(TwoSteps(i) /\ mv > i.switch) THEN RoundedUp(mv - i.min, i.step1)
    ELSE IF i.new_level = 0 THEN SwitchSel(i) + (mv - i.switch) \div i.step2
    ELSE IF mv <= i.new_level THEN SwitchSel(i) + 1
    ELSE SwitchSel(i) + (mv - i.new_level) \div i.step2 + 1

(* What it writes: one unsigned byte, shifted only in the one-step case.      *)
VolBits(i, mv) ==
    LET b == Bin(Selector(i, mv) % 256)
    IN  IF TwoSteps(i) /\ mv > i.switch THEN b ELSE Shifted(b, i.shift)

(* axp_get_voltage: the voltage of a selector                                *)
Voltage(i, sel) ==
    LET v == IF ~(TwoSteps(i) /\ sel > SwitchSel(i)) THEN i.min + i.step1 * sel
             ELSE (IF i.new_level = 0 THEN i.switch ELSE i.new_level)
                    + i.step2 * (sel - SwitchSel(i))
    IN  IF v > i.max THEN i.max ELSE v

(* Slip: selectors are listed as if there were only the first step.           *)
ListedFirstStep(i, sel) ==
    IF i.min + i.step1 * sel > i.max THEN EINVAL ELSE i.min + i.step1 * sel

(* axp_list_voltage *)
Listed(i, sel) ==
    LET first == i.min + i.step1 * sel
        v == IF ~(TwoSteps(i) /\ first > i.switch) THEN first
             ELSE (IF i.new_level = 0 THEN i.switch ELSE i.new_level)
                    + i.step2 * (sel - (i.switch - i.min) \div i.step1)
    IN  IF v > i.max THEN EINVAL ELSE v

(* Regulators with a table of voltages have selectors only: axp_sel_ops.     *)
HasTable(i) == i.vtable # <<>>

(* axp_get_voltage_sel, and the first half of axp_get_voltage *)
SelOf(i, b) == Num({k - i.shift : k \in b \cap Mask(i)})

(* What a row of a table needs for its field to hold every selector of its     *)
(* range: enough bits, whole steps, and the lowest bits of the register if     *)
(* there are two steps (VolBits); the bit that shows the end of a ramp is not   *)
(* in the field.                                                              *)
Fits(i, n) == n \in 0 .. 255 /\ Bin(n) \subseteq 0 .. (i.nbits - 1)

HoldsRange(i) ==
    /\ {i.shift, i.nbits} \subseteq Nat /\ i.shift + i.nbits <= 8
    /\ i.dvm_finish_flag => i.shift + i.nbits <= 7
    /\ IF HasTable(i) THEN \A sel \in 0 .. (Len(i.vtable) - 1) : Fits(i, sel)
       ELSE /\ i.step1 > 0 /\ i.new_level = 0
            /\ TwoSteps(i) => i.shift = 0
            /\ \A mv \in i.min .. i.max : Fits(i, Selector(i, mv))
=============================================================================
