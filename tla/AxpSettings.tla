---------------------------- MODULE AxpSettings ----------------------------
(***************************************************************************)
(* What the functions of a PMIC write into its registers.                   *)
(*                                                                          *)
(* A call is a sequence of steps, each one access over the register map.  A *)
(* step sets an item: what the field is for, so <<"irq", 37>> or            *)
(* <<"key", "off_time">>.  axp_regmap_update and the functions made of it   *)
(* hold the map's mutex over their read and write and are one step (module  *)
(* AxpRegmap shows that they may be); axp_regmap_read followed by           *)
(* axp_regmap_write is two, with a copy of the register kept in between.    *)
(* A register is the set of its bits that are 1 and is named by its         *)
(* address in hexadecimal.                                                  *)
(***************************************************************************)
EXTENDS AxpVoltages, Sequences, FiniteSets

(* The whole of a register. *)
Byte == 0 .. 7

Step(how, item, reg, val, mask) ==
    [how |-> how, item |-> item, reg |-> reg, val |-> val, mask |-> mask]

(* axp_regmap_update, axp_regmap_set_bits, axp_regmap_clr_bits, and their     *)
(* _sync forms                                                                *)
Update(item, reg, val, mask) == <<Step("update", item, reg, val, mask)>>
SetBits(item, reg, mask) == Update(item, reg, mask, mask)
ClrBits(item, reg, mask) == Update(item, reg, {}, mask)

(* if (on) axp_regmap_set_bits else axp_regmap_clr_bits *)
Switch(on, item, reg, mask) == IF on THEN SetBits(item, reg, mask) ELSE ClrBits(item, reg, mask)

(* axp_regmap_read, val &= ~mask, val |= ..., axp_regmap_write *)
ReadWrite(item, reg, val, mask) ==
    <<Step("read", item, reg, val, mask), Step("write", item, reg, val, mask)>>

(* axp_regmap_write *)
Write(item, reg, val) == <<Step("write", item, reg, val, Byte)>>

(* axp_request_irq, axp_free_irq: the bit of interrupt n in the registers     *)
(* enable_base, which is 0x40 on every PMIC, and up.                          *)
AXP_REG_WIDTH == 8
IntEn(n) == <<"40", "41", "42", "43", "44", "45">>[1 + n \div AXP_REG_WIDTH]
IrqBit(n) == {n % AXP_REG_WIDTH}
RequestIrq(n) == SetBits(<<"irq", n>>, IntEn(n), IrqBit(n))
FreeIrq(n) == ClrBits(<<"irq", n>>, IntEn(n), IrqBit(n))

(* A value chosen by comparing t with ever higher limits.                     *)
Coded(t, limits, codes) == codes[1 + Cardinality({k \in DOMAIN limits : t >= limits[k]})]
Clamped(t, low, high) == IF t < low THEN low ELSE IF t > high THEN high ELSE t

(* n as a field of a register that starts at bit shift.                       *)
Field(n, shift) == Shifted(Bin(n), shift)
=============================================================================
