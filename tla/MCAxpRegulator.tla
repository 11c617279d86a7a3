--------------------------- MODULE MCAxpRegulator ---------------------------
(***************************************************************************)
(* Instances of AxpRegulator for TLC: LDO2 and LDO4 of the AXP202, which    *)
(* share the voltage register 0x28 and the enable register 0x12             *)
(* (axp202-regu.c), and DCDC2 of the AXP803, with two steps and a ramp that *)
(* the PMIC reports the end of (axp2881-regulator.c).                             *)
(***************************************************************************)
EXTENDS AxpRegulator, TLC

NoTable == <<>>

ldo2 == [min |-> 1800, max |-> 3300, step1 |-> 100, step2 |-> 0, switch |-> 0,
         new_level |-> 0, vol_reg |-> "0x28", shift |-> 4, nbits |-> 4,
         enable_reg |-> "0x12", enable_mask |-> {2}, enable_val |-> {2},
         disable_val |-> {}, vtable |-> NoTable, dvm_reg |-> "none",
         dvm_bit |-> 0, dvm_finish_flag |-> FALSE]

ldo4 == [ldo2 EXCEPT !.shift = 0, !.enable_mask = {3}, !.enable_val = {3}, !.min = 1250,
         !.vtable = <<1250, 1300, 1400, 1500, 1600, 1700, 1800, 1900, 2000,
                      2500, 2700, 2800, 3000, 3100, 3200, 3300>>]

dcdc2 == [min |-> 500, max |-> 1300, step1 |-> 10, step2 |-> 20, switch |-> 1200,
          new_level |-> 0, vol_reg |-> "0x21", shift |-> 0, nbits |-> 7,
          enable_reg |-> "0x10", enable_mask |-> {1}, enable_val |-> {1},
          disable_val |-> {}, vtable |-> NoTable, dvm_reg |-> "0x27",
          dvm_bit |-> 2, dvm_finish_flag |-> TRUE]

TheRegisters == {"0x10", "0x12", "0x21", "0x27", "0x28"}
TheRegulators == {"ldo2", "ldo4", "dcdc2"}
TheInfo == [ldo2 |-> ldo2, ldo4 |-> ldo4, dcdc2 |-> dcdc2]

(* Below, at, between and above the voltages a regulator has; selectors.     *)
TheRequests == [ldo2  |-> {1700, 1850, 3300},
                ldo4  |-> {0, 5},
                dcdc2 |-> {505, 1210, 1301}]

(* DCDC2 at the ends and around the step of its range, below and above the   *)
(* selectors it uses, with a ramp over, under way or not enabled; and bits   *)
(* of other functions in the registers the regulators share.                 *)
ThePowerOn ==
    { ("0x28" :> {1, 5, 6} @@ "0x12" :> {0, 6} @@ "0x10" :> {0}
         @@ "0x21" :> Bin(n) @@ "0x27" :> dvm) :
        n \in {0, 70, 71, 127, 128 + 71}, dvm \in {{2}, {}} }

(* These are regulators that ReadingBack (AxpRegulatorProofs) is about.       *)
ASSUME TheFieldsSuffice == RangesHeld /\ VoltagesApart
=============================================================================
