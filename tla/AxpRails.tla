------------------------------ MODULE AxpRails ------------------------------
(***************************************************************************)
(* What the regulator core (axp-regulator.c), the probes of                 *)
(* axp*-regulator.c and the workmode and frequency files in sysfs write for *)
(* a regulator r with the row i of its PMIC's table.                        *)
(***************************************************************************)
EXTENDS AxpSettings, AxpTables

(* axp_set_voltage, and axp_set_voltage_sel for a regulator with a table      *)
axp_set_voltage(r, i, bits) == Update(<<r, "voltage">>, i.vol_reg, bits, Mask(i))

(* Slip: the enable bit by axp_regmap_read and axp_regmap_write. *)
EnableUnlocked(r, i) == ReadWrite(<<r, "state">>, i.enable_reg, i.enable_val, i.enable_mask)
axp_enable(r, i) == Update(<<r, "state">>, i.enable_reg, i.enable_val, i.enable_mask)
axp_disable(r, i) == Update(<<r, "state">>, i.enable_reg, i.disable_val, i.enable_mask)

(* workmode and frequency, of the buck converters.  The frequency's register  *)
(* is the PMIC's, not the converter's.                                        *)
workmode_store(r, i, mode) == Switch(mode # 0, <<r, "workmode">>, i.mode_reg, i.mode_mask)
frequency_store(i, var) ==
    ReadWrite(<<"chip", "frequency">>, i.freq_reg, Bin((Clamped(var, 50, 100) - 50) \div 5), 0 .. 3)

(* The AXP202 has functions of its own for the two files.                     *)
axp20_workmode_store(r, i, mode) == Switch(mode # 0, <<r, "workmode">>, i.mode_reg, i.mode_mask)
axp20_frequency_store(i, var) ==
    ReadWrite(<<"chip", "frequency">>, i.freq_reg,
              Bin((Clamped(var, 750, 1875) - 750) \div 75), 0 .. 3)
-----------------------------------------------------------------------------
(* axp*_regulator_probe, after the registrations: the voltages are to survive *)
(* a wake-up.  On the AXP22x only if they are not saved by the driver.        *)
KeepVoltages == SetBits(<<"chip", "keep_voltages">>, "8f", {1})
axp22x_regulator_probe(need_save) == IF need_save THEN <<>> ELSE KeepVoltages
axp803_regulator_probe == KeepVoltages

(* The AXP152's ramp, which its init_chip switches on, is off in a suspend.   *)
axp152_regulator_suspend == ClrBits(<<"chip", "dcdc2_dvm">>, "25", {2})
axp152_regulator_resume == SetBits(<<"chip", "dcdc2_dvm">>, "25", {2})
=============================================================================
