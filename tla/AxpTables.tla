----------------------------- MODULE AxpTables -----------------------------
(***************************************************************************)
(* The regulators of the PMICs: the tables axp*_regulator_info[], and what  *)
(* axp*_regulator_init_data[] lets the regulator framework do with them.    *)
(*                                                                          *)
(* Regulators have the names of their constraints ("axp22x_aldo1" is        *)
(* aldo1); voltages are in mV; a register has its address in hexadecimal.   *)
(***************************************************************************)
EXTENDS AxpVoltages, FiniteSets

(* AXP_LDO, AXP_SW: a regulator of min .. max mV in steps of step1 (one step  *)
(* up to max, or a single voltage), the low nbits bits of register vreg, and  *)
(* bit ebit of register ereg, which is set to enable it.                      *)
Rail(min, max, step1, vreg, nbits, ereg, ebit) ==
    [min |-> min, max |-> max, step1 |-> step1, step2 |-> 0, switch |-> 0, new_level |-> 0,
     vol_reg |-> vreg, shift |-> 0, nbits |-> nbits,
     enable_reg |-> ereg, enable_mask |-> {ebit}, enable_val |-> {ebit}, disable_val |-> {},
     vtable |-> <<>>, dvm_reg |-> "none", dvm_bit |-> 0, dvm_finish_flag |-> FALSE,
     mode_reg |-> "none", mode_mask |-> {}, freq_reg |-> "none"]

(* The other parameters of the macros: the shift of the voltage's field, an   *)
(* enable field of several bits, a second step, a ramp.                       *)
At(shift, i) == [i EXCEPT !.shift = shift]
OnPin(i, mask, on, off) == [i EXCEPT !.enable_mask = mask, !.enable_val = on, !.disable_val = off]
Then(switch, step2, i) == [i EXCEPT !.switch = switch, !.step2 = step2]
Ramp(reg, bit, flag, i) == [i EXCEPT !.dvm_reg = reg, !.dvm_bit = bit, !.dvm_finish_flag = flag]

(* AXP_DCDC: also a switching mode and frequency.                             *)
Dcdc(mreg, mask, freg, i) == [i EXCEPT !.mode_reg = mreg, !.mode_mask = mask, !.freq_reg = freg]

(* AXP_LDO_SEL, AXP_DCDC_SEL: the voltages are in a table.                    *)
Sel(i, table) == [i EXCEPT !.vtable = table]

-----------------------------------------------------------------------------
axp152_ldo0_table == <<5000, 3300, 2800, 2500>>
axp152_dcdc1_table == <<1700, 1800, 1900, 2000, 2100, 2400, 2500, 2600,
                        2700, 2800, 3000, 3100, 3200, 3300, 3400, 3500>>
axp152_aldo12_table == <<1200, 1300, 1400, 1500, 1600, 1700, 1800, 1900,
                         2000, 2500, 2700, 2800, 3000, 3100, 3200, 3300>>
axp20_ldo4_table == <<1250, 1300, 1400, 1500, 1600, 1700, 1800, 1900,
                      2000, 2500, 2700, 2800, 3000, 3100, 3200, 3300>>

axp22x_regulator_info == [
    dcdc1  |-> Dcdc("80", {0}, "37", Rail(1600, 3400, 100, "21", 5, "10", 1)),
    dcdc2  |-> Dcdc("80", {1}, "37", Ramp("27", 2, FALSE, Rail(600, 1540, 20, "22", 6, "10", 2))),
    dcdc3  |-> Dcdc("80", {2}, "37", Ramp("27", 3, FALSE, Rail(600, 1860, 20, "23", 6, "10", 3))),
    dcdc4  |-> Dcdc("80", {3}, "37", Rail(600, 1540, 20, "24", 6, "10", 4)),
    dcdc5  |-> Dcdc("80", {4}, "37", Rail(1000, 2550, 50, "25", 5, "10", 5)),
    rtc    |-> Rail(3000, 3000, 0, "00", 0, "00", 0),
    aldo1  |-> Rail(700, 3300, 100, "28", 5, "10", 6),
    aldo2  |-> Rail(700, 3300, 100, "29", 5, "10", 7),
    aldo3  |-> Rail(700, 3300, 100, "2a", 5, "13", 7),
    dldo1  |-> Rail(700, 3300, 100, "15", 5, "12", 3),
    dldo2  |-> Rail(700, 3300, 100, "16", 5, "12", 4),
    dldo3  |-> Rail(700, 3300, 100, "17", 5, "12", 5),
    dldo4  |-> Rail(700, 3300, 100, "18", 5, "12", 6),
    eldo1  |-> Rail(700, 3300, 100, "19", 5, "12", 0),
    eldo2  |-> Rail(700, 3300, 100, "1a", 5, "12", 1),
    eldo3  |-> Rail(700, 3300, 100, "1b", 5, "12", 2),
    ldoio0 |-> OnPin(Rail(700, 3300, 100, "91", 5, "90", 0), {0, 1, 2}, {0, 1}, {}),
    ldoio1 |-> OnPin(Rail(700, 3300, 100, "93", 5, "92", 0), {0, 1, 2}, {0, 1}, {}),
    dc1sw  |-> Rail(3300, 3300, 100, "00", 0, "12", 7),
    dc5ldo |-> Rail(700, 1400, 100, "1c", 3, "10", 0)]

axp803_regulator_info == [
    dcdc1  |-> Dcdc("80", {}, "3b", Rail(1600, 3400, 100, "20", 5, "10", 0)),
    dcdc2  |-> Dcdc("80", {1}, "3b", Ramp("27", 2, TRUE, Then(1200, 20, Rail(500, 1300, 10, "21", 7, "10", 1)))),
    dcdc3  |-> Dcdc("80", {2}, "3b", Ramp("27", 3, TRUE, Then(1200, 20, Rail(500, 1300, 10, "22", 7, "10", 2)))),
    dcdc4  |-> Dcdc("80", {3}, "3b", Ramp("27", 4, TRUE, Then(1200, 20, Rail(500, 1300, 10, "23", 7, "10", 3)))),
    dcdc5  |-> Dcdc("80", {4}, "3b", Ramp("27", 5, TRUE, Then(1120, 20, Rail(800, 1840, 10, "24", 7, "10", 4)))),
    dcdc6  |-> Dcdc("80", {5}, "3b", Ramp("27", 6, TRUE, Then(1120, 20, Rail(600, 1520, 10, "25", 7, "10", 5)))),
    dcdc7  |-> Dcdc("80", {6}, "3b", Ramp("27", 7, TRUE, Then(1120, 20, Rail(600, 1520, 10, "26", 7, "10", 6)))),
    rtc    |-> Rail(3000, 3000, 0, "00", 0, "00", 0),
    aldo1  |-> Rail(700, 3300, 100, "28", 5, "13", 5),
    aldo2  |-> Rail(700, 3300, 100, "29", 5, "13", 6),
    aldo3  |-> Rail(700, 3300, 100, "2a", 5, "13", 7),
    dldo1  |-> Rail(700, 3300, 100, "15", 5, "12", 3),
    dldo2  |-> Then(3400, 200, Rail(700, 4200, 100, "16", 5, "12", 4)),
    dldo3  |-> Rail(700, 3300, 100, "17", 5, "12", 5),
    dldo4  |-> Rail(700, 3300, 100, "18", 5, "12", 6),
    eldo1  |-> Rail(700, 1900, 50, "19", 5, "12", 0),
    eldo2  |-> Rail(700, 1900, 50, "1a", 5, "12", 1),
    eldo3  |-> Rail(700, 1900, 50, "1b", 5, "12", 2),
    fldo1  |-> Rail(700, 1450, 50, "1c", 4, "13", 2),
    fldo2  |-> Rail(700, 1450, 50, "1d", 4, "13", 3),
    ldoio0 |-> OnPin(Rail(700, 3300, 100, "91", 5, "90", 0), {0, 1, 2}, {0, 1}, {}),
    ldoio1 |-> OnPin(Rail(700, 3300, 100, "93", 5, "92", 0), {0, 1, 2}, {0, 1}, {}),
    dc1sw  |-> Rail(1600, 3400, 100, "20", 0, "12", 7)]

axp80x_regulator_info == [
    dcdca  |-> Dcdc("1b", {0}, "1c", Ramp("1a", 0, FALSE, Then(1100, 20, Rail(600, 1520, 10, "12", 7, "10", 0)))),
    dcdcb  |-> Dcdc("1b", {1}, "1c", Rail(1000, 2550, 50, "13", 5, "10", 1)),
    dcdcc  |-> Dcdc("1b", {2}, "1c", Then(1100, 20, Rail(600, 1520, 10, "14", 7, "10", 2))),
    dcdcd  |-> Dcdc("1b", {3}, "1c", Then(1500, 100, Rail(600, 3300, 20, "15", 6, "10", 3))),
    dcdce  |-> Dcdc("1b", {4}, "1c", Rail(1100, 3400, 100, "16", 5, "10", 4)),
    aldo1  |-> Rail(700, 3300, 100, "17", 5, "10", 5),
    aldo2  |-> Rail(700, 3400, 100, "18", 5, "10", 6),
    aldo3  |-> Rail(700, 3300, 100, "19", 5, "10", 7),
    bldo1  |-> Rail(700, 1900, 100, "20", 4, "11", 0),
    bldo2  |-> Rail(700, 1900, 100, "21", 4, "11", 1),
    bldo3  |-> Rail(700, 1900, 100, "22", 4, "11", 2),
    bldo4  |-> Rail(700, 1900, 100, "23", 4, "11", 3),
    cldo1  |-> Rail(700, 3300, 100, "24", 5, "11", 4),
    cldo2  |-> Then(3400, 200, Rail(700, 4200, 100, "25", 5, "11", 5)),
    cldo3  |-> Rail(700, 3300, 100, "26", 5, "11", 6),
    sw     |-> Rail(3300, 3300, 0, "00", 0, "11", 7)]

axp15060_regulator_info == [
    dcdc1  |-> Dcdc("1b", {0}, "1d", Rail(1500, 3400, 100, "13", 5, "10", 0)),
    dcdc2  |-> Dcdc("1b", {1}, "1d", Ramp("1a", 0, FALSE, Then(1220, 20, Rail(500, 1540, 10, "14", 7, "10", 1)))),
    dcdc3  |-> Dcdc("1b", {2}, "1d", Ramp("1a", 1, FALSE, Then(1220, 20, Rail(500, 1540, 10, "15", 7, "10", 2)))),
    dcdc4  |-> Dcdc("1b", {3}, "1d", Ramp("1a", 2, FALSE, Then(1220, 20, Rail(500, 1540, 10, "16", 7, "10", 3)))),
    dcdc5  |-> Dcdc("1b", {4}, "1d", Ramp("1a", 3, FALSE, Then(1140, 20, Rail(800, 1840, 10, "17", 7, "10", 4)))),
    dcdc6  |-> Dcdc("1b", {5}, "1d", Rail(500, 3400, 100, "18", 5, "10", 5)),
    rtc    |-> Rail(1800, 1800, 0, "00", 0, "10", 6),
    aldo1  |-> Rail(700, 3300, 100, "19", 5, "11", 0),
    aldo2  |-> Rail(700, 3300, 100, "20", 5, "11", 1),
    aldo3  |-> Rail(700, 3300, 100, "21", 5, "11", 2),
    aldo4  |-> Rail(700, 3300, 100, "22", 5, "11", 3),
    aldo5  |-> Rail(700, 3300, 100, "23", 5, "11", 4),
    bldo1  |-> Rail(700, 3300, 100, "24", 5, "11", 5),
    bldo2  |-> Rail(700, 3300, 100, "25", 5, "11", 6),
    bldo3  |-> Rail(700, 3300, 100, "26", 5, "11", 7),
    bldo4  |-> Rail(700, 3300, 100, "27", 5, "12", 0),
    bldo5  |-> Rail(700, 3300, 100, "28", 5, "12", 1),
    cldo1  |-> Rail(700, 3300, 100, "29", 5, "12", 2),
    cldo2  |-> Rail(700, 3300, 100, "2a", 5, "12", 3),
    cldo3  |-> Rail(700, 3300, 100, "2b", 5, "12", 4),
    cldo4  |-> Rail(700, 4200, 100, "2d", 5, "12", 5),
    cpus   |-> Rail(700, 1400, 50, "2e", 4, "12", 6),
    dc1sw  |-> Rail(1500, 3400, 100, "13", 5, "12", 7),
    ldoio1 |-> OnPin(Rail(700, 3300, 100, "2b", 5, "2b", 0), {5, 6}, {6}, {}),
    ldoio2 |-> OnPin(Rail(700, 4200, 100, "2d", 5, "2c", 0), {0, 1, 2}, {1}, {})]

axp152_regulator_info == [
    dcdc1  |-> Dcdc("80", {3}, "37", Sel(Rail(1700, 3500, 0, "26", 4, "12", 7), axp152_dcdc1_table)),
    dcdc2  |-> Dcdc("80", {2}, "37", Ramp("25", 2, FALSE, Rail(700, 2275, 25, "23", 6, "12", 6))),
    dcdc3  |-> Dcdc("80", {1}, "37", Rail(700, 3500, 50, "27", 6, "12", 5)),
    dcdc4  |-> Dcdc("80", {0}, "37", Rail(700, 3500, 25, "2b", 7, "12", 4)),
    ldo0   |-> At(4, Sel(Rail(2500, 5000, 0, "15", 2, "15", 7), axp152_ldo0_table)),
    rtc    |-> Rail(3100, 3100, 0, "00", 0, "00", 0),
    aldo1  |-> At(4, Sel(Rail(1200, 3300, 0, "28", 4, "12", 3), axp152_aldo12_table)),
    aldo2  |-> Sel(Rail(1200, 3300, 0, "28", 4, "12", 2), axp152_aldo12_table),
    dldo1  |-> Rail(700, 3500, 100, "29", 5, "12", 1),
    dldo2  |-> Rail(700, 3500, 100, "2a", 5, "12", 0),
    gpioldo |-> OnPin(Rail(1800, 3300, 100, "96", 4, "92", 0), {0, 1, 2}, {1}, {0, 1, 2})]

axp20_regulator_info == [
    dcdc2  |-> Dcdc("80", {2}, "37", Ramp("25", 2, FALSE, Rail(700, 2275, 25, "23", 6, "12", 4))),
    dcdc3  |-> Dcdc("80", {1}, "37", Rail(700, 3500, 25, "27", 7, "12", 1)),
    rtc    |-> Rail(1300, 1300, 0, "00", 0, "00", 0),
    ldo2   |-> At(4, Rail(1800, 3300, 100, "28", 4, "12", 2)),
    ldo3   |-> Rail(700, 3500, 25, "29", 7, "12", 6),
    ldo4   |-> Sel(Rail(1250, 3300, 0, "28", 4, "12", 3), axp20_ldo4_table),
    ldoio0 |-> At(4, OnPin(Rail(1800, 3300, 100, "91", 4, "90", 0), {0, 1, 2}, {0, 1}, {}))]

(* The same driver built with CONFIG_AW_AXP233: dldo3 and dldo4 are left out, *)
(* there is a second switch, and some rows differ.                            *)
axp233_regulator_info ==
    [r \in (DOMAIN axp22x_regulator_info \ {"dldo3", "dldo4"}) \cup {"sw0"} |->
       CASE r = "sw0"   -> [axp22x_regulator_info["dc1sw"] EXCEPT !.enable_mask = {6}, !.enable_val = {6}]
         [] r = "dcdc4" -> Dcdc("80", {3}, "3b", Then(1800, 100, Rail(600, 2600, 20, "24", 6, "10", 4)))
         [] r = "aldo3" -> Then(3400, 200, Rail(700, 4200, 100, "2a", 5, "13", 5))
         [] r \in {"dcdc1", "dcdc2", "dcdc3", "dcdc5"} ->
              [axp22x_regulator_info[r] EXCEPT !.freq_reg = "3b"]
         [] OTHER       -> axp22x_regulator_info[r]]
-----------------------------------------------------------------------------
(* The constraints: what may be changed at all, only switched, and the ranges *)
(* that differ from the regulator's own.                                      *)
axp22x_regulator_init_data == [fixed |-> {"rtc"}, switches |-> {"dc1sw"}, upto |-> <<>>]
axp233_regulator_init_data ==
    [fixed |-> {"rtc"}, switches |-> {"sw0", "dc1sw"}, upto |-> [dldo1 |-> 4200, aldo3 |-> 3300]]
axp803_regulator_init_data == [fixed |-> {"rtc"}, switches |-> {"dc1sw"}, upto |-> <<>>]
axp80x_regulator_init_data == [fixed |-> {}, switches |-> {"sw"}, upto |-> <<>>]
axp15060_regulator_init_data == [fixed |-> {"rtc"}, switches |-> {"dc1sw"}, upto |-> <<>>]
axp152_regl_init_data == [fixed |-> {"rtc"}, switches |-> {}, upto |-> <<>>]
axp20_regl_init_data == [fixed |-> {"rtc"}, switches |-> {}, upto |-> <<>>]
=============================================================================
