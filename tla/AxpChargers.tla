---------------------------- MODULE AxpChargers ----------------------------
(***************************************************************************)
(* The chargers: what the functions of axp*-charger.c write into a PMIC.    *)
(*                                                                          *)
(* The battery's model (its open circuit voltages, resistance, capacity,    *)
(* warning levels, temperature thresholds) goes into registers that nothing *)
(* else writes and is left out of axp*_charger_init.  The supplies' limits  *)
(* are given in mV and mA.                                                  *)
(***************************************************************************)
EXTENDS AxpPmics

Chg(which) == <<"charger", which>>
ChgHold(which) == <<"charger", which, "hold">>

(* axp*_config, as far as axp*_charger_init uses it.  pmu_chgled_func,        *)
(* pmu_chgled_type, pmu_batt_cap_correct, pmu_chg_end_on_en, pmu_batdeten,    *)
(* pmu_cou_en and pmu_bat_temp_enable are all off or all on.                  *)
ChargerConfigs ==
    {[on |-> FALSE, chgend_rate |-> 10, pretime |-> 20, csttime |-> 300, adc_freq |-> 100],
     [on |-> FALSE, chgend_rate |-> 15, pretime |-> 50, csttime |-> 480, adc_freq |-> 200],
     [on |-> TRUE, chgend_rate |-> 10, pretime |-> 60, csttime |-> 600, adc_freq |-> 400],
     [on |-> TRUE, chgend_rate |-> 15, pretime |-> 70, csttime |-> 720, adc_freq |-> 800]}

(* set_*_vhold: the supply's voltage is held at vol, in bits 3-5; out of      *)
(* range the limit is in force and stays as it was.                           *)
Vhold(which, reg, vol) ==
    IF vol = 0 THEN ClrBits(ChgHold(which), reg, {6})
    ELSE SetBits(ChgHold(which), reg, {6})
           \o IF vol \in 4000 .. 4700
              THEN Update(Chg(which), reg, Field((vol - 4000) \div 100, 3), {3, 4, 5})
              ELSE <<>>

(* set_chg_cur, set_chg_vol: the charging current and the target voltage      *)
ChgCur(cur, low, high, width, above) ==
    Switch(cur # 0, Chg("enable"), "33", {7})
      \o Update(Chg("current"), "33",
                IF cur < low THEN {} ELSE IF cur > high THEN above
                ELSE Bin((cur - low) \div width), 0 .. 3)
ChgVol(vol, limits, codes) ==
    Update(Chg("voltage"), "33", Field(Coded(vol, limits, codes), 5), {5, 6})
-----------------------------------------------------------------------------
(* Parts of axp*_charger_init.                                                *)

(* The precharge and constant current times, in two fields of CHARGE2.  Bit 0 *)
(* of the second is written and not cleared; the AXP22x lets a precharge time *)
(* of 30 minutes through, which makes -1 of the field.                        *)
ChargeTimes(least, c) ==
    LET pre == (IF c.pretime < least THEN least ELSE c.pretime) - 40
        cst == ((IF c.csttime < 360 THEN 360 ELSE c.csttime) - 360) \div 120
    IN  Update(Chg("times"), "34", Field((pre \div 10) % 4, 6) \cup Bin(cst), {1, 6, 7})

(* ADC_EN: the battery's voltage and current, and its temperature             *)
AdcOn(reg, bits, temp, c) ==
    Update(Chg("adc"), reg, IF c.on THEN bits \cup {temp} ELSE bits, bits \cup {temp})

(* The sampling rate, for the four frequencies it knows; with a temperature   *)
(* sensor its pin is also connected.  Both in one copy of the register.       *)
AdcSpeed(reg, unit, shift, pin, c) ==
    LET f == c.adc_freq \div unit
        known == f \in {1, 2, 4, 8}
        rate == Coded(f, <<2, 4, 8>>, <<0, 1, 2, 3>>)
    IN  ReadWrite(Chg("adc_speed"), reg, IF known THEN Field(rate, shift) ELSE {},
                  (IF known THEN {shift, shift + 1} ELSE {}) \cup (IF c.on THEN {pin} ELSE {}))

Chgled(c) ==
    Switch(c.on, Chg("chgled_func"), "32", {3}) \o Switch(c.on, Chg("chgled_type"), "34", {4})
CapCorrect(c) == Switch(c.on, Chg("cap_correct"), "b8", {5})
ChgEndOn(c) == Switch(c.on, Chg("chg_end_on"), "34", {5})
BatDet(c) == Switch(c.on, Chg("batdet"), "32", {6})
Coulomb(c) ==
    SetBits(Chg("gauge"), "b8", {7}) \o Switch(c.on, Chg("coulomb"), "b8", {6})
-----------------------------------------------------------------------------
(* AXP22x *)
axp22x_set_usb_vhold(vol) == Vhold("usb_vhold", "30", vol)
axp22x_get_usb_vhold(regs) == 4000 + 100 * Num({k - 3 : k \in regs["30"] \cap {3, 4, 5}})
axp22x_set_usb_ihold(cur) ==
    LET field == Chg("usb_ihold")
    IN  CASE cur = 0   -> SetBits(field, "30", {0, 1})
          [] cur = 500 -> Update(field, "30", {0}, {0, 1})
          [] cur = 900 -> ClrBits(field, "30", {0, 1})
          [] OTHER     -> <<>>
axp22x_get_usb_ihold(regs) ==
    CASE regs["30"] \cap {0, 1} = {}  -> 900
      [] regs["30"] \cap {0, 1} = {0} -> 500
      [] OTHER -> 0
axp22x_set_chg_cur(cur) == ChgCur(cur, 300, 2550, 150, 0 .. 3)
axp22x_set_chg_vol(vol) == ChgVol(vol, <<4200, 4220, 4240>>, <<0, 2, 1, 3>>)
axp233_set_chg_vol(vol) == ChgVol(vol, <<4200, 4240, 4350>>, <<0, 1, 2, 3>>)

(* The whole of CHARGE1 is written, with charging off.  Then, once more,      *)
(* what axp22x_init_chip sets in HOTOVER_CTL, from the configuration that the *)
(* two drivers share: chipc.                                                  *)
axp22x_charger_init(c, chipc) ==
    Write(Chg("chgend_rate"), "33", IF c.chgend_rate = 10 THEN {} ELSE {4})
      \o ChargeTimes(30, c) \o AdcOn("82", {6, 7}, 0, c) \o AdcSpeed("84", 100, 6, 2, c)
      \o Reset("8f", chipc) \o IrqWakeup("8f", 7, chipc) \o VbusEn("8f", chipc)
      \o Inshort("8f", chipc) \o Chgled(c) \o HotShutdown("8f", 2, chipc) \o CapCorrect(c) \o ChgEndOn(c) \o BatDet(c)
      \o Coulomb(c)
-----------------------------------------------------------------------------
(* AXP803.  The limits of its mains input have a register of their own, in    *)
(* which a current of 0 puts the voltage's limit in force.                    *)
axp803_set_ac_vhold(vol) == Vhold("ac_vhold", "3a", vol)
axp803_get_ac_vhold(regs) == 4000 + 100 * Num({k - 3 : k \in regs["3a"] \cap {3, 4, 5}})
axp803_set_ac_ihold(cur) ==
    IF cur = 0 THEN SetBits(ChgHold("ac_vhold"), "3a", {6})
    ELSE IF cur \in 1500 .. 4000
         THEN Update(Chg("ac_ihold"), "3a", Bin((cur - 1500) \div 500), {0, 1, 2})
    ELSE <<>>
axp803_get_ac_ihold(regs) == 1500 + 500 * Num(regs["3a"] \cap {0, 1, 2})
axp803_set_usb_vhold(vol) == Vhold("usb_vhold", "30", vol)
axp803_get_usb_vhold(regs) == 4000 + 100 * Num({k - 3 : k \in regs["30"] \cap {3, 4, 5}})

(* Without CONFIG_AW_AXP_BC_EN the current's limit is written to CHARGE3, and *)
(* still read back from IPS_SET.                                              *)
axp803_set_usb_ihold_bc(cur) ==
    Update(Chg("usb_ihold"), "30",
           IF cur = 0 THEN {0, 1} ELSE Bin(Coded(cur, <<1500, 2000, 2500>>, <<0, 1, 2, 3>>)), {0, 1})
axp803_set_usb_ihold(cur) ==
    Update(Chg("usb_ihold"), "35",
           Field(IF cur = 0 THEN 3
                 ELSE Coded(cur, <<500, 900, 1500, 2000, 2500, 3000, 3500, 4000>>,
                            <<0, 1, 2, 3, 4, 5, 6, 7, 8>>), 4), 4 .. 7)
axp803_get_usb_ihold(regs) == <<900, 1500, 2000, 2500>>[1 + Num(regs["30"] \cap {0, 1})]
axp803_set_chg_cur(cur) == ChgCur(cur, 200, 2800, 200, Bin(13))
axp803_set_chg_vol(vol) == ChgVol(vol, <<4150, 4200, 4350>>, <<0, 1, 2, 3>>)

axp803_charger_init(c) ==
    Update(Chg("chgend_rate"), "33", IF c.chgend_rate = 10 THEN {} ELSE {4}, {4})
      \o ChargeTimes(40, c) \o AdcOn("82", {6, 7}, 0, c) \o AdcSpeed("85", 100, 4, 2, c)
      \o axp803_set_chg_vol(4200) \o Chgled(c) \o CapCorrect(c) \o ChgEndOn(c) \o BatDet(c)
      \o Switch(c.on, Chg("bc"), "2c", {0}) \o Coulomb(c)
-----------------------------------------------------------------------------
(* AXP202.  CHARGE1 is first written from a variable that has no value yet:   *)
(* junk.                                                                      *)
axp202_set_usb_vhold(vol) == Vhold("usb_vhold", "30", vol)
axp202_get_usb_vhold(regs) == 4000 + 100 * Num({k - 3 : k \in regs["30"] \cap {3, 4, 5}})
axp202_set_usb_ihold(cur) ==
    Update(Chg("usb_ihold"), "30",
           IF cur = 0 THEN {0, 1} ELSE IF cur >= 900 THEN {} ELSE {0}, {0, 1})
axp202_get_usb_ihold(regs) ==
    CASE regs["30"] \cap {0, 1} = {}  -> 900
      [] regs["30"] \cap {0, 1} = {0} -> 500
      [] OTHER -> 0
axp202_set_chg_cur(cur) == ChgCur(cur, 300, 1800, 100, 0 .. 3)
axp202_set_chg_vol(vol) == ChgVol(vol, <<4150, 4200, 4360>>, <<0, 1, 2, 3>>)
axp202_charger_init(c, junk) ==
    Write(Chg("chgend_rate"), "33",
          (IF c.chgend_rate = 10 THEN junk \ {4} ELSE junk \cup {4}) \ {7})
      \o ChargeTimes(40, c) \o AdcOn("82", {6, 7}, 0, c) \o AdcSpeed("84", 25, 6, 2, c)
      \o Chgled(c) \o CapCorrect(c) \o BatDet(c)
-----------------------------------------------------------------------------
(* AXP2585.  The limits have no switch of their own, and are read back from   *)
(* the whole register.                                                        *)
axp2585_set_usb_vhold(vol) ==
    IF vol \in 3880 .. 5080
    THEN Update(Chg("usb_vhold"), "11", Bin((vol - 3880) \div 80), 0 .. 3) ELSE <<>>
axp2585_get_usb_vhold(regs) == 3880 + 80 * Num(regs["11"])
axp2585_set_usb_ihold(cur) ==
    IF cur \in 100 .. 3250
    THEN Update(Chg("usb_ihold"), "10", Bin((cur - 100) \div 50), 0 .. 5) ELSE <<>>
axp2585_get_usb_ihold(regs) == 100 + 50 * Num(regs["10"])
axp2585_set_chg_cur(cur) ==
    Update(Chg("current"), "8b", Bin(Clamped((cur \div 64) % 256, 0, 63)), 0 .. 5)
axp2585_set_chg_vol(vol) ==
    Update(Chg("voltage"), "8c",
           Field((IF vol \in 3841 .. 4607 THEN vol - 3840 ELSE 4200 - 3840) \div 16, 2), 2 .. 7)

axp2585_charger_init(c) ==
    LET pre == (Clamped(c.pretime, 40, 70) - 40) \div 10
    IN  Update(Chg("pretime"), "8e", {7} \cup Field(pre, 5), {5, 6, 7})
          \o Update(Chg("csttime"), "8d",
                    {0} \cup Field(Coded(c.csttime, <<301, 481, 721>>, <<0, 1, 2, 3>>), 1), 0 .. 2)
          \o AdcOn("80", {4, 6}, 5, c) \o AdcSpeed("81", 100, 5, 7, c)
          \o axp2585_set_chg_vol(4200)
          \o Switch(c.on, Chg("chgled_func"), "90", {7}) \o SetBits(Chg("chgled_type"), "90", IF c.on THEN {0} ELSE {})
          \o CapCorrect(c) \o Switch(c.on, Chg("batdet"), "8e", {3})
          \o SetBits(Chg("fast"), "31", {2}) \o SetBits(Chg("por_time"), "15", {4, 5})

(* bmu_control: the port's role and the boost converter, from user space      *)
store_tc_mode(mode) == Update(Chg("tc_mode"), "33", Bin(IF mode > 3 THEN 1 ELSE mode), {0, 1})
store_boost_mode(mode) == Switch(mode = 1, Chg("boost_mode"), "12", {7})
=============================================================================
