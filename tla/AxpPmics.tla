------------------------------ MODULE AxpPmics ------------------------------
(***************************************************************************)
(* The chip drivers axp22x.c, axp2881.c, axp80x.c, axp15060.c, axp152.c,    *)
(* axp202.c and axp2585.c: what they write when they initialise a PMIC,     *)
(* give out VBUS, and power off, and the interrupts of the devices they     *)
(* create.                                                                  *)
(*                                                                          *)
(* c is the PMIC's device tree configuration.                               *)
(***************************************************************************)
EXTENDS AxpSettings

(* pmu_vbusen_func, pmu_reset, pmu_irq_wakeup, pmu_hot_shutdown and           *)
(* pmu_inshort are switches of their own and none is tested with another:     *)
(* all off or all on.                                                         *)
ChipConfigs ==
    {[vbusen_func |-> on, reset |-> on, irq_wakeup |-> on, hot_shutdown |-> on, inshort |-> on] :
        on \in BOOLEAN}

(* The ramp of the second buck converter is switched on by every chip driver: *)
(* by axp_regmap_read and axp_regmap_write, or by axp_regmap_update.          *)
Dvm(reg) == ReadWrite(<<"chip", "dcdc2_dvm">>, reg, {2}, {2})
DvmUpdate(reg) == SetBits(<<"chip", "dcdc2_dvm">>, reg, {2})

VbusEn(reg, c) == Switch(c.vbusen_func, <<"chip", "vbusen">>, reg, {4})
Reset(reg, c) == Switch(c.reset, <<"chip", "reset">>, reg, {3})
IrqWakeup(reg, bit, c) == Switch(c.irq_wakeup, <<"chip", "irq_wakeup">>, reg, {bit})
HotShutdown(reg, bit, c) == Switch(c.hot_shutdown, <<"chip", "hot_shutdown">>, reg, {bit})
(* Slip: the mask takes in the bit of N_VBUSEN. *)
InshortWide(reg, c) == Switch(c.inshort, <<"chip", "inshort">>, reg, {4, 5, 6})
Inshort(reg, c) == Switch(c.inshort, <<"chip", "inshort">>, reg, {5, 6})
-----------------------------------------------------------------------------
axp22x_init_chip(c) ==
    Dvm("27") \o VbusEn("8f", c) \o Reset("8f", c) \o IrqWakeup("8f", 7, c)
      \o HotShutdown("8f", 2, c) \o Inshort("8f", c)

axp803_init_chip(c) ==
    Dvm("27") \o VbusEn("8f", c) \o Reset("8f", c) \o IrqWakeup("8f", 7, c)
      \o HotShutdown("8f", 2, c) \o Inshort("8f", c)

axp202_init_chip(c) ==
    Dvm("25") \o Reset("8f", c) \o IrqWakeup("8f", 7, c) \o HotShutdown("8f", 2, c)
      \o Inshort("8f", c)

axp152_init_chip(c) == DvmUpdate("25") \o IrqWakeup("8f", 7, c) \o HotShutdown("8f", 2, c)

axp80x_init_chip(c) == IrqWakeup("1f", 7, c) \o HotShutdown("32", 1, c)

axp15060_init_chip(c) == DvmUpdate("1a") \o IrqWakeup("1f", 7, c) \o HotShutdown("32", 1, c)

axp2585_init_chip(c) ==
    IrqWakeup("17", 4, c) \o HotShutdown("f3", 3, c)
      \o Update(<<"chip", "off_seq">>, "16", {6}, {6, 7})
-----------------------------------------------------------------------------
(* usb_vbus_output: the N_VBUSEN pin becomes an output, so the function that  *)
(* init_chip gave it is given up.  Their returns on a bus error end them.     *)
axp22x_usb_vbus_output(high) ==
    ClrBits(<<"chip", "vbusen">>, "8f", {4}) \o Switch(high, <<"chip", "vbus_output">>, "30", {2})
axp803_usb_vbus_output(high) ==
    ClrBits(<<"chip", "vbusen">>, "8f", {4}) \o Switch(high, <<"chip", "vbus_output">>, "30", {2})
axp2585_usb_vbus_output(high) == Switch(high, <<"chip", "vbus_output">>, "11", {6})

(* usb_det: an adapter is on the USB connector.  The AXP202 leaves            *)
(* axp_usb_connect as it is; the others set it when they see one.             *)
axp22x_usb_det(regs) == 4 \in regs["00"]
axp803_usb_det(regs) == 4 \in regs["00"]
axp202_usb_det(regs) == 4 \in regs["00"]
axp2585_usb_det(regs) == 1 \in regs["00"]
-----------------------------------------------------------------------------
(* power_off.  While a supply is present a PMIC would start again at once, so *)
(* unless it is to (power_start is 1) the system restarts with a flag in the  *)
(* data buffer that tells the boot loader to show the charge; otherwise the   *)
(* flag is cleared and the PMIC's off bit set.  The buffer is left alone when *)
(* it holds 0x0d.                                                             *)
OffFlag(regs, flag) ==
    IF regs["0f"] = Bin(13) THEN <<>> ELSE Write(<<"off", "flag">>, "0f", flag)
Off(reg) == SetBits(<<"off", "off">>, reg, {7})

Restarts(regs, c, charging) ==
    /\ c.power_start # 1
    /\ regs["00"] \cap 4 .. 7 # {}
    /\ charging \subseteq regs["01"]

axp22x_power_off(regs, c) ==
    IF Restarts(regs, c, {4, 5}) /\ c.bat_unused = 0 THEN OffFlag(regs, Bin(15))
    ELSE OffFlag(regs, {}) \o Off("32")

axp803_power_off(regs, c) ==
    IF Restarts(regs, c, {4, 5}) /\ c.bat_unused = 0 THEN OffFlag(regs, Bin(15))
    ELSE OffFlag(regs, {}) \o Off("32")

(* The AXP202 sets the voltage at which it goes off first, has the charge LED *)
(* lit by the charger again, and always writes its buffer; INTSTS3 is cleared *)
(* by writing ones.                                                           *)
PwroffVol(vol) == Coded(vol, <<2601, 2701, 2801, 2901, 3001, 3101, 3201>>, <<0, 1, 2, 3, 4, 5, 6, 7>>)
axp202_power_off(regs, c) ==
    (IF c.pwroff_vol \in 2600 .. 3300
     THEN Update(<<"off", "vol">>, "31", Bin(PwroffVol(c.pwroff_vol)), {0, 1, 2}) ELSE <<>>)
      \o ClrBits(<<"off", "led">>, "32", {3, 4, 5}) \o ClrBits(<<"off", "timer">>, "b9", {7})
      \o IF Restarts(regs, c, {5}) THEN Write(<<"off", "flag">>, "0f", Bin(15))
         ELSE Write(<<"off", "flag">>, "0f", {}) \o Off("32")

axp152_power_off == Write(<<"off", "off">>, "32", {7})
axp80x_power_off == Off("32")
axp15060_power_off == Write(<<"off", "off">>, "32", {7})
axp2585_power_off == SetBits(<<"off", "batfet">>, "10", {7}) \o SetBits(<<"off", "off">>, "17", {0})

(* At a shutdown the AXP2585 is told to restart when PWROK is driven low.     *)
axp2585_shutdown == SetBits(<<"chip", "pwrok_restart">>, "14", {6})
-----------------------------------------------------------------------------
(* axp*_cells: the devices, in the order in which their probes run, and the   *)
(* interrupts in their resources.  A regulator device is called "regulator"   *)
(* on every PMIC.                                                             *)
Device(name, irqs) == [name |-> name, irqs |-> irqs]

axp22x_cells ==
    <<Device("powerkey", <<38, 37>>), Device("regulator", <<>>),
      Device("charger", <<3, 2, 6, 5, 15, 14, 8, 9, 11, 10, 25, 24>>), Device("gpio", <<32, 33>>)>>

(* With CONFIG_AW_AXP233 the charger has the interrupts of eight battery      *)
(* temperatures, of which one number is in the list twice.                    *)
axp233_cells ==
    [axp22x_cells EXCEPT
       ![3] = Device("charger", <<3, 2, 6, 5, 15, 14, 16, 17, 18, 17, 20, 21, 22, 23, 11, 10, 25, 24>>)]

axp803_cells ==
    <<Device("powerkey", <<38, 37>>), Device("regulator", <<>>),
      Device("charger", <<3, 2, 6, 5, 15, 14, 17, 19, 20, 21, 22, 23, 11, 10, 25, 24>>),
      Device("gpio", <<32, 33>>)>>

axp80x_cells == <<Device("powerkey", <<14, 13>>), Device("regulator", <<>>)>>

axp15060_cells ==
    <<Device("powerkey", <<12, 11>>), Device("regulator", <<7, 6, 5, 4, 3, 2, 0, 1, 15, 14>>),
      Device("gpio", <<>>)>>

axp152_cells ==
    <<Device("powerkey", <<8, 9>>), Device("regulator", <<>>), Device("gpio", <<16, 17, 18, 19>>)>>

axp202_cells ==
    <<Device("powerkey", <<38, 37>>), Device("regulator", <<>>),
      Device("charger", <<3, 2, 6, 5, 15, 14, 8, 9, 11, 10>>), Device("gpio", <<>>)>>

axp2585_cells ==
    <<Device("powerkey", <<28, 29>>),
      Device("charger", <<23, 22, 21, 20, 39, 38, 6, 7>>)>>
=============================================================================
