---------------------------- MODULE AxpPowerkeys ----------------------------
(***************************************************************************)
(* The power keys: what the probe functions axp*_powerkey_probe request and *)
(* write.  Each requests the chip's power key interrupts, in the order of   *)
(* axp_powerkey_irq, and then sets the key's timing from the device tree,   *)
(* mostly by axp_regmap_read and axp_regmap_write.                          *)
(*                                                                          *)
(* A cell is its interrupts and the steps that follow their requests; when  *)
(* a request fails the interrupts before it are freed and no step is taken. *)
(***************************************************************************)
EXTENDS AxpSettings

Cell(irqs, steps) == [irqs |-> irqs, steps |-> steps]

(* axp_powerkey_dt_parse: what a device tree that has none of the properties  *)
(* gets; those of the properties that some PMIC uses.                         *)
axp_powerkey_dt_parse ==
    [off_time |-> 6000, off_func |-> 0, off_en |-> 1, long_time |-> 1500,
     on_time |-> 1000, pwrok_time |-> 64, pwrnoe_time |-> 2000]

(* AXP_OF_PROP_READ takes a property as it is; these reach each of the codes. *)
KeyConfigs ==
    {axp_powerkey_dt_parse,
     [off_time |-> 3000, off_func |-> 1, off_en |-> 0, long_time |-> 800,
      on_time |-> 500, pwrok_time |-> 8, pwrnoe_time |-> 128],
     [off_time |-> 8000, off_func |-> 1, off_en |-> 2, long_time |-> 2000,
      on_time |-> 2000, pwrok_time |-> 16, pwrnoe_time |-> 1000],
     [off_time |-> 12000, off_func |-> 0, off_en |-> 1, long_time |-> 3000,
      on_time |-> 3000, pwrok_time |-> 32, pwrnoe_time |-> 5000]}
-----------------------------------------------------------------------------
(* The fields of the PMICs' POK_SET.  c is the device tree's configuration.   *)
OnTime(reg, codes, c) ==
    ReadWrite(<<"key", "on_time">>, reg,
              Field(Coded(c.on_time, <<1000, 2000, 3000>>, codes), 6), {6, 7})

LongTime(reg, c) ==
    ReadWrite(<<"key", "long_time">>, reg,
              Field((Clamped(c.long_time, 1000, 2500) - 1000) \div 500, 4), {4, 5})

OffEn(reg, c) ==
    ReadWrite(<<"key", "off_en">>, reg, IF c.off_en # 0 THEN {3} ELSE {}, {3})

OffFunc(reg, c) == Switch(c.off_func # 0, <<"key", "off_func">>, reg, {2})

OffTime(reg, c) ==
    ReadWrite(<<"key", "off_time">>, reg,
              Field((Clamped(c.off_time, 4000, 10000) - 4000) \div 2000, 0), {0, 1})

(* The time to PWROK, in OFF_CTL.  The byte that is or-ed in may be wider     *)
(* than the field, and is 0xff for a time below 8.                            *)
PwrokTime(reg, c) ==
    LET n == IF c.pwrok_time < 32 THEN (c.pwrok_time \div 8 - 1) % 256
             ELSE c.pwrok_time \div 32 + 1
    IN  ReadWrite(<<"key", "pwrok_time">>, reg, Bin(n), {0, 1})
-----------------------------------------------------------------------------
axp22x_powerkey_probe(c) ==
    Cell(<<38, 37>>, OnTime("36", <<0, 1, 2, 3>>, c) \o LongTime("36", c) \o OffEn("36", c)
                       \o OffFunc("36", c) \o PwrokTime("32", c) \o OffTime("36", c))

axp803_powerkey_probe(c) ==
    Cell(<<38, 37>>, OnTime("36", <<0, 1, 2, 3>>, c) \o LongTime("36", c) \o OffEn("36", c)
                       \o OffFunc("36", c) \o PwrokTime("32", c) \o OffTime("36", c))

axp80x_powerkey_probe(c) ==
    Cell(<<14, 13>>, OnTime("36", <<0, 1, 2, 3>>, c) \o LongTime("36", c) \o OffFunc("36", c)
                       \o OffEn("36", c) \o OffTime("36", c))

axp15060_powerkey_probe(c) ==
    Cell(<<12, 11>>, OnTime("36", <<0, 2, 3, 1>>, c) \o LongTime("36", c) \o OffEn("36", c)
                       \o OffFunc("36", c) \o OffTime("36", c))

(* The AXP152 tells long and short presses, not edges.                        *)
axp152_powerkey_probe(c) ==
    Cell(<<8, 9>>, OnTime("36", <<0, 2, 3, 1>>, c) \o LongTime("36", c) \o OffEn("36", c)
                     \o OffTime("36", c))

axp20_powerkey_probe(c) ==
    LET noe == IF c.pwrnoe_time < 1000 THEN 128 ELSE Clamped(c.pwrnoe_time, 1000, 3000)
    IN  Cell(<<38, 37>>,
             ReadWrite(<<"key", "pwrnoe_time">>, "32", Bin(noe \div 1000), {0, 1})
               \o OnTime("36", <<0, 2, 3, 1>>, c) \o LongTime("36", c) \o OffEn("36", c)
               \o ReadWrite(<<"key", "pwrok_time">>, "36",
                            IF c.pwrok_time <= 8 THEN {} ELSE {2}, {2})
               \o OffTime("36", c))

(* The long press time has two bits, 6 and 7; the mask clears only bit 7.     *)
axp2585_powerkey_probe(c) ==
    Cell(<<28, 29>>,
         ReadWrite(<<"key", "on_time">>, "15",
                   Field(Coded(c.on_time, <<628, 1500, 2500>>, <<0, 1, 2, 3>>), 2), {2, 3})
           \o ReadWrite(<<"key", "long_time">>, "15",
                        Field((Clamped(c.long_time, 1000, 2500) - 1000) \div 500, 6), {7})
           \o ReadWrite(<<"key", "off_time">>, "15",
                        Field(Coded(c.off_time, <<4500, 6500, 8500>>, <<0, 1, 2, 3>>), 0), {0, 1}))
=============================================================================
