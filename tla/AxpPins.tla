------------------------------ MODULE AxpPins ------------------------------
(***************************************************************************)
(* The PMICs' pins: what the functions of axp*-gpio.c write to give a pin a *)
(* direction, a level or an interrupt, and how they read a direction back.  *)
(*                                                                          *)
(* A function that returns -ENXIO, or -1 for a pin whose interrupt is not   *)
(* valid, writes nothing: it is the empty sequence of steps.                *)
(***************************************************************************)
EXTENDS AxpSettings

ENXIO == -6
Nothing == <<>>
Mux == [in |-> 0, out |-> 1]

PinItem(gpio) == <<"pin", gpio>>

(* A pin whose function is the low three bits of its register: 0 and 1 are    *)
(* the output levels, so an output has the other two bits clear.              *)
Level(reg, gpio, value) == Update(PinItem(gpio), reg, Bin(value), {0, 1, 2})
(* Slip: one of the two bits stays set. *)
AsOutputHalf(reg, gpio) == ClrBits(PinItem(gpio), reg, {2})
AsOutput(reg, gpio) == ClrBits(PinItem(gpio), reg, {1, 2})
AsInput(reg, gpio, clear, set) ==
    ClrBits(PinItem(gpio), reg, clear) \o SetBits(PinItem(gpio), reg, set)
Direction(b, in) ==
    IF b \cap {1, 2} = {} THEN Mux.out ELSE IF b \cap {0, 1, 2} = in THEN Mux.in ELSE ENXIO

(* The edges that raise the pin's interrupt, and its function as an input,    *)
(* are written back with a copy of the register; so is the bit of its         *)
(* interrupt by *_gpio_irq_enable and *_gpio_irq_disable.                     *)
EdgeType(reg, gpio, edges, input) ==
    ReadWrite(PinItem(gpio), reg, edges \cup input, {0, 1, 2, 6, 7})
IrqOn(n) == ReadWrite(<<"irq", n>>, IntEn(n), IrqBit(n), IrqBit(n))
IrqOff(n) == ReadWrite(<<"irq", n>>, IntEn(n), {}, IrqBit(n))

(* AXP_GPIO_IRQF_TRIGGER_RISING and _FALLING                                  *)
EdgeTypes == {{7}, {6}, {6, 7}}
-----------------------------------------------------------------------------
(* AXP22x: two pins.                                                          *)
axp22x_pins == [gpio \in {0, 1} |-> <<"gpio_in", "gpio_out", "irq">>]
axp22x_cfg == [gpio \in {0, 1} |-> <<"90", "92">>[gpio + 1]]
axp22x_gpio_set_data(gpio, value) == Level(axp22x_cfg[gpio], gpio, value)
axp22x_pmx_set(gpio, mux) ==
    IF mux = Mux.out THEN AsOutput(axp22x_cfg[gpio], gpio)
    ELSE AsInput(axp22x_cfg[gpio], gpio, {0, 2}, {1})
axp22x_pmx_get(regs, gpio) == Direction(regs[axp22x_cfg[gpio]], {1})
axp22x_gpio_irq_enable(gpio) == IrqOn(32 + gpio)
axp22x_gpio_irq_disable(gpio) == IrqOff(32 + gpio)
axp22x_gpio_set_type(gpio, edges) == EdgeType(axp22x_cfg[gpio], gpio, edges, {1})
-----------------------------------------------------------------------------
(* AXP803: pins 0 and 1 are those of the AXP22x.  Pin 3 is a bit of           *)
(* HOTOVER_CTL.  A level is given to pins 0 and 1 only, although there is     *)
(* code for the other two; pin 2 has no direction either.                     *)
axp803_pins ==
    [gpio \in 0 .. 3 |-> IF gpio <= 1 THEN <<"gpio_in", "gpio_out", "irq">>
                         ELSE <<"gpio_in", "gpio_out">>]
axp803_gpio_set_data(gpio, value) ==
    IF gpio \in {0, 1} THEN Level(axp22x_cfg[gpio], gpio, value) ELSE Nothing
axp803_pmx_set(gpio, mux) ==
    IF gpio \in {0, 1}
    THEN IF mux = Mux.out THEN AsOutput(axp22x_cfg[gpio], gpio)
         ELSE AsInput(axp22x_cfg[gpio], gpio, {0, 2}, {1})
    ELSE IF gpio = 3 THEN Switch(mux = Mux.in, PinItem(3), "8f", {4})
    ELSE Nothing
axp803_pmx_get(regs, gpio) ==
    IF gpio \in {0, 1} THEN Direction(regs[axp22x_cfg[gpio]], {1})
    ELSE IF gpio = 3 THEN IF 4 \in regs["8f"] THEN Mux.in ELSE Mux.out
    ELSE ENXIO
axp803_gpio_irq_enable(gpio) == IrqOn(32 + gpio)
axp803_gpio_irq_disable(gpio) == IrqOff(32 + gpio)
axp803_gpio_set_type(gpio, edges) == EdgeType(axp22x_cfg[gpio], gpio, edges, {1})
-----------------------------------------------------------------------------
(* AXP80x: one pin, an output only.                                           *)
axp80x_pins == [gpio \in {0} |-> <<"gpio_in", "gpio_out">>]
axp80x_gpio_set_data(gpio, value) ==
    Update(PinItem(gpio), "35", IF value = 1 THEN {0, 1} ELSE {1}, {0, 1, 2})
axp80x_pmx_set(gpio, mux) ==
    IF mux = Mux.out THEN Update(PinItem(gpio), "35", {1}, {0, 1, 2}) ELSE Nothing
axp80x_pmx_get(regs, gpio) == IF regs["35"] \cap {1, 2} = {1} THEN Mux.out ELSE ENXIO
-----------------------------------------------------------------------------
(* AXP152: four pins.                                                         *)
axp152_pins == [gpio \in 0 .. 3 |-> <<"gpio_in", "gpio_out", "irq">>]
axp152_cfg == [gpio \in 0 .. 3 |-> <<"90", "91", "92", "93">>[gpio + 1]]
axp152_gpio_set_data(gpio, value) == Level(axp152_cfg[gpio], gpio, value)
axp152_pmx_set(gpio, mux) ==
    IF mux = Mux.out THEN AsOutput(axp152_cfg[gpio], gpio)
    ELSE AsInput(axp152_cfg[gpio], gpio, {2}, {0, 1})
axp152_pmx_get(regs, gpio) == Direction(regs[axp152_cfg[gpio]], {0, 1})
axp152_gpio_irq_enable(gpio) == IrqOn(16 + gpio)
axp152_gpio_irq_disable(gpio) == IrqOff(16 + gpio)
axp152_gpio_set_type(gpio, edges) == EdgeType(axp152_cfg[gpio], gpio, edges, {0, 1})
-----------------------------------------------------------------------------
(* AXP202: three pins; pin 2 can only be driven low.                          *)
axp20_pins == [gpio \in 0 .. 2 |-> <<"gpio_in", "gpio_out">>]
axp20_cfg == [gpio \in 0 .. 2 |-> <<"90", "92", "93">>[gpio + 1]]
axp20_gpio_set_data(gpio, value) ==
    IF gpio = 2 /\ value = 1 THEN Nothing ELSE Level(axp20_cfg[gpio], gpio, value)
axp20_pmx_set(gpio, mux) ==
    IF mux = Mux.in THEN AsInput(axp20_cfg[gpio], gpio, {0, 1, 2}, {1})
    ELSE IF gpio = 2 THEN ClrBits(PinItem(gpio), axp20_cfg[gpio], {0, 1, 2})
    ELSE AsOutput(axp20_cfg[gpio], gpio)
axp20_pmx_get(regs, gpio) == Direction(regs[axp20_cfg[gpio]], {1})
-----------------------------------------------------------------------------
(* AXP15060: pins 1 and 2.                                                    *)
axp15060_pins == [gpio \in {1, 2} |-> <<"gpio_in", "gpio_out">>]
axp15060_gpio_set_data(gpio, value) ==
    IF gpio = 1 THEN Update(PinItem(1), "2b", IF value = 1 THEN {6} ELSE {5}, {5, 6})
    ELSE Update(PinItem(2), "2c", IF value = 1 THEN {1} ELSE {0}, {0, 1, 2})
axp15060_pmx_set(gpio, mux) ==
    IF gpio = 1 THEN Update(PinItem(1), "2b", IF mux = Mux.out THEN {5} ELSE {5, 6}, {5, 6})
    ELSE Update(PinItem(2), "2c", IF mux = Mux.out THEN {1} ELSE {0, 1}, {0, 1, 2})
axp15060_pmx_get(regs, gpio) ==
    LET field == IF gpio = 1 THEN {k - 5 : k \in regs["2b"] \cap {5, 6}}
                 ELSE regs["2c"] \cap {0, 1, 2}
    IN  IF field = {1} THEN Mux.out ELSE IF field = {0, 1} THEN Mux.in ELSE ENXIO
-----------------------------------------------------------------------------
(* The pins of each PMIC, with the functions they can have.                   *)
Pins(p) ==
    CASE p \in {"axp22x", "axp233"} -> axp22x_pins [] p = "axp803" -> axp803_pins
      [] p = "axp202" -> axp20_pins                [] p = "axp152" -> axp152_pins
      [] p = "axp80x" -> axp80x_pins               [] p = "axp15060" -> axp15060_pins
      [] OTHER -> <<>>
=============================================================================
