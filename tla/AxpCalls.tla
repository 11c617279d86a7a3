------------------------------ MODULE AxpCalls ------------------------------
(***************************************************************************)
(* The calls of the drivers of all devices of a PMIC: the chip driver, the  *)
(* power key, the regulators, the charger and the pins.  Each call is a     *)
(* program, a sequence of register accesses (module AxpSettings).  Module   *)
(* AxpChip runs them.                                                       *)
(***************************************************************************)
EXTENDS AxpRails, AxpPins, AxpPowerkeys, AxpChargers, SequencesExt

CONSTANT Chips      \* the PMICs looked at, by the names of their drivers

ASSUME ChipsAssumption ==
    Chips \subseteq
      {"axp22x", "axp233", "axp803", "axp202", "axp152", "axp80x", "axp15060", "axp2585"}
-----------------------------------------------------------------------------
(* The tables of a chip.                                                      *)
Info(p) ==
    CASE p = "axp22x" -> axp22x_regulator_info   [] p = "axp233" -> axp233_regulator_info
      [] p = "axp803" -> axp803_regulator_info   [] p = "axp202" -> axp20_regulator_info
      [] p = "axp152" -> axp152_regulator_info   [] p = "axp80x" -> axp80x_regulator_info
      [] p = "axp15060" -> axp15060_regulator_info [] OTHER -> <<>>
InitData(p) ==
    CASE p = "axp22x" -> axp22x_regulator_init_data [] p = "axp233" -> axp233_regulator_init_data
      [] p = "axp803" -> axp803_regulator_init_data [] p = "axp202" -> axp20_regl_init_data
      [] p = "axp152" -> axp152_regl_init_data      [] p = "axp80x" -> axp80x_regulator_init_data
      [] p = "axp15060" -> axp15060_regulator_init_data
      [] OTHER -> [fixed |-> {}, switches |-> {}, upto |-> <<>>]
Devices(p) ==
    CASE p = "axp22x" -> axp22x_cells [] p = "axp233" -> axp233_cells [] p = "axp803" -> axp803_cells
      [] p = "axp202" -> axp202_cells [] p = "axp152" -> axp152_cells [] p = "axp80x" -> axp80x_cells
      [] p = "axp15060" -> axp15060_cells [] OTHER -> axp2585_cells
IrqsOf(p, name) ==
    LET ds == {n \in DOMAIN Devices(p) : Devices(p)[n].name = name}
    IN  IF ds = {} THEN <<>> ELSE Devices(p)[CHOOSE n \in ds : TRUE].irqs

(* Regulators whose range has more selectors than their field: every other    *)
(* one whose voltage can be set is one that ReadingBack (AxpRegulatorProofs)   *)
(* covers.                                                                   *)
TooNarrow == {<<"axp233", "dcdc4">>, <<"axp15060", "cldo4">>, <<"axp15060", "ldoio2">>}

FieldsSuffice ==
    \A p \in Chips :
        \A r \in DOMAIN Info(p) \ (InitData(p).fixed \cup InitData(p).switches) :
            HoldsRange(Info(p)[r]) <=> <<p, r>> \notin TooNarrow

(* Four configurations, of the chip, the power key and the charger at once.   *)
ChipConfig(k) == CHOOSE c \in ChipConfigs : c.reset = (k > 2)
KeyConfig(k) == SetToSeq(KeyConfigs)[k]
ChargerConfig(k) == SetToSeq(ChargerConfigs)[k]

pmx_set(p, gpio, mux) ==
    CASE p \in {"axp22x", "axp233"} -> axp22x_pmx_set(gpio, mux)
      [] p = "axp803" -> axp803_pmx_set(gpio, mux) [] p = "axp202" -> axp20_pmx_set(gpio, mux)
      [] p = "axp152" -> axp152_pmx_set(gpio, mux) [] p = "axp80x" -> axp80x_pmx_set(gpio, mux)
      [] p = "axp15060" -> axp15060_pmx_set(gpio, mux)
pmx_get(p, b, gpio) ==
    CASE p \in {"axp22x", "axp233"} -> axp22x_pmx_get(b, gpio)
      [] p = "axp803" -> axp803_pmx_get(b, gpio) [] p = "axp202" -> axp20_pmx_get(b, gpio)
      [] p = "axp152" -> axp152_pmx_get(b, gpio) [] p = "axp80x" -> axp80x_pmx_get(b, gpio)
      [] p = "axp15060" -> axp15060_pmx_get(b, gpio)
gpio_set_data(p, gpio, value) ==
    CASE p \in {"axp22x", "axp233"} -> axp22x_gpio_set_data(gpio, value)
      [] p = "axp803" -> axp803_gpio_set_data(gpio, value)
      [] p = "axp202" -> axp20_gpio_set_data(gpio, value)
      [] p = "axp152" -> axp152_gpio_set_data(gpio, value)
      [] p = "axp80x" -> axp80x_gpio_set_data(gpio, value)
      [] p = "axp15060" -> axp15060_gpio_set_data(gpio, value)
HasIrq(p, gpio) == \E n \in DOMAIN Pins(p)[gpio] : Pins(p)[gpio][n] = "irq"
gpio_irq_switches(p, gpio) ==
    CASE p \in {"axp22x", "axp233"} -> {axp22x_gpio_irq_enable(gpio), axp22x_gpio_irq_disable(gpio)}
      [] p = "axp803" -> {axp803_gpio_irq_enable(gpio), axp803_gpio_irq_disable(gpio)}
      [] p = "axp152" -> {axp152_gpio_irq_enable(gpio), axp152_gpio_irq_disable(gpio)}
gpio_set_type(p, gpio, edges) ==
    CASE p \in {"axp22x", "axp233"} -> axp22x_gpio_set_type(gpio, edges)
      [] p = "axp803" -> axp803_gpio_set_type(gpio, edges)
      [] p = "axp152" -> axp152_gpio_set_type(gpio, edges)
-----------------------------------------------------------------------------
(* A program: whose call it is, its accesses, and what it is to bring about.  *)
Program(actor, steps) == [actor |-> actor, steps |-> steps, asks |-> <<>>]
Asks(g, item, value) == [g EXCEPT !.asks = [i \in {item} |-> value]]

Each(irqs, Access(_)) == FlattenSeq([n \in DOMAIN irqs |-> Access(irqs[n])])

(* A probe: it takes the steps before, requests its interrupts and takes the  *)
(* steps after.  When a request fails it frees those made before, in reverse  *)
(* order, and gives up.                                                       *)
Probes(actor, before, irqs, after) ==
    {Program(actor, before \o Each(irqs, RequestIrq) \o after)}
      \cup {Program(actor, before \o Each(SubSeq(irqs, 1, n), RequestIrq)
                             \o Each(Reverse(SubSeq(irqs, 1, n)), FreeIrq)) :
              n \in 1 .. Len(irqs) - 1}
Removes(actor, irqs) == {Program(actor, Each(irqs, FreeIrq))}

init_chip(p, c) ==
    CASE p \in {"axp22x", "axp233"} -> axp22x_init_chip(c)
      [] p = "axp803" -> axp803_init_chip(c) [] p = "axp202" -> axp202_init_chip(c)
      [] p = "axp152" -> axp152_init_chip(c) [] p = "axp80x" -> axp80x_init_chip(c)
      [] p = "axp15060" -> axp15060_init_chip(c) [] OTHER -> axp2585_init_chip(c)

powerkey_probe(p, c) ==
    CASE p \in {"axp22x", "axp233"} -> axp22x_powerkey_probe(c)
      [] p = "axp803" -> axp803_powerkey_probe(c) [] p = "axp202" -> axp20_powerkey_probe(c)
      [] p = "axp152" -> axp152_powerkey_probe(c) [] p = "axp80x" -> axp80x_powerkey_probe(c)
      [] p = "axp15060" -> axp15060_powerkey_probe(c) [] OTHER -> axp2585_powerkey_probe(c)

KeyPrograms(p, k) ==
    LET cell == powerkey_probe(p, KeyConfig(k))
    IN  Probes(<<"powerkey">>, <<>>, cell.irqs, cell.steps) \cup Removes(<<"powerkey">>, cell.irqs)
-----------------------------------------------------------------------------
(* The charger.  Its probe initialises it, registers the supplies, which sets *)
(* their limits and the charging current, and requests its interrupts.        *)
set_usb_vhold(p, vol) ==
    CASE p \in {"axp22x", "axp233"} -> axp22x_set_usb_vhold(vol)
      [] p = "axp803" -> axp803_set_usb_vhold(vol) [] p = "axp202" -> axp202_set_usb_vhold(vol)
      [] OTHER -> axp2585_set_usb_vhold(vol)
get_usb_vhold(p, b) ==
    CASE p \in {"axp22x", "axp233"} -> axp22x_get_usb_vhold(b)
      [] p = "axp803" -> axp803_get_usb_vhold(b) [] p = "axp202" -> axp202_get_usb_vhold(b)
      [] OTHER -> axp2585_get_usb_vhold(b)
set_usb_ihold(p, cur) ==
    CASE p \in {"axp22x", "axp233"} -> axp22x_set_usb_ihold(cur)
      [] p = "axp803" -> axp803_set_usb_ihold(cur) [] p = "axp202" -> axp202_set_usb_ihold(cur)
      [] OTHER -> axp2585_set_usb_ihold(cur)
set_chg_cur(p, cur) ==
    CASE p \in {"axp22x", "axp233"} -> axp22x_set_chg_cur(cur)
      [] p = "axp803" -> axp803_set_chg_cur(cur) [] p = "axp202" -> axp202_set_chg_cur(cur)
      [] OTHER -> axp2585_set_chg_cur(cur)
set_chg_vol(p, vol) ==
    CASE p = "axp22x" -> axp22x_set_chg_vol(vol) [] p = "axp233" -> axp233_set_chg_vol(vol)
      [] p = "axp803" -> axp803_set_chg_vol(vol) [] p = "axp202" -> axp202_set_chg_vol(vol)
      [] OTHER -> axp2585_set_chg_vol(vol)
charger_inits(p, c, chipc) ==
    CASE p \in {"axp22x", "axp233"} -> {axp22x_charger_init(c, chipc)}
      [] p = "axp803" -> {axp803_charger_init(c)}
      [] p = "axp202" -> {axp202_charger_init(c, junk) : junk \in {{}, Byte}}
      [] OTHER -> {axp2585_charger_init(c)}

HasCharger(p) == IrqsOf(p, "charger") # <<>>
Vholds == {0, 4000, 4450, 4700}
Iholds == {0, 500, 900, 2000}

(* What axp_usb and axp_charger_suspend, _resume write; the AXP803 also has   *)
(* limits for its mains input, and the AXP2585 its files in sysfs.            *)
VbusHold == Chg("usb_vhold")
LimitPrograms(p) ==
    {Asks(Program(<<"charger">>, set_usb_vhold(p, vol)), VbusHold, vol) : vol \in Vholds}
      \cup {Program(<<"charger">>, set_usb_ihold(p, cur)) : cur \in Iholds}
      \cup {Program(<<"charger">>, set_chg_cur(p, cur)) : cur \in {0, 450}}
      \cup {Program(<<"charger">>, set_chg_vol(p, vol)) : vol \in {4100, 4200}}
      \cup (IF p # "axp803" THEN {}
            ELSE {Program(<<"charger">>, axp803_set_ac_vhold(vol)) : vol \in Vholds}
                   \cup {Program(<<"charger">>, axp803_set_ac_ihold(cur)) : cur \in {0, 2000}}
                   \cup {Program(<<"charger">>, axp803_set_usb_ihold_bc(cur)) : cur \in Iholds})
      \cup (IF p # "axp2585" THEN {}
            ELSE {Program(<<"charger">>, store_tc_mode(n)) : n \in {0, 3, 4}}
                   \cup {Program(<<"charger">>, store_boost_mode(n)) : n \in {0, 1}})

ChargerPrograms(p, k) ==
    IF ~HasCharger(p) THEN {}
    ELSE {Asks(g, VbusHold, 4400) :
            g \in UNION {Probes(<<"charger">>, init \o set_usb_vhold(p, 4400) \o set_chg_cur(p, 450),
                                IrqsOf(p, "charger"), <<>>) :
                           init \in charger_inits(p, ChargerConfig(k), ChipConfig(k))}}
           \cup Removes(<<"charger">>, IrqsOf(p, "charger")) \cup LimitPrograms(p)
-----------------------------------------------------------------------------
(* The regulators: each one's voltage at the ends of its range, its switch,   *)
(* and the files of the buck converters that have them.                       *)
Ends(r, i, d) ==
    IF HasTable(i)
    THEN {Shifted(Bin(sel), i.shift) : sel \in {0, Len(i.vtable) - 1}}
    ELSE {VolBits(i, i.min), VolBits(i, IF r \in DOMAIN d.upto THEN d.upto[r] ELSE i.max)}

Files(p, r, i) ==
    CASE p \in {"axp22x", "axp233", "axp80x"} /\ i.mode_reg # "none" ->
           {workmode_store(r, i, mode) : mode \in {0, 1}}
             \cup {frequency_store(i, var) : var \in {0, 75, 100}}
      [] p = "axp202" /\ i.mode_reg # "none" ->
           {axp20_workmode_store(r, i, mode) : mode \in {0, 1}}
             \cup {axp20_frequency_store(i, var) : var \in {0, 1350, 1875}}
      [] OTHER -> {}

RailPrograms(p) ==
    LET d == InitData(p)
        steps(r, i) ==
            {axp_enable(r, i), axp_disable(r, i)} \cup Files(p, r, i)
              \cup IF r \in d.switches THEN {} ELSE {axp_set_voltage(r, i, b) : b \in Ends(r, i, d)}
    IN  UNION {{Program(<<r>>, s) : s \in steps(r, Info(p)[r])} : r \in DOMAIN Info(p) \ d.fixed}

(* axp*_regulator_probe; the AXP152's suspend and resume.                     *)
RailDevicePrograms(p) ==
    {Program(<<"rails">>, s) :
       s \in CASE p \in {"axp22x", "axp233"} -> {axp22x_regulator_probe(save) : save \in BOOLEAN}
               [] p = "axp803" -> {axp803_regulator_probe}
               [] p = "axp152" -> {axp152_regulator_suspend, axp152_regulator_resume}
               [] OTHER -> {}}
-----------------------------------------------------------------------------
(* The pins.  pinctrl asks for a direction, gpiolib for a level, whose        *)
(* function is an output; the interrupt functions are called for a pin that   *)
(* another driver requested.  axp_gpio_irq_register writes nothing, so of the *)
(* pins' device only a probe that fails and the removal do.                   *)
PinPrograms(p) ==
    UNION {{Asks(Program(PinItem(g), pmx_set(p, g, mux)), PinItem(g), mux) : mux \in {Mux.in, Mux.out}}
             \cup {Asks(Program(PinItem(g), gpio_set_data(p, g, v)), PinItem(g), Mux.out) : v \in {0, 1}} :
             g \in DOMAIN Pins(p)}
      \cup UNION {{Program(PinItem(g), s) : s \in gpio_irq_switches(p, g)}
                    \cup {Asks(Program(PinItem(g), gpio_set_type(p, g, e)), PinItem(g), Mux.in) :
                            e \in EdgeTypes} : g \in {x \in DOMAIN Pins(p) : HasIrq(p, x)}}
      \cup {Program(<<"pins">>, Each(Reverse(SubSeq(IrqsOf(p, "gpio"), 1, n)), FreeIrq)) :
              n \in 1 .. Len(IrqsOf(p, "gpio"))}
-----------------------------------------------------------------------------
(* The chip driver: VBUS given out on the N_VBUSEN pin, and, with nothing     *)
(* else running, the shutdown and the power off.                              *)
VbusPrograms(p) ==
    {Program(<<"vbus">>, s) :
       s \in CASE p \in {"axp22x", "axp233"} -> {axp22x_usb_vbus_output(b) : b \in BOOLEAN}
               [] p = "axp803" -> {axp803_usb_vbus_output(b) : b \in BOOLEAN}
               [] p = "axp2585" -> {axp2585_usb_vbus_output(b) : b \in BOOLEAN}
               [] OTHER -> {}}

PowerConfigs ==
    {[power_start |-> n, bat_unused |-> n, pwroff_vol |-> v] : n \in {0, 1}, v \in {0, 2600, 3300}}
OffPrograms(p, b) ==
    {Program(<<"off">>, s) :
       s \in CASE p \in {"axp22x", "axp233"} -> {axp22x_power_off(b, c) : c \in PowerConfigs}
               [] p = "axp803" -> {axp803_power_off(b, c) : c \in PowerConfigs}
               [] p = "axp202" -> {axp202_power_off(b, c) : c \in PowerConfigs}
               [] p = "axp152" -> {axp152_power_off}
               [] p = "axp80x" -> {axp80x_power_off}
               [] p = "axp15060" -> {axp15060_power_off}
               [] OTHER -> {axp2585_shutdown \o axp2585_power_off}}

InitProgram(p, k) == Program(<<"chip">>, init_chip(p, ChipConfig(k)))
Callable == [p \in Chips |-> [k \in 1 .. 4 |->
    {g \in KeyPrograms(p, k) \cup ChargerPrograms(p, k) \cup RailPrograms(p)
             \cup RailDevicePrograms(p) \cup PinPrograms(p) \cup VbusPrograms(p)
             \cup (IF p = "axp152" THEN {InitProgram(p, k)} ELSE {}) : g.steps # <<>>}]]
-----------------------------------------------------------------------------
(* What must be told apart from a loss: two items that are one field, or that *)
(* the chip puts on one pin.  A pin is an LDO or a GPIO; dc1sw is a switch    *)
(* behind dcdc1; two of the AXP15060's outputs have the voltage of another;   *)
(* the AXP803's pin 3 is N_VBUSEN.                                            *)
Twins(p) ==
    CASE p \in {"axp22x", "axp233", "axp803"} ->
           {{<<"ldoio0", "state">>, PinItem(0)}, {<<"ldoio1", "state">>, PinItem(1)},
            {<<"chip", "vbusen">>, PinItem(3)}, {<<"dcdc1", "voltage">>, <<"dc1sw", "voltage">>}}
      [] p = "axp202" -> {{<<"ldoio0", "state">>, PinItem(0)}}
      [] p = "axp152" -> {{<<"gpioldo", "state">>, PinItem(2)}}
      [] p = "axp15060" ->
           {{<<"ldoio1", "state">>, PinItem(1)}, {<<"ldoio2", "state">>, PinItem(2)},
            {<<"cldo3", "voltage">>, <<"ldoio1", "voltage">>},
            {<<"cldo4", "voltage">>, <<"ldoio2", "voltage">>},
            {<<"dcdc1", "voltage">>, <<"dc1sw", "voltage">>}}
      [] OTHER -> {}

(* A device that writes a whole register may do so over what it set itself    *)
(* there, or go on to set it; power off ends everything.                      *)
Supersedes(p, s, j, bits) ==
    \/ Byte \in {s.mask, bits} /\ s.item[1] = j[1]
    \/ {s.item, j} \in Twins(p)
    \/ s.item[1] = "off"

(* What a step that writes claims for its item; the second half of an         *)
(* unlocked read-modify-write.                                               *)
Claim(s) == [reg |-> s.reg, bits |-> s.mask \cup s.val, val |-> s.val]
Copies(s) == s.how = "write" /\ s.mask # Byte

Shows(b, m) == b[m.reg] \cap m.bits = m.val
RegsOf(g) == {s.reg : s \in ToSet(g.steps)}
Registers(p, k) ==
    (UNION {RegsOf(g) : g \in Callable[p][k] \cup {InitProgram(p, k)}})
      \cup {"00", "01", "0f", "10", "14", "17", "31", "32", "b9"}
-----------------------------------------------------------------------------
(* The drivers' tables of registers and masks, looked at without running       *)
(* anything.  Steps of one configuration that set different items claim        *)
(* different bits, or one supersedes the other.                              *)
StepsOf(p, k) ==
    (UNION {ToSet(g.steps) : g \in Callable[p][k] \cup {InitProgram(p, k)}})
      \cup (IF p = "axp2585" THEN ToSet(axp2585_shutdown) ELSE {})

MasksApart ==
    \A p \in Chips, k \in 1 .. 4 :
        \A s, t \in StepsOf(p, k) :
            s.reg = t.reg /\ s.item # t.item /\ Claim(s).bits \cap Claim(t).bits # {}
              => Supersedes(p, s, t.item, Claim(t).bits)

(* The items that can be undone: what another device may set between the two  *)
(* halves of a read-modify-write of their register.                           *)
InKeyRegisters == {Chg("chgled_func"), Chg("batdet"), Chg("por_time")}
MayBeLost(i) == i[1] = "irq" \/ i \in InKeyRegisters

StepsBy(p, k, a) == UNION {ToSet(g.steps) : g \in {h \in Callable[p][k] : h.actor = a}}

CopiesKnown ==
    \A p \in Chips, k \in 1 .. 4 :
        LET actors == {g.actor : g \in Callable[p][k]}
        IN  \A a \in actors : \A s \in {x \in StepsBy(p, k, a) : Copies(x)} :
              \A b \in actors \ {a} : \A t \in StepsBy(p, k, b) :
                 s.reg = t.reg /\ s.item # t.item /\ Claim(s).bits \cap Claim(t).bits = {}
                   => MayBeLost(t.item)

(* A write back has its read right before it. *)
ReadOf(s) == Step("read", s.item, s.reg, s.val, s.mask)
Paired(steps) ==
    \A n \in 2 .. Len(steps) :
        Copies(steps[n]) => steps[n - 1] = ReadOf(steps[n])

ProgramsPaired ==
    \A p \in Chips, k \in 1 .. 4 : \A g \in Callable[p][k] \cup {InitProgram(p, k)} :
        /\ DOMAIN g = {"actor", "steps", "asks"}
        /\ g.steps \in Seq(ToSet(g.steps)) \ {<<>>}
        /\ ~Copies(Head(g.steps)) /\ Paired(g.steps)
-----------------------------------------------------------------------------
(* What the calls are to bring about.  An item that can be read back: a pin's  *)
(* direction, the supply voltage.  Only one device's calls set it, and none    *)
(* of them without saying as what.                                            *)
Readable(p) ==
    {PinItem(g) : g \in DOMAIN Pins(p)} \cup (IF p = "axp2585" THEN {} ELSE {VbusHold})
SetBy(i) == IF i = VbusHold THEN <<"charger">> ELSE i
SetsItem(s, i) == s.item = i /\ s.how # "read"

(* The register it is in. *)
ReadFrom(p, i) ==
    CASE i = VbusHold -> IF p \in {"axp22x", "axp233", "axp803", "axp202"} THEN "30" ELSE "11"
      [] i # VbusHold /\ p \in {"axp22x", "axp233"} -> axp22x_cfg[i[2]]
      [] i # VbusHold /\ p = "axp803" -> IF i[2] \in {0, 1} THEN axp22x_cfg[i[2]] ELSE "8f"
      [] i # VbusHold /\ p = "axp202" -> axp20_cfg[i[2]]
      [] i # VbusHold /\ p = "axp152" -> axp152_cfg[i[2]]
      [] i # VbusHold /\ p = "axp80x" -> "35"
      [] OTHER -> IF i[2] = 1 THEN "2b" ELSE "2c"

ReadsAs(p, i, b, v) ==
    IF i = VbusHold THEN get_usb_vhold(p, b) = 100 * (v \div 100)
    ELSE pmx_get(p, b, i[2]) \in {v, ENXIO}

(* A limit of 0 is none. *)
NoLimit(i, v) == i = VbusHold /\ v = 0

(* Whatever else is in the register, what is claimed reads back as v. *)
Answers(p, i, m, v) ==
    NoLimit(i, v) \/
       /\ m.reg = ReadFrom(p, i) /\ m.bits \subseteq Byte
       /\ \A b \in SUBSET Byte :
            b \cap m.bits = m.val => ReadsAs(p, i, [r \in {m.reg} |-> b], v)

(* The last of the steps that set i does so as v. *)
Brings(p, steps, i, v) ==
    NoLimit(i, v) \/
       \E n \in 1 .. Len(steps) :
          /\ SetsItem(steps[n], i) /\ Answers(p, i, Claim(steps[n]), v)
          /\ \A m \in n + 1 .. Len(steps) : ~SetsItem(steps[m], i)

LeavesAlone(steps, i) == \A n \in 1 .. Len(steps) : ~SetsItem(steps[n], i)

AsksBrought ==
    \A p \in Chips, k \in 1 .. 4 :
        \A g \in Callable[p][k] \cup {InitProgram(p, k)}, i \in Readable(p) :
            IF i \in DOMAIN g.asks
            THEN g.actor = SetBy(i) /\ Brings(p, g.steps, i, g.asks[i])
            ELSE LeavesAlone(g.steps, i)
=============================================================================
