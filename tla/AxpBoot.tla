------------------------------ MODULE AxpBoot ------------------------------
(***************************************************************************)
(* The boot of a board with one PMIC, or with two (CONFIG_DUAL_AXP_USED).  *)
(* The initcalls register the drivers level by level.  A PMIC is probed    *)
(* when its bus and its driver are both there; its probe adds the cells    *)
(* before it registers the interrupts, so that a cell whose driver is      *)
(* already registered is probed with irq_data still NULL, while            *)
(* axp_request_irq reads irq_data->irqs before it tests irq_data.  Only    *)
(* the initcall levels of the drivers keep the two apart.                  *)
(*                                                                         *)
(* Everything runs in the one thread that runs the initcalls, so that a    *)
(* probe is the list of its steps.  `bus` is the level of the driver of    *)
(* the I2C adapter (of the RSB bridge for the AXP80x), which is not part   *)
(* of this repository.                                                     *)
(***************************************************************************)
EXTENDS AxpPmics, FiniteSets, SequencesExt

CONSTANT Boards  \* the boards: the PMICs in the order of their device-tree nodes

(* arch, subsys, subsys_sync, fs, fs_sync, device (module_init) and late.    *)
Levels == 1 .. 7

Chips == {"axp22x", "axp803", "axp80x", "axp15060", "axp152", "axp202", "axp2585"}
Slaves == {"axp152", "axp15060"}  \* with pmu_as_slave

ASSUME BootAssumption ==
    \A b \in Boards : b \in Seq(Chips) /\ Len(b) \in 1 .. 2 /\ IsInjective(b)

(* The last level of the bus that keeps the probes of the cells that request  *)
(* interrupts, and for the AXP202 of all cells, behind that of the PMIC.      *)
LatestBus ==
    [axp22x |-> 3, axp803 |-> 3, axp80x |-> 5, axp15060 |-> 5, axp152 |-> 6,
     axp202 |-> 1, axp2585 |-> 6]

Cells(c) == CASE c = "axp22x"   -> axp22x_cells
              [] c = "axp803"   -> axp803_cells
              [] c = "axp80x"   -> axp80x_cells
              [] c = "axp15060" -> axp15060_cells
              [] c = "axp152"   -> axp152_cells
              [] c = "axp202"   -> axp202_cells
              [] c = "axp2585"  -> axp2585_cells

(* A cell asks for its interrupts in its probe, except the regulators of the  *)
(* AXP15060, whose interrupts nobody asks for.                                *)
Irqs(c, name) ==
    IF name = "regulator" THEN {}
    ELSE UNION {Range(Cells(c)[i].irqs) : i \in {j \in DOMAIN Cells(c) : Cells(c)[j].name = name}}

(* The drivers: of the bus, of a PMIC, of one of its cells.                   *)
Driver(c, name) == [chip |-> c, name |-> name]
Bus == Driver("bus", "bus")

(* The second charger level is the one that is commented out beside it.      *)
initcall_charger_early(c) == 5
initcall_chip(c) == IF c = "axp152" THEN 1 ELSE IF c \in {"axp22x", "axp803"} THEN 3 ELSE 2
initcall_regulator == 2
initcall_gpio(c) == IF c = "axp152" THEN 7 ELSE 4
initcall_charger(c) == IF c = "axp2585" THEN 7 ELSE 5
initcall_powerkey(c) == IF c \in {"axp152", "axp2585"} THEN 7 ELSE 6

initcall_level(d) == CASE d.name = "chip"      -> initcall_chip(d.chip)
                       [] d.name = "regulator" -> initcall_regulator
                       [] d.name = "gpio"      -> initcall_gpio(d.chip)
                       [] d.name = "charger"   -> initcall_charger(d.chip)
                       [] d.name = "powerkey"  -> initcall_powerkey(d.chip)
-----------------------------------------------------------------------------
VARIABLES
  board, bus, slaves,      \* the PMICs, the level of the bus, the PMICs with pmu_as_slave
  level, registered,       \* the initcall level and the drivers
  todo,                    \* the steps of the probes that are under way
  devices, bound, asked,   \* the cells, those with a driver, the interrupts asked for
  drvdata, irq_data,       \* the PMICs whose drvdata, whose irq_data is there
  axp_dev_list, axp_dev_register_count,
  lines,                   \* the PMICs whose registration has requested the line
  pm_power_off, ap_ops,    \* whose function the power-off is; the operations by number
  faults                   \* the steps that have gone through a NULL pointer
vars == <<board, bus, slaves, level, registered, todo, devices, bound, asked, drvdata, irq_data,
          axp_dev_list, axp_dev_register_count, lines, pm_power_off, ap_ops, faults>>
fixed == <<board, bus, slaves>>

Dual == Len(board) = 2
Drivers == {Bus} \cup UNION {{Driver(c, "chip")} \cup {Driver(c, d.name) : d \in Range(Cells(c))}
                             : c \in Range(board)}
LevelOf(d) == IF d = Bus THEN bus ELSE initcall_level(d)

Init == /\ board \in Boards
        /\ bus \in {b \in Levels : \A c \in Range(board) : b <= LatestBus[c]}
        /\ slaves \in SUBSET (Slaves \cap Range(board))
        /\ level = 1 /\ registered = {} /\ todo = <<>>
        /\ devices = {} /\ bound = {} /\ asked = {}
        /\ drvdata = {} /\ irq_data = {} /\ axp_dev_list = <<>> /\ axp_dev_register_count = 0
        /\ lines = {} /\ pm_power_off = "none" /\ ap_ops = [i \in 1 .. Len(board) |-> "none"]
        /\ faults = {}

(* axp_get_pmu_num: the number of the last node that this driver can drive.   *)
axp_get_pmu_num(c) == CHOOSE i \in DOMAIN board : board[i] = c

(* axp_irq_chip_register, once the interrupts of the PMIC are off.  With two   *)
(* PMICs only the first requests the line, for both: axp_irq_work_func walks   *)
(* the whole list.                                                            *)
axp_irq_chip_register(c) ==
    /\ irq_data' = irq_data \cup {c}
    /\ lines' = IF Dual /\ axp_dev_register_count # 1 THEN lines ELSE lines \cup {c}
    /\ UNCHANGED <<devices, bound, asked, drvdata, axp_dev_list, axp_dev_register_count,
                   pm_power_off, ap_ops, faults>>

(* A PMIC that is not counted.                                                *)
axp_mfd_list_uncounted(c) ==
    /\ drvdata' = drvdata \cup {c}
    /\ axp_dev_list' = <<c>> \o axp_dev_list
    /\ UNCHANGED <<devices, bound, asked, irq_data, axp_dev_register_count, lines,
                   pm_power_off, ap_ops, faults>>

(* The end of axp_mfd_add_devices, when every cell is there.                  *)
axp_mfd_list(c) ==
    /\ drvdata' = drvdata \cup {c}
    /\ axp_dev_list' = <<c>> \o axp_dev_list
    /\ axp_dev_register_count' = axp_dev_register_count + 1
    /\ UNCHANGED <<devices, bound, asked, irq_data, lines, pm_power_off, ap_ops, faults>>

axp_platform_ops_set(c) == [ap_ops EXCEPT ![axp_get_pmu_num(c)] = c]

(* The part of the probe before the cells: i2c_set_clientdata, which the      *)
(* AXP202 lacks, and the operations of the AXP22x and AXP803.                 *)
SetDrvdata(c) ==
    /\ drvdata' = IF c = "axp202" THEN drvdata ELSE drvdata \cup {c}
    /\ ap_ops' = IF c \in {"axp22x", "axp803"} THEN axp_platform_ops_set(c) ELSE ap_ops
    /\ UNCHANGED <<devices, bound, asked, irq_data, axp_dev_list, axp_dev_register_count,
                   lines, pm_power_off, faults>>

(* The part of the probe behind the interrupts: the first PMIC that is not a   *)
(* slave gets the power-off, except the AXP2585, and the others install their  *)
(* operations now.                                                            *)
SlavePowersOff(c) == c # "axp2585"
PowersOff(c) == c # "axp2585" /\ c \notin slaves
SetPowerOff(c) ==
    /\ pm_power_off' = IF PowersOff(c) /\ pm_power_off = "none" THEN c ELSE pm_power_off
    /\ ap_ops' = IF c \in {"axp22x", "axp803"} THEN ap_ops ELSE axp_platform_ops_set(c)
    /\ UNCHANGED <<devices, bound, asked, drvdata, irq_data, axp_dev_list,
                   axp_dev_register_count, lines, faults>>

(* The probe of a cell reads the drvdata of the PMIC, and irq_data when it    *)
(* asks for interrupts.  The AXP2585 names no power key when it is one of two *)
(* PMICs; the probe then finds no device-tree node and gives up.              *)
Unnamed(c, name) == Dual /\ c = "axp2585" /\ name = "powerkey"
cell_probe(c, name) ==
    LET null == c \notin drvdata \/ (Irqs(c, name) # {} /\ c \notin irq_data) IN
    /\ faults' = IF null /\ ~ Unnamed(c, name) THEN faults \cup {<<c, name>>} ELSE faults
    /\ bound' = IF null \/ Unnamed(c, name) THEN bound ELSE bound \cup {<<c, name>>}
    /\ asked' = IF null \/ Unnamed(c, name) THEN asked
                ELSE asked \cup {<<c, i>> : i \in Irqs(c, name)}

(* mfd_add_devices registers one cell, which is probed at once if its driver   *)
(* is there; or the driver comes when the cell is there (Initcall).           *)
AddCell(c, name) ==
    /\ devices' = devices \cup {<<c, name>>}
    /\ IF Driver(c, name) \in registered THEN cell_probe(c, name)
       ELSE UNCHANGED <<faults, bound, asked>>
    /\ UNCHANGED <<drvdata, irq_data, axp_dev_list, axp_dev_register_count, lines,
                   pm_power_off, ap_ops>>
ProbeCell(c, name) ==
    /\ cell_probe(c, name)
    /\ UNCHANGED <<devices, drvdata, irq_data, axp_dev_list, axp_dev_register_count, lines,
                   pm_power_off, ap_ops>>

(* axp*_probe: the steps of the probe of a PMIC.                              *)
chip_probe(c) ==
    <<<<"drvdata", c, "chip">>>>
      \o [i \in DOMAIN Cells(c) |-> <<"cell", c, Cells(c)[i].name>>]
      \o <<<<"list", c, "chip">>, <<"irqs", c, "chip">>, <<"power", c, "chip">>>>

(* What the registration of a driver probes: the bus finds the PMICs in the    *)
(* order of their nodes.                                                      *)
OnBus(i) == IF Driver(board[i], "chip") \in registered THEN chip_probe(board[i]) ELSE <<>>
Matched(d) ==
    IF d = Bus THEN (IF Dual THEN OnBus(1) \o OnBus(2) ELSE OnBus(1))
    ELSE IF d.name = "chip" THEN (IF Bus \in registered THEN chip_probe(d.chip) ELSE <<>>)
    ELSE IF <<d.chip, d.name>> \in devices THEN <<<<"probe", d.chip, d.name>>>> ELSE <<>>

(* An initcall of this level.  Within a level the drivers of one PMIC are in   *)
(* the order of the Makefile, which names the PMIC first.                     *)
Waiting == {d \in Drivers \ registered : LevelOf(d) = level}
Initcall(d) ==
    /\ todo = <<>> /\ faults = {} /\ d \in Waiting
    /\ d.name \notin {"chip", "bus"} => Driver(d.chip, "chip") \notin Waiting
    /\ registered' = registered \cup {d}
    /\ todo' = Matched(d)
    /\ UNCHANGED <<fixed, level, devices, bound, asked, drvdata, irq_data, axp_dev_list,
                   axp_dev_register_count, lines, pm_power_off, ap_ops, faults>>
NextLevel ==
    /\ todo = <<>> /\ faults = {} /\ Waiting = {} /\ level < 7
    /\ level' = level + 1
    /\ UNCHANGED <<fixed, registered, todo, devices, bound, asked, drvdata, irq_data, axp_dev_list,
                   axp_dev_register_count, lines, pm_power_off, ap_ops, faults>>

(* The next step of the probes; a NULL pointer ends the boot.                 *)
ProbeStep ==
    /\ todo # <<>> /\ faults = {}
    /\ todo' = Tail(todo)
    /\ LET kind == todo[1][1]
           c    == todo[1][2]
           name == todo[1][3]
       IN  \/ kind = "drvdata" /\ SetDrvdata(c)
           \/ kind = "cell" /\ AddCell(c, name)
           \/ kind = "list" /\ axp_mfd_list(c)
           \/ kind = "irqs" /\ axp_irq_chip_register(c)
           \/ kind = "power" /\ SetPowerOff(c)
           \/ kind = "probe" /\ ProbeCell(c, name)
    /\ UNCHANGED <<fixed, level, registered>>

Booted == level = 7 /\ Waiting = {} /\ todo = <<>>
Stopped == (Booted \/ faults # {}) /\ UNCHANGED vars

Next == (\E d \in Drivers : Initcall(d)) \/ NextLevel \/ ProbeStep \/ Stopped
Spec == Init /\ [][Next]_vars
-----------------------------------------------------------------------------
(* No probe of a cell goes through the irq_data, or the drvdata, of a PMIC     *)
(* that has not set it yet (axp-core.c:753), although mfd_add_devices comes    *)
(* before axp_irq_chip_register in every PMIC's probe.                        *)
CellsFindTheirChip == faults = {}

(* At the end of the boot every PMIC is in the list that the interrupt walks,  *)
(* with its irq_data, its operations are there under its own number, each of   *)
(* its cells has its driver and its interrupts, and the line of the interrupt  *)
(* has been requested: once for both PMICs, or by each for itself.            *)
EachServed ==
    Booted =>
        /\ Range(axp_dev_list) = Range(board) /\ irq_data = Range(board)
        /\ ap_ops = board
        /\ \A cell \in devices :
              \/ Unnamed(cell[1], cell[2])
              \/ cell \in bound /\ \A i \in Irqs(cell[1], cell[2]) : <<cell[1], i>> \in asked
        /\ IF Dual THEN Cardinality(lines) = 1 ELSE lines = Range(board)

(* The board is switched off by a PMIC that has been probed and is no slave,   *)
(* whenever it has one that can switch it off, whichever is probed first.     *)
PowerOffByMaster ==
    Booted => /\ pm_power_off # "none" => pm_power_off \notin slaves
              /\ (\E c \in Range(board) : c \notin slaves \cup {"axp2585"}) => pm_power_off # "none"
=============================================================================
