# AXP PMIC drivers: a TLA+ verification project

The repository is the Linux driver of the X-Powers AXP family of power
management chips (PMICs) as Allwinner kernels ship it: a shared core
(`src/axp-*.c`) and one directory per chip.  This directory holds TLA+ models of
it, TLC configurations that check them on small instances, and theorems that
TLAPS proves for every value of the constants.

Run a check with `tlc -config AxpIrq_edge.cfg MCAxpIrq.tla`, a proof with
`tlapm AxpIrqProofs.tla`.

## 1. The system

| component | state it keeps | operations | talks to |
|---|---|---|---|
| register map, `axp-core.c` 31-556 | PMIC registers; `map->lock` (mutex), `map->spinlock` | `axp_regmap_read/reads/write/writes/set_bits/clr_bits/update` and `_sync` twins | I2C, ARISC or RSB bus below; every other component above |
| interrupt controller, `axp-core.c` 558-859 | `axp_irq_chip_data`: handler table, `irqs_enabled`, lock; `axp_irq_work`; `axp_suspend_flag` | `axp_irq`, `axp_irq_work_func`, `__do_irq`, `axp_irq_chip_register/unregister`, `axp_request_irq`, `axp_free_irq`, `axp_enable_irq`, `axp_disable_irq`, `axp_gpio_irq_register` | register map; handlers of charger, power key, GPIO |
| PMIC list and MFD cells, `axp-core.c` 37-222, 861-1216 | `axp_dev_list`, platform operation tables | `axp_mfd_add_devices/remove_devices`, name tables | probe and remove of each chip |
| charger core, `axp-charger.c` | `axp_charger_dev`: cached battery, AC and USB state; delayed works, timer, three power supplies | monitor work, USB work, timer, eight interrupt handlers, suspend, resume, shutdown, `get_property` | interrupt controller, power-supply class, USB gadget |
| regulator core, `axp-regulator.c` | selector tables | set, get, list voltage; enable, disable; DVM wait; frequency attributes | register map, regulator framework |
| GPIO and pin control, `axp-gpio.c`, `*-gpio.c` | pin functions and levels | direction, get, set, pin configuration, GPIO interrupts | register map, interrupt controller |
| power key, `axp-powerkey.c`, `*-powerkey.c` | input device | short, long, falling, rising handlers | interrupt controller, input layer |
| chip drivers `axp22x`, `axp152`, `axp202`, `axp2585`, `axp2881`, `axp80x`, `axp15060` | voltage tables, saved registers, power-off and DTS settings | probe, remove, suspend, resume, power off, per-chip callbacks | all of the above |
| `axp2601` battery gauge | its own registers and cached gauge state | its own I2C access, delayed work | power-supply class |
| virtual consumers `axp-virtual.c`, debug files `axp-sysfs.c` | requested voltages; selected register | sysfs show and store | regulator framework, register map |

What is hard in it:

* **Interleavings.** Register accesses come from kernel threads, works, and (the
  `_sync` variants) late-shutdown code; a byte is changed by reading it and
  writing it back.  `__do_irq` walks the handler table with no lock while drivers
  change it under `irq_data->lock`.  The charger's works, timer and handlers
  share the cached state, most of it unlocked.
* **Ordering.** Events are latched in write-1-to-clear registers: reading,
  handling and acknowledging them are separate bus transfers, and new events
  arrive in between.  Registration masks, clears, requests the line and
  initialises the work in that order.
* **Failure.** Every transfer can fail.  Results are looked at in the register map
  and mostly ignored above it.
* **Timeouts and timers.** The 850 ms and 2 s USB delays and the 5 s timer of the
  charger race with insertion and removal; the DVM wait has no bound.
* **Suspend and life cycle.** Interrupts in suspend only wake the system; remove
  frees what works may still use; the PMIC keeps its registers over a reboot.

What makes each component correct:

* register map - a locked accessor acts atomically on the register's current
  contents, loses nobody's bits on any path, and always gives its lock back;
* interrupt controller - nothing is acknowledged that was not read, nothing is
  handled that is gone, every enabled event reaches its handler with its data,
  nothing nobody serves can hold the line low;
* charger - what it reports, to the power-supply class and to the USB driver, and
  the current it lets the chip draw settle to what is plugged in, and each supply is
  registered once and unregistered before it is freed;
* regulator - a voltage that was set is the one read back and listed, within the
  range asked for;
* the devices of one PMIC - they share its registers bit by bit: none changes what
  another has set;
* boot - no device is probed before its PMIC can serve it, and in the end each
  interrupt, operation and cell is in place, with one PMIC or two;
* power key - presses and releases reach the input layer in the order they happened.

The hazards of the code, each at its line, are in `PROJECT.json`.

## 2. Plan

In order of importance; "done" means modelled, checked and, where it says so, proved.

| # | module | what | state |
|---|---|---|---|
| 1 | `AxpRegOps`, `AtomicRegs`, `AxpRegmap`, `AxpRegmapProofs` | register map, and the abstract atomic register file it implements | done, proved |
| 2 | `AxpIrq`, `AxpIrqProofs` | interrupt controller over atomic registers, with suspend flag, registration and removal | done, safety proved |
| 3 | `AxpBattery`, `AxpBatteryProofs` | the battery's power supply and its polling, in all contexts of the charger | done, safety proved |
| 4 | `AxpRegulator`, `AxpRegulatorProofs` | regulator core: conversions, calls on shared registers, waiting for ramps | done, proved |
| 5 | `AxpUsb`, `AxpUsbProofs` | the USB side of the charger core: detection, the 850 ms work, the timer, current limits | done, proved |
| 6 | `AxpTables`, `AxpSettings`, `AxpRails`, `AxpPins`, `AxpPowerkeys`, `AxpPmics`, `AxpChargers` | what each driver of each PMIC writes, step by step, from its tables and masks | done; what the proofs need of the tables evaluated by TLC |
| 7 | `AxpCalls`, `AxpChip`, `AxpChipProofs`, `AxpReadBackProofs` | composition of these: the calls of all devices of one PMIC, run on its registers | done, proved |
| 8 | `AxpBoot`, `AxpBootProofs` | initcalls, probes, cells, one PMIC or two | done, proved |
| 9 | `AxpPinctrl` | the pin controller's tables | done |
| 10 | `AxpSuspend` | composition of `AxpIrq` and the charger over suspend and resume: is what happened in suspend reported after it? Register save and restore of `axp22x` | planned |
| 11 | `AxpLife` | unbinding and rebinding a PMIC with its cells, two PMICs on one line | planned |

Theorems planned: the safety of `AxpSuspend` and `AxpLife`, for which those of `AxpIrq`
and `AxpBattery` are the lemmas.

Composition: `AxpIrq` treats a register access as one step.  That is what
`AxpRegmapProofs!Refinement` justifies: `AxpRegmap` implements `AtomicRegs`, in
which it is.

## 3. The modules

### AxpRegOps, AtomicRegs, AxpRegmap

A register byte is the set of its 1 bits, so `|`, `&` and `& ~` are `\cup`, `\cap`
and `\`.  `AxpRegOps` has what the accessors do to a byte (`NeedsWrite`,
`Modified`, `Landed`).  `AxpRegmap` has how they do it:

| code | action |
|---|---|
| entry of an accessor | `Call` |
| `mutex_lock(&map->lock)` / `spin_lock_irqsave(&map->spinlock)` | `Lock`; which one is `LockOf` (`CONFIG_AXP_TWI_USED` is the constant `TwiUsed`) |
| `_axp_read`, its error path | `Read`, `ReadFails` |
| `_axp_write`, and its failure with or without effect | `Write` |
| one pass of the loop of `_axp_writes` over blocks of 15, its failure | `WriteChunk`, `WriteChunkFails` |
| `out:` unlock, return | `Return` |

`pc`, `call`, `reg_val`, `done` and `ok` are the thread's position, arguments, local
copy, values already sent, and `ret == 0`.  A plain read takes no lock, as in the
code.  `AtomicRegs` is the promise: each call acts in one step on the contents the
register has then; a block write is weaker (a prefix may be left behind).
`AxpRegmap!AtomicSpec` is the refinement: the call takes effect at its write, or
at its read when no write is needed.

### AxpIrq

`status` and `hwEnable` are the PMIC's latched and enabled events over all status
registers, `edge` a falling edge the host has latched.  `handler`, `data`,
`enabled`, `lock` are the fields of `axp_irq_chip_data`; `flag` is
`axp_suspend_flag`; `queued` says `axp_irq_work` is pending.  `Pins` are the
interrupts of GPIO pins, and `irqchip[p]` is the handler of pin `p`'s client in the
table of the GPIO driver.

| code | action |
|---|---|
| `axp_irq` (own line, or for another device of the shared line) | `HardIrq`, `SharedIrq` |
| `axp_irq_work_func` started by the workqueue | `WorkStart` |
| `__do_irq`: status read; mask; loop; load of `data`; call; write-back | `WorkRead`, `WorkMask`, `WorkNext`, `WorkLoad`, `WorkCall`/`WorkHandled`, `WorkDispatched`/`WorkAck` |
| the handler of a pin (`axp22x_gpio_isr` and its like): table, client, acknowledgement of its own event | `WorkPin`, `WorkPinAck`, `WorkPinGone` |
| `axp_request_irq` etc., one action per assignment | `RequestIrq`, `GpioIrqRegister`, `FreeIrq`, `EnableIrq`, `DisableIrq` |
| probe and remove of a GPIO driver | `GpioIrqRegister`, `GpioAlloc`; `GpioRemove`, `GpioFreeLock`, `FreeIrq` |
| `axp_gpio_irq_request`, `_free`, `_enable`, `_disable` | `PinClient`, `PinIrqEnable`, `PinIrqDisable`: `PinRead` and `PinWrite` of the whole enable register |
| `axp_irq_chip_register` | `ChipMask`, `ChipAck`, `ChipRequest`, `ChipInitWork` |
| `axp_irq_chip_unregister` | `ChipRemove`, `ChipMask`, `ChipRemoveAck` |
| suspend and resume callbacks of the chargers | `Suspend`, `Resume` |

`irqs_enabled |= bit` is a load and a store, since it is one in the code.  The
handler pointer of `__do_irq` is tested and called; whether the call reloads it is
up to the compiler, so `WorkCall` has both outcomes.  After
`axp_irq_chip_unregister` has freed `irq_data`, work still queued runs on freed
memory; `WorkAfterFree` marks that and goes no further.  In the same way a handler that goes
through a table that is not there yet, or no longer, ends at `oops`.

The clients of the pins are outside this code.  What the model takes for granted of them:
one thread uses a pin, it makes one call at a time, and none while the GPIO driver is
being probed or removed.  A transfer of `irq_enable` that fails leaves `regval`
uninitialised, so `PinRead` may deliver anything.

### AxpBattery

`bat_det`, `batt`, `battery_initialized` are fields of the charger device; `pending`
says which delayed works are queued, `canceller` who is inside
`cancel_delayed_work_sync`, `timer` whether `usb_status_timer` is armed.  `battery` and
`latched` are the hardware, `edge`, `queued`, `todo` and `read` what `AxpIrq` has in detail.
`det_valid` is the chip's setting of that name, `storing` who has stored the first of
two detections.

| code | steps (labels of the context) |
|---|---|
| `axp_charging_monitor` | `Monitor`: `m_...` |
| `axp_usb`, as far as it concerns the battery | `Usb`: `u_...` |
| `axp_usb_isr_delayed` | `UsbIn`: `h_...`, `i_...` |
| `axp_charger_update_usb_state` | `TimerFires` |
| `axp_battery_get_property` | `Reader`: `g_...` |
| `axp_irq`, `__do_irq` | `HardIrq`, `Begin`, `Dispatch`, `Acknowledge` |
| `axp_capchange` | `CapChange`: `c_...` |
| `axp_change`, `axp_usbac_in`, `axp_usbac_out` | `Change`: `h_...`; `UsbAcIn`: `i_...`; `SetTimer` |
| suspend, shutdown, resume | `SuspendOrShutdown`: `s_...`; `Resume`: `r_...` |
| `axp_power_supply_unregister` | `Remove`: `x_...` |

`axp_charger_update_state` is a read, `ReadDet`, and one or two stores, `FirstStore` and
`StoreDet`: between the register read and the assignment anything may happen, and no lock
covers both.  Where `det_valid` is 1 (AXP22x, AXP2585, AXP2881) and a charger is plugged in, 0
is stored first, then what the battery's own bits say (`axp-charger.c:220`); the two are under
`charger_lock`, which nobody takes to test `bat_det`.  Any of its passes may do so, because
the charger's plug is not modelled here.  A failing read leaves `val` uninitialised, so
any value is stored.  `cancel_delayed_work_sync` is two steps
as well: from the first on the work cannot be queued, at the second it does not run.
A use of `batt` that is not a registered supply sends its context to `oops`.

`Trigger` is the interrupt line.  On an edge-triggered one, which the device-tree samples
configure (`axp2585.dtsi:5`), `axp_irq` runs once when the line goes low; what is latched
while it is low makes no new edge, and an edge in suspend is used up.

`SleepSuffices` is one assumption about time: `axp_charger_update_state` begins with
`msleep(10)`, and `axp_capchange` needs only a few statements after it has scheduled the
monitor, so the monitor's read comes after them.

`MCAxpBattery` starts the module from three set-ups in one state space: a context that a
set-up leaves out is "off" from the start.  The set-up with suspend and resume is that of
a chip with one store (the AXP202), the two others that of one with two.

### AxpVoltages, AxpRegulator

The conversions are in `AxpVoltages`, which the tables and rails below use too.
A register is again the set of its 1 bits, voltages are in mV as in the chips'
tables.  `info[r]` has the fields of `struct axp_regulator_info` the calls use.

| code | definition |
|---|---|
| `axp_set_voltage`: selector, byte written | `Selector`, `VolBits` |
| `axp_get_voltage`, `axp_list_voltage` | `Voltage`, `Listed` |
| `axp_set_voltage` to its update; the check and wait for a ramp; a failed read | `SetVoltage`; `DvmCheck`, `DvmWait`; `DvmReadFails` |
| `axp_set_voltage_sel`, `axp_get_voltage_sel` | `SetVoltageSel`, `SelOf` |
| `axp_enable`, `axp_disable`, `axp_is_enabled` | `Switch`, `IsEnabled`; `Rtc` are the regulators with "rtc" in their name |

The regulator framework holds a regulator's mutex over a call, so there is one call at a time
on each regulator, and calls on different ones interleave.  `axp_regmap_update` is one
step (`AxpRegmap`); a failed one may or may not have reached the PMIC.  The PMIC's
part (external): writing another selector while the ramp is enabled clears bit 7, and
`RampEnds` sets it.  `InfoAssumption` states what the properties need of a table;
the tables of the AXP22x, AXP152, AXP202, AXP803, AXP80x and AXP15060 satisfy it for the
regulators whose voltage or status may be changed.  `Writes` is part of it: two
regulators with a voltage wider than its field (see below) spill into bits no
enable field uses.

### AxpUsb

The contexts are the interrupt work, `axp_usb_isr_delayed`, `axp_usb`, whoever polls
(the monitor, a reader of the battery's `ONLINE`), and whoever calls the exported `axp_usb_det`.  `plug` is what is at the end of the
cable; `det`, `charging`, `axp_usb_connect`, `axp_usbcurflag` and `limit` are what the
code makes of it: the detection bits, the three flags user space sees, what
the USB driver sees, the kind of port, and the limit in the PMIC.

| code | steps |
|---|---|
| `axp_charger_update_state` | `ReadState`, `StoreState` |
| `axp_usb_in_isr`, `axp_usb_out_isr`, with `axp_change`, `axp_usbac_in`, `axp_usbac_out` | `IrqWork` and the definitions of these names |
| `axp_usb_isr_delayed`, the BC 1.2 result | `axp_usb_isr_delayed`, `GetBcResult` |
| `axp_usb`: the decision, the write of the limit | `DecideLimit`, `LimitFor` |
| `usb_status_timer` | `axp_charger_update_usb_state` |
| `axp_usb_det`: the read of the status, the store of `axp_usb_connect` | `axp2585_usb_det` |

`Move` is the cable.  `hasty` remembers that it last moved before the move before had been
handled, `raced` that it was last pulled between the read and the store of an
`axp_usb_det`.

### The registers of a PMIC: AxpSettings to AxpChip

A call of a driver is a sequence of `Step`s, each one access of the register map, and
each step says which item it sets, for example `<<"irq", 37>>` or `<<"key", "off_time">>`.
`axp_regmap_update` and its kin are one step (the refinement above), a read followed by a
write is two with a copy in between.

| module | code |
|---|---|
| `AxpTables` | the regulator tables and their init data, by the macros of `axp-regulator.h` |
| `AxpRails` | `axp_set_voltage`, `axp_enable`, the sysfs attributes, the regulator probes |
| `AxpPins` | direction, level, edge and interrupt of each PMIC's pins |
| `AxpPowerkeys` | the power key probes: interrupts requested, times set |
| `AxpPmics` | the chip drivers: initialisation, VBUS output, power off, cells and their interrupts |
| `AxpChargers` | the charger callbacks and initialisations |
| `AxpCalls` | all calls of all devices of a PMIC, each a program of such steps, and what is to be brought about by it (`asks`); constants only |

`AxpChip` runs the programs against each other.  `Start` takes any call of any cell of the
PMIC that its tables and configuration allow (`Callable`), `Read`, `Locked` and `WriteBack`
take its next step.  `made` records for every item what was last written for it and
where, `lost` the items a stale copy has undone since, `asked` what the caller asked
for; a step keeps of `made` what it does not supersede (`Kept`) and, if it writes a copy
that is out of date, undoes part of that (`Stale`).  `PowerOff` is the last call.

`AxpCalls` also states what keeps the devices apart, as facts about its tables that say
nothing of runs: `MasksApart` (steps that set different items have disjoint bits, or one
supersedes the other), `CopiesKnown` (what may change between the halves of an
unlocked read-modify-write), `ProgramsPaired`, `AsksBrought`, `FieldsSuffice`.

### AxpBoot

`todo` is what remains of the probes the current initcall has started: everything runs in
one thread.  `ProbeStep` is the next of them: the PMIC's own (`drvdata`, the cells, the
list, the interrupts, power off, in the order of its driver) or that of a cell, which is
run at once when its driver is already registered and by the driver's initcall
otherwise.  `faults` names the cells that have gone through a `NULL` pointer.

### AxpPinctrl

`axp_pinctrl_build_state` loop by loop (`AddFunction`, `Shrink`, `AddGroup`), `Register`, and the
two ways a function is chosen.  An entry past the array allocated first ends in
stage `"outside"`.

### Slips

Definitions whose comment begins with "Slip" are plausible mistakes in the
definition that follows them.  No specification uses them; each property has one
that it catches, and `PROJECT.json` ("mutants") pairs them.

## 4. The runs

| run | question | bounds |
|---|---|---|
| `regmap_mutex` | Do accessors lose updates, leave a lock behind, or report success for what is not there? Do they implement the atomic register file, and return? | 2 threads, 3 registers of 2 bits, every kind of accessor plain or `_sync` on overlapping registers, transfers of 2 values so that a write of 3 takes two |
| `irq_edge` | Is every enabled event served once there has been an edge, also one latched while the work is busy with others? Does an edge in suspend wake the system? | 2 status registers of 1 bit, a driver on each, which requests, enables and disables; edge-triggered line; no bus failures |
| `irq_unbind` | Can an event nobody serves hold the line? Is a handler called for a gone event, a driver's bit lost? Is what has been freed masked? With requests, frees, a GPIO driver and its client side by side, then removal of the PMIC | 2 registers of 2 bits: a driver and a pin in the first, a driver in the second beside an event nobody handles; level-triggered line (its edge means nothing to safety); no bus failures; `WideBounds` |
| `irq_busfail` | Is an event that was not read acknowledged, or a handler called without its data, when any transfer may fail and a failed status read delivers anything? | 2 registers of 1 bit, one driver, which requests, enables and disables; removal |
| `irq_register` | Does registration clear what is pending, as its comment says? It does not (finding below) | registers as `irq_unbind`, no pins |
| `battery_handlers` | With the battery plugged and pulled at any moment and reads that fail: is it registered once, used only while registered, and polled? | interrupt work, monitor, delayed USB handler; battery in at boot; two stores of each detection; level-triggered line, on which events are served in more orders |
| `battery_setups` | Three set-ups side by side. Do stale detections last, and does `axp_capchange` get through its cancellations? Does a boot without battery, and without interrupts, find an inserted one, and is removal of the driver quiet? Does suspend stop every poll, and resume start it again? | interrupt work, monitor, USB work, a reader; monitor, USB work, reader, removal; interrupt work, monitor, USB work, suspend and resume with the battery in; one store of each detection in the last, two in the others; edge-triggered line; no failures |
| `regulator_calls` | Do voltages read back and list as they were set, are enables kept, is a ramp waited for, do calls end? | LDO2 and LDO4 of the AXP202 (shared registers, one with a table), DCDC2 of the AXP803 (two steps, ramp); requests below, in, between and above the range; any transfer may fail; `RangesHeld` and `VoltagesApart`, the hypotheses of `ReadingBack`, are evaluated |
| `chip_cells` | Does a driver reach into what another has set? Does an unlocked read-modify-write undo more than is known? Is what is read back what was asked for? | all eight PMICs; four configurations; after the chip's initialisation two calls, the second any that shares a register with the first, interleaved step by step |
| `usb` | Do `axp_usb_connect`, what user space sees and the current limit settle to what is plugged in? | nothing, a computer's port, a charger or another port; three moves at any moment, and `axp_usb_det` called at any; with and without battery, inputs in short or not |
| `boot` | Is a cell probed before its PMIC is ready? Is everything served in the end? Who powers off? Are the facts about the drivers' tables true that the proofs about `AxpChip` use (`TablesAssumption`)? | each of seven PMICs alone and each ordered pair, as slave or not, buses at every level their drivers allow |
| `pins_register` | Are there never more functions than pins, as a comment supposes? There are (finding below) | six PMICs |

Why the bounds are enough.  In `AxpRegmap` threads interact only through one
register's byte and the locks; two threads with one register in common, and a
block write that overlaps it and needs a second transfer, give every
interleaving of two critical sections, and the theorems remove the bounds.  In
`AxpIrq` two status registers give a first and a last pass of each loop over
registers; two bits give a lower and a higher interrupt in one register; an
event may come again any number of times, so nothing is cut off in time.  In
`AxpBattery` a run has the contexts its question is about; all of them at once is
out of reach, and two that share nothing but `bat_det` (a reader and the USB work,
say) differ only in what they do with it.  In `AxpUsb` two moves set up a stale
context and the third is what it is stale about; the theorems hold for any number.
In `AxpChip` a fault is between a call and what an earlier one has set, so two calls
show it; the theorems remove this bound.  `AxpPinctrl` is finite as it is, and `boot`
takes every value of `Boards` that `BootAssumption` allows.
No run has the two locks of a build without `CONFIG_AXP_TWI_USED`: the theorems do.  In `AxpRegulator` two regulators in the
same registers are the worst case for each other; the selectors are those at the ends
and around the step, and the theorems cover all others.

Only `irq_unbind` has a state constraint, `WideBounds`: the system is awake (`irq_edge` has
suspend), at most two events are latched and event 3 does not occur, at most two of the
three drivers hold or are requesting their interrupt at a time, at most two of the drivers
and the work are in the middle of something, and nothing is followed past a NULL call of
the work (`wpc = "oops"`).  What one driver or pin does to another needs two of them, what
the work meets in the tables one of them and the work, and an event that is lost or not
masked needs itself and one more that is being served.  The same properties are theorems without it.

Deadlock is checked except where the system really may stop: in `irq_unbind` and
`irq_busfail` the PMIC driver may be removed, and then nothing moves once every
event is latched; in `battery_setups` a system in suspend whose only edge is used up has
nothing left to do until it is resumed, and after shutdown there is nothing.

### Fairness

* `AxpRegmap`: an I2C transfer ends, with an error at the latest when the adapter
  times out, so `Step` is weakly fair.  A kernel mutex hands itself over to its
  waiters, so `Lock` is strongly fair.  Nobody has to make a call.
* `AxpIrq`: for an edge-triggered line.  The processor takes an edge it has latched
  (`HardIrq`), the workqueue runs what is queued and handlers return (`Work`), a
  driver inside a call and the PMIC driver's probe go on (`DriverStep`, `Chip`).
  Events, calls, suspend, resume and removal are not forced.  On a level-triggered
  line nothing would justify the fairness of `Work`: `axp_irq` neither masks nor acknowledges
  the line, so it would be entered again at once.
* `AxpBattery`: works that are queued run, an armed timer expires, a latched edge is
  taken, and a context inside a call goes on.  A context that takes
  `charger_lock` gets it in the end, although others take it again and again: mutexes
  are handed to their waiters, and each holder waits on nothing while it has it.  So does
  one that waits in `cancel_delayed_work_sync`.  These are the strong fairness
  conditions.  The battery, readers, suspend and removal are not forced.
  `DetectionSettles` and `LateIsRegistered` are conditional on the battery moving no more.
* `AxpRegulator`: a call goes on (`DvmCheck`, `DvmWait`) and a ramp ends
  (`RampEnds`).  Bus failures are not forced, so `CallsEnd` does not rest on them.  The
  loop of `axp_set_voltage` has no bound of its own.

### What the code does not do

* `irq_register` (finding): `axp_irq_chip_register` says "disable all irq and clear
  all irq pending" (`axp-core.c:685`) but clears with `axp_regmap_set_bits(.., 0xff)`,
  which writes nothing when all eight bits are already set.
* `pins_register` (finding): "We suppose that we won't have any more functions than pins"
  (`axp-gpio.c:527`), and that many are allocated; the AXP80x has one pin with
  two functions, and the second is written behind the array.
* `axp_capchange` schedules the monitor (`axp-charger.c:959`) before it sets
  `battery_initialized` (961).  Only the `msleep(10)` keeps the
  monitor from registering the battery again and leaving an error pointer in `batt`;
  with `SleepSuffices = FALSE` `RegisteredOnce` does not hold.
* After a boot without battery the monitor already runs when the battery comes in, and
  it and `axp_capchange` may both register it, whatever the `msleep`.  The battery runs
  with the interrupt therefore start with the battery in; the second set-up of
  `battery_setups` has the monitor alone.
* `axp_usb_isr_delayed` is not cancelled by `axp_capchange` and may use a supply that has
  gone; resume reports a battery inserted in suspend through `batt`, which is `NULL`.
  `OnlyRegisteredUsed` is a statement about monitor and interrupt work only.
* `axp_power_supply_unregister` clears `batt` where it means `usb`
  (`axp-charger.c:1281`) and then unregisters `NULL`; with `bat_det` 0 it leaves the
  monitor scheduled.  `RemovedIsQuiet` is a statement about the other path, up to there.
* Where `det_valid` is 1, `axp_charger_update_state` stores 0 in `bat_det` before it may set it to 1
  (`axp-charger.c:221`), and what tests `bat_det` without the lock may act on the 0.  Suspend
  (`:1132`) then leaves the monitor running, resume (`:1156`) does not start it again, and
  `axp_capchange` (`:951`) takes a present battery away.  `PolledExceptAsleep` is therefore a statement
  about `det_valid` 0; with two stores it is false.
* On an edge-triggered line, a battery inserted while the pass that serves its removal runs makes
  no new edge, and `axp_capchange` has just cancelled the monitor (`axp-charger.c:965`): nobody
  registers it until something else pulls the line.  `LateIsRegistered` is about the set-up in which
  no interrupt handler runs.
* `axp_usb_det` (`axp2585.c:140`) may set `axp_usb_connect` after `axp_usb_out_isr` has cleared it:
  it stays 1 with nothing plugged in.  `ConnectFollows` excludes exactly this (`raced`).
* Regulators with two steps round down above the switch voltage (`axp-regulator.c:166`),
  so `axp_set_voltage` may give less than `min_uV`.  `ReadsBack` says so.
* CLDO4 and LDOIO2 of the AXP15060 (700 to 4200 mV in steps of 100, 5 bits:
  `axp15060-regu.c:113`, `:121`) and DCDC4 of the AXP233 (`axp22x-regulator.c:95`, 6 bits)
  have voltages whose selector does not fit; `axp_set_voltage` does not mask it, so
  `ReadsBack` is false for them.  They are all there are (`AxpCalls!FieldsSuffice`): for
  every other regulator of the eight PMICs it is proved.  LDO1, with step 0, would divide by zero at
  `axp-regulator.c:171`; its constraints do not let the framework ask.
* `AxpUsb` needs `~hasty`: after a plug is pulled and put in again before the first move was
  handled, what is reported may stay wrong until the next move.  Without a battery
  nobody corrects the limit (`axp-charger.c:390`), and a computer's port may be left with
  a charger's; `LimitSettles` has `bat_det` in its hypothesis.  A second insertion within the
  850 ms re-initialises pending work (`axp-charger.c:1007`), a context at `oops`, which `Sane`
  leaves out.
* Unlocked read-modify-writes (`OnlyTheseLost`): two pins' interrupts switched at once lose one
  of them, and a power key probe that overlaps a charger's may undo the charger's
  settings in the power key's registers.  At boot the two run one after the other.
* The initcall levels are all that keeps cells from being probed before `irq_data` is
  there.  `AxpBoot!LatestBus` is how late the driver of the bus may come: later
  than that, `CellsFindTheirChip` is false.
* A falling edge lost: with an edge-triggered line (the device-tree samples), an interrupt
  taken in suspend wakes the system but is not served, an event latched after the running
  pass has read the status keeps the line low without a further edge, and so does what a
  pass that finds nothing enabled leaves latched.  `EventServed` is a
  statement about what is latched when there is an edge or the work is queued.
* A level-triggered line is not served at all while it stays low: see the fairness above.
* A pin's handler acknowledges its event itself (`axp22x-gpio.c:366`), and `__do_irq` does so again
  when all handlers have run: an event of the pin latched in between is cleared unserved.
* `irq_enable` and `irq_disable` of a pin write back the enable register they read, without
  `irq_data->lock` (`axp22x-gpio.c:269`, `:288`): a driver's `axp_free_irq` or `axp_request_irq` in between is
  undone.  `FreedIsMasked` has `NoPinBeside` in its hypothesis and is false without it.
* `axp_free_irq` and `axp_gpio_irq_register` race with `__do_irq`, which takes no lock:
  a handler can be called with data `NULL`, or through `NULL`, or after
  `axp_free_irq` has returned.  `HandlerGetsItsData` is a statement about systems in
  which drivers only request, enable and disable and that have no pins; its theorem has
  that hypothesis.  A GPIO driver also frees the table of its clients before its
  interrupts (`axp22x-gpio.c:437`).
* Work queued when the PMIC driver is removed runs on freed memory.
* In a build without `CONFIG_AXP_TWI_USED`, `axp22x` changes `HOTOVER_CTL` both under the
  mutex (`axp22x.c:234`) and under the spinlock (`axp22x.c:289`).  `RegmapAssumption`
  excludes that; it is the side condition under which two locks are safe.

## 5. The proofs

All theorems hold for every value of the constants that satisfies the named
assumptions (`OpsAssumption`, `RegmapAssumption`, `IrqAssumption`, `BatteryAssumption`,
`InfoAssumption`, `InputsAssumption`, `ChipsAssumption`, `ProgramsAssumption`,
`BootAssumption`), which TLC evaluates on the instances, and the hypotheses given below.
Every safety property that a passing run checks is a theorem.

**AxpRegmapProofs.**  The inductive invariant is

    IInv == TypeOK /\ PathOK /\ LockDiscipline /\ CopyIsCurrent /\ PrefixStands /\ SuccessMeansDone

`CopyIsCurrent` alone is not inductive: another thread's write must be excluded,
which needs `LockDiscipline` (who holds which lock) and, for two locks, the
assumption on footprints (`OthersUndisturbed`); `PathOK` says which kinds of call
can be at which label.  `UpdatesSurvive` (no step of a read-modify-write changes a
bit outside its mask) follows from `CopyIsCurrent`.  `Refinement` maps each step to
a step of `AtomicRegs` or a stutter: `Read` maps to `Take` when no write is
needed, which is where `NeedsWrite` matters, and `Write` to `Take` on the current
contents, which is where `CopyIsCurrent` does.

**AxpIrqProofs.**  One invariant per concern, each inductive with `TypeOK`:

| theorem | hypothesis | strengthening |
|---|---|---|
| `AcknowledgesOnlyWhatItRead` | none: any bus failure | `TypeOK` |
| `HandledBeforeAcknowledged` | `BusFails = FALSE` | `PassOK`: what is still to dispatch was read; what a pin's handler clears is that pin's bit only |
| `EnabledBitsKept` | none | `DriverInv`: who holds the lock is inside a call, its copy of `irqs_enabled` is current |
| `OnlyEnabledPull` | `BusFails = FALSE` | `MaskInv`: registers already passed at registration are masked, a driver sets its bit in `enabled` before the one in hardware |
| `HandlersGetTheirData` | no pins, and no driver frees | `DataInv`: a bit in `enabled` means handler and data are there |
| `FreedStaysMasked` | `BusFails = FALSE` | `FreedInv` on top of `DriverInv`: a pin's write-back stays in its own register, where `NoPinBeside` leaves only the pin's own bit |
| `RemovedLeavesLine` | `BusFails = FALSE` | `RemoveInv` on top of `DriverInv`: how far the loop of `axp_irq_chip_unregister` has masked, and that nobody unmasks behind it |

The hypotheses are those of the code: the results of the transfers concerned are
ignored, so with a failing bus the statements are false.

**AxpBatteryProofs.**  `Typing` has no hypothesis.  The other theorems are about three
systems, one for each thing that may happen to the supply; outside them the statements are
false, which the findings explain.

* `NoSecondSupply`, `SupplyOutlivesUse`, `StaysPolled` assume `Usual`: the system was
  probed with its battery, `SleepSuffices`, and neither suspend nor removal is among the
  actors; the other contexts, the interrupts and the results of reads are arbitrary.
  The invariant is `Inv == Shape /\ SupplyInv /\ MonitorInv`: `SupplyInv` says who owns the
  supply, that is, that `battery_initialized` tells whether it is registered except
  between the steps of `axp_capchange`, and `MonitorInv` says where the monitor can be
  meanwhile: stopped while the supply is taken away, stopped or asleep until the new
  supply is announced.  That `axp_capchange` has stopped the monitor for good rests on
  `canceller`: while it waits, the monitor's own `schedule_delayed_work` has no effect.
* `RemovalStopsPolling` assumes `InterruptsFreed`: the chargers' `remove` functions free
  their interrupts before they call `axp_power_supply_unregister`, so that the monitor,
  `axp_usb`, the timer and readers are left, with or without a battery, and any failures.
  `RemovalInv` says which of the works and the timer each step of the removal has got
  rid of, and that the monitor's rescheduling of itself cannot bring it back.
  `axp_usb_isr_delayed`, up to 850 ms late, is excluded: it arms the timer again, and
  the statement is false with it.
* `SuspendStopsPolling` assumes `BatteryStays`: a chip that stores each detection once, probed with
  a battery that is not both removed and inserted, over a bus that works, and no removal
  of the driver.  `SleepInv`
  says that detection keeps finding the battery whoever stores its result, and where
  suspend and resume are with the monitor: between the wait in suspend and the last step
  of resume nothing polls, otherwise something does.

**AxpUsbProofs.**  `ConnectTold`, `StatusShown` and `LimitFollows` have no hypothesis: any
number of moves.  The invariant is

    Inv == Shape /\ (~hasty => Progress /\ Stored /\ Detected /\ Settling)

`Progress` says how far `__do_irq` and `axp_usb_isr_delayed` are with the last move of the
plug, `Stored` that from there on what is read is what is there, `Detected` what charging
detection has found and that the timer is armed while it goes on, `Settling` that a wrong
status or limit has a timer or a work still to come that will correct it.  `QuietHandled`
takes this to the states in which nothing is under way.  There is one lemma per context
(`IrqWorkKeeps`, `DelayedKeeps`, `UsbKeeps`, `PollKeeps`, `UsbDetKeeps`), and the moves themselves.

**AxpRegulatorProofs.**  `TypeOK` is inductive.  `FieldsAsAsked`, from which `Switching` follows for
any set of regulators `Rtc`, and `RampOverOnSuccess` are each inductive with it: a step of one call leaves the enable fields of all other
regulators (`VoltageKeepsEnables`, `RampKeepsEnables`, `SwitchKeepsOthers`) and the ramps
of all other regulators (`RampBitKept`) alone because `InfoAssumption` keeps their fields
apart.  `Conversions` and `Listing` are about the arithmetic: they rest on
the bounds of rounded-up division (`RoundedUpBounds`) and on the switch voltage being a whole
number of first steps (`SwitchSelector`), and hold for every range and pair of steps
with `new_level` 0, which all the tables have (`Listing` without that condition).
`ReadingBack` assumes `RangesHeld` (each selector of a range fits into its field) and
`VoltagesApart` (fields in one register do not overlap).  Its invariant `FieldsHold` says
that a field holds the selector of what was last asked for; that a number is
read from its bits as it was put in comes from its binary digits (`Digits`,
`BitsOfNumber`, `NumberOfBits`), and the voltage it stands for from `Conversions`.
TLC finds `RangesHeld` true of all tables but three rows (`AxpCalls!FieldsSuffice`).

**AxpChipProofs.**  `CellsApart` and `LossesBounded` are about any number of calls, of any of
the devices of any of the eight PMICs, interleaved in any way.  They assume `MasksApart`,
`CopiesKnown` and `ProgramsPaired`, statements about the drivers' tables that TLC evaluates
(`MCAxpBoot!TablesAssumption`): the proofs contribute that nothing else is needed.  The invariant is

    Inv == Types /\ Phases /\ Programmed /\ Claimed /\ Copied

`Phases` says which steps can be left to take: those of the initialisation, those of the
devices, or those of a power off.  `Claimed` connects `made` with the steps of the
tables, so that `MasksApart` applies to what is in the registers.  `Copied` is the
strengthening that the losses rest on: a copy about to be written back differs from
the register only in bits that nothing was claimed in, or in items that may be lost.
The lemmas behind each step are `NoClash`, `FieldStands`, `StaleMayBeLost` and `CopiesKeep`.

**AxpReadBackProofs.**  `AsksReadBack` adds `AsksBrought`: what a call asks for is what the
last of its steps for the item does, and only one device's calls set that item.  The
invariant `Asked` follows a call from its start to its end: what is left of it will
still bring about what was asked for (`WillStand`), other devices leave the item alone
(`OthersLeave`), and when the call is over the claim answers the request (`Stands`).
`PinRead` and `VholdRead` show that reading back depends on one register only, the
one the claim is in, where `CellsApart` says it stands.

**AxpBootProofs.**  The run visits every board already; the proof says why it comes out
as it does.  The invariant is

    Inv == BoardOK /\ Levelled /\ Sequenced /\ Probed /\ Celled /\ Counted /\ Kinds /\ CellsFindTheirChip

`LevelsSuffice` reads the tables: a cell that needs its PMIC at its probe has an initcall
level behind `LatestBus` and not before the PMIC's.  `Levelled` turns that into what
`CellsFindTheirChip` needs (`EarlyIsReady`): when such a driver is registered, the bus
and the PMIC's driver are too.  `Sequenced` is about the steps of the
probes that are left: a cell that is about to be added and needs more than `drvdata` has
no driver yet, and the driver of one that is there is only registered between two
probes of PMICs, when `Probed` says that all the PMIC has to set is set.  `Counted` relates the list, its count and
the line: the first PMIC listed is the one that requests it, because nothing comes
between its place in the list and its interrupts (`InOrder`).

**Only model-checked.**  Liveness (`CallsReturn`, `EventServed`, `SuspendedIrqWakes`,
`LateIsRegistered`, `DetectionSettles`, `CancelsReturn`, `CallsEnd`) is out of the
prover's reach.  What the tables of the drivers contain is evaluated, not proved, except
the tables of cells that `AxpBootProofs` reads: it is data.  `RegisterClearsPending` and
`FunctionsFit` are the findings, which are false.

## 6. What is not modelled

* The bus adapters below `_axp_read` and `_axp_write`: a transfer is one step that
  succeeds or fails.
* Suspend and resume beyond the flag and the charger's works: the registers the AXP22x
  driver saves and restores (`axp22x-regulator.c:422`), and what the charger reports after resume
  of an event that came in suspend.
* What user space asks of a supply besides presence and `ONLINE` (voltages, currents,
  temperature, capacity, health): reads of registers and arithmetic.  It is not all
  without effect: the monitor's `get_rest_cap` may correct the gauge's coulomb counter on the way
  (`axp22x-charger.c:186`, `axp2881-charger.c:269`, `axp2585-charger.c:187`), in registers no other
  device writes.
* The battery model the chargers load (open circuit voltages, resistance, capacity,
  warning levels): tables into registers nothing else writes.
* The probes' error paths after the devices exist (`axp22x-charger.c:670` and its like
  go on to free what they did not get); an initcall that fails.
* Pin control maps and configuration strings, which the pinctrl framework takes
  apart; device-tree parsing, apart from the values it can lead to.
* `axp-virtual.c` and the `virtual*` files: consumers of the regulator framework for
  tests, which ask for what `AxpRegulator` and `AxpChip` let anybody ask for.
* `axp-sysfs.c`: user space reads and writes any register; no statement about
  a register's contents survives that.
* `src/axp2601`: a battery gauge of another generation, with its own copy of every
  helper; the Makefile names its second object where there is no source.
* `src/nmi`: commented out of the Makefile and of every caller.
* Headers copied from other subsystems (`axp_depend.h`, `aw_pm.h`).
* What the plan lists as not done; `PROJECT.json` "components" gives the state of each part.
