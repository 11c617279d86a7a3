------------------------------- MODULE AxpIrq -------------------------------
(***************************************************************************)
(* The interrupt controller of one PMIC (axp-core.c): the PMIC latches       *)
(* events in write-1-to-clear status registers and pulls a line low while    *)
(* an enabled one is latched; the hard handler axp_irq queues axp_irq_work;  *)
(* the work reads the status, calls the drivers' handlers and writes back    *)
(* what it read.  Drivers request and free interrupts meanwhile, the system  *)
(* suspends and resumes, and the PMIC driver is bound and removed.           *)
(*                                                                           *)
(* Each access of __do_irq to the handler table is a step of its own, for    *)
(* it takes no lock; so is each assignment of axp_request_irq, axp_free_irq  *)
(* and axp_gpio_irq_register.  A register access through axp_regmap_* is one *)
(* step: AxpRegmap implements AtomicRegs.                                    *)
(*                                                                           *)
(* The interrupts of GPIO pins (axp22x-gpio.c, axp152-gpio.c, axp2881-gpio.c)*)
(* are Pins: their driver registers them with axp_gpio_irq_register, their   *)
(* handler acknowledges the event itself, and a client of the pin outside    *)
(* this code (axp_gpio_irq_request, _enable, _disable, _free) switches them  *)
(* by a read and a write of the enable register, without irq_data->lock.     *)
(***************************************************************************)
EXTENDS Naturals, FiniteSets

CONSTANTS
    NumRegs,    \* status (and enable) registers: irq_chip->num_regs
    Width,      \* bits of a register: AXP_REG_WIDTH, 8 in the code
    Drivers,    \* the interrupts some driver handles, each by its own thread
    Pins,       \* those of GPIO pins; the thread is also the pin's client
    NoDriver,   \* the owner of the free irq_data->lock
    DriverOps,  \* the calls drivers make
    Trigger,    \* how the host takes the PMIC's line: "level" or "edge"
    WakeupEvent, \* does a PMIC have a wakeup_event (a slave alone has none)?
    BusFails,   \* may an I2C transfer fail?
    MayRemove   \* may the PMIC driver be removed?

NumIrqs == NumRegs * Width
Irqs == 0 .. (NumIrqs - 1)
BitsOf(r) == {i \in Irqs : i \div Width = r}
Null == "NULL"

PinOps == {"gpio", "free", "irq_request", "irq_free", "irq_enable", "irq_disable"}
AllOps == {"request", "enable", "disable"} \cup PinOps

ASSUME IrqAssumption ==
    /\ NumRegs \in Nat \ {0} /\ Width \in Nat \ {0}
    /\ Drivers \subseteq Irqs /\ Pins \subseteq Drivers
    /\ NoDriver \notin Drivers
    /\ DriverOps \subseteq AllOps
    /\ Trigger \in {"level", "edge"}
    /\ WakeupEvent \in BOOLEAN /\ BusFails \in BOOLEAN /\ MayRemove \in BOOLEAN

VARIABLES
    (* the PMIC and the host's interrupt line *)
    status,     \* latched events
    hwEnable,   \* events that may pull the line
    edge,       \* a falling edge the host has latched and not yet taken
    (* axp-core.c's globals *)
    flag,       \* axp_suspend_flag
    queued,     \* axp_irq_work is pending on the workqueue
    (* struct axp_irq_chip_data *)
    chip,       \* how far axp_irq_chip_register / unregister has come
    chipReg,    \* the register its loop is at
    handler,    \* irqs[i].handler : NULL or the driver's isr
    data,       \* irqs[i].data    : NULL or the driver's info
    enabled,    \* irqs_enabled
    lock,       \* irq_data->lock
    (* the drivers *)
    dpc,        \* dpc[d]  : where driver d is in a call
    copy,       \* copy[d] : irqs_enabled as loaded for irqs_enabled |= bit, or
                \*           regval, the enable register as read by irq_enable
    irqchip,    \* irqchip[p] : the handler of pin p's client, or NULL, or no
                \*           table (before the kzalloc of probe, from remove on)
    (* the work: the locals of __do_irq *)
    wpc,        \* where it is
    reg_val,    \* the status it read
    irqs,       \* what it still has to dispatch
    cur,        \* the interrupt being dispatched
    idata,      \* the data loaded for it
    ackReg      \* the register the write-back loop is at

hwVars     == <<status, hwEnable, edge>>
chipVars   == <<chip, chipReg>>
tableVars  == <<handler, data, enabled>>
driverVars == <<lock, dpc, copy, irqchip>>
workVars   == <<wpc, reg_val, irqs, cur, idata, ackReg>>
vars == <<hwVars, flag, queued, chipVars, tableVars, driverVars, workVars>>

DriverLabels == {"idle", "rq_handler", "rq_data", "rq_load", "rq_store", "rq_hw",
                 "gp_load", "gp_store", "gp_handler", "gp_data", "gp_alloc",
                 "fr_irqchip", "fr_lock", "fr_check", "fr_data", "fr_handler",
                 "en_lock", "en_hw", "di_hw", "ie_read", "ie_write", "id_read", "id_write"}
WorkLabels == {"idle", "read", "mask", "next", "load", "call", "run", "pin", "ack",
               "oops", "wild"}
ChipLabels == {"clr", "ack", "request", "hooked", "up", "rm_clr", "rm_ack", "gone"}

(* At boot the PMIC may have anything latched and enabled.                   *)
Init ==
    /\ status \in SUBSET Irqs /\ hwEnable \in SUBSET Irqs
    /\ edge = FALSE /\ flag = "NOT_SUSPEND" /\ queued = FALSE
    /\ chip = "clr" /\ chipReg = 0
    /\ handler = [i \in Irqs |-> Null] /\ data = [i \in Irqs |-> Null]
    /\ enabled = {} /\ lock = NoDriver
    /\ dpc = [d \in Drivers |-> "idle"] /\ copy = [d \in Drivers |-> {}]
    /\ irqchip = [p \in Pins |-> "none"]
    /\ wpc = "idle" /\ reg_val = {} /\ irqs = {} /\ cur = 0 /\ idata = Null
    /\ ackReg = 0
-----------------------------------------------------------------------------
(* The hardware. *)

Low(s, e) == s \cap e # {}
LineLow == Low(status, hwEnable)
Requested == chip \in {"hooked", "up"}

(* The PMIC's registers change; on an edge-triggered line the host latches   *)
(* the falling edge, if the interrupt has been requested.                    *)
Pmic(s, e) ==
    /\ status' = s
    /\ hwEnable' = e
    /\ edge' = (edge \/ (Trigger = "edge" /\ Requested /\ ~LineLow /\ Low(s, e)))

Event(i) ==
    /\ i \notin status
    /\ Pmic(status \cup {i}, hwEnable)
    /\ UNCHANGED <<flag, queued, chipVars, tableVars, driverVars, workVars>>
-----------------------------------------------------------------------------
(* Slip: while suspended, axp_irq does nothing. *)
TakeIrqAwakeOnly ==
    /\ queued' = (queued \/ flag = "NOT_SUSPEND")
    /\ UNCHANGED <<status, hwEnable, flag, chipVars, tableVars, driverVars, workVars>>

(* axp_irq: queue the work, or wake the suspended system once.               *)
TakeIrq ==
    /\ queued' = (queued \/ flag = "NOT_SUSPEND")
    /\ flag' = IF flag = "WAS_SUSPEND" /\ WakeupEvent THEN "SUSPEND_WITH_IRQ" ELSE flag
    /\ UNCHANGED <<status, hwEnable, chipVars, tableVars, driverVars, workVars>>

HardIrq ==
    /\ Requested
    /\ \/ Trigger = "level" /\ LineLow
       \/ Trigger = "edge" /\ edge
    /\ edge' = FALSE
    /\ TakeIrq

(* The line is shared (IRQF_SHARED): axp_irq also runs for another device.   *)
SharedIrq ==
    /\ Requested
    /\ edge' = edge
    /\ TakeIrq

(* The charger's suspend and resume callbacks. *)
Suspend ==
    /\ chip = "up" /\ flag = "NOT_SUSPEND"
    /\ flag' = "WAS_SUSPEND"
    /\ UNCHANGED <<hwVars, queued, chipVars, tableVars, driverVars, workVars>>

Resume ==
    /\ flag # "NOT_SUSPEND"
    /\ flag' = "NOT_SUSPEND"
    /\ UNCHANGED <<hwVars, queued, chipVars, tableVars, driverVars, workVars>>
-----------------------------------------------------------------------------
(* axp_irq_work_func and __do_irq. *)

WorkFrame == UNCHANGED <<flag, chipVars, tableVars, driverVars>>
Alive == chip # "gone"

(* The workqueue runs the work; before INIT_WORK it has no function to run.  *)
WorkStart ==
    /\ Alive /\ queued /\ chip # "hooked" /\ wpc = "idle"
    /\ queued' = FALSE
    /\ wpc' = "read"
    /\ UNCHANGED <<hwVars, reg_val, irqs, cur, idata, ackReg>> /\ WorkFrame

(* Slip: what is read is acknowledged at once. *)
WorkReadAck ==
    /\ Alive /\ wpc = "read"
    /\ reg_val' = status /\ Pmic({}, hwEnable)
    /\ wpc' = "mask"
    /\ UNCHANGED <<queued, irqs, cur, idata, ackReg>> /\ WorkFrame

(* axp_regmap_reads; its result is not looked at, so that after a failure    *)
(* reg_val is whatever the stack held.                                       *)
WorkRead ==
    /\ Alive /\ wpc = "read"
    /\ \/ reg_val' = status
       \/ BusFails /\ reg_val' \in SUBSET Irqs
    /\ wpc' = "mask"
    /\ UNCHANGED <<hwVars, queued, irqs, cur, idata, ackReg>> /\ WorkFrame

(* irqs &= irqs_enabled; with none left, return without writing back.        *)
WorkMask ==
    /\ Alive /\ wpc = "mask"
    /\ irqs' = reg_val \cap enabled
    /\ IF irqs' = {} THEN wpc' = "idle" /\ reg_val' = {}
                     ELSE wpc' = "next" /\ reg_val' = reg_val
    /\ UNCHANGED <<hwVars, queued, cur, idata, ackReg>> /\ WorkFrame

(* for_each_set_bit: lowest bit first; an interrupt without handler is       *)
(* passed over.                                                              *)
WorkNext(i) ==
    /\ Alive /\ wpc = "next"
    /\ i \in irqs /\ \A j \in irqs : i <= j
    /\ irqs' = irqs \ {i}
    /\ IF handler[i] = Null THEN wpc' = "next" /\ cur' = cur
                            ELSE wpc' = "load" /\ cur' = i
    /\ UNCHANGED <<hwVars, queued, reg_val, idata, ackReg>> /\ WorkFrame

WorkLoad ==
    /\ Alive /\ wpc = "load"
    /\ idata' = data[cur]
    /\ wpc' = "call"
    /\ UNCHANGED <<hwVars, queued, reg_val, irqs, cur, ackReg>> /\ WorkFrame

(* The handler pointer called is the one tested, or is loaded again: both    *)
(* are code a compiler may make of the source.                               *)
WorkCall ==
    /\ Alive /\ wpc = "call"
    /\ \/ wpc' = "run"
       \/ handler[cur] = Null /\ wpc' = "oops"
    /\ UNCHANGED <<hwVars, queued, reg_val, irqs, cur, idata, ackReg>> /\ WorkFrame

(* The handler returns; a pin's does so at once if the pin has no client.    *)
WorkHandled ==
    /\ Alive /\ wpc = "run"
    /\ cur \in Pins => irqchip[cur] = Null
    /\ wpc' = "next" /\ cur' = 0 /\ idata' = Null
    /\ UNCHANGED <<hwVars, queued, reg_val, irqs, ackReg>> /\ WorkFrame

(* A pin's handler finds a client, or its table gone.                        *)
WorkPin ==
    /\ Alive /\ wpc = "run" /\ cur \in Pins
    /\ \/ irqchip[cur] = "client" /\ wpc' = "pin"
       \/ irqchip[cur] = "none" /\ wpc' = "oops"
    /\ UNCHANGED <<hwVars, queued, reg_val, irqs, cur, idata, ackReg>> /\ WorkFrame

(* It has called the client, through a pointer that may be loaded again, and *)
(* acknowledges its event: irq_ack writes the event's bit to the status      *)
(* register.                                                                 *)
WorkPinAck ==
    /\ Alive /\ wpc = "pin"
    /\ \/ Pmic(status \ {cur}, hwEnable)
       \/ BusFails /\ UNCHANGED hwVars
    /\ wpc' = "next" /\ cur' = 0 /\ idata' = Null
    /\ UNCHANGED <<queued, reg_val, irqs, ackReg>> /\ WorkFrame

WorkPinGone ==
    /\ Alive /\ wpc = "pin" /\ irqchip[cur] # "client"
    /\ wpc' = "oops"
    /\ UNCHANGED <<hwVars, queued, reg_val, irqs, cur, idata, ackReg>> /\ WorkFrame

WorkDispatched ==
    /\ Alive /\ wpc = "next" /\ irqs = {}
    /\ wpc' = "ack"
    /\ UNCHANGED <<hwVars, queued, reg_val, irqs, cur, idata, ackReg>> /\ WorkFrame

(* Slip: 0xff is written back. *)
WorkAckAll ==
    /\ Alive /\ wpc = "ack"
    /\ Pmic(status \ BitsOf(ackReg), hwEnable)
    /\ IF ackReg + 1 = NumRegs THEN wpc' = "idle" /\ ackReg' = 0 /\ reg_val' = {}
                               ELSE wpc' = "ack" /\ ackReg' = ackReg + 1
                                    /\ reg_val' = reg_val
    /\ UNCHANGED <<queued, irqs, cur, idata>> /\ WorkFrame

(* Write reg_val[ackReg] back if it is not 0: each 1 clears its event.       *)
WorkAck ==
    /\ Alive /\ wpc = "ack"
    /\ \/ Pmic(status \ (reg_val \cap BitsOf(ackReg)), hwEnable)
       \/ BusFails /\ UNCHANGED hwVars
    /\ IF ackReg + 1 = NumRegs THEN wpc' = "idle" /\ ackReg' = 0 /\ reg_val' = {}
                               ELSE wpc' = "ack" /\ ackReg' = ackReg + 1
                                    /\ reg_val' = reg_val
    /\ UNCHANGED <<queued, irqs, cur, idata>> /\ WorkFrame

(* axp_irq_chip_unregister has freed irq_data, and the device is still on    *)
(* axp_dev_list: the work now runs on freed memory, and what it does there   *)
(* is not modelled further.                                                  *)
WorkAfterFree ==
    /\ ~Alive /\ (queued \/ wpc # "idle") /\ wpc \notin {"oops", "wild"}
    /\ wpc' = "wild"
    /\ UNCHANGED <<hwVars, queued, reg_val, irqs, cur, idata, ackReg>> /\ WorkFrame

Work ==
    \/ WorkStart \/ WorkRead \/ WorkMask \/ (\E i \in Irqs : WorkNext(i))
    \/ WorkLoad \/ WorkCall \/ WorkHandled \/ WorkPin \/ WorkPinAck \/ WorkPinGone
    \/ WorkDispatched \/ WorkAck
    \/ WorkAfterFree
-----------------------------------------------------------------------------
(* The drivers' calls. *)

DriverFrame == UNCHANGED <<flag, queued, chipVars, workVars>>
Goto(d, label) == dpc' = [dpc EXCEPT ![d] = label]
Unlock == lock' = NoDriver

(* Where each call begins. *)
CallStart(op) ==
    CASE op = "request" -> "rq_handler" [] op = "gpio"        -> "gp_load"
      [] op = "free"    -> "fr_check"   [] op = "disable"     -> "di_hw"
      [] op = "enable"  -> "en_lock"    [] op = "irq_enable"  -> "ie_read"
      [] OTHER          -> "id_read"

(* Slip: the calls do not lock. *)
DriverCallUnlocked(d, op) ==
    /\ chip = "up" /\ dpc[d] = "idle" /\ d \notin Pins /\ op \notin PinOps \ {"free"}
    /\ Goto(d, CallStart(op))
    /\ UNCHANGED <<hwVars, tableVars, lock, copy, irqchip>> /\ DriverFrame

(* A driver enters a call; all but axp_enable_irq lock first. *)
DriverCall(d, op) ==
    /\ chip = "up" /\ dpc[d] = "idle" /\ d \notin Pins
    /\ \/ op = "enable" /\ handler[d] # Null /\ lock' = lock
       \/ op \in {"request", "free", "disable"} /\ lock = NoDriver /\ lock' = d
    /\ Goto(d, CallStart(op))
    /\ UNCHANGED <<hwVars, tableVars, copy, irqchip>> /\ DriverFrame

(* The GPIO driver probes (axp_gpio_irq_register) and is removed, and the    *)
(* pin's client enables and disables it, while there is a GPIO driver.       *)
PinCall(d, op) ==
    /\ chip = "up" /\ dpc[d] = "idle" /\ d \in Pins
    /\ \/ /\ op = "gpio" /\ irqchip[d] = "none" /\ Goto(d, CallStart(op))
          /\ lock = NoDriver /\ lock' = d
       \/ /\ op = "free" /\ irqchip[d] # "none" /\ Goto(d, "fr_irqchip")
          /\ lock' = lock
       \/ /\ op \in {"irq_enable", "irq_disable"} /\ irqchip[d] # "none"
          /\ Goto(d, CallStart(op)) /\ lock' = lock
    /\ UNCHANGED <<hwVars, tableVars, copy, irqchip>> /\ DriverFrame

(* irq_request and irq_free: the client's handler, stored without a lock.    *)
PinClient(d, op) ==
    /\ chip = "up" /\ dpc[d] = "idle" /\ d \in Pins /\ irqchip[d] # "none"
    /\ \/ op = "irq_request" /\ irqchip' = [irqchip EXCEPT ![d] = "client"]
       \/ op = "irq_free" /\ irqchip' = [irqchip EXCEPT ![d] = Null]
    /\ UNCHANGED <<hwVars, tableVars, lock, dpc, copy>> /\ DriverFrame

SetHandler(d, from, to) ==
    /\ dpc[d] = from /\ Goto(d, to)
    /\ handler' = [handler EXCEPT ![d] = "isr"]
    /\ UNCHANGED <<hwVars, data, enabled, lock, copy, irqchip>> /\ DriverFrame

SetData(d, from, to) ==
    /\ dpc[d] = from /\ Goto(d, to)
    /\ data' = [data EXCEPT ![d] = "info"]
    /\ IF to = "gp_alloc" THEN Unlock ELSE lock' = lock
    /\ UNCHANGED <<hwVars, handler, enabled, copy, irqchip>> /\ DriverFrame

(* irqs_enabled |= (u64)0x1 << irq_no: a load and a store. *)
LoadEnabled(d, from, to) ==
    /\ dpc[d] = from /\ Goto(d, to)
    /\ copy' = [copy EXCEPT ![d] = enabled]
    /\ UNCHANGED <<hwVars, tableVars, lock, irqchip>> /\ DriverFrame

StoreEnabled(d, from, to) ==
    /\ dpc[d] = from /\ Goto(d, to)
    /\ enabled' = copy[d] \cup {d}
    /\ copy' = [copy EXCEPT ![d] = {}]
    /\ UNCHANGED <<hwVars, handler, data, lock, irqchip>> /\ DriverFrame

(* axp_regmap_set_bits or clr_bits on the enable register, and unlock.       *)
SetHwEnable(d, from, e) ==
    /\ dpc[d] = from /\ Goto(d, "idle") /\ Unlock
    /\ \/ Pmic(status, e)
       \/ BusFails /\ UNCHANGED hwVars
    /\ UNCHANGED <<tableVars, copy, irqchip>> /\ DriverFrame

(* Slip: irqs_enabled first, as in axp_gpio_irq_register. *)
RequestIrqBitFirst(d) ==
    \/ LoadEnabled(d, "rq_handler", "rq_store")
    \/ StoreEnabled(d, "rq_store", "rq_data")
    \/ SetHandler(d, "rq_data", "rq_load")
    \/ SetData(d, "rq_load", "rq_hw")
    \/ SetHwEnable(d, "rq_hw", hwEnable \cup {d})

RequestIrq(d) ==
    \/ SetHandler(d, "rq_handler", "rq_data")
    \/ SetData(d, "rq_data", "rq_load")
    \/ LoadEnabled(d, "rq_load", "rq_store")
    \/ StoreEnabled(d, "rq_store", "rq_hw")
    \/ SetHwEnable(d, "rq_hw", hwEnable \cup {d})

(* axp_gpio_irq_register does not touch the enable register. *)
GpioIrqRegister(d) ==
    \/ LoadEnabled(d, "gp_load", "gp_store")
    \/ StoreEnabled(d, "gp_store", "gp_handler")
    \/ SetHandler(d, "gp_handler", "gp_data")
    \/ SetData(d, "gp_data", "gp_alloc")

(* The table of the clients' handlers comes only then; without memory for it *)
(* the probe frees the interrupt again.                                      *)
GpioAlloc(d) ==
    /\ dpc[d] = "gp_alloc"
    /\ \/ Goto(d, "idle") /\ irqchip' = [irqchip EXCEPT ![d] = Null]
       \/ Goto(d, "fr_lock") /\ UNCHANGED irqchip
    /\ UNCHANGED <<hwVars, tableVars, lock, copy>> /\ DriverFrame

(* The remove of the GPIO driver: the table goes before the interrupt does.  *)
GpioRemove(d) ==
    /\ dpc[d] = "fr_irqchip" /\ Goto(d, "fr_lock")
    /\ irqchip' = [irqchip EXCEPT ![d] = "none"]
    /\ UNCHANGED <<hwVars, tableVars, lock, copy>> /\ DriverFrame

GpioFreeLock(d) ==
    /\ dpc[d] = "fr_lock" /\ Goto(d, "fr_check")
    /\ lock = NoDriver /\ lock' = d
    /\ UNCHANGED <<hwVars, tableVars, copy, irqchip>> /\ DriverFrame

(* irq_enable and irq_disable: axp_regmap_read, its result not looked at ... *)
PinRead(d, from, to) ==
    /\ dpc[d] = from /\ Goto(d, to)
    /\ \/ copy' = [copy EXCEPT ![d] = hwEnable \cap BitsOf(d \div Width)]
       \/ BusFails /\ \E garbage \in SUBSET BitsOf(d \div Width) :
                         copy' = [copy EXCEPT ![d] = garbage]
    /\ UNCHANGED <<hwVars, tableVars, lock, irqchip>> /\ DriverFrame

(* ... and axp_regmap_write of the whole register.                            *)
PinWrite(d, from, regval) ==
    /\ dpc[d] = from /\ Goto(d, "idle")
    /\ \/ Pmic(status, (hwEnable \ BitsOf(d \div Width)) \cup regval)
       \/ BusFails /\ UNCHANGED hwVars
    /\ copy' = [copy EXCEPT ![d] = {}]
    /\ UNCHANGED <<tableVars, lock, irqchip>> /\ DriverFrame

PinIrqEnable(d) ==
    \/ PinRead(d, "ie_read", "ie_write")
    \/ PinWrite(d, "ie_write", copy[d] \cup {d})

PinIrqDisable(d) ==
    \/ PinRead(d, "id_read", "id_write")
    \/ PinWrite(d, "id_write", copy[d] \ {d})

(* Slip: the interrupt is not masked. *)
FreeCheckUnmasked(d) ==
    /\ dpc[d] = "fr_check"
    /\ \/ handler[d] = Null /\ Goto(d, "idle") /\ Unlock
       \/ handler[d] # Null /\ Goto(d, "fr_data") /\ lock' = lock
    /\ UNCHANGED <<hwVars, tableVars, copy, irqchip>> /\ DriverFrame

FreeCheck(d) ==
    /\ dpc[d] = "fr_check"
    /\ \/ handler[d] = Null /\ Goto(d, "idle") /\ Unlock /\ UNCHANGED hwVars
       \/ /\ handler[d] # Null /\ Goto(d, "fr_data") /\ lock' = lock
          /\ \/ Pmic(status, hwEnable \ {d})
             \/ BusFails /\ UNCHANGED hwVars
    /\ UNCHANGED <<tableVars, copy, irqchip>> /\ DriverFrame

FreeData(d) ==
    /\ dpc[d] = "fr_data" /\ Goto(d, "fr_handler")
    /\ data' = [data EXCEPT ![d] = Null]
    /\ UNCHANGED <<hwVars, handler, enabled, lock, copy, irqchip>> /\ DriverFrame

FreeHandler(d) ==
    /\ dpc[d] = "fr_handler" /\ Goto(d, "idle") /\ Unlock
    /\ handler' = [handler EXCEPT ![d] = Null]
    /\ UNCHANGED <<hwVars, data, enabled, copy, irqchip>> /\ DriverFrame

FreeIrq(d) == FreeCheck(d) \/ FreeData(d) \/ FreeHandler(d)

EnableLock(d) ==
    /\ dpc[d] = "en_lock" /\ lock = NoDriver
    /\ lock' = d /\ Goto(d, "en_hw")
    /\ UNCHANGED <<hwVars, tableVars, copy, irqchip>> /\ DriverFrame

EnableIrq(d) == EnableLock(d) \/ SetHwEnable(d, "en_hw", hwEnable \cup {d})
DisableIrq(d) == SetHwEnable(d, "di_hw", hwEnable \ {d})

DriverStep(d) ==
    \/ RequestIrq(d) \/ FreeIrq(d) \/ EnableIrq(d) \/ DisableIrq(d)
    \/ GpioIrqRegister(d) \/ GpioAlloc(d) \/ GpioRemove(d) \/ GpioFreeLock(d)
    \/ PinIrqEnable(d) \/ PinIrqDisable(d)

(* What a driver or a pin's client does: it enters a call, or goes on.       *)
Calls(d) ==
    \E op \in DriverOps : DriverCall(d, op) \/ PinCall(d, op) \/ PinClient(d, op)
-----------------------------------------------------------------------------
(* axp_irq_chip_register and axp_irq_chip_unregister. *)

ChipFrame == UNCHANGED <<flag, tableVars, driverVars, workVars>>

(* axp_regmap_clr_bits(enable_base + i, 0xff), its result ignored. *)
ChipMask(from, to) ==
    /\ chip = from /\ chip' = to /\ chipReg' = chipReg
    /\ \/ Pmic(status, hwEnable \ BitsOf(chipReg))
       \/ BusFails /\ UNCHANGED hwVars
    /\ queued' = queued /\ ChipFrame

(* Slips: one register too many, one too few. *)
NextRegTooMany(from, to) ==
    IF chipReg = NumRegs THEN chip' = to /\ chipReg' = 0
                         ELSE chip' = from /\ chipReg' = chipReg + 1

NextRegTooFew(from, to) ==
    IF chipReg + 2 >= NumRegs THEN chip' = to /\ chipReg' = 0
                              ELSE chip' = from /\ chipReg' = chipReg + 1

NextReg(from, to) ==
    IF chipReg + 1 = NumRegs THEN chip' = to /\ chipReg' = 0
                             ELSE chip' = from /\ chipReg' = chipReg + 1

(* axp_regmap_set_bits(status_base + i, 0xff): no write if all bits read 1,  *)
(* else a write of 0xff, which clears them all.                              *)
ClearBySetBits(r) ==
    IF BitsOf(r) \subseteq status THEN status ELSE status \ BitsOf(r)

ChipAck ==
    /\ chip = "ack"
    /\ \/ Pmic(ClearBySetBits(chipReg), hwEnable)
       \/ BusFails /\ UNCHANGED hwVars
    /\ NextReg("clr", "request")
    /\ queued' = queued /\ ChipFrame

(* request_irq: from here on axp_irq runs. *)
ChipRequest ==
    /\ chip = "request" /\ chip' = "hooked"
    /\ UNCHANGED <<hwVars, chipReg, queued>> /\ ChipFrame

(* INIT_WORK: work queued before is forgotten. *)
ChipInitWork ==
    /\ chip = "hooked" /\ chip' = "up"
    /\ queued' = FALSE
    /\ UNCHANGED <<hwVars, chipReg>> /\ ChipFrame

(* The PMIC driver's remove: the drivers of its cells are gone, having freed *)
(* their interrupts; free_irq.                                               *)
ChipRemove ==
    /\ MayRemove /\ chip = "up"
    /\ \A d \in Drivers : dpc[d] = "idle" /\ handler[d] = Null
    /\ chip' = "rm_clr"
    /\ edge' = FALSE
    /\ UNCHANGED <<status, hwEnable, chipReg, queued>> /\ ChipFrame

(* axp_regmap_write(status_base + i, 0xff) *)
ChipRemoveAck ==
    /\ chip = "rm_ack"
    /\ \/ Pmic(status \ BitsOf(chipReg), hwEnable)
       \/ BusFails /\ UNCHANGED hwVars
    /\ NextReg("rm_clr", "gone")
    /\ queued' = queued /\ ChipFrame

Chip ==
    \/ ChipMask("clr", "ack") \/ ChipAck \/ ChipRequest \/ ChipInitWork
    \/ ChipMask("rm_clr", "rm_ack") \/ ChipRemoveAck
-----------------------------------------------------------------------------
Next ==
    \/ \E i \in Irqs : Event(i)
    \/ HardIrq \/ SharedIrq \/ Suspend \/ Resume
    \/ Work \/ Chip \/ ChipRemove
    \/ \E d \in Drivers : Calls(d) \/ DriverStep(d)

Spec == Init /\ [][Next]_vars

(* For an edge-triggered line, which the DT samples configure (axp2585.dtsi, *)
(* axp152.dtsi): the processor takes the edge it has latched, once, and the  *)
(* workqueue then runs what is queued; handlers return; a driver or the PMIC *)
(* driver inside a call goes on.  Nothing forces an event, a call, a suspend *)
(* or a removal.  On a level-triggered line axp_irq, which neither masks nor *)
(* acknowledges it (its sunxi_nmi_ calls are commented out), would be        *)
(* entered again and again and leave the work no time: nothing below is said *)
(* of such a line.                                                           *)
Fairness ==
    /\ WF_vars(HardIrq) /\ WF_vars(Work) /\ WF_vars(Chip)
    /\ \A d \in Drivers : WF_vars(DriverStep(d))

FairSpec == Spec /\ Fairness
-----------------------------------------------------------------------------
(* Types of the variables. *)
TypeOK ==
    /\ status \in SUBSET Irqs /\ hwEnable \in SUBSET Irqs /\ edge \in BOOLEAN
    /\ flag \in {"NOT_SUSPEND", "WAS_SUSPEND", "SUSPEND_WITH_IRQ"}
    /\ queued \in BOOLEAN
    /\ chip \in ChipLabels /\ chipReg \in 0 .. (NumRegs - 1)
    /\ handler \in [Irqs -> {Null, "isr"}] /\ data \in [Irqs -> {Null, "info"}]
    /\ enabled \in SUBSET Irqs
    /\ lock \in Drivers \cup {NoDriver}
    /\ dpc \in [Drivers -> DriverLabels] /\ copy \in [Drivers -> SUBSET Irqs]
    /\ irqchip \in [Pins -> {"none", Null, "client"}]
    /\ wpc \in WorkLabels
    /\ reg_val \in SUBSET Irqs /\ irqs \in SUBSET Irqs /\ cur \in Irqs
    /\ idata \in {Null, "info"} /\ ackReg \in 0 .. (NumRegs - 1)

(* Once axp_irq_chip_register has masked everything, an event can pull the   *)
(* line only if its bit is in irqs_enabled: otherwise __do_irq would return  *)
(* before its write-back and the line would stay low for ever.               *)
HwWithinSw == chip \in {"request", "hooked", "up"} => hwEnable \subseteq enabled

(* irqs_enabled has the bit of every interrupt whose handler is in place,    *)
(* although drivers request interrupts side by side: no |= of                *)
(* axp_request_irq or axp_gpio_irq_register is lost.                         *)
EnabledKept ==
    \A d \in Drivers : handler[d] # Null /\ dpc[d] = "idle" => d \in enabled

(* What the work has read and not yet written back.                          *)
Unacked == {i \in reg_val : wpc = "ack" => i \div Width >= ackReg}

(* __do_irq calls a handler only for an event that is still latched, and     *)
(* until it writes it back an event it has read stays latched, unless it is  *)
(* a pin's, whose handler acknowledges it itself.                            *)
PendingWhileHandled ==
    chip = "up" =>
        /\ irqs \subseteq status
        /\ Unacked \ Pins \subseteq status
        /\ wpc \in {"load", "call", "run", "pin"} => cur \in status

(* A handler is called with the data it was requested with, and never        *)
(* through a NULL pointer, while its driver is in axp_request_irq (handler   *)
(* and data are set before the bit __do_irq looks at) or long after.         *)
HandlerGetsItsData == wpc # "oops" /\ (wpc = "run" => idata = "info")

(* No other interrupt in the enable register of this one is a pin's, which   *)
(* irq_enable and irq_disable would write back with all the others.          *)
NoPinBeside(d) == \A p \in Pins \ {d} : p \div Width # d \div Width

(* An interrupt that is free, its driver gone or not yet come, cannot pull   *)
(* the line, if no pin's client may write back its enable register as it was *)
(* before the interrupt was freed.                                           *)
FreedIsMasked ==
    \A d \in Drivers :
        chip = "up" /\ dpc[d] = "idle" /\ handler[d] = Null /\ NoPinBeside(d)
            => d \notin hwEnable

(* After axp_irq_chip_unregister the PMIC leaves the shared line alone,      *)
(* whatever it latches.                                                      *)
QuietAfterRemove == chip = "gone" => ~LineLow

(* Between probe and remove nothing clears an event that the running work    *)
(* has not read: one latched after axp_regmap_reads survives the write-back, *)
(* whichever transfers fail.                                                 *)
AckOnlyRead == [][chip = "up" => status \ status' \subseteq reg_val]_vars

(* Event i is latched and enabled, and the work has not read it.             *)
Waiting(i) == chip = "up" /\ i \in status \cap hwEnable /\ i \notin reg_val
Serving(i) == wpc = "run" /\ cur = i

(* Once the edge is latched or the work queued, every event whose driver has *)
(* enabled it and that the work has not read yet reaches its handler, unless *)
(* the driver disables it or the system suspends: also one latched while the *)
(* work is busy with others, though schedule_work does nothing when the work *)
(* is queued already.  (An event latched while the line is low, after the    *)
(* running pass has read the status, gives no edge: nothing is said of it    *)
(* until there is one, by another device on the line.)                       *)
EventServed ==
    \A i \in Drivers :
        (Waiting(i) /\ (queued \/ edge) /\ flag = "NOT_SUSPEND")
            ~> (Serving(i) \/ i \notin hwEnable \/ flag # "NOT_SUSPEND")

(* An edge while the system is suspended wakes it. *)
SuspendedIrqWakes ==
    (flag = "WAS_SUSPEND" /\ edge) ~> flag # "WAS_SUSPEND"

(* "disable all irq and clear all irq pending" (axp-core.c:685): after its   *)
(* pass over a status register axp_irq_chip_register leaves nothing of it    *)
(* pending.                                                                  *)
RegisterClearsPending ==
    [][chip = "ack" /\ chip' # "ack" => status' \cap BitsOf(chipReg) = {}]_vars
=============================================================================
