----------------------------- MODULE AxpRegOps -----------------------------
(***************************************************************************)
(* What the register accessors of axp-core.c are asked to do and what each  *)
(* one does to a register, apart from how it is locked and how its I2C      *)
(* transfers are scheduled.                                                 *)
(*                                                                          *)
(* A register byte is the SET of its bits that are 1, so that the C code's  *)
(* v | m, v & m and v & ~m are set union, intersection and difference.      *)
(***************************************************************************)
EXTENDS Naturals, Sequences

CONSTANTS
    NRegs,      \* registers 0 .. NRegs-1 of one PMIC
    Bits,       \* the bit positions of a register
    Ops,        \* the calls the drivers make
    NoOp        \* no call under way

Regs == 0 .. (NRegs - 1)
Byte == SUBSET Bits

(* axp_regmap_read / write / writes and the three read-modify-write          *)
(* accessors with their _sync twins.                                         *)
Kinds == {"read", "write", "writes", "set", "clr", "update"}
Modifiers == {"set", "clr", "update"}

OpType == [kind : Kinds, sync : BOOLEAN, reg : Regs,
           mask : Byte, val : Byte, vals : Seq(Byte)]

(* A block write names at least one register and stays inside the PMIC.      *)
(* NoOp is no call.                                                          *)
ASSUME OpsAssumption ==
    /\ NRegs \in Nat
    /\ Ops \subseteq OpType
    /\ NoOp \notin Ops
    /\ \A o \in Ops : o.kind = "writes" =>
                        Len(o.vals) > 0 /\ o.reg + Len(o.vals) <= NRegs

(* if ((reg_val & bit_mask) != bit_mask), if (reg_val & bit_mask),           *)
(* if ((reg_val & mask) != val): is a write needed at all?                   *)
NeedsWrite(o, v) ==
    \/ o.kind = "set"    /\ v \cap o.mask # o.mask
    \/ o.kind = "clr"    /\ v \cap o.mask # {}
    \/ o.kind = "update" /\ v \cap o.mask # o.val

(* reg_val |= bit_mask, reg_val &= ~bit_mask, (reg_val & ~mask) | val        *)
Modified(o, v) ==
    CASE o.kind = "set"    -> v \cup o.mask
      [] o.kind = "clr"    -> v \ o.mask
      [] o.kind = "update" -> (v \ o.mask) \cup o.val
      [] o.kind = "write"  -> o.val
      [] OTHER             -> v

(* The register file r after values i+1 .. j of a block write have landed    *)
(* in consecutive registers.                                                 *)
Landed(o, r, i, j) ==
    [a \in Regs |-> IF a \in (o.reg + i) .. (o.reg + j - 1)
                    THEN o.vals[a - o.reg + 1] ELSE r[a]]

(* In register file r the call o has had the effect its caller asked for. *)
Delivered(o, r) ==
    /\ o.kind = "set"    => o.mask \subseteq r[o.reg]
    /\ o.kind = "clr"    => o.mask \cap r[o.reg] = {}
    /\ o.kind = "update" => /\ o.val \subseteq r[o.reg]
                            /\ (o.mask \ o.val) \cap r[o.reg] = {}
    /\ o.kind = "write"  => r[o.reg] = o.val
    /\ o.kind = "writes" => \A i \in 1 .. Len(o.vals) : r[o.reg + i - 1] = o.vals[i]

(* The registers a call may change. *)
Footprint(o) ==
    IF o.kind = "read" THEN {}
    ELSE IF o.kind = "writes" THEN o.reg .. (o.reg + Len(o.vals) - 1)
    ELSE {o.reg}
=============================================================================
