---------------------------- MODULE MCAxpRegmap ----------------------------
(***************************************************************************)
(* The register map on a few registers of two bits: every kind of accessor,   *)
(* plain and _sync, and a block write that needs two transfers.              *)
(***************************************************************************)
EXTENDS AxpRegmap

Op(kind, sync, reg, mask, val, vals) ==
    [kind |-> kind, sync |-> sync, reg |-> reg,
     mask |-> mask, val |-> val, vals |-> vals]

(* One lock: plain and _sync calls meet on the same register. *)
MCOpsMutex ==
    { Op("read",   FALSE, 0, {}, {}, <<>>),
      Op("write",  FALSE, 0, {}, {1}, <<>>),
      Op("writes", FALSE, 0, {}, {}, <<{0}, {1}, {0, 1}>>),
      Op("set",    FALSE, 0, {0}, {}, <<>>),
      Op("clr",    TRUE,  0, {1}, {}, <<>>),
      Op("update", TRUE,  1, {0}, {0}, <<>>) }
=============================================================================
