----------------------------- MODULE MCAxpBoot -----------------------------
(* Every PMIC alone, and every ordered pair of PMICs of two drivers.          *)
EXTENDS AxpBoot

AllBoards == {<<c>> : c \in Chips} \cup {b \in Chips \X Chips : b[1] # b[2]}

(* What the proofs about AxpChip and AxpRegulator need of the tables of        *)
(* registers and masks in the drivers of the cells.                           *)
Calls == INSTANCE AxpCalls WITH Chips <- Chips \cup {"axp233"}

ASSUME TablesAssumption ==
    /\ Calls!FieldsSuffice /\ Calls!MasksApart /\ Calls!CopiesKnown
    /\ Calls!ProgramsPaired /\ Calls!AsksBrought
=============================================================================
