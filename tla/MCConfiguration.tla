-------------------------- MODULE MCConfiguration --------------------------
(* Configuration for TLC: one option of each kind, on different components. *)
EXTENDS Configuration, TLC

MCOption   == {"text", "number"}
MCParentOf == [o \in MCOption |-> IF o = "text" THEN 1 ELSE 2]
MCAltType  == [o \in MCOption |-> IF o = "text" THEN "string" ELSE "number"]
Symmetry   == Permutations(Cell) \cup Permutations(Handle)
=============================================================================
