----------------------------- MODULE MCSnapshots -----------------------------
(* Instances of Snapshots for TLC.  r1 has a slug of its own; r2, of another    *)
(* product, bears its adapter's name, the default.                              *)
EXTENDS Snapshots, TLC

CONSTANTS r1, r2, alice, omni, lite

SlugOf    == [r \in Router |-> IF r = r1 THEN alice ELSE lite]
AdapterOf == [r \in Router |-> IF r = r1 THEN omni ELSE lite]
Symmetry  == Permutations(Task)
==============================================================================
