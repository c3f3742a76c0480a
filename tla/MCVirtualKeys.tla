---------------------------- MODULE MCVirtualKeys ----------------------------
(* Instances of VirtualKeys for TLC: k1 is limited, k2 is not.                 *)
EXTENDS VirtualKeys

CONSTANTS k1, k2

Limited   == [k \in Key |-> IF k = k1 THEN 1 ELSE 0]
Unlimited == [k \in Key |-> 0]

==============================================================================
