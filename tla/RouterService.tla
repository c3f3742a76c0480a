---------------------------- MODULE RouterService ----------------------------
(***************************************************************************)
(* What the manager promises of a router to whoever looks at it between    *)
(* operations: stopping, starting and restarting happen one at a time,     *)
(* nothing else changes a router that is at rest, and each of them leaves  *)
(* it in a state of its own kind, with the routes that belong to it.       *)
(***************************************************************************)
CONSTANT Router

VARIABLES status,  \* of a router: what it is at rest, or busy
          op       \* what is being done to it

service == <<status, op>>

\* Running means routed to its container, stopped means not routed at all.
Rest == {"running", "stopped", "failed", "unhealthy"}

\* A start that fails is recorded as failed; a restart that fails leaves what
\* its stop, or the last thing it wrote, left.
Outcome == [stop |-> {"stopped"}, start |-> {"running", "failed"}, restart |-> Rest]

Init ==
    /\ status = [r \in Router |-> "absent"]
    /\ op = [r \in Router |-> "none"]

Create(r) ==
    /\ status[r] = "absent"
    /\ status' = [status EXCEPT ![r] = "stopped"]
    /\ UNCHANGED op

Take(r) ==
    /\ op[r] = "none"
    /\ status[r] # "absent"
    /\ \E o \in DOMAIN Outcome : op' = [op EXCEPT ![r] = o]
    /\ status' = [status EXCEPT ![r] = IF @ \in Rest THEN "busy" ELSE @]

Give(r) ==
    /\ op[r] # "none"
    /\ op' = [op EXCEPT ![r] = "none"]
    /\ IF status[r] = "busy" THEN \E s \in Outcome[op[r]] : status' = [status EXCEPT ![r] = s]
                             ELSE UNCHANGED status

\* Deleting a router does not wait for what is being done to it.
Delete(r) ==
    /\ status[r] # "absent"
    /\ status' = [status EXCEPT ![r] = "deleted"]
    /\ UNCHANGED op

Next == \E r \in Router : Create(r) \/ Take(r) \/ Give(r) \/ Delete(r)

Spec == Init /\ [][Next]_service
=============================================================================
