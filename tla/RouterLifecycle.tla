--------------------------- MODULE RouterLifecycle ---------------------------
(***************************************************************************)
(* The life of an upstream router in one gateway process: the manager's    *)
(* start, stop, restart and health check, the API handlers and the boot    *)
(* supervisor that call them, the reload listener, the proxy's database    *)
(* fallback and the shutdown sweep.                                        *)
(*                                                                         *)
(* Four stores must agree about a router: its row in PostgreSQL (db), its  *)
(* route in the Redis hash (redis), its route in the in-memory table       *)
(* (table) and the container Docker runs under its name (cst, owner).      *)
(* Every write to one of them is a step of its own.  A task is a goroutine *)
(* or an HTTP request: it reads the row once and works from that copy.     *)
(*                                                                         *)
(* An address is represented by the container it reaches; a missing route  *)
(* and an empty one are both None, because Lookup cannot tell them apart.  *)
(***************************************************************************)
EXTENDS Naturals, FiniteSets

CONSTANTS
    Router,      \* the routers an administrator can create, one row each
    Container,   \* the containers Docker can ever create
    Task,        \* the goroutines and requests that can ever run
    None,        \* no container, no address, no task
    Kinds,       \* the operations the tasks perform in this instance
    Allowed,     \* the routers whose image passes ALLOWED_IMAGES
    Faults,      \* the services whose calls may fail
    Exits        \* whether the process is ever stopped or killed

AllKinds == {"start", "boot", "stop", "restart", "delete", "wipe", "restore",
             "check", "ask", "proxy"}

ASSUME LifecycleAssumption ==
    /\ None \notin Container \union Task \union Router
    /\ Kinds \subseteq AllKinds
    /\ Allowed \subseteq Router
    /\ Faults \subseteq {"store", "redis", "docker"}
    /\ Exits \in BOOLEAN

VARIABLES
    life,      \* whether the row exists: absent, live or deleted
    db,        \* the columns of the row
    redis,     \* the hash "routing"
    table,     \* the in-memory routing table
    cst,       \* the state of a container in Docker
    owner,     \* the router a container was created for (its name)
    lock,      \* routerLocks: the task that holds a router's mutex
    pc,        \* where a task is
    kind,      \* the operation it performs
    rtr,       \* the router it performs it on
    row,       \* the copy of the row it read
    target,    \* the container whose address it is about to publish
    reloads,   \* reload events published and not yet consumed
    listener,  \* the listener between its read and its table update
    phase,     \* up, draining (StopAllForShutdown runs) or down
    sweep,     \* the state of StopAllForShutdown
    queue      \* the routers the boot supervisor has yet to start

store   == <<life, db>>
docker  == <<cst, owner>>
bus     == <<reloads, listener>>
locals  == <<kind, rtr, row, target>>
server  == <<phase, sweep, queue>>
vars    == <<store, redis, table, docker, lock, pc, locals, bus, server>>

-----------------------------------------------------------------------------
(* Types *)

Addr          == Container \union {None}
DesiredState  == {"running", "stopped"}
RuntimeState  == {"running", "stopped", "failed", "unhealthy"}
HealthStatus  == {"healthy", "unhealthy", "unknown"}

Row == [desired : DesiredState, runtime : RuntimeState, health : HealthStatus,
        addr : Addr, cid : Addr]

\* The program points between the lock of a router's mutex and its release.
StopPoints  == {"stop_container", "stop_record", "stop_redis", "stop_table",
                "stop_publish"}
StartPoints == {"inspect", "adopt_record", "adopt_redis", "adopt_table",
                "clean", "pull", "create", "launch", "await", "sick_record",
                "sick_publish", "run_record", "run_desire", "run_redis",
                "run_table", "run_publish", "fail"}
Critical    == StopPoints \union StartPoints

FreePoints  == {"unused", "desire_on", "desire_off", "try_lock", "lock",
                "drop_row", "probe", "seen_ok", "seen_bad", "well_table",
                "well_record", "well_desire", "well_redis", "degraded_record",
                "degraded_table", "degraded_redis", "gone_record",
                "gone_table", "ill_record", "ill_table", "proxy_table",
                "done"}

Points == Critical \union FreePoints

StoreType  == /\ life \in [Router -> {"absent", "live", "deleted"}]
              /\ db \in [Router -> Row]
RouteType  == /\ redis \in [Router -> Addr]
              /\ table \in [Router -> Addr]
DockerType == /\ cst \in [Container -> {"unused", "created", "running", "exited", "removed"}]
              /\ owner \in [Container -> Router \union {None}]
TaskType   == /\ pc \in [Task -> Points]
              /\ kind \in [Task -> Kinds \union {None}]
              /\ rtr \in [Task -> Router \union {None}]
              /\ row \in [Task -> Row]
              /\ target \in [Task -> Addr]
LockType   == lock \in [Router -> Task \union {None}]
BusType    == /\ reloads \in [Router -> Nat]
              /\ listener \in [rtr : Router \union {None}, addr : Addr]
ServerType == /\ phase \in {"up", "draining", "down"}
              /\ sweep \in [left : SUBSET Router, rows : [Router -> Row],
                            at : Router \union {None},
                            step : {"remove", "record", "desire"}]
              /\ queue \subseteq Router

\* Every variable holds a value of the type the code gives it.
TypeOK == /\ StoreType /\ RouteType /\ DockerType /\ TaskType
          /\ LockType /\ BusType /\ ServerType

-----------------------------------------------------------------------------
(* The columns of a new row, and an idle listener and sweep *)

NewRow(d) == [desired |-> d, runtime |-> "stopped", health |-> "unknown",
              addr |-> None, cid |-> None]
Blank     == NewRow("stopped")
Idle      == [rtr |-> None, addr |-> None]
NoSweep   == [left |-> {}, rows |-> [r \in Router |-> Blank],
              at |-> None, step |-> "remove"]

Init ==
    /\ life = [r \in Router |-> "absent"]
    /\ db = [r \in Router |-> Blank]
    /\ redis = [r \in Router |-> None]
    /\ table = [r \in Router |-> None]
    /\ cst = [c \in Container |-> "unused"]
    /\ owner = [c \in Container |-> None]
    /\ lock = [r \in Router |-> None]
    /\ pc = [t \in Task |-> "unused"]
    /\ kind = [t \in Task |-> None]
    /\ rtr = [t \in Task |-> None]
    /\ row = [t \in Task |-> Blank]
    /\ target = [t \in Task |-> None]
    /\ reloads = [r \in Router |-> 0]
    /\ listener = Idle
    /\ phase = "up"
    /\ sweep = NoSweep
    /\ queue = {}

-----------------------------------------------------------------------------
(* The stores *)

\* Docker keeps a container under its name until it is removed.
Exists(c)  == cst[c] \in {"created", "running", "exited"}
\* (mutant) Docker's name filter matches substrings.
NamedLike(r) == {c \in Container : Exists(c)}

Named(r)   == {c \in Container : owner[c] = r /\ Exists(c)}
Running(r) == {c \in Named(r) : cst[c] = "running"}

\* Stop and force-remove the containers cs; a container already gone is
\* ignored, and so is an error.
Remove(cs) ==
    \/ cst' = [c \in Container |->
                  IF c \in cs /\ Exists(c) THEN "removed" ELSE cst[c]]
    \/ "docker" \in Faults /\ UNCHANGED cst

\* (mutant) A schema without the CHECK constraint.
WriteStateUnchecked(r, runtime, addr, cid, health) ==
    db' = IF life[r] = "live"
          THEN [db EXCEPT ![r] = [desired |-> db[r].desired, runtime |-> runtime,
                                  health |-> health, addr |-> addr, cid |-> cid]]
          ELSE db

\* An UPDATE touches no deleted row, and the CHECK constraint on health_status
\* rejects every other value.
WriteState(r, runtime, addr, cid, health) ==
    db' = IF life[r] = "live" /\ health \in HealthStatus
          THEN [db EXCEPT ![r] = [desired |-> db[r].desired, runtime |-> runtime,
                                  health |-> health, addr |-> addr, cid |-> cid]]
          ELSE db

\* Nearly every caller ignores the error of a write.
SaveState(r, runtime, addr, cid, health) ==
    \/ WriteState(r, runtime, addr, cid, health)
    \/ "store" \in Faults /\ UNCHANGED db

SaveDesired(r, d) ==
    \/ db' = IF life[r] = "live" THEN [db EXCEPT ![r].desired = d] ELSE db
    \/ "store" \in Faults /\ UNCHANGED db

SetRoute(r, a) ==
    \/ redis' = [redis EXCEPT ![r] = a]
    \/ "redis" \in Faults /\ UNCHANGED redis

Publish(r) ==
    \/ reloads' = [reloads EXCEPT ![r] = @ + 1]
    \/ "redis" \in Faults /\ UNCHANGED reloads

\* The API shows a routed router as running at the address in the table.
Overlaid(r) ==
    IF table[r] = None THEN db[r]
    ELSE [desired |-> db[r].desired, runtime |-> "running",
          health |-> IF db[r].health = "unknown" THEN "healthy" ELSE db[r].health,
          addr |-> table[r], cid |-> db[r].cid]

-----------------------------------------------------------------------------
(* Tasks begin *)

At(t, l) == pc[t] = l

\* Move to point l; an operation that ends leaves no locals behind.
Jump(t, l) == pc' = [pc EXCEPT ![t] = l]
Goto(t, l) ==
    /\ Jump(t, l)
    /\ IF l = "done" THEN /\ kind' = [kind EXCEPT ![t] = None]
                          /\ rtr' = [rtr EXCEPT ![t] = None]
                          /\ row' = [row EXCEPT ![t] = Blank]
                          /\ target' = [target EXCEPT ![t] = None]
       ELSE UNCHANGED locals

\* Leave the critical section (the deferred Unlock) for point l.
Release(t, l) == /\ Goto(t, l)
                 /\ lock' = [lock EXCEPT ![rtr[t]] = None]

CreateRouter(r) ==
    /\ phase = "up"
    /\ life[r] = "absent"
    /\ \E d \in DesiredState : db' = [db EXCEPT ![r] = NewRow(d)]
    /\ life' = [life EXCEPT ![r] = "live"]
    /\ UNCHANGED <<redis, table, docker, lock, pc, locals, bus, server>>

\* The handlers look a router up through findRouter; the supervisor, the
\* checker and the proxy read the row itself.
SeenBy(k, r) == IF k \in {"boot", "check", "proxy"} THEN db[r] ELSE Overlaid(r)

\* Where an operation starts: deleteRouter stops a router that is or should be
\* running, manualS3Restore one that is or has a container.
FirstPoint(k, seen) ==
    IF \/ k \in {"restart", "wipe"}
       \/ k = "delete" /\ "running" \in {seen.desired, seen.runtime}
       \/ k = "restore" /\ (seen.runtime = "running" \/ seen.cid # None)
    THEN "lock"
    ELSE [start |-> "desire_on", boot |-> "desire_on", stop |-> "desire_off",
          delete |-> "drop_row", restore |-> "try_lock", check |-> "probe",
          ask |-> "probe", proxy |-> "proxy_table"][k]

\* While the server drains, only the checker and the boot goroutines still run.
Begin(t, k, r) ==
    /\ At(t, "unused")
    /\ life[r] = "live"
    /\ phase = "up" \/ (phase = "draining" /\ k \in {"boot", "check"})
    /\ k = "boot" => r \in queue
    /\ k = "proxy" => table[r] = None /\ db[r].addr # None
    /\ Jump(t, FirstPoint(k, SeenBy(k, r)))
    /\ kind' = [kind EXCEPT ![t] = k]
    /\ rtr' = [rtr EXCEPT ![t] = r]
    /\ row' = [row EXCEPT ![t] = SeenBy(k, r)]
    /\ queue' = IF k = "boot" THEN queue \ {r} ELSE queue
    /\ UNCHANGED <<store, redis, table, docker, lock, target, bus, phase, sweep>>

DesireOn(t) ==
    /\ At(t, "desire_on")
    /\ SaveDesired(rtr[t], "running")
    /\ Goto(t, "try_lock")
    /\ UNCHANGED <<life, redis, table, docker, lock, bus, server>>

DesireOff(t) ==
    /\ At(t, "desire_off")
    /\ SaveDesired(rtr[t], "stopped")
    /\ Goto(t, "lock")
    /\ UNCHANGED <<life, redis, table, docker, lock, bus, server>>

-----------------------------------------------------------------------------
(* Stop: under the router's mutex, from the caller's copy of the row *)

\* (mutant) Stop does not wait for the mutex.
LockAtOnce(t) ==
    /\ At(t, "lock")
    /\ lock' = [lock EXCEPT ![rtr[t]] = t]
    /\ Goto(t, "stop_container")
    /\ UNCHANGED <<store, redis, table, docker, bus, server>>

Lock(t) ==
    /\ At(t, "lock")
    /\ lock[rtr[t]] = None
    /\ lock' = [lock EXCEPT ![rtr[t]] = t]
    /\ Goto(t, "stop_container")
    /\ UNCHANGED <<store, redis, table, docker, bus, server>>

\* stopAndRemove in strict mode: only the container the copy names.
StopContainer(t) ==
    /\ At(t, "stop_container")
    /\ Remove({row[t].cid})
    /\ Goto(t, "stop_record")
    /\ UNCHANGED <<store, redis, table, owner, lock, bus, server>>

StopRecord(t) ==
    /\ At(t, "stop_record")
    /\ SaveState(rtr[t], "stopped", None, None, "unknown")
    /\ Goto(t, "stop_redis")
    /\ UNCHANGED <<life, redis, table, docker, lock, bus, server>>

\* (mutant) The route in Redis is left behind.
StopRedisSkipped(t) ==
    /\ At(t, "stop_redis")
    /\ Goto(t, "stop_table")
    /\ UNCHANGED <<store, redis, table, docker, lock, bus, server>>

StopRedis(t) ==
    /\ At(t, "stop_redis")
    /\ SetRoute(rtr[t], None)
    /\ Goto(t, "stop_table")
    /\ UNCHANGED <<store, table, docker, lock, bus, server>>

StopTable(t) ==
    /\ At(t, "stop_table")
    /\ table' = [table EXCEPT ![rtr[t]] = None]
    /\ Goto(t, "stop_publish")
    /\ UNCHANGED <<store, redis, docker, lock, bus, server>>

\* Restart keeps the mutex; wipe and restore start again with the same copy.
AfterStop(t) ==
    IF kind[t] = "delete" THEN "drop_row"
    ELSE IF \/ kind[t] = "restore"
            \/ kind[t] = "wipe" /\ row[t].desired = "running" THEN "try_lock"
    ELSE "done"

\* (mutant) Restart unlocks between its stop and its start.
StopPublishUnlocks(t) ==
    /\ At(t, "stop_publish")
    /\ Publish(rtr[t])
    /\ Release(t, IF kind[t] = "restart" THEN "inspect" ELSE AfterStop(t))
    /\ UNCHANGED <<store, redis, table, docker, listener, server>>

StopPublish(t) ==
    /\ At(t, "stop_publish")
    /\ Publish(rtr[t])
    /\ IF kind[t] = "restart" THEN Goto(t, "inspect") /\ UNCHANGED lock
                              ELSE Release(t, AfterStop(t))
    /\ UNCHANGED <<store, redis, table, docker, listener, server>>

\* deleteRouter deletes the row without the mutex.
DropRow(t) ==
    /\ At(t, "drop_row")
    /\ \/ life' = [life EXCEPT ![rtr[t]] = "deleted"]
       \/ "store" \in Faults /\ UNCHANGED life
    /\ Goto(t, "done")
    /\ UNCHANGED <<db, redis, table, docker, lock, bus, server>>
-----------------------------------------------------------------------------
(* Start: a mutex that is taken means a start is under way, and is skipped *)

TryLock(t) ==
    /\ At(t, "try_lock")
    /\ \/ /\ lock[rtr[t]] = None
          /\ lock' = [lock EXCEPT ![rtr[t]] = t]
          /\ Goto(t, "inspect")
       \/ /\ lock[rtr[t]] # None
          /\ Goto(t, "done")
          /\ UNCHANGED lock
    /\ UNCHANGED <<store, redis, table, docker, bus, server>>

\* An image that is not allowed is recorded and reported at once.
RefuseImage(t) ==
    /\ At(t, "inspect")
    /\ rtr[t] \notin Allowed
    /\ SaveState(rtr[t], "failed", None, None, "unhealthy")
    /\ Goto(t, "fail")
    /\ UNCHANGED <<life, redis, table, docker, lock, bus, server>>

\* A running container that answers is kept; otherwise a new one is made.
Inspect(t) ==
    /\ At(t, "inspect")
    /\ rtr[t] \in Allowed
    /\ \/ /\ kind[t] # "restart"
          /\ \E c \in Running(rtr[t]) : target' = [target EXCEPT ![t] = c]
          /\ Jump(t, "adopt_record")
       \/ /\ Jump(t, "clean")
          /\ UNCHANGED target
    /\ UNCHANGED <<store, redis, table, docker, lock, kind, rtr, row, bus, server>>

AdoptRecord(t) ==
    /\ At(t, "adopt_record")
    /\ SaveState(rtr[t], "running", target[t], target[t], "healthy")
    /\ Goto(t, "adopt_redis")
    /\ UNCHANGED <<life, redis, table, docker, lock, bus, server>>

\* (mutant) An adopted container is trusted to be routed already.
AdoptRedisSkipped(t) ==
    /\ At(t, "adopt_redis")
    /\ Goto(t, "adopt_table")
    /\ UNCHANGED <<store, redis, table, docker, lock, bus, server>>

AdoptRedis(t) ==
    /\ At(t, "adopt_redis")
    /\ SetRoute(rtr[t], target[t])
    /\ Goto(t, "adopt_table")
    /\ UNCHANGED <<store, table, docker, lock, bus, server>>

AdoptTable(t) ==
    /\ At(t, "adopt_table")
    /\ table' = [table EXCEPT ![rtr[t]] = target[t]]
    /\ Release(t, "done")
    /\ UNCHANGED <<store, redis, docker, bus, server>>

\* stopAndRemove, not strict: the copy's container, or the one with the name.
Clean(t) ==
    /\ At(t, "clean")
    /\ Remove(IF row[t].cid # None THEN {row[t].cid} ELSE Named(rtr[t]))
    /\ Goto(t, "pull")
    /\ UNCHANGED <<store, redis, table, owner, lock, bus, server>>

\* Pull the image and decrypt the credentials; either may fail.
Pull(t) ==
    /\ At(t, "pull")
    /\ \/ Goto(t, "create")
       \/ Goto(t, "fail")
    /\ UNCHANGED <<store, redis, table, docker, lock, bus, server>>

\* Remove whatever has the name, then create the container and hydrate it.
Create(t) ==
    /\ At(t, "create")
    /\ \/ \E c \in Container :
            /\ cst[c] = "unused"
            /\ cst' = [d \in Container |-> IF d = c THEN "created"
                          ELSE IF d \in Named(rtr[t]) THEN "removed" ELSE cst[d]]
            /\ owner' = [owner EXCEPT ![c] = rtr[t]]
            /\ target' = [target EXCEPT ![t] = c]
            /\ Jump(t, "launch")
       \/ /\ Remove(Named(rtr[t]))
          /\ Jump(t, "fail")
          /\ UNCHANGED <<owner, target>>
    /\ UNCHANGED <<store, redis, table, lock, kind, rtr, row, bus, server>>

\* ContainerStart; a container that does not start is removed.
Launch(t) ==
    /\ At(t, "launch")
    /\ \/ /\ cst[target[t]] = "created"
          /\ cst' = [cst EXCEPT ![target[t]] = "running"]
          /\ Goto(t, "await")
       \/ /\ Remove({target[t]})
          /\ Goto(t, "fail")
    /\ UNCHANGED <<store, redis, table, owner, lock, bus, server>>

\* waitForHealthy: an answer below 500 from a live container, or the deadline;
\* when the caller's context ends first nothing more can be written.
Await(t) ==
    /\ At(t, "await")
    /\ \/ cst[target[t]] = "running" /\ Goto(t, "run_record")
       \/ Goto(t, "sick_record")
       \/ Goto(t, "fail")
    /\ UNCHANGED <<store, redis, table, docker, lock, bus, server>>

SickRecord(t) ==
    /\ At(t, "sick_record")
    /\ SaveState(rtr[t], "unhealthy", target[t], target[t], "unhealthy")
    /\ Goto(t, "sick_publish")
    /\ UNCHANGED <<life, redis, table, docker, lock, bus, server>>

SickPublish(t) ==
    /\ At(t, "sick_publish")
    /\ Publish(rtr[t])
    /\ Goto(t, "fail")
    /\ UNCHANGED <<store, redis, table, docker, lock, listener, server>>

\* The one row update whose error ends the operation.
RunRecord(t) ==
    /\ At(t, "run_record")
    /\ \/ /\ WriteState(rtr[t], "running", target[t], target[t], "healthy")
          /\ Goto(t, "run_desire")
       \/ /\ Goto(t, "fail")
          /\ UNCHANGED db
    /\ UNCHANGED <<life, redis, table, docker, lock, bus, server>>

RunDesire(t) ==
    /\ At(t, "run_desire")
    /\ SaveDesired(rtr[t], "running")
    /\ Goto(t, "run_redis")
    /\ UNCHANGED <<life, redis, table, docker, lock, bus, server>>

\* (mutant) The address published is the one of the copy read at the beginning.
RunRedisStale(t) ==
    /\ At(t, "run_redis")
    /\ redis' = [redis EXCEPT ![rtr[t]] = row[t].addr]
    /\ Goto(t, "run_table")
    /\ UNCHANGED <<store, table, docker, lock, bus, server>>

\* The one Redis write whose error ends the operation.
RunRedis(t) ==
    /\ At(t, "run_redis")
    /\ \/ /\ redis' = [redis EXCEPT ![rtr[t]] = target[t]]
          /\ Goto(t, "run_table")
       \/ /\ "redis" \in Faults
          /\ Goto(t, "fail")
          /\ UNCHANGED redis
    /\ UNCHANGED <<store, table, docker, lock, bus, server>>

RunTable(t) ==
    /\ At(t, "run_table")
    /\ table' = [table EXCEPT ![rtr[t]] = target[t]]
    /\ Goto(t, "run_publish")
    /\ UNCHANGED <<store, redis, docker, lock, bus, server>>

RunPublish(t) ==
    /\ At(t, "run_publish")
    /\ Publish(rtr[t])
    /\ Release(t, "done")
    /\ UNCHANGED <<store, redis, table, docker, listener, server>>

\* (mutant) An error return without the Unlock.
FailLocked(t) ==
    /\ At(t, "fail")
    /\ SaveState(rtr[t], "failed", None, None, "unhealthy")
    /\ Goto(t, "done")
    /\ UNCHANGED <<life, redis, table, docker, lock, bus, server>>

\* (mutant) Start only returns its failure, as Restart does.
FailUnrecorded(t) ==
    /\ At(t, "fail")
    /\ Release(t, "done")
    /\ UNCHANGED <<store, redis, table, docker, bus, server>>

\* Start records the failure; Restart only returns it.
Fail(t) ==
    /\ At(t, "fail")
    /\ IF kind[t] = "restart" THEN UNCHANGED db
       ELSE SaveState(rtr[t], "failed", None, None, "unhealthy")
    /\ Release(t, "done")
    /\ UNCHANGED <<life, redis, table, docker, bus, server>>

-----------------------------------------------------------------------------
(* HealthCheck: no mutex, and every decision from the copy of the row *)

\* An address answers only while the container behind it runs.
Probe(t) ==
    /\ At(t, "probe")
    /\ target' = [target EXCEPT ![t] = row[t].addr]
    /\ \/ /\ row[t].addr # None
          /\ cst[row[t].addr] = "running"
          /\ Jump(t, "seen_ok")
       \/ Jump(t, "seen_bad")
    /\ UNCHANGED <<store, redis, table, docker, lock, kind, rtr, row, bus, server>>

\* ContainerInspect shows no running container, or fails.
NoneSeen(r) == Running(r) = {} \/ "docker" \in Faults

\* The container that runs under the name replaces the copy's container id.
InspectGood(t) ==
    /\ At(t, "seen_ok")
    /\ \/ \E c \in Running(rtr[t]) : row' = [row EXCEPT ![t].cid = c]
       \/ NoneSeen(rtr[t]) /\ UNCHANGED row
    /\ Jump(t, "well_table")
    /\ UNCHANGED <<store, redis, table, docker, lock, kind, rtr, target, bus, server>>

\* After a failed probe the container may still answer at another address.
InspectBad(t) ==
    /\ At(t, "seen_bad")
    /\ \/ \E c \in Running(rtr[t]) :
            /\ row' = [row EXCEPT ![t].cid = c]
            /\ \/ target' = [target EXCEPT ![t] = c] /\ Jump(t, "well_table")
               \/ UNCHANGED target /\ Jump(t, "degraded_record")
       \/ /\ NoneSeen(rtr[t])
          /\ Jump(t, IF target[t] = None THEN "gone_record" ELSE "ill_record")
          /\ UNCHANGED <<row, target>>
    /\ UNCHANGED <<store, redis, table, docker, lock, kind, rtr, bus, server>>

\* A check that changes nothing the copy shows writes only the table.
Unchanged(t) == /\ row[t].health = "healthy"
                /\ row[t].runtime = "running"
                /\ row[t].addr = target[t]

WellTable(t) ==
    /\ At(t, "well_table")
    /\ table' = [table EXCEPT ![rtr[t]] = target[t]]
    /\ Goto(t, IF Unchanged(t) THEN "done" ELSE "well_record")
    /\ UNCHANGED <<store, redis, docker, lock, bus, server>>

WellRecord(t) ==
    /\ At(t, "well_record")
    /\ SaveState(rtr[t], "running", target[t], row[t].cid, "healthy")
    /\ Goto(t, "well_desire")
    /\ UNCHANGED <<life, redis, table, docker, lock, bus, server>>

WellDesire(t) ==
    /\ At(t, "well_desire")
    /\ SaveDesired(rtr[t], "running")
    /\ Goto(t, "well_redis")
    /\ UNCHANGED <<life, redis, table, docker, lock, bus, server>>

WellRedis(t) ==
    /\ At(t, "well_redis")
    /\ SetRoute(rtr[t], target[t])
    /\ Goto(t, "done")
    /\ UNCHANGED <<store, table, docker, lock, bus, server>>

\* The container runs and does not answer: the row must say degraded, which
\* the schema does not allow, and both routes get the address last seen.
DegradedRecord(t) ==
    /\ At(t, "degraded_record")
    /\ SaveState(rtr[t], "running", target[t], row[t].cid, "degraded")
    /\ Goto(t, "degraded_table")
    /\ UNCHANGED <<life, redis, table, docker, lock, bus, server>>

DegradedTable(t) ==
    /\ At(t, "degraded_table")
    /\ table' = [table EXCEPT ![rtr[t]] = target[t]]
    /\ Goto(t, "degraded_redis")
    /\ UNCHANGED <<store, redis, docker, lock, bus, server>>

DegradedRedis(t) ==
    /\ At(t, "degraded_redis")
    /\ SetRoute(rtr[t], target[t])
    /\ Goto(t, "done")
    /\ UNCHANGED <<store, table, docker, lock, bus, server>>

\* No container runs: forget a router without address, mark one that has it.
GoneRecord(t) ==
    /\ At(t, "gone_record")
    /\ SaveState(rtr[t], "stopped", None, None, "unknown")
    /\ Goto(t, "gone_table")
    /\ UNCHANGED <<life, redis, table, docker, lock, bus, server>>

IllRecord(t) ==
    /\ At(t, "ill_record")
    /\ SaveState(rtr[t], "unhealthy", row[t].addr, row[t].cid, "unhealthy")
    /\ Goto(t, "ill_table")
    /\ UNCHANGED <<life, redis, table, docker, lock, bus, server>>

Evict(t) ==
    /\ pc[t] \in {"gone_table", "ill_table"}
    /\ table' = [table EXCEPT ![rtr[t]] = None]
    /\ Goto(t, "done")
    /\ UNCHANGED <<store, redis, docker, lock, bus, server>>

\* The proxy's fallback puts the row's address into the table.
ProxyTable(t) ==
    /\ At(t, "proxy_table")
    /\ table' = [table EXCEPT ![rtr[t]] = row[t].addr]
    /\ Goto(t, "done")
    /\ UNCHANGED <<store, redis, docker, lock, bus, server>>

-----------------------------------------------------------------------------
(* The reload listener: one goroutine, reading the row and then the table *)

\* (mutant) The listener acts on an event it has not received.
ListenerReadAgain(r) ==
    /\ listener = Idle
    /\ reloads' = [reloads EXCEPT ![r] = @ - 1]
    /\ listener' = [rtr |-> r, addr |-> db[r].addr]
    /\ UNCHANGED <<store, redis, table, docker, lock, pc, locals, server>>

\* A row that cannot be read counts as one that is gone.
ListenerRead(r) ==
    /\ phase # "down"
    /\ listener = Idle
    /\ reloads[r] > 0
    /\ reloads' = [reloads EXCEPT ![r] = @ - 1]
    /\ \/ /\ life[r] = "live"
          /\ db[r].runtime \notin {"stopped", "failed"}
          /\ listener' = [rtr |-> r, addr |-> db[r].addr]
       \/ /\ \/ life[r] # "live"
             \/ db[r].runtime \in {"stopped", "failed"}
             \/ "store" \in Faults
          /\ listener' = [rtr |-> r, addr |-> None]
    /\ UNCHANGED <<store, redis, table, docker, lock, pc, locals, server>>

ListenerApply ==
    /\ listener # Idle
    /\ table' = [table EXCEPT ![listener.rtr] = listener.addr]
    /\ listener' = Idle
    /\ UNCHANGED <<store, redis, docker, lock, pc, locals, reloads, server>>

-----------------------------------------------------------------------------
(* Docker: a process may die, and unless-stopped brings it back *)

ContainerDies(c) ==
    /\ cst[c] = "running"
    /\ cst' = [cst EXCEPT ![c] = "exited"]
    /\ UNCHANGED <<store, redis, table, owner, lock, pc, locals, bus, server>>

ContainerReturns(c) ==
    /\ cst[c] = "exited"
    /\ cst' = [cst EXCEPT ![c] = "running"]
    /\ UNCHANGED <<store, redis, table, owner, lock, pc, locals, bus, server>>

-----------------------------------------------------------------------------
(* Shutdown: the sweep lists the rows once and takes no mutex *)

Drain ==
    /\ Exits
    /\ phase = "up"
    /\ phase' = "draining"
    /\ sweep' = [NoSweep EXCEPT
                    !.rows = db,
                    !.left = {r \in Router : /\ life[r] = "live"
                                             /\ \/ db[r].runtime = "running"
                                                \/ db[r].cid # None}]
    /\ UNCHANGED <<store, redis, table, docker, lock, pc, locals, bus, queue>>

SweepRemove(r) ==
    /\ phase = "draining"
    /\ sweep.at = None
    /\ r \in sweep.left
    /\ Remove({sweep.rows[r].cid})
    /\ sweep' = [sweep EXCEPT !.left = @ \ {r}, !.at = r, !.step = "record"]
    /\ UNCHANGED <<store, redis, table, owner, lock, pc, locals, bus, phase, queue>>

SweepRecord ==
    /\ sweep.at # None
    /\ sweep.step = "record"
    /\ SaveState(sweep.at, "stopped", None, None, "unknown")
    /\ sweep' = IF sweep.rows[sweep.at].desired = "running"
                THEN [sweep EXCEPT !.step = "desire"]
                ELSE [sweep EXCEPT !.at = None, !.step = "remove"]
    /\ UNCHANGED <<life, redis, table, docker, lock, pc, locals, bus, phase, queue>>

SweepDesire ==
    /\ sweep.at # None
    /\ sweep.step = "desire"
    /\ SaveDesired(sweep.at, "running")
    /\ sweep' = [sweep EXCEPT !.at = None, !.step = "remove"]
    /\ UNCHANGED <<life, redis, table, docker, lock, pc, locals, bus, phase, queue>>

\* The process ends, swept or killed: what lives in memory is gone, and so are
\* the events nobody has received.
Exit ==
    /\ Exits
    /\ phase # "down"
    /\ phase' = "down"
    /\ pc' = [t \in Task |-> IF At(t, "unused") THEN "unused" ELSE "done"]
    /\ kind' = [t \in Task |-> None]
    /\ rtr' = [t \in Task |-> None]
    /\ row' = [t \in Task |-> Blank]
    /\ target' = [t \in Task |-> None]
    /\ lock' = [r \in Router |-> None]
    /\ table' = [r \in Router |-> None]
    /\ reloads' = [r \in Router |-> 0]
    /\ listener' = Idle
    /\ sweep' = NoSweep
    /\ queue' = {}
    /\ UNCHANGED <<store, redis, docker>>

\* (mutant) Only the routers that should run are started again.
BootDesired ==
    /\ phase = "down"
    /\ phase' = "up"
    /\ table' = redis
    /\ queue' = {r \in Router : life[r] = "live" /\ db[r].desired = "running"}
    /\ UNCHANGED <<store, redis, docker, lock, pc, locals, bus, sweep>>

\* The next process loads the table from Redis and queues every router.
Boot ==
    /\ phase = "down"
    /\ phase' = "up"
    /\ table' = redis
    /\ queue' = {r \in Router : life[r] = "live"}
    /\ UNCHANGED <<store, redis, docker, lock, pc, locals, bus, sweep>>

-----------------------------------------------------------------------------
(* The specification *)

StopStep(t) ==
    \/ StopContainer(t) \/ StopRecord(t) \/ StopRedis(t) \/ StopTable(t)
    \/ StopPublish(t)

StartStep(t) ==
    \/ RefuseImage(t) \/ Inspect(t) \/ AdoptRecord(t) \/ AdoptRedis(t)
    \/ AdoptTable(t) \/ Clean(t) \/ Pull(t) \/ Create(t) \/ Launch(t)
    \/ Await(t) \/ SickRecord(t) \/ SickPublish(t) \/ RunRecord(t)
    \/ RunDesire(t) \/ RunRedis(t) \/ RunTable(t) \/ RunPublish(t) \/ Fail(t)

FreeStep(t) ==
    \/ DesireOn(t) \/ DesireOff(t) \/ TryLock(t) \/ DropRow(t)
    \/ Probe(t) \/ InspectGood(t) \/ InspectBad(t) \/ WellTable(t)
    \/ WellRecord(t) \/ WellDesire(t) \/ WellRedis(t) \/ DegradedRecord(t)
    \/ DegradedTable(t) \/ DegradedRedis(t) \/ GoneRecord(t) \/ IllRecord(t)
    \/ Evict(t) \/ ProxyTable(t)

Listener == ListenerApply \/ \E r \in Router : ListenerRead(r)

Environment == \E c \in Container : ContainerDies(c) \/ ContainerReturns(c)

Server ==
    \/ Drain \/ SweepRecord \/ SweepDesire \/ Exit \/ Boot
    \/ \E r \in Router : SweepRemove(r)

Next ==
    \/ \E r \in Router : CreateRouter(r)
    \/ \E t \in Task, r \in Router, k \in Kinds : Begin(t, k, r)
    \/ \E t \in Task : Lock(t) \/ FreeStep(t) \/ StopStep(t) \/ StartStep(t)
    \/ Listener
    \/ Environment
    \/ Server

Spec == Init /\ [][Next]_vars

\* A goroutine that can run does run, every Docker and HTTP call it waits for
\* ends (they carry deadlines), and a Go mutex hands itself to its oldest
\* waiter.  Nothing obliges an administrator, a container or a signal to act.
Fairness ==
    /\ \A t \in Task : WF_vars(FreeStep(t) \/ StopStep(t) \/ StartStep(t))
    /\ \A t \in Task : SF_vars(Lock(t))
    /\ WF_vars(Listener)

FairSpec == Spec /\ Fairness

-----------------------------------------------------------------------------
(* Properties *)

InCritical(t) == pc[t] \in Critical

\* At most one of start, stop and restart works on a router at a time: the
\* deferred Unlock of every path, early return and failure included, gives the
\* mutex back, and no operation runs after giving it back.
MutualExclusion ==
    \A t, u \in Task : InCritical(t) /\ InCritical(u) /\ rtr[t] = rtr[u] => t = u

\* A mutex that is taken is held by a task at work on that router: no path, early
\* return or failure leaves it behind for the operations to come to wait on.
HeldIsAtWork ==
    \A r \in Router : lock[r] # None => InCritical(lock[r]) /\ rtr[lock[r]] = r

Mine(r, c) == c = None \/ owner[c] = r

\* The address a router is reached at, in the row, in Redis, in the table and in
\* every copy still in flight, is of a container created for that router: the
\* listener, the checker and the proxy never send one router's traffic to another.
RouteIsolation ==
    /\ \A r \in Router : /\ Mine(r, db[r].addr) /\ Mine(r, db[r].cid)
                         /\ Mine(r, redis[r]) /\ Mine(r, table[r])
    /\ \A t \in Task : rtr[t] # None =>
          Mine(rtr[t], row[t].addr) /\ Mine(rtr[t], row[t].cid) /\ Mine(rtr[t], target[t])
    /\ listener.rtr # None => Mine(listener.rtr, listener.addr)

\* A container that a start has created and not yet reported is removed by that
\* start alone, however many stops, restarts and deletions hold an older copy of
\* the row (the shutdown sweep excepted, which takes no mutex).
FreshContainerSafe ==
    [][\A t \in Task :
        /\ pc[t] \in {"launch", "await", "run_record", "run_desire", "run_redis",
                      "run_table", "run_publish"}
        /\ Exists(target[t])
        /\ cst'[target[t]] = "removed"
        => At(t, "launch") /\ pc'[t] = "fail"]_vars

Sound(w) == IF w.runtime \in {"running", "unhealthy"}
            THEN w.addr # None /\ w.cid # None
            ELSE w.addr = None /\ w.cid = None

\* The row is all of a piece: a router that is running or unhealthy has an
\* address and a container to stop, one that is stopped or failed has neither.
\* Stop depends on it: in strict mode it removes only the container the row names.
RowCoherent == \A r \in Router : Sound(db[r])

\* Nothing is under way for r and the process is up.
Quiet(r) ==
    /\ \A t \in Task : rtr[t] # r
    /\ reloads[r] = 0
    /\ listener.rtr # r
    /\ phase = "up" /\ r \notin queue

\* The route in Redis and the row are of a container of the router.
Agree(r) == /\ redis[r] = db[r].addr
            /\ db[r].addr = db[r].cid
            /\ db[r].cid \in Named(r)

\* When everything about a running router has settled, its row, its Redis route
\* (from which the next process loads the table) and a container of its own agree.
RunningIsRouted ==
    \A r \in Router :
        Quiet(r) /\ life[r] = "live" /\ db[r].runtime = "running" => Agree(r)

\* When everything about a stopped router has settled, no route leads to it.
StoppedIsUnrouted ==
    \A r \in Router :
        Quiet(r) /\ life[r] = "live" /\ db[r].runtime = "stopped" =>
            redis[r] = None /\ table[r] = None

\* What a router is between operations, and what is being done to it.
AtRest(r) == CASE db[r].runtime = "running" -> IF Agree(r) THEN "running" ELSE "misrouted"
               [] db[r].runtime = "stopped" -> IF redis[r] = None THEN "stopped" ELSE "misrouted"
               [] OTHER -> db[r].runtime

Status(r) == IF life[r] # "live" THEN life[r]
             ELSE IF lock[r] # None THEN "busy" ELSE AtRest(r)

Doing(r) == IF lock[r] = None THEN "none"
            ELSE IF kind[lock[r]] = "restart" THEN "restart"
            ELSE IF pc[lock[r]] \in StopPoints THEN "stop" ELSE "start"

\* While no write is lost, the manager's operations are those of RouterService:
\* as if each happened at once when it gives the mutex back, whatever is
\* interleaved with its steps and wherever it fails, and nothing between two of
\* them changes the router.
Service == INSTANCE RouterService WITH
    status <- [r \in Router |-> Status(r)],
    op     <- [r \in Router |-> Doing(r)]

IsService == Service!Spec

\* Every operation ends, whichever of its steps fails and whoever else waits for
\* the same mutex, and every reload event is consumed: no path leaks the mutex.
\* (An operation is under way once: what has begun is never again "unused".)
EveryOperationEnds ==
    /\ \A t \in Task : []<>(pc[t] \in {"unused", "done"})
    /\ \A r \in Router : []<>(reloads[r] = 0)

==============================================================================
