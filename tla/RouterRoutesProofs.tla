------------------------- MODULE RouterRoutesProofs -------------------------
(***************************************************************************)
(* Theorems about where the routes of RouterLifecycle lead, for any number *)
(* of routers, containers and tasks: when nothing is under way for a       *)
(* running router its row, its Redis route and its container agree; when   *)
(* nothing is under way for a stopped one no route leads to it; a          *)
(* container on its way up is removed by nobody but its own start; and the *)
(* manager does what RouterService says of it.                             *)
(*                                                                         *)
(* All but the third hold while every call succeeds and nobody writes a    *)
(* route outside the mutex, that is without health checks and the proxy's  *)
(* fallback; the first two include crashes, restarts and shutdown sweeps.  *)
(***************************************************************************)
EXTENDS RouterLifecycleProofs

-----------------------------------------------------------------------------
(* What must hold of a router at rest, and what a holder of its mutex owes *)

Orderly == Faults = {} /\ Kinds \intersect {"check", "ask", "proxy"} = {}

NoHolder(r) == \A t \in Task : ~Works(t, r)

\* The supervisor of a new process has not reached r yet: the table may still
\* hold what Redis kept from the process before.
Due(t, r) == rtr[t] = r /\ kind[t] = "boot" /\ pc[t] \in {"desire_on", "try_lock"}
Dirty(r)  == r \in queue \/ \E t \in Task : Due(t, r)

\* A route to a stopped router is on its way out, and none is on its way in.
Tidy(r) ==
    db[r].runtime = "stopped" =>
        /\ table[r] # None => reloads[r] > 0 \/ (listener.rtr = r /\ listener.addr = None)
        /\ listener.rtr = r /\ listener.addr # None => reloads[r] > 0

Settled(r) == /\ db[r].runtime = "running" => Agree(r)
              /\ db[r].runtime = "stopped" => redis[r] = None
              /\ Tidy(r)

Kept(t, r)    == target[t] \in Named(r)
Written(t, r) == /\ db[r].runtime = "running"
                 /\ db[r].addr = target[t] /\ db[r].cid = target[t]
Cleared(r)    == db[r].runtime = "stopped" /\ redis[r] = None

\* What holds of router r when t, at work on it, is about to perform the
\* step at point l.
HoldsAt(t, r, l) ==
    /\ l \in {"adopt_record", "adopt_redis", "adopt_table", "launch", "await",
              "run_record", "run_desire", "run_redis", "run_table",
              "run_publish"} => Kept(t, r)
    /\ l \in {"adopt_redis", "adopt_table", "run_desire", "run_redis",
              "run_table", "run_publish"} => Written(t, r)
    /\ l \in {"adopt_table", "run_table", "run_publish"} => redis[r] = target[t]
    /\ l \in {"stop_redis", "stop_table", "stop_publish"} => db[r].runtime = "stopped"
    /\ l \in {"stop_table", "stop_publish"} => redis[r] = None
    /\ l = "sick_publish" => db[r].runtime = "unhealthy"
    /\ kind[t] = "restart" /\ l \in StartPoints =>
         /\ Tidy(r)
         /\ l \in {"inspect", "clean", "pull", "create", "launch", "await",
                   "sick_record", "run_record"} => Cleared(r)
         /\ l = "fail" => \/ Cleared(r)
                          \/ db[r].runtime \in {"unhealthy", "failed"}

RouterOK(r) == /\ NoHolder(r) /\ ~Dirty(r) => Settled(r)
               /\ \A t \in Task : Works(t, r) => HoldsAt(t, r, pc[t])

RouteInv == phase = "up" => \A r \in Router : life[r] = "live" => RouterOK(r)

\* A row that was never inserted has left no trace.
AbsentInv ==
    \A r \in Router : life[r] = "absent" =>
        /\ redis[r] = None /\ table[r] = None
        /\ listener.rtr = r => listener.addr = None
        /\ \A t \in Task : rtr[t] # r

\* No task survives its process, and only a draining process sweeps.
PhaseInv ==
    /\ phase = "down" => \A t \in Task : pc[t] \in {"unused", "done"}
    /\ phase # "draining" => sweep.at = None

\* Nobody checks health, and a restart never waits with TryLock.
Checks == {"probe", "seen_ok", "seen_bad", "well_table", "well_record",
           "well_desire", "well_redis", "degraded_record", "degraded_table",
           "degraded_redis", "gone_record", "gone_table", "ill_record",
           "ill_table", "proxy_table"}

KindInv == \A t \in Task : /\ pc[t] \notin Checks
                           /\ pc[t] \in {"desire_on", "try_lock"} => kind[t] # "restart"

-----------------------------------------------------------------------------
(* A step of a task is about its own router *)

Same(r) == /\ db'[r].runtime = db[r].runtime
           /\ db'[r].addr = db[r].addr /\ db'[r].cid = db[r].cid
           /\ redis'[r] = redis[r]
           /\ Named(r)' = Named(r)
           /\ Tidy(r) => Tidy(r)'

SameTask(t) == /\ pc'[t] = pc[t] /\ kind'[t] = kind[t]
               /\ rtr'[t] = rtr[t] /\ target'[t] = target[t]

\* A router nobody touched stays as good as it was.
LEMMA FrameRouter ==
    ASSUME NEW r \in Router, RouterOK(r), Same(r),
           \A u \in Task : Works(u, r)' => Works(u, r) /\ SameTask(u),
           NoHolder(r)' /\ ~Dirty(r)' => NoHolder(r) /\ ~Dirty(r)
    PROVE  RouterOK(r)'
  <1>1. Settled(r) => Settled(r)'
    BY DEF Settled, Agree, Same
  <1>2. ASSUME NEW u \in Task, Works(u, r)'
        PROVE  HoldsAt(u, r, pc[u])'
    <2>1. /\ rtr[u] = r /\ rtr'[u] = r /\ pc'[u] = pc[u] /\ kind'[u] = kind[u]
          /\ target'[u] = target[u] /\ HoldsAt(u, r, pc[u])
      BY <1>2 DEF Works, SameTask, RouterOK
    <2>2. Kept(u, r) => Kept(u, r)' BY <2>1 DEF Kept, Same
    <2>3. Written(u, r) => Written(u, r)' BY <2>1 DEF Written, Same
    <2>4. Tidy(r) => Tidy(r)' BY <2>1 DEF Tidy, Same
    <2>5. Cleared(r) => Cleared(r)' BY <2>1 DEF Cleared, Same
    <2> QED BY <2>1, <2>2, <2>3, <2>4, <2>5 DEF HoldsAt, Same
  <1> QED BY <1>1, <1>2 DEF RouterOK

Others(r) ==
    \A q \in Router : q # r =>
        /\ life'[q] = life[q] /\ db'[q] = db[q]
        /\ redis'[q] = redis[q] /\ table'[q] = table[q]
        /\ reloads'[q] = reloads[q] /\ Named(q)' = Named(q)

OwnOnly(t) == /\ Others(rtr[t])
              /\ UNCHANGED <<listener, server>>
              /\ rtr'[t] \in {rtr[t], None}
              /\ \A u \in Task : u # t => SameTask(u)

LEMMA GotoOwn ==
    ASSUME TaskType, NEW t \in Task, NEW l, Goto(t, l)
    PROVE  /\ rtr'[t] \in {rtr[t], None}
           /\ \A u \in Task : u # t => SameTask(u)
           /\ pc'[t] = l
           /\ l # "done" => /\ kind'[t] = kind[t] /\ rtr'[t] = rtr[t]
                           /\ target'[t] = target[t]
           /\ l = "done" => rtr'[t] = None
  BY DEF TaskType, Goto, Jump, SameTask, locals

LEMMA JumpOwn ==
    ASSUME TaskType, NEW t \in Task, NEW l, Jump(t, l), UNCHANGED <<kind, rtr>>,
           \A u \in Task : u # t => target'[u] = target[u]
    PROVE  /\ rtr'[t] \in {rtr[t], None}
           /\ \A u \in Task : u # t => SameTask(u)
           /\ pc'[t] = l
  BY DEF TaskType, Jump, SameTask

\* Writing one router's row, route or event leaves the others' alone.
LEMMA WriteOthers ==
    ASSUME TypeOK, NEW r, NEW q \in Router, q # r
    PROVE  /\ \A rt, a, c, h : SaveState(r, rt, a, c, h) => db'[q] = db[q]
           /\ \A rt, a, c, h : WriteState(r, rt, a, c, h) => db'[q] = db[q]
           /\ \A d : SaveDesired(r, d) => db'[q] = db[q]
           /\ \A a : SetRoute(r, a) => redis'[q] = redis[q]
           /\ \A a : redis' = [redis EXCEPT ![r] = a] => redis'[q] = redis[q]
           /\ \A a : table' = [table EXCEPT ![r] = a] => table'[q] = table[q]
           /\ Publish(r) => reloads'[q] = reloads[q]
  <1>2. /\ db \in [Router -> Row] /\ redis \in [Router -> Addr]
        /\ table \in [Router -> Addr] /\ reloads \in [Router -> Nat]
    BY DEF TypeOK, StoreType, RouteType, BusType
  <1>3. \A rt, a, c, h : WriteState(r, rt, a, c, h) => db'[q] = db[q]
    BY <1>2 DEF WriteState
  <1>4. \A rt, a, c, h : SaveState(r, rt, a, c, h) => db'[q] = db[q]
    BY <1>3 DEF SaveState
  <1>5. \A d : SaveDesired(r, d) => db'[q] = db[q]
    BY <1>2 DEF SaveDesired, Row
  <1>6. \A a : redis' = [redis EXCEPT ![r] = a] => redis'[q] = redis[q]
    BY <1>2
  <1>7. \A a : table' = [table EXCEPT ![r] = a] => table'[q] = table[q]
    BY <1>2
  <1>8. Publish(r) => reloads'[q] = reloads[q]
    BY <1>2 DEF Publish
  <1> QED BY <1>3, <1>4, <1>5, <1>6, <1>7, <1>8 DEF SetRoute

LEMMA SameNamed ==
    ASSUME NEW q,
           \A c \in Container : /\ (owner'[c] = q) <=> (owner[c] = q)
                                /\ owner[c] = q => (Exists(c)' <=> Exists(c))
    PROVE  Named(q)' = Named(q)
  BY DEF Named, Exists

LEMMA UntouchedNamed ==
    ASSUME UNCHANGED docker, NEW q
    PROVE  Named(q)' = Named(q)
  BY DEF docker, Named, Exists

LEMMA RemoveOthers ==
    ASSUME TypeOK, UNCHANGED owner, NEW cs, NEW r, NEW q, q # r, Remove(cs),
           \A c \in cs \intersect Container : Mine(r, c)
    PROVE  Named(q)' = Named(q)
  <1>1. ASSUME NEW c \in Container, owner[c] = q
        PROVE  c \notin cs
    BY <1>1, LifecycleAssumption DEF Mine
  <1>2. \A c \in Container : owner[c] = q => cst'[c] = cst[c]
    BY <1>1 DEF Remove, TypeOK, DockerType
  <1> QED BY <1>2, SameNamed DEF Exists

LEMMA RemoveOneOthers ==
    ASSUME TypeOK, UNCHANGED owner, NEW c, NEW r, Mine(r, c), Remove({c})
    PROVE  \A q \in Router : q # r => Named(q)' = Named(q)
  <1>1. \A d \in {c} \intersect Container : Mine(r, d)
    OBVIOUS
  <1> QED BY <1>1, RemoveOthers

LEMMA CreateOthers ==
    ASSUME TypeOK, OwnInv, NEW t \in Task, Create(t), NEW q \in Router, q # rtr[t],
           rtr[t] \in Router
    PROVE  Named(q)' = Named(q)
  <1>1. CASE Remove(Named(rtr[t])) /\ UNCHANGED owner
    <2>1. \A c \in Named(rtr[t]) \intersect Container : Mine(rtr[t], c)
      BY DEF Named, Mine
    <2> QED BY <1>1, <2>1, RemoveOthers
  <1>2. ASSUME NEW c \in Container, cst[c] = "unused",
               cst' = [d \in Container |-> IF d = c THEN "created"
                          ELSE IF d \in Named(rtr[t]) THEN "removed" ELSE cst[d]],
               owner' = [owner EXCEPT ![c] = rtr[t]]
        PROVE  Named(q)' = Named(q)
    <2>1. owner[c] = None /\ owner'[c] = rtr[t]
      BY <1>2 DEF OwnInv, Unnamed, TypeOK, DockerType
    <2>2. \A d \in Container : d # c => owner'[d] = owner[d]
      BY <1>2 DEF TypeOK, DockerType
    <2>3. \A d \in Container : owner[d] = q => d # c /\ cst'[d] = cst[d]
      BY <1>2, <2>1, LifecycleAssumption DEF Named
    <2> QED BY <2>1, <2>2, <2>3, SameNamed, LifecycleAssumption DEF Exists
  <1> QED BY <1>1, <1>2 DEF Create

LEMMA LaunchNamed ==
    ASSUME TypeOK, NEW c, cst[c] = "created", UNCHANGED owner, NEW q,
           cst' = [cst EXCEPT ![c] = "running"]
    PROVE  Named(q)' = Named(q)
  BY SameNamed DEF TypeOK, DockerType, Exists

\* What a step leaves alone, one store at a time.
LEMMA FrameOthers ==
    ASSUME NEW r
    PROVE  /\ UNCHANGED store => \A q \in Router : life'[q] = life[q] /\ db'[q] = db[q]
           /\ UNCHANGED bus => UNCHANGED listener /\ \A q \in Router : reloads'[q] = reloads[q]
           /\ UNCHANGED docker => \A q \in Router : Named(q)' = Named(q)
  BY UntouchedNamed DEF store, bus

LEMMA StopStepOwn ==
    ASSUME TypeOK, LockInv, OwnInv, NEW t \in Task, StopStep(t)
    PROVE  OwnOnly(t)
  <1>0. TaskType BY DEF TypeOK
  <1> USE <1>0, GotoOwn, FrameOthers, WriteOthers DEF Others, OwnOnly
  <1>1. CASE StopContainer(t)
    <2>1. Mine(rtr[t], row[t].cid) /\ Remove({row[t].cid}) /\ UNCHANGED owner
      BY <1>1, LocalMine DEF StopContainer, At
    <2>2. \A q \in Router : q # rtr[t] => Named(q)' = Named(q)
      BY <2>1, RemoveOneOthers
    <2> QED BY <1>1, <2>2 DEF StopContainer
  <1>2. CASE StopRecord(t) BY <1>2 DEF StopRecord
  <1>3. CASE StopRedis(t) BY <1>3 DEF StopRedis
  <1>4. CASE StopTable(t) BY <1>4 DEF StopTable
  <1>5. CASE StopPublish(t) BY <1>5 DEF StopPublish, Release
  <1> QED
    BY <1>1, <1>2, <1>3, <1>4, <1>5 DEF StopStep

LEMMA StartStepOwn ==
    ASSUME TypeOK, LockInv, OwnInv, NEW t \in Task, StartStep(t)
    PROVE  OwnOnly(t)
  <1>0. TaskType BY DEF TypeOK
  <1> USE <1>0, GotoOwn, FrameOthers, WriteOthers DEF Others, OwnOnly
  <1>1. CASE RefuseImage(t) BY <1>1 DEF RefuseImage
  <1>2. CASE Inspect(t)
    <2>1. \A u \in Task : u # t => target'[u] = target[u]
      BY <1>2 DEF Inspect, TaskType
    <2> QED BY <1>2, <2>1, JumpOwn DEF Inspect
  <1>3. CASE AdoptRecord(t) BY <1>3 DEF AdoptRecord
  <1>4. CASE AdoptRedis(t) BY <1>4 DEF AdoptRedis
  <1>5. CASE AdoptTable(t) BY <1>5 DEF AdoptTable, Release
  <1>6. CASE Clean(t)
    <2>1. UNCHANGED owner /\ Mine(rtr[t], row[t].cid)
      BY <1>6, LocalMine DEF Clean, At
    <2>2. CASE Remove({row[t].cid})
      <3>1. \A q \in Router : q # rtr[t] => Named(q)' = Named(q)
        BY <2>1, <2>2, RemoveOneOthers
      <3> QED BY <1>6, <3>1 DEF Clean
    <2>3. CASE Remove(Named(rtr[t]))
      <3>1. \A c \in Named(rtr[t]) \intersect Container : Mine(rtr[t], c)
        BY DEF Named, Mine
      <3>2. \A q \in Router : q # rtr[t] => Named(q)' = Named(q)
        BY <2>1, <2>3, <3>1, RemoveOthers
      <3> QED BY <1>6, <3>2 DEF Clean
    <2> QED BY <1>6, <2>2, <2>3 DEF Clean
  <1>7. CASE Pull(t) BY <1>7 DEF Pull
  <1>8. CASE Create(t)
    <2>1. \A u \in Task : u # t => target'[u] = target[u]
      BY <1>8 DEF Create, TaskType
    <2>2. rtr[t] \in Router
      BY <1>8, LocalMine DEF Create, At
    <2>3. \A q \in Router : q # rtr[t] => Named(q)' = Named(q)
      BY <1>8, <2>2, CreateOthers
    <2> QED BY <1>8, <2>1, <2>3, JumpOwn DEF Create
  <1>9. CASE Launch(t)
    <2>1. ASSUME Remove({target[t]})
          PROVE  \A q \in Router : q # rtr[t] => Named(q)' = Named(q)
      <3>1. Mine(rtr[t], target[t]) /\ UNCHANGED owner
        BY <1>9, LocalMine DEF Launch, At
      <3> QED BY <2>1, <3>1, RemoveOneOthers
    <2>2. \A q \in Router : q # rtr[t] => Named(q)' = Named(q)
      BY <1>9, <2>1, LaunchNamed DEF Launch
    <2> QED BY <1>9, <2>2 DEF Launch
  <1>10. CASE Await(t) BY <1>10 DEF Await
  <1>11. CASE SickRecord(t) BY <1>11 DEF SickRecord
  <1>12. CASE SickPublish(t) BY <1>12 DEF SickPublish
  <1>13. CASE RunRecord(t) BY <1>13 DEF RunRecord
  <1>14. CASE RunDesire(t) BY <1>14 DEF RunDesire
  <1>15. CASE RunRedis(t)
    <2>1. \A q \in Router : q # rtr[t] => redis'[q] = redis[q]
      BY <1>15 DEF RunRedis, TypeOK, RouteType
    <2> QED BY <1>15, <2>1 DEF RunRedis
  <1>16. CASE RunTable(t) BY <1>16 DEF RunTable
  <1>17. CASE RunPublish(t) BY <1>17 DEF RunPublish, Release
  <1>18. CASE Fail(t) BY <1>18 DEF Fail, Release, store
  <1> QED
    BY <1>1, <1>2, <1>3, <1>4, <1>5, <1>6, <1>7, <1>8, <1>9, <1>10, <1>11,
       <1>12, <1>13, <1>14, <1>15, <1>16, <1>17, <1>18 DEF StartStep

\* Without health checks and the proxy's fallback, four steps take no mutex.
LEMMA FreeStepOnly ==
    ASSUME KindInv, NEW t \in Task, FreeStep(t)
    PROVE  DesireOn(t) \/ DesireOff(t) \/ TryLock(t) \/ DropRow(t)
  BY DEF KindInv, Checks, FreeStep, At, Probe, InspectGood, InspectBad, WellTable,
         WellRecord, WellDesire, WellRedis, DegradedRecord, DegradedTable,
         DegradedRedis, GoneRecord, IllRecord, Evict, ProxyTable

LEMMA FreeStepOwn ==
    ASSUME TypeOK, KindInv, NEW t \in Task, FreeStep(t) \/ Lock(t)
    PROVE  OwnOnly(t)
  <1>0. TaskType BY DEF TypeOK
  <1> USE <1>0, GotoOwn, FrameOthers, WriteOthers DEF Others, OwnOnly
  <1>1. CASE DesireOn(t) BY <1>1 DEF DesireOn
  <1>2. CASE DesireOff(t) BY <1>2 DEF DesireOff
  <1>3. CASE TryLock(t) BY <1>3 DEF TryLock
  <1>4. CASE DropRow(t)
    <2>1. \A q \in Router : q # rtr[t] => life'[q] = life[q]
      BY <1>4 DEF DropRow, TypeOK, StoreType
    <2> QED BY <1>4, <2>1 DEF DropRow
  <1>5. CASE Lock(t) BY <1>5 DEF Lock
  <1> QED BY <1>1, <1>2, <1>3, <1>4, <1>5, FreeStepOnly

-----------------------------------------------------------------------------
(* What a holder does to its own router *)

\* After a step of t on r: still at work and still in order, or at rest.
Owed(t, r) == IF InCritical(t) THEN rtr[t] = r /\ HoldsAt(t, r, pc[t])
                               ELSE Settled(r)

LEMMA WriteOwn ==
    ASSUME TypeOK, Orderly, NEW r \in Router
    PROVE  /\ \A rt, a, c : \A h \in HealthStatus :
                  /\ life[r] = "live"
                  /\ SaveState(r, rt, a, c, h) \/ WriteState(r, rt, a, c, h)
                  => db'[r].runtime = rt /\ db'[r].addr = a /\ db'[r].cid = c
           /\ \A d : SaveDesired(r, d) =>
                  /\ db'[r].runtime = db[r].runtime
                  /\ db'[r].addr = db[r].addr /\ db'[r].cid = db[r].cid
           /\ \A a : SetRoute(r, a) => redis'[r] = a
           /\ \A a : table' = [table EXCEPT ![r] = a] => table'[r] = a
           /\ Publish(r) => reloads'[r] > 0
  <1>1. /\ db \in [Router -> Row] /\ redis \in [Router -> Addr]
        /\ table \in [Router -> Addr] /\ reloads \in [Router -> Nat]
    BY DEF TypeOK, StoreType, RouteType, BusType
  <1>2. \A rt, a, c : \A h \in HealthStatus :
           /\ life[r] = "live"
           /\ SaveState(r, rt, a, c, h) \/ WriteState(r, rt, a, c, h)
           => db'[r].runtime = rt /\ db'[r].addr = a /\ db'[r].cid = c
    BY <1>1 DEF SaveState, WriteState, Orderly
  <1>3. ASSUME NEW d, SaveDesired(r, d)
        PROVE  /\ db'[r].runtime = db[r].runtime
               /\ db'[r].addr = db[r].addr /\ db'[r].cid = db[r].cid
    BY <1>1, <1>3 DEF SaveDesired, Orderly, Row
  <1>4. \A a : SetRoute(r, a) => redis'[r] = a
    BY <1>1 DEF SetRoute, Orderly
  <1>5. \A a : table' = [table EXCEPT ![r] = a] => table'[r] = a
    BY <1>1
  <1>6. Publish(r) => reloads'[r] > 0
    BY <1>1 DEF Publish, Orderly
  <1> QED BY <1>2, <1>3, <1>4, <1>5, <1>6

\* A holder that goes on to point l, and one that has given the mutex back.
LEMMA GoesOn ==
    ASSUME TaskType, NEW t \in Task, NEW r, rtr[t] = r, NEW l \in Critical,
           Goto(t, l), HoldsAt(t, r, l)'
    PROVE  Owed(t, r)'
  <1>1. l # "done" BY DEF Critical, StopPoints, StartPoints
  <1>2. pc'[t] = l /\ rtr'[t] = r BY <1>1, GotoOwn
  <1> QED BY <1>2 DEF Owed, InCritical

LEMMA ComesToRest ==
    ASSUME TaskType, NEW t \in Task, NEW r, NEW l, l \notin Critical, Goto(t, l),
           Settled(r)'
    PROVE  Owed(t, r)'
  BY GotoOwn DEF Owed, InCritical

LEMMA StopStepOwes ==
    ASSUME TypeOK, Orderly, NEW t \in Task, NEW r \in Router, rtr[t] = r,
           life[r] = "live", HoldsAt(t, r, pc[t]), StopStep(t)
    PROVE  Owed(t, r)'
  <1>0. TaskType BY DEF TypeOK
  <1> USE <1>0 DEF At, Critical, StopPoints
  <1>1. CASE StopContainer(t)
    <2>1. HoldsAt(t, r, "stop_record")' BY DEF HoldsAt, StartPoints
    <2> QED BY <1>1, <2>1, GoesOn DEF StopContainer
  <1>2. CASE StopRecord(t)
    <2>1. db'[r].runtime = "stopped"
      BY <1>2, WriteOwn DEF StopRecord, HealthStatus
    <2>2. HoldsAt(t, r, "stop_redis")' BY <2>1 DEF HoldsAt, StartPoints
    <2> QED BY <1>2, <2>2, GoesOn DEF StopRecord
  <1>3. CASE StopRedis(t)
    <2>1. redis'[r] = None BY <1>3, WriteOwn DEF StopRedis
    <2>2. HoldsAt(t, r, "stop_table")'
      BY <1>3, <2>1 DEF StopRedis, HoldsAt, StartPoints, store
    <2> QED BY <1>3, <2>2, GoesOn DEF StopRedis
  <1>4. CASE StopTable(t)
    <2>1. HoldsAt(t, r, "stop_publish")'
      BY <1>4 DEF StopTable, HoldsAt, StartPoints, store
    <2> QED BY <1>4, <2>1, GoesOn DEF StopTable
  <1>5. CASE StopPublish(t)
    <2>1. /\ db'[r].runtime = "stopped" /\ redis'[r] = None
          /\ reloads'[r] > 0
      BY <1>5, WriteOwn DEF StopPublish, HoldsAt, store
    <2>2. Cleared(r)' /\ Tidy(r)' BY <2>1 DEF Cleared, Tidy
    <2>3. CASE kind[t] = "restart"
      <3>1. HoldsAt(t, r, "inspect")' BY <2>2 DEF HoldsAt
      <3> QED BY <1>5, <2>3, <3>1, GoesOn DEF StopPublish, StartPoints
    <2>4. CASE kind[t] # "restart"
      <3>1. Settled(r)' BY <2>1, <2>2 DEF Settled
      <3>2. AfterStop(t) \notin Critical BY DEF AfterStop, StartPoints
      <3> QED BY <1>5, <2>4, <3>1, <3>2, ComesToRest DEF StopPublish, Release
    <2> QED BY <2>3, <2>4
  <1> QED BY <1>1, <1>2, <1>3, <1>4, <1>5 DEF StopStep

\* The first half of start: what it finds, and what it makes.
LEMMA PrepareOwes ==
    ASSUME TypeOK, Orderly, NEW t \in Task, NEW r \in Router, rtr[t] = r,
           life[r] = "live", HoldsAt(t, r, pc[t]),
           \/ RefuseImage(t) \/ Inspect(t) \/ Clean(t) \/ Pull(t) \/ Create(t)
           \/ Launch(t) \/ Await(t)
    PROVE  Owed(t, r)'
  <1>0. TaskType BY DEF TypeOK
  <1> USE <1>0 DEF At, Critical, StartPoints
  <1>1. CASE RefuseImage(t)
    <2>1. db'[r].runtime = "failed"
      BY <1>1, WriteOwn DEF RefuseImage, HealthStatus
    <2>2. HoldsAt(t, r, "fail")' BY <2>1 DEF HoldsAt, Tidy
    <2> QED BY <1>1, <2>2, GoesOn DEF RefuseImage
  <1>2. CASE Inspect(t)
    <2>1. ASSUME NEW l, Jump(t, l) PROVE pc'[t] = l /\ rtr'[t] = r
      BY <1>2, <2>1 DEF Inspect, TaskType, Jump
    <2>2. CASE Jump(t, "clean")
      <3>1. HoldsAt(t, r, "clean")'
        BY <1>2 DEF Inspect, HoldsAt, Tidy, Cleared, store, bus
      <3> QED BY <2>1, <2>2, <3>1 DEF Owed, InCritical
    <2>3. ASSUME NEW c \in Running(r), target' = [target EXCEPT ![t] = c],
                 kind[t] # "restart", Jump(t, "adopt_record")
          PROVE  Owed(t, r)'
      <3>1. target'[t] = c /\ c \in Named(r)'
        BY <1>2, <2>3, UntouchedNamed DEF Inspect, Running, TaskType
      <3>2. kind'[t] # "restart" BY <1>2, <2>3 DEF Inspect
      <3>3. HoldsAt(t, r, "adopt_record")' BY <3>1, <3>2 DEF HoldsAt, Kept
      <3> QED BY <2>1, <2>3, <3>3 DEF Owed, InCritical
    <2> QED BY <1>2, <2>2, <2>3 DEF Inspect
  <1>3. CASE Clean(t)
    <2>1. kind'[t] = kind[t] BY <1>3, GotoOwn DEF Clean
    <2>2. HoldsAt(t, r, "pull")'
      BY <1>3, <2>1 DEF Clean, HoldsAt, Tidy, Cleared, store, bus
    <2> QED BY <1>3, <2>2, GoesOn DEF Clean
  <1>4. CASE Pull(t)
    <2>1. kind'[t] = kind[t] BY <1>4, GotoOwn DEF Pull
    <2>2. HoldsAt(t, r, "create")' /\ HoldsAt(t, r, "fail")'
      BY <1>4, <2>1 DEF Pull, HoldsAt, Tidy, Cleared, store, bus
    <2> QED BY <1>4, <2>2, GoesOn DEF Pull
  <1>5. CASE Create(t)
    <2>1. ASSUME NEW l, Jump(t, l) PROVE pc'[t] = l /\ rtr'[t] = r
      BY <1>5, <2>1 DEF Create, TaskType, Jump
    <2>2. kind'[t] = "restart" => Tidy(r)' /\ Cleared(r)'
      BY <1>5 DEF Create, HoldsAt, Tidy, Cleared, store, bus
    <2>3. CASE Jump(t, "fail")
      <3>1. HoldsAt(t, r, "fail")' BY <2>2 DEF HoldsAt
      <3> QED BY <2>1, <2>3, <3>1 DEF Owed, InCritical
    <2>4. ASSUME NEW c \in Container,
                 cst' = [d \in Container |-> IF d = c THEN "created"
                            ELSE IF d \in Named(rtr[t]) THEN "removed" ELSE cst[d]],
                 owner' = [owner EXCEPT ![c] = rtr[t]],
                 target' = [target EXCEPT ![t] = c], Jump(t, "launch")
          PROVE  Owed(t, r)'
      <3>1. target'[t] = c /\ cst'[c] = "created" /\ owner'[c] = r
        BY <2>4 DEF TypeOK, TaskType, DockerType
      <3>2. Kept(t, r)' BY <3>1 DEF Kept, Named, Exists
      <3>3. HoldsAt(t, r, "launch")' BY <2>2, <3>2 DEF HoldsAt
      <3> QED BY <2>1, <2>4, <3>3 DEF Owed, InCritical
    <2> QED BY <1>5, <2>3, <2>4 DEF Create
  <1>6. CASE Launch(t)
    <2>1. kind'[t] = kind[t] /\ target'[t] = target[t]
      BY <1>6, GotoOwn DEF Launch
    <2>2. kind'[t] = "restart" => Tidy(r)' /\ Cleared(r)'
      BY <1>6, <2>1 DEF Launch, HoldsAt, Tidy, Cleared, store, bus
    <2>3. CASE Goto(t, "fail")
      <3>1. HoldsAt(t, r, "fail")' BY <2>2 DEF HoldsAt
      <3> QED BY <2>3, <3>1, GoesOn
    <2>4. CASE /\ cst[target[t]] = "created" /\ Goto(t, "await")
               /\ cst' = [cst EXCEPT ![target[t]] = "running"]
      <3>1. Kept(t, r)'
        BY <1>6, <2>1, <2>4, LaunchNamed DEF Launch, HoldsAt, Kept
      <3>2. HoldsAt(t, r, "await")' BY <2>2, <3>1 DEF HoldsAt
      <3> QED BY <2>4, <3>2, GoesOn
    <2> QED BY <1>6, <2>3, <2>4 DEF Launch
  <1>7. CASE Await(t)
    <2>1. kind'[t] = kind[t] /\ target'[t] = target[t]
      BY <1>7, GotoOwn DEF Await
    <2>2. Kept(t, r)'
      BY <1>7, <2>1, UntouchedNamed DEF Await, HoldsAt, Kept
    <2>3. kind'[t] = "restart" => Tidy(r)' /\ Cleared(r)'
      BY <1>7, <2>1 DEF Await, HoldsAt, Tidy, Cleared, store, bus
    <2>4. /\ HoldsAt(t, r, "run_record")' /\ HoldsAt(t, r, "sick_record")'
          /\ HoldsAt(t, r, "fail")'
      BY <2>2, <2>3 DEF HoldsAt
    <2> QED BY <1>7, <2>4, GoesOn DEF Await
  <1> QED BY <1>1, <1>2, <1>3, <1>4, <1>5, <1>6, <1>7

\* The second half: what start writes about the container it has.
LEMMA ReportOwes ==
    ASSUME TypeOK, Orderly, NEW t \in Task, NEW r \in Router, rtr[t] = r,
           life[r] = "live", HoldsAt(t, r, pc[t]),
           \/ AdoptRecord(t) \/ AdoptRedis(t) \/ SickRecord(t) \/ SickPublish(t)
           \/ RunRecord(t) \/ RunDesire(t) \/ RunRedis(t) \/ RunTable(t)
    PROVE  Owed(t, r)'
  <1>0. TaskType BY DEF TypeOK
  <1> USE <1>0 DEF At, Critical, StartPoints
  <1>1. CASE AdoptRecord(t)
    <2>1. target'[t] = target[t] BY <1>1, GotoOwn DEF AdoptRecord
    <2>2. Kept(t, r)'
      BY <1>1, <2>1, UntouchedNamed DEF AdoptRecord, HoldsAt, Kept
    <2>3. Written(t, r)'
      BY <1>1, <2>1, WriteOwn DEF AdoptRecord, HealthStatus, Written
    <2>4. HoldsAt(t, r, "adopt_redis")'
      BY <2>2, <2>3 DEF HoldsAt, Tidy, Written
    <2> QED BY <1>1, <2>4, GoesOn DEF AdoptRecord
  <1>2. CASE AdoptRedis(t)
    <2>1. target'[t] = target[t] BY <1>2, GotoOwn DEF AdoptRedis
    <2>2. Kept(t, r)'
      BY <1>2, <2>1, UntouchedNamed DEF AdoptRedis, HoldsAt, Kept
    <2>3. Written(t, r)' BY <1>2, <2>1 DEF AdoptRedis, HoldsAt, Written, store
    <2>4. redis'[r] = target'[t] BY <1>2, <2>1, WriteOwn DEF AdoptRedis
    <2>5. HoldsAt(t, r, "adopt_table")'
      BY <2>2, <2>3, <2>4 DEF HoldsAt, Tidy, Written
    <2> QED BY <1>2, <2>5, GoesOn DEF AdoptRedis
  <1>3. CASE SickRecord(t)
    <2>1. db'[r].runtime = "unhealthy"
      BY <1>3, WriteOwn DEF SickRecord, HealthStatus
    <2>2. HoldsAt(t, r, "sick_publish")' BY <2>1 DEF HoldsAt, Tidy
    <2> QED BY <1>3, <2>2, GoesOn DEF SickRecord
  <1>4. CASE SickPublish(t)
    <2>1. db'[r].runtime = "unhealthy" BY <1>4 DEF SickPublish, HoldsAt, store
    <2>2. HoldsAt(t, r, "fail")' BY <2>1 DEF HoldsAt, Tidy
    <2> QED BY <1>4, <2>2, GoesOn DEF SickPublish
  <1>5. CASE RunRecord(t)
    <2>1. kind'[t] = kind[t] /\ target'[t] = target[t]
      BY <1>5, GotoOwn DEF RunRecord
    <2>2. CASE Goto(t, "fail") /\ UNCHANGED db
      <3>1. HoldsAt(t, r, "fail")'
        BY <1>5, <2>1, <2>2 DEF RunRecord, HoldsAt, Tidy, Cleared, bus
      <3> QED BY <2>2, <3>1, GoesOn
    <2>3. CASE /\ WriteState(rtr[t], "running", target[t], target[t], "healthy")
               /\ Goto(t, "run_desire")
      <3>1. Kept(t, r)'
        BY <1>5, <2>1, UntouchedNamed DEF RunRecord, HoldsAt, Kept
      <3>2. Written(t, r)' BY <2>1, <2>3, WriteOwn DEF HealthStatus, Written
      <3>3. HoldsAt(t, r, "run_desire")'
        BY <3>1, <3>2 DEF HoldsAt, Tidy, Written
      <3> QED BY <2>3, <3>3, GoesOn
    <2> QED BY <1>5, <2>2, <2>3 DEF RunRecord
  <1>6. CASE RunDesire(t)
    <2>1. target'[t] = target[t] BY <1>6, GotoOwn DEF RunDesire
    <2>2. Kept(t, r)'
      BY <1>6, <2>1, UntouchedNamed DEF RunDesire, HoldsAt, Kept
    <2>3. Written(t, r)'
      BY <1>6, <2>1, WriteOwn DEF RunDesire, HoldsAt, Written
    <2>4. HoldsAt(t, r, "run_redis")'
      BY <2>2, <2>3 DEF HoldsAt, Tidy, Written
    <2> QED BY <1>6, <2>4, GoesOn DEF RunDesire
  <1>7. CASE RunRedis(t)
    <2>1. Goto(t, "run_table") /\ redis'[r] = target[t]
      BY <1>7 DEF RunRedis, Orderly, TypeOK, RouteType
    <2>2. target'[t] = target[t] BY <2>1, GotoOwn
    <2>3. Kept(t, r)'
      BY <1>7, <2>2, UntouchedNamed DEF RunRedis, HoldsAt, Kept
    <2>4. Written(t, r)' BY <1>7, <2>2 DEF RunRedis, HoldsAt, Written, store
    <2>5. HoldsAt(t, r, "run_table")'
      BY <2>1, <2>2, <2>3, <2>4 DEF HoldsAt, Tidy, Written
    <2> QED BY <2>1, <2>5, GoesOn
  <1>8. CASE RunTable(t)
    <2>1. target'[t] = target[t] BY <1>8, GotoOwn DEF RunTable
    <2>2. Kept(t, r)'
      BY <1>8, <2>1, UntouchedNamed DEF RunTable, HoldsAt, Kept
    <2>3. Written(t, r)' /\ redis'[r] = target'[t]
      BY <1>8, <2>1 DEF RunTable, HoldsAt, Written, store
    <2>4. HoldsAt(t, r, "run_publish")'
      BY <2>2, <2>3 DEF HoldsAt, Tidy, Written
    <2> QED BY <1>8, <2>4, GoesOn DEF RunTable
  <1> QED BY <1>1, <1>2, <1>3, <1>4, <1>5, <1>6, <1>7, <1>8

\* The three ends of a start.
LEMMA EndOwes ==
    ASSUME TypeOK, Orderly, NEW t \in Task, NEW r \in Router, rtr[t] = r,
           life[r] = "live", HoldsAt(t, r, pc[t]),
           AdoptTable(t) \/ RunPublish(t) \/ Fail(t)
    PROVE  Owed(t, r)'
  <1>0. TaskType /\ "done" \notin Critical
    BY DEF TypeOK, Critical, StopPoints, StartPoints
  <1>1. CASE AdoptTable(t) \/ RunPublish(t)
    <2>1. /\ UNCHANGED <<db, redis, docker>> /\ Goto(t, "done")
          /\ Kept(t, r) /\ Written(t, r) /\ redis[r] = target[t]
      BY <1>1 DEF AdoptTable, RunPublish, Release, HoldsAt, At, store
    <2>2. Agree(r)'
      BY <2>1, UntouchedNamed DEF Agree, Kept, Written
    <2>3. Settled(r)' BY <2>1, <2>2 DEF Settled, Tidy, Written
    <2> QED BY <1>0, <2>1, <2>3, ComesToRest
  <1>2. CASE Fail(t)
    <2>1. CASE kind[t] = "restart"
      <3>1. Cleared(r) \/ db[r].runtime \in {"unhealthy", "failed"}
        BY <1>2, <2>1 DEF Fail, HoldsAt, At, StartPoints
      <3>2. Tidy(r) /\ UNCHANGED <<db, redis, table, reloads, listener>>
        BY <1>2, <2>1 DEF Fail, HoldsAt, At, StartPoints, bus
      <3> QED BY <1>0, <1>2, <3>1, <3>2, ComesToRest
              DEF Fail, Release, Settled, Cleared, Tidy
    <2>2. CASE kind[t] # "restart"
      <3>1. db'[r].runtime = "failed"
        BY <1>2, <2>2, WriteOwn DEF Fail, HealthStatus
      <3>2. Settled(r)' BY <3>1 DEF Settled, Tidy
      <3> QED BY <1>0, <1>2, <3>2, ComesToRest DEF Fail, Release
    <2> QED BY <2>1, <2>2
  <1> QED BY <1>1, <1>2

LEMMA StartStepOwes ==
    ASSUME TypeOK, Orderly, NEW t \in Task, NEW r \in Router, rtr[t] = r,
           life[r] = "live", HoldsAt(t, r, pc[t]), StartStep(t)
    PROVE  Owed(t, r)'
  BY PrepareOwes, ReportOwes, EndOwes DEF StartStep

-----------------------------------------------------------------------------
(* The routes invariant, step by step *)

\* A step of t about its own router keeps every other router in order.
LEMMA OthersOK ==
    ASSUME NEW t \in Task, OwnOnly(t), NEW q \in Router, q # rtr[t], RouterOK(q)
    PROVE  RouterOK(q)'
  <1>1. rtr'[t] # q BY LifecycleAssumption DEF OwnOnly
  <1>2. Same(q) BY DEF OwnOnly, Others, Same, Tidy
  <1>3. \A u \in Task : Works(u, q)' => Works(u, q) /\ SameTask(u)
    BY <1>1 DEF OwnOnly, SameTask, Works, InCritical
  <1>4. \A u \in Task : Works(u, q) => Works(u, q)'
    BY DEF OwnOnly, SameTask, Works, InCritical
  <1>5. Dirty(q) => Dirty(q)'
    BY DEF OwnOnly, SameTask, Dirty, Due, server
  <1> QED BY <1>2, <1>3, <1>4, <1>5, FrameRouter DEF NoHolder

LEMMA HolderLife ==
    ASSUME NEW t \in Task, StopStep(t) \/ StartStep(t)
    PROVE  UNCHANGED life
  BY DEF StopStep, StopContainer, StopRecord, StopRedis, StopTable, StopPublish,
         StartStep, RefuseImage, Inspect, AdoptRecord, AdoptRedis, AdoptTable,
         Clean, Pull, Create, Launch, Await, SickRecord, SickPublish, RunRecord,
         RunDesire, RunRedis, RunTable, RunPublish, Fail, store

LEMMA HolderRoute ==
    ASSUME TypeOK, LockInv, OwnInv, Orderly, RouteInv, NEW t \in Task,
           StopStep(t) \/ StartStep(t)
    PROVE  RouteInv'
  <1>1. OwnOnly(t) BY StopStepOwn, StartStepOwn
  <1>2. InCritical(t) BY StopStepMoves, StartStepMoves
  <1>3. rtr[t] \in Router
    BY <1>2 DEF LockInv, InCritical, Critical, StopPoints, StartPoints
  <1> SUFFICES ASSUME phase = "up", NEW q \in Router, life[q] = "live"
               PROVE  RouterOK(q)'
    BY <1>1, HolderLife DEF RouteInv, OwnOnly, server
  <1>4. RouterOK(q) BY DEF RouteInv
  <1>5. CASE q # rtr[t] BY <1>1, <1>4, <1>5, OthersOK
  <1>6. CASE q = rtr[t]
    <2>1. HoldsAt(t, q, pc[t]) BY <1>2, <1>4, <1>6 DEF RouterOK, Works
    <2>2. Owed(t, q)' BY <1>6, <2>1, StopStepOwes, StartStepOwes
    <2>3. ASSUME NEW u \in Task, u # t PROVE ~Works(u, q)'
      <3>1. ~Works(u, q) BY <1>2, <1>6, <2>3 DEF LockInv, Works
      <3> QED BY <1>1, <2>3, <3>1 DEF OwnOnly, SameTask, Works, InCritical
    <2>4. CASE InCritical(t)'
      <3>1. Works(t, q)' /\ HoldsAt(t, q, pc[t])'
        BY <2>2, <2>4 DEF Owed, Works
      <3> QED BY <2>3, <3>1 DEF RouterOK, NoHolder
    <2>5. CASE ~InCritical(t)'
      <3>1. Settled(q)' /\ ~Works(t, q)' BY <2>2, <2>5 DEF Owed, Works
      <3> QED BY <2>3, <3>1 DEF RouterOK
    <2> QED BY <2>4, <2>5
  <1> QED BY <1>5, <1>6

\* The steps that take no mutex, or take it.
LEMMA WaiterRoute ==
    ASSUME TypeOK, LockInv, KindInv, HeldInv, Orderly, RouteInv, NEW t \in Task,
           FreeStep(t) \/ Lock(t)
    PROVE  RouteInv'
  <1>0. TaskType BY DEF TypeOK
  <1>1. OwnOnly(t) BY FreeStepOwn
  <1>2. /\ pc[t] \in {"desire_on", "desire_off", "try_lock", "drop_row", "lock"}
        /\ rtr[t] \in Router
    BY FreeStepOnly DEF DesireOn, DesireOff, TryLock, DropRow, Lock, At, LockInv
  <1>3. ~InCritical(t) BY <1>2 DEF InCritical, Critical, StopPoints, StartPoints
  <1>4. \A q \in Router : life'[q] = "live" => life[q] = "live"
    BY FreeStepOnly DEF DesireOn, DesireOff, TryLock, DropRow, Lock, store, TypeOK,
       StoreType
  <1> SUFFICES ASSUME phase = "up", NEW q \in Router, life'[q] = "live"
               PROVE  RouterOK(q)'
    BY <1>1 DEF RouteInv, OwnOnly, server
  <1>5. RouterOK(q) BY <1>4 DEF RouteInv
  <1>6. CASE q # rtr[t] BY <1>1, <1>5, <1>6, OthersOK
  <1>7. CASE q = rtr[t]
    <2>1. \A u \in Task : u # t => (Works(u, q)' <=> Works(u, q)) /\ SameTask(u)
      BY <1>1 DEF OwnOnly, SameTask, Works, InCritical
    <2>2. CASE DesireOn(t) \/ DesireOff(t)
      <3>1. Same(q)
        <4>1. /\ UNCHANGED <<redis, table, docker, bus>>
              /\ \E d : SaveDesired(q, d)
          BY <1>7, <2>2 DEF DesireOn, DesireOff
        <4>2. /\ db'[q].runtime = db[q].runtime
              /\ db'[q].addr = db[q].addr /\ db'[q].cid = db[q].cid
          BY <4>1, WriteOwn
        <4> QED BY <4>1, <4>2, UntouchedNamed DEF Same, Tidy, bus
      <3>2. pc'[t] \in {"try_lock", "lock"} /\ kind'[t] = kind[t] /\ rtr'[t] = rtr[t]
            /\ (pc[t] = "desire_on" => pc'[t] = "try_lock")
        BY <1>0, <2>2, GotoOwn DEF DesireOn, DesireOff, At
      <3>3. ~Works(t, q)' /\ ~Works(t, q)
        BY <1>3, <3>2 DEF Works, InCritical, Critical, StopPoints, StartPoints
      <3>4. Dirty(q) => Dirty(q)'
        <4>1. Due(t, q) => Due(t, q)' BY <2>2, <3>2 DEF Due, DesireOn, DesireOff, At
        <4> QED BY <1>1, <2>1, <4>1 DEF Dirty, Due, SameTask, OwnOnly, server
      <3> QED BY <1>5, <2>1, <3>1, <3>3, <3>4, FrameRouter DEF NoHolder
    <2>3. CASE DropRow(t)
      <3>1. life'[q] = "deleted"
        BY <1>7, <2>3 DEF DropRow, Orderly, TypeOK, StoreType
      <3> QED BY <3>1
    <2>4. CASE Goto(t, "inspect") /\ At(t, "try_lock") /\ lock[q] = None
      <3>1. /\ pc'[t] = "inspect" /\ rtr'[t] = q /\ kind'[t] # "restart"
        BY <1>0, <1>7, <2>4, GotoOwn DEF KindInv, At
      <3>2. Works(t, q)' /\ HoldsAt(t, q, pc[t])'
        BY <3>1 DEF Works, InCritical, Critical, StartPoints, HoldsAt
      <3>3. \A u \in Task : u # t => ~Works(u, q)'
        BY <2>1, <2>4, LifecycleAssumption DEF LockInv, Works
      <3> QED BY <3>2, <3>3 DEF RouterOK, NoHolder
    <2>5. CASE Lock(t)
      <3>1. /\ pc'[t] = "stop_container" /\ rtr'[t] = q
        BY <1>0, <1>7, <2>5, GotoOwn DEF Lock
      <3>2. Works(t, q)' /\ HoldsAt(t, q, pc[t])'
        BY <3>1 DEF Works, InCritical, Critical, StopPoints, StartPoints, HoldsAt
      <3>3. \A u \in Task : u # t => ~Works(u, q)'
        BY <1>7, <2>1, <2>5, LifecycleAssumption DEF LockInv, Works, Lock
      <3> QED BY <3>2, <3>3 DEF RouterOK, NoHolder
    <2>6. CASE TryLock(t)
      <3>1. CASE lock[q] = None
        BY <1>7, <2>4, <2>6, <3>1 DEF TryLock
      <3>2. CASE lock[q] # None
        <4>1. ~NoHolder(q) BY <3>2 DEF HeldInv, NoHolder
        <4>2. Goto(t, "done") /\ UNCHANGED <<store, redis, table, docker, bus>>
          BY <1>7, <2>6, <3>2 DEF TryLock
        <4>3. ~InCritical(t)'
          BY <1>0, <4>2, GotoOwn DEF InCritical, Critical, StopPoints, StartPoints
        <4>4. Same(q) BY <4>2, UntouchedNamed DEF Same, Tidy, store, bus
        <4>5. ~NoHolder(q)' /\ ~Works(t, q)'
          BY <1>3, <2>1, <4>1, <4>3 DEF NoHolder, Works
        <4> QED BY <1>5, <2>1, <4>4, <4>5, FrameRouter
      <3> QED BY <3>1, <3>2
    <2> QED BY <2>2, <2>3, <2>5, <2>6, FreeStepOnly
  <1> QED BY <1>6, <1>7

LEMMA BeginRoute ==
    ASSUME TypeOK, Orderly, RouteInv, NEW t \in Task, NEW k \in Kinds,
           NEW r \in Router, Begin(t, k, r)
    PROVE  RouteInv'
  <1>1. k \in AllKinds BY LifecycleAssumption
  <1>2. /\ pc'[t] = FirstPoint(k, SeenBy(k, r)) /\ kind'[t] = k /\ rtr'[t] = r
        /\ \A u \in Task : u # t => SameTask(u)
        /\ pc[t] = "unused"
    BY DEF Begin, At, Jump, TypeOK, TaskType, SameTask
  <1>3. ~InCritical(t) /\ ~InCritical(t)'
    BY <1>1, <1>2, FirstPointPoint DEF InCritical, Critical, StopPoints, StartPoints
  <1> SUFFICES ASSUME phase = "up", NEW q \in Router, life[q] = "live"
               PROVE  RouterOK(q)'
    BY DEF RouteInv, Begin, store
  <1>4. RouterOK(q) BY DEF RouteInv
  <1>5. Same(q) BY UntouchedNamed DEF Begin, Same, Tidy, store, bus
  <1>6. \A u \in Task : /\ Works(u, q)' <=> Works(u, q)
                        /\ Works(u, q) => SameTask(u)
    BY <1>2, <1>3 DEF Works, InCritical, SameTask
  <1>7. Dirty(q) => Dirty(q)'
    <2>1. \A u \in Task : Due(u, q) => Due(u, q)'
      BY <1>2 DEF Due, SameTask
    <2>2. CASE k = "boot" /\ q = r
      <3>1. Due(t, q)' BY <1>2, <2>2 DEF Due, FirstPoint
      <3> QED BY <3>1 DEF Dirty
    <2>3. CASE ~(k = "boot" /\ q = r)
      <3>1. q \in queue => q \in queue' BY <2>3 DEF Begin
      <3> QED BY <2>1, <3>1 DEF Dirty
    <2> QED BY <2>2, <2>3
  <1> QED BY <1>4, <1>5, <1>6, <1>7, FrameRouter DEF NoHolder

LEMMA CreateRoute ==
    ASSUME TypeOK, AbsentInv, RouteInv, NEW r \in Router, CreateRouter(r)
    PROVE  RouteInv'
  <1> SUFFICES ASSUME phase = "up", NEW q \in Router, life'[q] = "live"
               PROVE  RouterOK(q)'
    BY DEF RouteInv, CreateRouter, server
  <1>1. CASE q = r
    <2>1. db'[q].runtime = "stopped"
      BY <1>1 DEF CreateRouter, TypeOK, StoreType, NewRow
    <2>2. /\ redis'[q] = None /\ table'[q] = None
          /\ listener'.rtr = q => listener'.addr = None
          /\ \A u \in Task : rtr'[u] # q
      BY <1>1 DEF CreateRouter, AbsentInv, locals, bus
    <2>3. Settled(q)' BY <2>1, <2>2 DEF Settled, Tidy
    <2>4. \A u \in Task : ~Works(u, q)' BY <2>2 DEF Works
    <2> QED BY <2>3, <2>4 DEF RouterOK
  <1>2. CASE q # r
    <2>1. life[q] = "live" /\ db'[q] = db[q]
      BY <1>2 DEF CreateRouter, TypeOK, StoreType
    <2>2. RouterOK(q) BY <2>1 DEF RouteInv
    <2>3. Same(q) BY <2>1, UntouchedNamed DEF CreateRouter, Same, Tidy, bus
    <2>4. UNCHANGED <<pc, kind, rtr, target, queue>>
      BY DEF CreateRouter, locals, server
    <2> QED BY <2>2, <2>3, <2>4, FrameRouter
            DEF SameTask, Works, InCritical, NoHolder, Dirty, Due
  <1> QED BY <1>1, <1>2

\* While no task moves and Same holds, a router stays in order.
LEMMA StillOK ==
    ASSUME UNCHANGED <<pc, locals, queue>>, NEW q \in Router, RouterOK(q), Same(q)
    PROVE  RouterOK(q)'
  BY FrameRouter DEF locals, SameTask, Works, InCritical, NoHolder, Dirty, Due

LEMMA ListenerRoute ==
    ASSUME TypeOK, Orderly, RouteInv, Listener
    PROVE  RouteInv'
  <1>1. UNCHANGED <<store, redis, docker, pc, locals, server>>
    BY DEF Listener, ListenerApply, ListenerRead
  <1> SUFFICES ASSUME phase = "up", NEW q \in Router, life[q] = "live"
               PROVE  RouterOK(q)'
    BY <1>1 DEF RouteInv, store, server
  <1>2. RouterOK(q) BY DEF RouteInv
  <1>3. Tidy(q) => Tidy(q)'
    <2>1. CASE ListenerApply
      <3>1. /\ listener'.rtr # q /\ reloads'[q] = reloads[q]
            /\ listener.rtr # q => table'[q] = table[q]
            /\ listener.rtr = q => table'[q] = listener.addr
        BY <2>1, LifecycleAssumption
        DEF ListenerApply, TypeOK, RouteType, BusType, Idle
      <3> QED BY <1>1, <3>1 DEF Tidy, store
    <2>2. ASSUME NEW r \in Router, ListenerRead(r)
          PROVE  Tidy(q) => Tidy(q)'
      <3>1. /\ UNCHANGED table /\ listener.rtr # q /\ listener'.rtr = r
            /\ q # r => reloads'[q] = reloads[q]
        BY <2>2, LifecycleAssumption DEF ListenerRead, TypeOK, BusType, Idle
      <3>2. q = r /\ db[q].runtime = "stopped" => listener'.addr = None
        BY <2>2 DEF ListenerRead
      <3> QED BY <1>1, <3>1, <3>2 DEF Tidy, store
    <2> QED BY <2>1, <2>2 DEF Listener
  <1>4. Same(q) BY <1>1, <1>3, UntouchedNamed DEF Same, store
  <1> QED BY <1>1, <1>2, <1>4, StillOK DEF server

LEMMA EnvironmentRoute ==
    ASSUME TypeOK, RouteInv, Environment
    PROVE  RouteInv'
  <1>1. UNCHANGED <<store, redis, table, owner, pc, locals, bus, server>>
    BY DEF Environment, ContainerDies, ContainerReturns
  <1>2. \A c \in Container : Exists(c)' <=> Exists(c)
    BY DEF Environment, ContainerDies, ContainerReturns, Exists, TypeOK, DockerType
  <1>3. \A q : Named(q)' = Named(q) BY <1>1, <1>2, SameNamed
  <1>4. \A q \in Router : Same(q) BY <1>1, <1>3 DEF Same, Tidy, store, bus
  <1> QED BY <1>1, <1>4, StillOK DEF RouteInv, store, server

\* A new process has every router before it, and nobody at work yet.
LEMMA ServerRoute ==
    ASSUME TypeOK, PhaseInv, RouteInv, Server
    PROVE  RouteInv'
  <1>1. CASE Boot
    <2>1. phase = "down" /\ UNCHANGED <<store, pc, locals>>
          /\ queue' = {r \in Router : life[r] = "live"}
      BY <1>1 DEF Boot
    <2>2. ASSUME NEW q \in Router, life'[q] = "live" PROVE RouterOK(q)'
      <3>1. q \in queue' BY <2>1, <2>2 DEF store
      <3>2. \A u \in Task : ~Works(u, q)'
        BY <2>1 DEF PhaseInv, Works, InCritical, Critical, StopPoints, StartPoints
      <3> QED BY <3>1, <3>2 DEF RouterOK, Dirty
    <2> QED BY <2>2 DEF RouteInv
  <1>2. CASE Server /\ ~Boot
    <2>1. phase' # "up"
      BY <1>2 DEF Server, Drain, SweepRecord, SweepDesire, Exit, SweepRemove, PhaseInv,
         TypeOK, ServerType
    <2> QED BY <2>1 DEF RouteInv
  <1> QED BY <1>1, <1>2

LEMMA NextRoute ==
    ASSUME TypeOK, LockInv, OwnInv, KindInv, HeldInv, AbsentInv, PhaseInv,
           Orderly, RouteInv, [Next]_vars
    PROVE  RouteInv'
  <1>1. CASE UNCHANGED vars
    <2>1. UNCHANGED <<life, db, redis, table, docker, bus, pc, locals, phase, queue>>
      BY <1>1 DEF vars, store, server
    <2>2. \A q \in Router : Same(q)
      BY <2>1, UntouchedNamed DEF Same, Tidy, bus
    <2> QED BY <2>1, <2>2, StillOK DEF RouteInv
  <1> QED
    BY <1>1, CreateRoute, BeginRoute, WaiterRoute, HolderRoute, ListenerRoute,
       EnvironmentRoute, ServerRoute DEF Next

-----------------------------------------------------------------------------
(* The facts it rests on *)

LEMMA NextKind ==
    ASSUME TypeOK, Orderly, KindInv, [Next]_vars
    PROVE  KindInv'
  <1>0. TaskType BY DEF TypeOK
  <1>1. ASSUME NEW t \in Task, \A u \in Task : u # t => SameTask(u),
               pc'[t] \notin Checks,
               pc'[t] \in {"desire_on", "try_lock"} => kind'[t] # "restart"
        PROVE  KindInv'
    BY <1>1 DEF KindInv, SameTask
  <1>2. ASSUME NEW t \in Task, NEW l, Goto(t, l), l \notin Checks,
               l \in {"desire_on", "try_lock"} => kind[t] # "restart"
        PROVE  KindInv'
    <2>1. pc'[t] = l /\ (l # "done" => kind'[t] = kind[t])
      BY <1>0, <1>2, GotoOwn
    <2> QED BY <1>0, <1>1, <1>2, <2>1, GotoOwn
  <1>3. ASSUME NEW t \in Task, NEW l \in Critical, Jump(t, l), UNCHANGED <<kind, rtr>>
        PROVE  KindInv'
    BY <1>0, <1>3 DEF KindInv, TaskType, Jump, Checks, Critical, StopPoints, StartPoints
  <1>4. ASSUME NEW t \in Task, StopStep(t) PROVE KindInv'
    BY <1>2, <1>4 DEF StopStep, StopContainer, StopRecord, StopRedis, StopTable,
       StopPublish, Release, AfterStop, Checks
  <1>5. ASSUME NEW t \in Task, StartStep(t) PROVE KindInv'
    <2>1. CASE Inspect(t) \/ Create(t)
      BY <1>3, <2>1 DEF Inspect, Create, Critical, StartPoints
    <2>2. CASE StartStep(t) /\ ~(Inspect(t) \/ Create(t))
      BY <1>2, <2>2 DEF StartStep, RefuseImage, AdoptRecord, AdoptRedis, AdoptTable,
         Clean, Pull, Launch, Await, SickRecord, SickPublish, RunRecord, RunDesire,
         RunRedis, RunTable, RunPublish, Fail, Release, Checks
    <2> QED BY <1>5, <2>1, <2>2
  <1>6. ASSUME NEW t \in Task, FreeStep(t) \/ Lock(t) PROVE KindInv'
    BY <1>2, <1>6, FreeStepOnly DEF DesireOn, DesireOff, TryLock, DropRow, Lock,
       KindInv, At, Checks
  <1>7. ASSUME NEW t \in Task, NEW k \in Kinds, NEW r \in Router, Begin(t, k, r)
        PROVE  KindInv'
    <2>1. k \in AllKinds \ {"check", "ask", "proxy"}
      BY LifecycleAssumption DEF Orderly
    <2>2. /\ pc'[t] = FirstPoint(k, SeenBy(k, r)) /\ kind'[t] = k
          /\ \A u \in Task : u # t => SameTask(u)
      BY <1>7 DEF Begin, Jump, TypeOK, TaskType, SameTask
    <2> QED BY <1>1, <2>1, <2>2 DEF FirstPoint, AllKinds, Checks
  <1>8. CASE Exit
    BY <1>8 DEF Exit, KindInv, Checks, At
  <1>9. CASE UNCHANGED <<pc, kind>> BY <1>9 DEF KindInv
  <1> QED
    BY <1>4, <1>5, <1>6, <1>7, <1>8, <1>9 DEF Next, vars, locals, CreateRouter,
       Listener, ListenerApply, ListenerRead, Environment, ContainerDies,
       ContainerReturns, Server, Drain, SweepRecord, SweepDesire, Boot, SweepRemove

LEMMA NextAbsent ==
    ASSUME TypeOK, LockInv, OwnInv, KindInv, AbsentInv, [Next]_vars
    PROVE  AbsentInv'
  <1> SUFFICES ASSUME NEW q \in Router, life'[q] = "absent"
               PROVE  /\ redis'[q] = None /\ table'[q] = None
                      /\ listener'.rtr = q => listener'.addr = None
                      /\ \A t \in Task : rtr'[t] # q
    BY DEF AbsentInv
  <1>1. ASSUME NEW t \in Task, OwnOnly(t), life[q] = "absent"
        PROVE  /\ redis'[q] = None /\ table'[q] = None
               /\ listener'.rtr = q => listener'.addr = None
               /\ \A u \in Task : rtr'[u] # q
    BY <1>1, LifecycleAssumption DEF AbsentInv, OwnOnly, Others, SameTask
  <1>2. ASSUME NEW t \in Task, StopStep(t) \/ StartStep(t)
        PROVE  OwnOnly(t) /\ life[q] = "absent"
    BY <1>2, StopStepOwn, StartStepOwn, HolderLife
  <1>3. ASSUME NEW t \in Task, FreeStep(t) \/ Lock(t)
        PROVE  OwnOnly(t) /\ life[q] = "absent"
    BY <1>3, FreeStepOwn, FreeStepOnly DEF DesireOn, DesireOff, TryLock, DropRow,
       Lock, store, TypeOK, StoreType
  <1>4. ASSUME NEW t \in Task, NEW k \in Kinds, NEW r \in Router, Begin(t, k, r)
        PROVE  /\ UNCHANGED <<life, redis, table, listener>> /\ r # q
               /\ \A u \in Task : rtr'[u] \in {rtr[u], r}
    BY <1>4 DEF Begin, store, bus, TypeOK, TaskType
  <1>5. ASSUME NEW r \in Router, CreateRouter(r)
        PROVE  UNCHANGED <<redis, table, listener, rtr>> /\ life[q] = "absent"
    BY <1>5 DEF CreateRouter, locals, bus, TypeOK, StoreType
  <1>6. CASE Listener
    <2>1. CASE ListenerApply
      BY <2>1, LifecycleAssumption DEF ListenerApply, AbsentInv, store, locals, Idle,
         TypeOK, RouteType, BusType
    <2>2. ASSUME NEW r \in Router, ListenerRead(r)
          PROVE  /\ UNCHANGED <<life, redis, table, rtr>>
                 /\ listener'.rtr = q => listener'.addr = None
      BY <2>2 DEF ListenerRead, store, locals
    <2> QED BY <1>6, <2>1, <2>2 DEF Listener, AbsentInv
  <1>7. CASE Environment \/ Drain \/ SweepRecord \/ SweepDesire
             \/ (\E r \in Router : SweepRemove(r)) \/ UNCHANGED vars
    <2>1. UNCHANGED <<life, redis, table, listener, rtr>>
      BY <1>7 DEF Environment, ContainerDies, ContainerReturns, Drain, SweepRecord,
         SweepDesire, SweepRemove, vars, store, locals, bus
    <2> QED BY <2>1 DEF AbsentInv
  <1>8. CASE Exit
    BY <1>8, LifecycleAssumption DEF Exit, AbsentInv, store, Idle
  <1>9. CASE Boot
    BY <1>9 DEF Boot, AbsentInv, store, bus, locals
  <1>10. /\ (\E t \in Task : Lock(t) \/ FreeStep(t) \/ StopStep(t) \/ StartStep(t))
            => \E t \in Task : OwnOnly(t) /\ life[q] = "absent"
    BY <1>2, <1>3
  <1> QED
    BY <1>1, <1>4, <1>5, <1>6, <1>7, <1>8, <1>9, <1>10 DEF Next, Server, AbsentInv

LEMMA NextPhase ==
    ASSUME TypeOK, LockInv, OwnInv, KindInv, PhaseInv, [Next]_vars
    PROVE  PhaseInv'
  <1>1. ASSUME NEW t \in Task, Lock(t) \/ FreeStep(t) \/ StopStep(t) \/ StartStep(t)
        PROVE  phase # "down" /\ UNCHANGED <<phase, sweep>>
    <2>1. pc[t] \notin {"unused", "done"}
      BY <1>1, FreeStepMoves, StopStepMoves, StartStepMoves
      DEF Lock, At, InCritical, Critical, StopPoints, StartPoints
    <2>2. OwnOnly(t) BY <1>1, FreeStepOwn, StopStepOwn, StartStepOwn
    <2> QED BY <2>1, <2>2 DEF PhaseInv, OwnOnly, server
  <1>2. ASSUME NEW t \in Task, NEW k \in Kinds, NEW r \in Router, Begin(t, k, r)
        PROVE  phase # "down" /\ UNCHANGED <<phase, sweep>>
    BY <1>2 DEF Begin
  <1>3. CASE UNCHANGED <<phase, sweep, pc>>
    BY <1>3 DEF PhaseInv
  <1>4. CASE phase # "down" /\ UNCHANGED <<phase, sweep>>
    BY <1>4 DEF PhaseInv
  <1>5. CASE Server
    <2>1. CASE Drain BY <2>1 DEF Drain, PhaseInv
    <2>2. CASE SweepRecord \/ SweepDesire \/ \E r \in Router : SweepRemove(r)
      <3>1. phase = "draining" /\ UNCHANGED phase
        BY <2>2 DEF SweepRecord, SweepDesire, SweepRemove, PhaseInv
      <3> QED BY <3>1 DEF PhaseInv
    <2>3. CASE Exit BY <2>3 DEF Exit, PhaseInv, NoSweep, At
    <2>4. CASE Boot BY <2>4 DEF Boot, PhaseInv
    <2> QED BY <1>5, <2>1, <2>2, <2>3, <2>4 DEF Server
  <1>6. CASE Listener \/ Environment \/ (\E r \in Router : CreateRouter(r))
             \/ UNCHANGED vars
    BY <1>3, <1>6 DEF Listener, ListenerApply, ListenerRead, Environment, ContainerDies,
       ContainerReturns, CreateRouter, vars, server
  <1> QED BY <1>1, <1>2, <1>4, <1>5, <1>6 DEF Next

-----------------------------------------------------------------------------
(* The routes of a router at rest *)

RestInv == KindInv /\ HeldInv /\ AbsentInv /\ PhaseInv /\ RouteInv

LEMMA InitRest == Init => RestInv
  <1> SUFFICES ASSUME Init PROVE RestInv
    OBVIOUS
  <1>1. KindInv BY DEF Init, KindInv, Checks
  <1>2. HeldInv BY DEF Init, HeldInv
  <1>3. AbsentInv BY LifecycleAssumption DEF Init, AbsentInv, Idle
  <1>4. PhaseInv BY DEF Init, PhaseInv, NoSweep
  <1>5. RouteInv BY DEF Init, RouteInv
  <1> QED BY <1>1, <1>2, <1>3, <1>4, <1>5 DEF RestInv

LEMMA NextRest ==
    ASSUME Orderly, TypeOK, LockInv, OwnInv, RestInv, [Next]_vars
    PROVE  RestInv'
  BY NextKind, NextHeld, NextAbsent, NextPhase, NextRoute DEF RestInv

LEMMA RestHolds ==
    ASSUME Orderly
    PROVE  Spec => []RestInv
  <1>1. Init => RestInv
    BY InitRest
  <1>2. TypeOK /\ LockInv /\ OwnInv /\ RestInv /\ [Next]_vars => RestInv'
    BY NextRest
  <1>3. TypeOK /\ LockInv /\ [Next]_vars => LockInv'
    BY NextLock
  <1>4. TypeOK /\ LockInv /\ OwnInv /\ [Next]_vars => OwnInv'
    BY NextMine
  <1> QED
    BY TypeCorrect, InitLock, InitMine, <1>1, <1>2, <1>3, <1>4, PTL DEF Spec

\* Nothing under way for a live router means that it is settled.
LEMMA QuietSettled ==
    ASSUME RouteInv, NEW r \in Router, Quiet(r), life[r] = "live"
    PROVE  Settled(r)
  BY DEF RouteInv, RouterOK, Quiet, NoHolder, Works, Dirty, Due

\* For any routers, tasks and containers: while the services answer and only the
\* operations under the mutex write routes, a running router with nothing under
\* way is routed in Redis to the container its row names, and Docker still has it.
\* Shutdown sweeps, crashes and the boot of the next process are included.
THEOREM RunningIsRoutedHolds == Orderly /\ Spec => []RunningIsRouted
  <1> SUFFICES ASSUME Orderly PROVE Spec => []RunningIsRouted
    OBVIOUS
  <1>1. RestInv => RunningIsRouted
    BY QuietSettled DEF RestInv, RunningIsRouted, Settled, Agree
  <1> QED
    BY RestHolds, <1>1, PTL

\* In the same setting no route leads to a stopped router with nothing under way:
\* the entry a booting process loads, or a late listener restores, is gone by then.
THEOREM StoppedIsUnroutedHolds == Orderly /\ Spec => []StoppedIsUnrouted
  <1> SUFFICES ASSUME Orderly PROVE Spec => []StoppedIsUnrouted
    OBVIOUS
  <1>1. ASSUME RouteInv, NEW r \in Router, Quiet(r), life[r] = "live",
               db[r].runtime = "stopped"
        PROVE  redis[r] = None /\ table[r] = None
    <2>1. Settled(r) BY <1>1, QuietSettled
    <2> QED BY <1>1, <2>1 DEF Settled, Tidy, Quiet
  <1>2. RestInv => StoppedIsUnrouted
    BY <1>1 DEF RestInv, StoppedIsUnrouted
  <1> QED
    BY RestHolds, <1>2, PTL

-----------------------------------------------------------------------------
(* A container on its way up *)

Fresh == {"launch", "await", "run_record", "run_desire", "run_redis", "run_table",
          "run_publish"}

\* A start on its way up has a container, and the process never ends.
FreshInv == /\ \A t \in Task : pc[t] \in Fresh => target[t] \in Container
            /\ phase = "up"
            /\ sweep.at = None

LEMMA NextFresh ==
    ASSUME ~Exits, TypeOK, FreshInv, [Next]_vars
    PROVE  FreshInv'
  <1>0. TaskType BY DEF TypeOK
  <1>1. ASSUME NEW t \in Task, \A u \in Task : u # t => SameTask(u),
               pc'[t] \in Fresh => target'[t] \in Container,
               UNCHANGED <<phase, sweep>>
        PROVE  FreshInv'
    BY <1>1 DEF FreshInv, SameTask
  <1>2. ASSUME NEW t \in Task, NEW l, Goto(t, l), l \in Fresh => pc[t] \in Fresh,
               UNCHANGED <<phase, sweep>>
        PROVE  FreshInv'
    <2>1. /\ pc'[t] = l /\ (l # "done" => target'[t] = target[t])
          /\ \A u \in Task : u # t => SameTask(u)
      BY <1>0, <1>2, GotoOwn
    <2>2. l \in Fresh => l # "done" BY DEF Fresh
    <2> QED BY <1>1, <1>2, <2>1, <2>2 DEF FreshInv
  <1>3. ASSUME NEW t \in Task, NEW l, Jump(t, l), l \notin Fresh,
               UNCHANGED <<phase, sweep>>,
               \A u \in Task : u # t => target'[u] = target[u]
        PROVE  FreshInv'
    BY <1>0, <1>3 DEF FreshInv, Jump, TaskType
  <1> USE DEF server, At, Fresh
  <1>4. ASSUME NEW t \in Task, StopStep(t) \/ Lock(t) PROVE FreshInv'
    BY <1>2, <1>4 DEF StopStep, StopContainer, StopRecord, StopRedis, StopTable,
       StopPublish, Release, AfterStop, Lock
  <1>5. ASSUME NEW t \in Task, StartStep(t) PROVE FreshInv'
    <2>1. CASE Inspect(t)
      <3>1. \A u \in Task : u # t => target'[u] = target[u]
        BY <2>1 DEF Inspect, TypeOK, TaskType
      <3> QED BY <1>3, <2>1, <3>1 DEF Inspect
    <2>2. CASE Create(t)
      <3>1. \A u \in Task : u # t => target'[u] = target[u] /\ pc'[u] = pc[u]
        BY <2>2 DEF Create, Jump, TypeOK, TaskType
      <3>2. pc'[t] \in Fresh => target'[t] \in Container
        BY <2>2 DEF Create, Jump, TypeOK, TaskType
      <3> QED BY <2>2, <3>1, <3>2 DEF FreshInv, Create
    <2>3. CASE StartStep(t) /\ ~(Inspect(t) \/ Create(t))
      BY <1>2, <2>3 DEF StartStep, RefuseImage, AdoptRecord, AdoptRedis, AdoptTable,
         Clean, Pull, Launch, Await, SickRecord, SickPublish, RunRecord, RunDesire,
         RunRedis, RunTable, RunPublish, Fail, Release
    <2> QED BY <1>5, <2>1, <2>2, <2>3
  <1>6. ASSUME NEW t \in Task, FreeStep(t) PROVE FreshInv'
    <2>1. CASE Probe(t) \/ InspectGood(t) \/ InspectBad(t)
      <3>1. \A u \in Task : u # t => target'[u] = target[u]
        BY <2>1 DEF Probe, InspectGood, InspectBad, TypeOK, TaskType
      <3> QED BY <1>3, <2>1, <3>1 DEF Probe, InspectGood, InspectBad
    <2>2. CASE FreeStep(t) /\ ~(Probe(t) \/ InspectGood(t) \/ InspectBad(t))
      BY <1>2, <2>2 DEF FreeStep, DesireOn, DesireOff, TryLock, DropRow, WellTable,
         WellRecord, WellDesire, WellRedis, DegradedRecord, DegradedTable,
         DegradedRedis, GoneRecord, IllRecord, Evict, ProxyTable
    <2> QED BY <1>6, <2>1, <2>2
  <1>7. ASSUME NEW t \in Task, NEW k \in Kinds, NEW r \in Router, Begin(t, k, r)
        PROVE  FreshInv'
    <2>1. k \in AllKinds BY LifecycleAssumption
    <2>2. FirstPoint(k, SeenBy(k, r)) \notin Fresh
      BY <2>1, FirstPointPoint DEF Critical, StartPoints
    <2> QED BY <1>3, <1>7, <2>2 DEF Begin
  <1>8. CASE Server
    BY <1>8 DEF Server, Drain, SweepRecord, SweepDesire, Exit, Boot, SweepRemove, FreshInv
  <1>9. CASE UNCHANGED <<pc, target, phase, sweep>> BY <1>9 DEF FreshInv
  <1> QED
    BY <1>4, <1>5, <1>6, <1>7, <1>8, <1>9 DEF Next, vars, locals, CreateRouter,
       Listener, ListenerApply, ListenerRead, Environment, ContainerDies,
       ContainerReturns

\* Who removes a container that r's name is on, works on r.
LEMMA RemoverWorks ==
    ASSUME TypeOK, LockInv, OwnInv, NEW u \in Task, StopStep(u) \/ StartStep(u),
           NEW c \in Container, Exists(c), cst'[c] = "removed"
    PROVE  /\ InCritical(u) /\ owner[c] = rtr[u]
           /\ \/ pc[u] \in {"stop_container", "clean", "create"}
              \/ At(u, "launch") /\ pc'[u] = "fail"
  <1>1. InCritical(u) BY StopStepMoves, StartStepMoves
  <1>2. pc[u] \notin {"unused", "done"}
    BY <1>1 DEF InCritical, Critical, StopPoints, StartPoints
  <1>3. ASSUME NEW x, Remove({x}), Mine(rtr[u], x)
        PROVE  owner[c] = rtr[u]
    <2>1. c = x BY <1>3 DEF Remove, Exists, TypeOK, DockerType
    <2> QED BY <1>3, <2>1, LifecycleAssumption DEF Mine
  <1>4. ASSUME Remove(Named(rtr[u])) PROVE owner[c] = rtr[u]
    BY <1>4 DEF Remove, Exists, Named, TypeOK, DockerType
  <1>5. CASE StopContainer(u)
    BY <1>1, <1>2, <1>3, <1>5, LocalMine DEF StopContainer, At
  <1>6. CASE Clean(u)
    <2>1. Remove({row[u].cid}) \/ Remove(Named(rtr[u])) BY <1>6 DEF Clean
    <2> QED BY <1>1, <1>2, <1>3, <1>4, <1>6, <2>1, LocalMine DEF Clean, At
  <1>7. CASE Create(u)
    <2>1. ASSUME NEW d \in Container,
                 cst' = [e \in Container |-> IF e = d THEN "created"
                            ELSE IF e \in Named(rtr[u]) THEN "removed" ELSE cst[e]]
          PROVE  owner[c] = rtr[u]
      BY <2>1 DEF Exists, Named
    <2> QED BY <1>1, <1>4, <1>7, <2>1 DEF Create, At
  <1>8. CASE Launch(u)
    <2>1. Remove({target[u]}) /\ Goto(u, "fail")
      BY <1>8 DEF Launch, Exists, TypeOK, DockerType
    <2>2. owner[c] = rtr[u] BY <1>2, <1>3, <2>1, LocalMine
    <2> QED BY <1>1, <1>8, <2>1, <2>2, GotoOwn DEF Launch, TypeOK
  <1>9. CASE UNCHANGED cst BY <1>9 DEF Exists
  <1> QED
    BY <1>5, <1>6, <1>7, <1>8, <1>9 DEF StopStep, StopRecord, StopRedis, StopTable,
       StopPublish, StartStep, RefuseImage, Inspect, AdoptRecord, AdoptRedis, AdoptTable,
       Pull, Await, SickRecord, SickPublish, RunRecord, RunDesire, RunRedis, RunTable,
       RunPublish, Fail, docker

LEMMA FreshStep ==
    ASSUME TypeOK, LockInv, OwnInv, FreshInv, [Next]_vars, NEW t \in Task,
           pc[t] \in Fresh, Exists(target[t]), cst'[target[t]] = "removed"
    PROVE  At(t, "launch") /\ pc'[t] = "fail"
  <1>1. target[t] \in Container BY DEF FreshInv
  <1>2. InCritical(t) /\ pc[t] \notin {"unused", "done"}
    BY DEF Fresh, InCritical, Critical, StartPoints
  <1>3. owner[target[t]] = rtr[t]
    BY <1>1, <1>2, LocalMine, LifecycleAssumption DEF Mine
  <1>4. \E u \in Task : StopStep(u) \/ StartStep(u)
    <2>1. cst' # cst BY <1>1 DEF Exists
    <2>2. ~\E c \in Container : ContainerDies(c) \/ ContainerReturns(c)
      BY <1>1 DEF ContainerDies, ContainerReturns, Exists, TypeOK, DockerType
    <2>3. ~\E r \in Router : SweepRemove(r)
      BY DEF SweepRemove, FreshInv
    <2>4. \A u \in Task : FreeStep(u) \/ Lock(u) => UNCHANGED cst
      BY DEF FreeStep, DesireOn, DesireOff, TryLock, DropRow, Probe, InspectGood,
         InspectBad, WellTable, WellRecord, WellDesire, WellRedis, DegradedRecord,
         DegradedTable, DegradedRedis, GoneRecord, IllRecord, Evict, ProxyTable,
         Lock, docker
    <2> QED BY <2>1, <2>2, <2>3, <2>4 DEF Next, vars, docker, CreateRouter, Begin,
               Listener, ListenerApply, ListenerRead, Environment, Server, Drain,
               SweepRecord, SweepDesire, Exit, Boot
  <1>5. PICK u \in Task : StopStep(u) \/ StartStep(u) BY <1>4
  <1>6. /\ InCritical(u) /\ owner[target[t]] = rtr[u]
        /\ \/ pc[u] \in {"stop_container", "clean", "create"}
           \/ At(u, "launch") /\ pc'[u] = "fail"
    BY <1>1, <1>5, RemoverWorks
  <1>7. u = t BY <1>2, <1>3, <1>6 DEF LockInv
  <1> QED BY <1>6, <1>7 DEF Fresh

\* For any routers, tasks, containers, operations and faults: while the process
\* runs, a container that a start has created and not yet reported is removed by
\* nobody but that start.
THEOREM FreshContainerIsSafe == ~Exits /\ Spec => FreshContainerSafe
  <1> SUFFICES ASSUME ~Exits PROVE Spec => FreshContainerSafe
    OBVIOUS
  <1>1. Init => FreshInv
    BY DEF Init, FreshInv, Fresh, NoSweep
  <1>2. TypeOK /\ FreshInv /\ [Next]_vars => FreshInv'
    BY NextFresh
  <1>3. TypeOK /\ LockInv /\ OwnInv /\ FreshInv /\ [Next]_vars
        => [\A t \in Task :
              /\ pc[t] \in {"launch", "await", "run_record", "run_desire", "run_redis",
                            "run_table", "run_publish"}
              /\ Exists(target[t])
              /\ cst'[target[t]] = "removed"
              => At(t, "launch") /\ pc'[t] = "fail"]_vars
    BY FreshStep DEF Fresh
  <1>4. TypeOK /\ LockInv /\ [Next]_vars => LockInv'
    BY NextLock
  <1>5. TypeOK /\ LockInv /\ OwnInv /\ [Next]_vars => OwnInv'
    BY NextMine
  <1> QED
    BY TypeCorrect, InitLock, InitMine, <1>1, <1>2, <1>3, <1>4, <1>5, PTL
    DEF Spec, FreshContainerSafe

-----------------------------------------------------------------------------
(* The manager as a service *)

\* While the process runs, nothing is left to boot.
UpInv == /\ phase = "up"
         /\ queue = {}
         /\ \A t \in Task : pc[t] \notin {"unused", "done"} => kind[t] # "boot"

\* Nobody at work on a router means that its row says what it is.
ServedInv ==
    \A r \in Router : life[r] = "live" /\ lock[r] = None => AtRest(r) = db[r].runtime

LEMMA NextUp ==
    ASSUME ~Exits, TypeOK, PhaseInv, UpInv, [Next]_vars
    PROVE  UpInv'
  <1>0. TaskType BY DEF TypeOK
  <1>1. ASSUME NEW t \in Task, NEW l, Goto(t, l), pc[t] \notin {"unused", "done"},
               UNCHANGED <<phase, queue>>
        PROVE  UpInv'
    BY <1>0, <1>1, GotoOwn DEF UpInv, SameTask
  <1>2. ASSUME NEW t \in Task, NEW l, Jump(t, l), pc[t] \notin {"unused", "done"},
               UNCHANGED <<phase, queue, kind>>
        PROVE  UpInv'
    BY <1>0, <1>2 DEF UpInv, Jump, TaskType
  <1> USE DEF server
  <1>3. ASSUME NEW t \in Task, StopStep(t) \/ StartStep(t) \/ FreeStep(t) \/ Lock(t)
        PROVE  UpInv'
    <2>1. pc[t] \notin {"unused", "done"}
      BY <1>3, StopStepMoves, StartStepMoves, FreeStepMoves
      DEF InCritical, Critical, StopPoints, StartPoints, Lock, At
    <2>2. CASE Inspect(t) \/ Create(t) \/ Probe(t) \/ InspectGood(t) \/ InspectBad(t)
      BY <1>2, <2>1, <2>2 DEF Inspect, Create, Probe, InspectGood, InspectBad
    <2>3. CASE StopStep(t) \/ Lock(t)
      BY <1>1, <2>1, <2>3 DEF StopStep, StopContainer, StopRecord, StopRedis, StopTable,
         StopPublish, Release, Lock
    <2>4. CASE StartStep(t) /\ ~(Inspect(t) \/ Create(t))
      BY <1>1, <2>1, <2>4 DEF StartStep, RefuseImage, AdoptRecord, AdoptRedis, AdoptTable,
         Clean, Pull, Launch, Await, SickRecord, SickPublish, RunRecord, RunDesire,
         RunRedis, RunTable, RunPublish, Fail, Release
    <2>5. CASE FreeStep(t) /\ ~(Probe(t) \/ InspectGood(t) \/ InspectBad(t))
      BY <1>1, <2>1, <2>5 DEF FreeStep, DesireOn, DesireOff, TryLock, DropRow, WellTable,
         WellRecord, WellDesire, WellRedis, DegradedRecord, DegradedTable, DegradedRedis,
         GoneRecord, IllRecord, Evict, ProxyTable
    <2> QED BY <1>3, <2>2, <2>3, <2>4, <2>5
  <1>4. ASSUME NEW t \in Task, NEW k \in Kinds, NEW r \in Router, Begin(t, k, r)
        PROVE  UpInv'
    BY <1>0, <1>4 DEF Begin, UpInv, Jump, TaskType
  <1>5. ~Server
    BY DEF Server, Drain, SweepRecord, SweepDesire, Exit, Boot, SweepRemove, PhaseInv,
       UpInv
  <1>6. CASE UNCHANGED <<phase, queue, pc, kind>> BY <1>6 DEF UpInv
  <1> QED
    BY <1>3, <1>4, <1>5, <1>6 DEF Next, vars, locals, CreateRouter, Listener,
       ListenerApply, ListenerRead, Environment, ContainerDies, ContainerReturns

LEMMA RestServed ==
    ASSUME TypeOK, LockInv, RouteInv, UpInv
    PROVE  ServedInv
  <1> SUFFICES ASSUME NEW r \in Router, life[r] = "live", lock[r] = None
               PROVE  AtRest(r) = db[r].runtime
    BY DEF ServedInv
  <1>1. NoHolder(r)
    BY LifecycleAssumption DEF NoHolder, Works, LockInv
  <1>2. ~Dirty(r)
    BY DEF UpInv, Dirty, Due
  <1>3. Settled(r)
    BY <1>1, <1>2 DEF RouteInv, RouterOK, UpInv
  <1>4. db[r].runtime \in RuntimeState
    BY DEF TypeOK, StoreType, Row
  <1> QED BY <1>3, <1>4 DEF Settled, AtRest, RuntimeState

\* What RouterService sees of q, and when a step shows it nothing.
Still(q) == Status(q)' = Status(q) /\ Doing(q)' = Doing(q)

LEMMA StillUnder ==
    ASSUME NEW q \in Router, life'[q] = life[q], lock'[q] = lock[q],
           lock[q] # None => SameTask(lock[q]),
           lock[q] = None => Same(q)
    PROVE  Still(q)
  <1>1. lock[q] = None => AtRest(q)' = AtRest(q)
    BY DEF Same, AtRest, Agree
  <1>2. Status(q)' = Status(q) BY <1>1 DEF Status
  <1>3. Doing(q)' = Doing(q) BY DEF Doing, SameTask
  <1> QED BY <1>2, <1>3 DEF Still

\* Every step is one of these, of one router.
Creates(r)  == Status(r) = "absent" /\ Status(r)' = "stopped" /\ Doing(r)' = Doing(r)
Takes(r)    == /\ Doing(r) = "none" /\ Status(r) # "absent"
               /\ Doing(r)' \in {"stop", "start", "restart"}
               /\ Status(r)' = IF Status(r) \in RuntimeState THEN "busy" ELSE Status(r)
Gives(r)    == /\ Doing(r) \in {"stop", "start", "restart"} /\ Doing(r)' = "none"
               /\ IF Status(r) # "busy" THEN Status(r)' = Status(r)
                  ELSE /\ Status(r)' \in RuntimeState
                       /\ Doing(r) = "stop" => Status(r)' = "stopped"
                       /\ Doing(r) = "start" => Status(r)' \in {"running", "failed"}
Deletes(r)  == Status(r) # "absent" /\ Status(r)' = "deleted" /\ Doing(r)' = Doing(r)

Serves(r) == Creates(r) \/ Takes(r) \/ Gives(r) \/ Deletes(r) \/ Still(r)

LEMMA ServesNext ==
    ASSUME NEW r \in Router, Serves(r), \A q \in Router : q # r => Still(q)
    PROVE  [Service!Next]_Service!service
  <1> DEFINE st == [q \in Router |-> Status(q)]
             op == [q \in Router |-> Doing(q)]
  <1>1. \A x : (\A q \in Router : q # r => Status(q)' = Status(q)) /\ Status(r)' = x
               => st' = [st EXCEPT ![r] = x]
    OBVIOUS
  <1>2. \A x : (\A q \in Router : q # r => Doing(q)' = Doing(q)) /\ Doing(r)' = x
               => op' = [op EXCEPT ![r] = x]
    OBVIOUS
  <1>3. /\ st' = [st EXCEPT ![r] = Status(r)']
        /\ op' = [op EXCEPT ![r] = Doing(r)']
        /\ st[r] = Status(r) /\ op[r] = Doing(r)
        /\ Status(r)' = Status(r) => st' = st
        /\ Doing(r)' = Doing(r) => op' = op
    BY <1>1, <1>2 DEF Still
  <1>4. CASE Creates(r)
    <2>1. Service!Create(r) BY <1>3, <1>4 DEF Creates, Service!Create
    <2> QED BY <2>1 DEF Service!Next
  <1>5. CASE Takes(r)
    <2>1. Service!Take(r)
      BY <1>3, <1>5 DEF Takes, Service!Take, Service!Outcome, Service!Rest, RuntimeState
    <2> QED BY <2>1 DEF Service!Next
  <1>6. CASE Gives(r)
    <2>1. Status(r) = "busy" => Status(r)' \in Service!Outcome[Doing(r)]
      BY <1>6 DEF Gives, Service!Outcome, Service!Rest, RuntimeState
    <2>2. Status(r) # "busy" => st' = st
      BY <1>3, <1>6 DEF Gives
    <2>3. Doing(r) # "none" /\ op' = [op EXCEPT ![r] = "none"]
      BY <1>3, <1>6 DEF Gives
    <2>4. Service!Give(r)
      BY <1>3, <2>1, <2>2, <2>3 DEF Service!Give
    <2> QED BY <2>4 DEF Service!Next
  <1>7. CASE Deletes(r)
    <2>1. Service!Delete(r) BY <1>3, <1>7 DEF Deletes, Service!Delete
    <2> QED BY <2>1 DEF Service!Next
  <1>8. CASE Still(r)
    BY <1>3, <1>8 DEF Still, Service!service
  <1> QED BY <1>4, <1>5, <1>6, <1>7, <1>8 DEF Serves

\* What RouterService sees of a router, by its row and its mutex.
LEMMA StatusOf ==
    ASSUME TypeOK, ServedInv, NEW r \in Router
    PROVE  /\ Status(r) = "absent" <=> life[r] = "absent"
           /\ life[r] = "live" /\ lock[r] = None => Status(r) = db[r].runtime
           /\ life[r] = "live" /\ lock[r] # None => Status(r) = "busy"
           /\ life[r] # "live" => /\ Status(r) = life[r]
                                  /\ Status(r) \in {"absent", "deleted"}
           /\ db[r].runtime \in RuntimeState
  <1>1. life[r] \in {"absent", "live", "deleted"} /\ db[r].runtime \in RuntimeState
    BY DEF TypeOK, StoreType, Row
  <1> QED BY <1>1 DEF Status, ServedInv, RuntimeState

\* A holder that goes on does what it was doing.
LEMMA HolderGoesOn ==
    ASSUME TypeOK, NEW t \in Task, StopStep(t) \/ StartStep(t), pc'[t] \in Critical
    PROVE  /\ kind'[t] = kind[t]
           /\ kind[t] # "restart" => (pc'[t] \in StopPoints <=> pc[t] \in StopPoints)
  <1>0. TaskType BY DEF TypeOK
  <1>1. ASSUME NEW l, Goto(t, l), l # "done"
        PROVE  kind'[t] = kind[t] /\ pc'[t] = l
    BY <1>0, <1>1, GotoOwn
  <1>2. ASSUME NEW l, Jump(t, l) PROVE pc'[t] = l
    BY <1>0, <1>2 DEF Jump, TaskType
  <1> USE DEF At, Critical, StopPoints, StartPoints
  <1>3. CASE StopStep(t)
    <2>1. AfterStop(t) \notin Critical BY DEF AfterStop
    <2>2. ASSUME StopPublish(t)
          PROVE  kind[t] = "restart" /\ kind'[t] = kind[t]
      BY <1>0, <1>1, <2>1, <2>2, GotoOwn DEF StopPublish, Release
    <2>3. CASE StopStep(t) /\ ~StopPublish(t)
      BY <1>1, <2>3 DEF StopStep, StopContainer, StopRecord, StopRedis, StopTable
    <2> QED BY <1>3, <2>2, <2>3
  <1>4. CASE StartStep(t)
    <2>1. CASE Inspect(t) \/ Create(t)
      BY <1>2, <2>1 DEF Inspect, Create
    <2>2. CASE AdoptTable(t) \/ RunPublish(t) \/ Fail(t)
      BY <1>0, <2>2, GotoOwn DEF AdoptTable, RunPublish, Fail, Release
    <2>3. CASE StartStep(t) /\ ~(Inspect(t) \/ Create(t))
               /\ ~(AdoptTable(t) \/ RunPublish(t) \/ Fail(t))
      BY <1>1, <2>3 DEF StartStep, RefuseImage, AdoptRecord, AdoptRedis,
         Clean, Pull, Launch, Await, SickRecord, SickPublish, RunRecord,
         RunDesire, RunRedis, RunTable
    <2> QED BY <1>4, <2>1, <2>2, <2>3
  <1> QED BY <1>3, <1>4

\* A holder that gives the mutex back leaves what its operation promises.
LEMMA HolderEnds ==
    ASSUME TypeOK, Orderly, NEW t \in Task, NEW r \in Router, rtr[t] = r,
           life[r] = "live", HoldsAt(t, r, pc[t]), StopStep(t) \/ StartStep(t),
           pc'[t] \notin Critical
    PROVE  kind[t] # "restart" =>
             /\ pc[t] \in StopPoints => db'[r].runtime = "stopped"
             /\ pc[t] \notin StopPoints => db'[r].runtime \in {"running", "failed"}
  <1>0. TaskType BY DEF TypeOK
  <1>1. ASSUME NEW l \in Critical, Goto(t, l) PROVE FALSE
    BY <1>0, <1>1, GotoOwn
  <1>2. ASSUME NEW l \in Critical, Jump(t, l) PROVE FALSE
    BY <1>0, <1>2 DEF Jump, TaskType
  <1> USE DEF At, StopPoints, StartPoints
  <1>3. CASE StopStep(t)
    <2>1. StopPublish(t)
      BY <1>1, <1>3
      DEF StopStep, StopContainer, StopRecord, StopRedis, StopTable, Critical
    <2> QED BY <2>1 DEF StopPublish, HoldsAt, store
  <1>4. CASE StartStep(t)
    <2>1. AdoptTable(t) \/ RunPublish(t) \/ Fail(t)
      BY <1>1, <1>2, <1>4 DEF StartStep, RefuseImage, Inspect, AdoptRecord, AdoptRedis,
         Clean, Pull, Create, Launch, Await, SickRecord, SickPublish, RunRecord,
         RunDesire, RunRedis, RunTable, Critical
    <2>2. CASE AdoptTable(t) \/ RunPublish(t)
      BY <2>2 DEF AdoptTable, RunPublish, HoldsAt, Written, store
    <2>3. CASE Fail(t)
      BY <2>3, WriteOwn DEF Fail, HealthStatus
    <2> QED BY <2>1, <2>2, <2>3
  <1> QED BY <1>3, <1>4

LEMMA HolderServes ==
    ASSUME TypeOK, LockInv, OwnInv, HeldInv, RouteInv, UpInv, ServedInv, Orderly,
           TypeOK', ServedInv', NEW t \in Task, StopStep(t) \/ StartStep(t)
    PROVE  \E r \in Router : Serves(r) /\ \A q \in Router : q # r => Still(q)
  <1>1. OwnOnly(t) BY StopStepOwn, StartStepOwn
  <1>2. /\ InCritical(t)
        /\ \E l \in Points : Stays(t, l) \/ Leaves(t, l)
    BY StopStepMoves, StartStepMoves
  <1>r. PICK r \in Router : rtr[t] = r
    BY <1>2 DEF LockInv, InCritical, Critical, StopPoints, StartPoints
  <1>3. rtr[t] = r /\ lock[r] = t /\ t # None
    BY <1>2, <1>r, LifecycleAssumption DEF LockInv
  <1>4. UNCHANGED life BY HolderLife
  <1>5. PICK l \in Points : Stays(t, l) \/ Leaves(t, l) BY <1>2
  <1>6. pc'[t] = l BY <1>5 DEF Stays, Leaves, Moves, TypeOK, TaskType
  <1>7. \A q \in Router : q # r => lock'[q] = lock[q]
    BY <1>3, <1>5 DEF Stays, Leaves, TypeOK, LockType
  <1>8. ASSUME NEW q \in Router, q # r PROVE Still(q)
    <2>1. lock[q] # None => SameTask(lock[q])
      BY <1>1, <1>3, <1>8 DEF HeldInv, Works, OwnOnly
    <2>2. Same(q) BY <1>1, <1>3, <1>8 DEF OwnOnly, Others, Same, Tidy
    <2> QED BY <1>4, <1>7, <1>8, <2>1, <2>2, StillUnder
  <1>9. Serves(r)
    <2>1. CASE Stays(t, l)
      <3>1. l \in Critical /\ UNCHANGED lock BY <1>2, <2>1 DEF Stays
      <3>2. Status(r)' = Status(r) BY <1>3, <1>4, <3>1 DEF Status
      <3>3. /\ kind'[t] = kind[t]
            /\ kind[t] # "restart" => (pc'[t] \in StopPoints <=> pc[t] \in StopPoints)
        BY <1>6, <3>1, HolderGoesOn
      <3>4. Doing(r)' = Doing(r) BY <1>3, <3>1, <3>3 DEF Doing
      <3> QED BY <3>2, <3>4 DEF Serves, Still
    <2>2. CASE Leaves(t, l)
      <3>1. lock'[r] = None /\ l \notin Critical
        BY <1>3, <2>2 DEF Leaves, TypeOK, LockType
      <3>2. Doing(r)' = "none" /\ Doing(r) \in {"stop", "start", "restart"}
        BY <1>3, <3>1 DEF Doing
      <3>3. CASE life[r] # "live"
        <4>1. Status(r)' = Status(r) /\ Status(r) # "busy"
          BY <1>3, <1>4, <3>3, StatusOf DEF Status
        <4> QED BY <3>2, <4>1 DEF Serves, Gives
      <3>4. CASE life[r] = "live"
        <4>1. HoldsAt(t, r, pc[t])
          BY <1>2, <1>3, <3>4 DEF RouteInv, UpInv, RouterOK, Works
        <4>2. kind[t] # "restart" =>
                /\ pc[t] \in StopPoints => db'[r].runtime = "stopped"
                /\ pc[t] \notin StopPoints => db'[r].runtime \in {"running", "failed"}
          BY <1>3, <1>6, <3>1, <3>4, <4>1, HolderEnds
        <4>3. Status(r)' = db'[r].runtime /\ db'[r].runtime \in RuntimeState
          BY <1>3, <1>4, <3>1, <3>4 DEF Status, ServedInv, TypeOK, StoreType, Row
        <4>4. /\ Doing(r) = "stop" => kind[t] # "restart" /\ pc[t] \in StopPoints
              /\ Doing(r) = "start" => kind[t] # "restart" /\ pc[t] \notin StopPoints
          BY <1>3 DEF Doing
        <4>5. Status(r) = "busy" BY <1>3, <3>4 DEF Status
        <4> QED BY <3>2, <4>2, <4>3, <4>4, <4>5 DEF Serves, Gives
      <3> QED BY <3>3, <3>4
    <2> QED BY <1>5, <2>1, <2>2
  <1> QED BY <1>8, <1>9

LEMMA WaiterServes ==
    ASSUME TypeOK, LockInv, KindInv, HeldInv, AbsentInv, ServedInv, Orderly,
           TypeOK', ServedInv', NEW t \in Task, FreeStep(t) \/ Lock(t)
    PROVE  \E r \in Router : Serves(r) /\ \A q \in Router : q # r => Still(q)
  <1>0. TaskType BY DEF TypeOK
  <1>1. OwnOnly(t) BY FreeStepOwn
  <1>2. /\ pc[t] \in {"desire_on", "desire_off", "try_lock", "drop_row", "lock"}
        /\ rtr[t] \in Router
    BY FreeStepOnly DEF DesireOn, DesireOff, TryLock, DropRow, Lock, At, LockInv
  <1>3. ~InCritical(t) BY <1>2 DEF InCritical, Critical, StopPoints, StartPoints
  <1>4. PICK r \in Router : rtr[t] = r BY <1>2
  <1>5. \A q \in Router : q # r => lock'[q] = lock[q]
    BY <1>4, FreeStepOnly
    DEF DesireOn, DesireOff, TryLock, DropRow, Lock, TypeOK, LockType
  <1>6. \A q \in Router : lock[q] # None => SameTask(lock[q])
    BY <1>1, <1>3 DEF HeldInv, Works, OwnOnly
  <1>7. ASSUME NEW q \in Router, q # r PROVE Still(q)
    <2>1. Same(q) /\ life'[q] = life[q]
      BY <1>1, <1>4, <1>7 DEF OwnOnly, Others, Same, Tidy
    <2> QED BY <1>5, <1>6, <1>7, <2>1, StillUnder
  <1>8. Serves(r)
    <2>1. CASE DesireOn(t) \/ DesireOff(t)
      <3>1. /\ UNCHANGED <<life, redis, table, docker, lock, bus>>
            /\ \E d : SaveDesired(r, d)
        BY <1>4, <2>1 DEF DesireOn, DesireOff
      <3>2. /\ db'[r].runtime = db[r].runtime
            /\ db'[r].addr = db[r].addr /\ db'[r].cid = db[r].cid
        BY <3>1, WriteOwn
      <3>3. Same(r) BY <3>1, <3>2, UntouchedNamed DEF Same, Tidy, bus
      <3> QED BY <1>6, <3>1, <3>3, StillUnder DEF Serves
    <2>2. CASE DropRow(t)
      <3>1. life' = [life EXCEPT ![r] = "deleted"] /\ UNCHANGED lock
        BY <1>4, <2>2 DEF DropRow, Orderly
      <3>2. life[r] # "absent" BY <1>4 DEF AbsentInv
      <3>3. Doing(r)' = Doing(r) BY <1>6, <3>1 DEF Doing, SameTask
      <3>4. Status(r)' = "deleted" BY <3>1 DEF Status, TypeOK, StoreType
      <3> QED BY <3>2, <3>3, <3>4, StatusOf DEF Serves, Deletes
    <2>3. ASSUME lock[r] = None, lock' = [lock EXCEPT ![r] = t], UNCHANGED store,
                 NEW l \in {"inspect", "stop_container"}, Goto(t, l)
          PROVE  Serves(r)
      <3>1. lock'[r] = t /\ t # None
        BY <2>3, LifecycleAssumption DEF TypeOK, LockType
      <3>2. life[r] # "absent" BY <1>4 DEF AbsentInv
      <3>3. Doing(r) = "none" /\ Doing(r)' \in {"stop", "start", "restart"}
        BY <2>3, <3>1 DEF Doing
      <3>4. CASE life[r] = "live"
        <4>1. Status(r)' = "busy" BY <2>3, <3>1, <3>4 DEF Status, store
        <4>2. Status(r) \in RuntimeState BY <2>3, <3>4, StatusOf
        <4> QED BY <3>3, <4>1, <4>2 DEF Serves, Takes, RuntimeState
      <3>5. CASE life[r] # "live"
        <4>1. Status(r)' = Status(r) BY <2>3, <3>5 DEF Status, store
        <4>2. Status(r) = "deleted" BY <3>2, <3>5, StatusOf
        <4> QED BY <3>3, <4>1, <4>2 DEF Serves, Takes, RuntimeState
      <3> QED BY <3>4, <3>5
    <2>4. CASE Lock(t) BY <1>4, <2>3, <2>4 DEF Lock
    <2>5. CASE TryLock(t)
      <3>1. CASE lock[r] = None BY <1>4, <2>3, <2>5, <3>1 DEF TryLock
      <3>2. CASE lock[r] # None
        <4>1. UNCHANGED <<store, lock>> BY <1>4, <2>5, <3>2 DEF TryLock
        <4> QED BY <1>6, <3>2, <4>1, StillUnder DEF Serves, store
      <3> QED BY <3>1, <3>2
    <2> QED BY <2>1, <2>2, <2>4, <2>5, FreeStepOnly
  <1> QED BY <1>7, <1>8

\* Looking a router up, hearing of it and a container's own life show nothing.
LEMMA UnseenStep ==
    ASSUME TypeOK, HeldInv,
           \/ \E t \in Task, k \in Kinds, r \in Router : Begin(t, k, r)
           \/ Listener \/ Environment \/ UNCHANGED vars
    PROVE  \A q \in Router : Still(q)
  <1>1. UNCHANGED <<life, db, redis, lock>>
    BY DEF Begin, Listener, ListenerApply, ListenerRead, Environment, ContainerDies,
       ContainerReturns, vars, store
  <1>2. \A q : Named(q)' = Named(q)
    <2>1. UNCHANGED owner /\ \A c \in Container : Exists(c)' <=> Exists(c)
      BY DEF Begin, Listener, ListenerApply, ListenerRead, Environment, ContainerDies,
         ContainerReturns, vars, docker, Exists, TypeOK, DockerType
    <2> QED BY <2>1, SameNamed
  <1>3. \A q \in Router : lock[q] # None => /\ kind'[lock[q]] = kind[lock[q]]
                                           /\ pc'[lock[q]] = pc[lock[q]]
    <2>1. ASSUME NEW t \in Task, NEW k \in Kinds, NEW r \in Router, Begin(t, k, r)
          PROVE  \A u \in Task : InCritical(u) => kind'[u] = kind[u] /\ pc'[u] = pc[u]
      BY <2>1 DEF Begin, Jump, At, InCritical, Critical, StopPoints, StartPoints,
         TypeOK, TaskType
    <2>2. ASSUME UNCHANGED <<pc, kind>>
          PROVE  \A u \in Task : InCritical(u) => kind'[u] = kind[u] /\ pc'[u] = pc[u]
      BY <2>2
    <2>3. \A u \in Task : InCritical(u) => kind'[u] = kind[u] /\ pc'[u] = pc[u]
      BY <2>1, <2>2 DEF Listener, ListenerApply, ListenerRead, Environment, ContainerDies,
         ContainerReturns, vars, locals
    <2> QED BY <2>3 DEF HeldInv, Works
  <1>4. \A q \in Router : AtRest(q)' = AtRest(q)
    BY <1>1, <1>2 DEF AtRest, Agree
  <1> QED BY <1>1, <1>3, <1>4 DEF Still, Status, Doing

LEMMA CreateServes ==
    ASSUME TypeOK, HeldInv, AbsentInv, ServedInv', NEW r \in Router, CreateRouter(r)
    PROVE  Serves(r) /\ \A q \in Router : q # r => Still(q)
  <1>1. UNCHANGED <<redis, docker, lock, pc, locals>> /\ life[r] = "absent"
    BY DEF CreateRouter
  <1>2. lock[r] = None
    BY <1>1 DEF HeldInv, Works, AbsentInv
  <1>3. life'[r] = "live" /\ db'[r].runtime = "stopped"
    BY DEF CreateRouter, TypeOK, StoreType, NewRow
  <1>4. Serves(r)
    <2>1. Status(r) = "absent" BY <1>1 DEF Status
    <2>2. Status(r)' = "stopped"
      BY <1>1, <1>2, <1>3 DEF Status, ServedInv
    <2>3. Doing(r)' = Doing(r) BY <1>1, <1>2 DEF Doing
    <2> QED BY <2>1, <2>2, <2>3 DEF Serves, Creates
  <1>5. ASSUME NEW q \in Router, q # r PROVE Still(q)
    <2>1. life'[q] = life[q] /\ db'[q] = db[q]
      BY <1>5 DEF CreateRouter, TypeOK, StoreType
    <2>2. AtRest(q)' = AtRest(q) BY <1>1, <2>1, UntouchedNamed DEF AtRest, Agree
    <2> QED BY <1>1, <2>1, <2>2 DEF Still, Status, Doing, locals
  <1> QED BY <1>4, <1>5

LEMMA ServiceStep ==
    ASSUME TypeOK, LockInv, OwnInv, RestInv, UpInv, ServedInv, Orderly, ~Exits,
           TypeOK', ServedInv', [Next]_vars
    PROVE  [Service!Next]_Service!service
  <1>1. \/ \A q \in Router : Still(q)
        \/ \E r \in Router : Serves(r) /\ \A q \in Router : q # r => Still(q)
    <2>1. ~Server
      BY DEF Server, Drain, SweepRecord, SweepDesire, Exit, Boot, SweepRemove, RestInv,
         PhaseInv, UpInv
    <2> QED
      BY <2>1, CreateServes, UnseenStep, WaiterServes, HolderServes DEF Next, RestInv
  <1>2. CASE \A q \in Router : Still(q)
    BY <1>2 DEF Still, Service!service
  <1> QED BY <1>1, <1>2, ServesNext

\* For any routers, tasks and containers: while the process runs, the services
\* answer and only the operations under the mutex write routes, the manager does
\* what RouterService says.  Each stop, start and restart looks like one step that
\* ends in a state of its own kind, the routes included, and nothing else changes
\* a router between two of them, wherever its tasks interleave and its starts fail.
THEOREM IsServiceHolds == Orderly /\ ~Exits /\ Spec => IsService
  <1> SUFFICES ASSUME Orderly, ~Exits PROVE Spec => IsService
    OBVIOUS
  <1>1. Init => UpInv
    BY DEF Init, UpInv
  <1>2. TypeOK /\ RestInv /\ UpInv /\ [Next]_vars => UpInv'
    BY NextUp DEF RestInv
  <1>3. TypeOK /\ LockInv /\ RestInv /\ UpInv => ServedInv
    BY RestServed DEF RestInv
  <1>4. Init => Service!Init
    BY DEF Init, Service!Init, Status, Doing
  <1>5. /\ TypeOK /\ LockInv /\ OwnInv /\ RestInv /\ UpInv /\ ServedInv
        /\ TypeOK' /\ ServedInv' /\ [Next]_vars
        => [Service!Next]_Service!service
    BY ServiceStep
  <1>6. TypeOK /\ LockInv /\ [Next]_vars => LockInv'
    BY NextLock
  <1>7. TypeOK /\ LockInv /\ OwnInv /\ [Next]_vars => OwnInv'
    BY NextMine
  <1> QED
    BY TypeCorrect, InitLock, InitMine, RestHolds, <1>1, <1>2, <1>3, <1>4, <1>5, <1>6,
       <1>7, PTL
    DEF Spec, IsService, Service!Spec

==============================================================================
