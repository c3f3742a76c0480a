------------------------ MODULE RouterLifecycleProofs ------------------------
(***************************************************************************)
(* Theorems about RouterLifecycle, for any number of routers, containers   *)
(* and tasks: type correctness, mutual exclusion of the operations on a    *)
(* router, the coherence of the row while only the checker (and not the    *)
(* health endpoint) runs health checks, and the isolation of routes.       *)
(***************************************************************************)
EXTENDS RouterLifecycle, TLAPS

-----------------------------------------------------------------------------
(* Type correctness: first what each write preserves *)

LEMMA BlankType == Blank \in Row
  BY DEF Blank, NewRow, Row, DesiredState, RuntimeState, HealthStatus, Addr

\* A part of the state whose variables do not change keeps its type.
LEMMA FrameType ==
    /\ StoreType /\ UNCHANGED store => StoreType'
    /\ RouteType /\ UNCHANGED <<redis, table>> => RouteType'
    /\ DockerType /\ UNCHANGED docker => DockerType'
    /\ TaskType /\ UNCHANGED <<pc, locals>> => TaskType'
    /\ LockType /\ UNCHANGED lock => LockType'
    /\ BusType /\ UNCHANGED bus => BusType'
    /\ ServerType /\ UNCHANGED server => ServerType'
  BY DEF StoreType, RouteType, DockerType, TaskType, LockType, BusType,
         ServerType, store, docker, locals, bus, server

LEMMA SaveStateType ==
    ASSUME StoreType, NEW r, NEW rt \in RuntimeState, NEW a \in Addr,
           NEW c \in Addr, NEW h, SaveState(r, rt, a, c, h), UNCHANGED life
    PROVE  StoreType'
  BY DEF StoreType, SaveState, WriteState, Row, DesiredState, RuntimeState, Addr

LEMMA SaveDesiredType ==
    ASSUME StoreType, NEW r, NEW d \in DesiredState, SaveDesired(r, d),
           UNCHANGED life
    PROVE  StoreType'
  BY DEF StoreType, SaveDesired, Row, DesiredState

LEMMA SetRouteType ==
    ASSUME RouteType, NEW r, NEW a \in Addr, SetRoute(r, a), UNCHANGED table
    PROVE  RouteType'
  BY DEF RouteType, SetRoute

LEMMA GotoType ==
    ASSUME TaskType, NEW t \in Task, NEW l \in Points, Goto(t, l)
    PROVE  TaskType'
  BY BlankType DEF TaskType, Goto, Jump, locals, Addr

LEMMA LocalType ==
    ASSUME TaskType, NEW t \in Task
    PROVE  None \in Addr /\ target[t] \in Addr
           /\ row[t].addr \in Addr /\ row[t].cid \in Addr
  BY DEF TaskType, Row, Addr

LEMMA ReleaseType ==
    ASSUME TaskType, LockType, NEW t \in Task, NEW l \in Points, Release(t, l)
    PROVE  TaskType' /\ LockType'
  BY GotoType DEF Release, LockType

LEMMA RemoveType ==
    ASSUME DockerType, NEW cs, Remove(cs), UNCHANGED owner
    PROVE  DockerType'
  BY DEF DockerType, Remove

LEMMA PublishType ==
    ASSUME BusType, NEW r, Publish(r), UNCHANGED listener
    PROVE  BusType'
  <1>1. CASE r \in Router
    <2>1. reloads[r] + 1 \in Nat BY <1>1 DEF BusType
    <2>2. reloads' \in [Router -> Nat] BY <1>1, <2>1 DEF BusType, Publish
    <2> QED BY <2>2 DEF BusType
  <1>2. CASE r \notin Router
    <2>1. reloads' = reloads BY <1>2 DEF BusType, Publish
    <2> QED BY <2>1 DEF BusType
  <1> QED BY <1>1, <1>2

LEMMA AfterStopPoint ==
    ASSUME NEW t
    PROVE  AfterStop(t) \in Points
  BY DEF AfterStop, Points, FreePoints

LEMMA FirstPointPoint ==
    ASSUME NEW k \in AllKinds, NEW seen
    PROVE  FirstPoint(k, seen) \in Points \ Critical
  BY DEF FirstPoint, Points, FreePoints, AllKinds, Critical, StopPoints, StartPoints

LEMMA SeenType ==
    ASSUME StoreType, RouteType, NEW r \in Router, NEW k
    PROVE  SeenBy(k, r) \in Row
  <1>1. db[r] \in Row BY DEF StoreType
  <1>2. Overlaid(r) \in Row
    BY <1>1 DEF RouteType, Overlaid, Row, RuntimeState, HealthStatus
  <1> QED BY <1>1, <1>2 DEF SeenBy

-----------------------------------------------------------------------------
(* Type correctness of the steps that choose a container *)

LEMMA RunningType ==
    ASSUME NEW r
    PROVE  \A c \in Running(r) : c \in Container /\ c \in Addr
  BY DEF Running, Named, Addr

LEMMA CreateType ==
    ASSUME DockerType, TaskType, NEW t \in Task, Create(t)
    PROVE  DockerType' /\ TaskType'
  <1>1. TaskType'
    BY DEF Create, TaskType, Jump, Points, Critical, StartPoints, Addr
  <1>2. CASE Remove(Named(rtr[t])) /\ UNCHANGED owner
    BY <1>1, <1>2 DEF Remove, DockerType
  <1>3. ASSUME NEW c \in Container,
               cst' = [d \in Container |-> IF d = c THEN "created"
                          ELSE IF d \in Named(rtr[t]) THEN "removed" ELSE cst[d]],
               owner' = [owner EXCEPT ![c] = rtr[t]]
        PROVE  DockerType'
    BY <1>3 DEF DockerType, TaskType
  <1> QED BY <1>1, <1>2, <1>3 DEF Create

LEMMA InspectType ==
    ASSUME TaskType, NEW t \in Task, Inspect(t)
    PROVE  TaskType'
  BY RunningType DEF Inspect, TaskType, Jump, Points, Critical, StartPoints

LEMMA CidType ==
    ASSUME TaskType, NEW t \in Task, NEW c \in Addr,
           row' = [row EXCEPT ![t].cid = c]
    PROVE  row' \in [Task -> Row]
  <1>1. row[t] \in Row BY DEF TaskType
  <1>2. [row[t] EXCEPT !.cid = c] \in Row BY <1>1 DEF Row, Addr
  <1> QED BY <1>2 DEF TaskType

LEMMA InspectGoodType ==
    ASSUME TaskType, NEW t \in Task, InspectGood(t)
    PROVE  TaskType'
  <1>1. row' \in [Task -> Row]
    BY RunningType, CidType DEF InspectGood, TaskType
  <1>2. /\ pc' \in [Task -> Points]
        /\ UNCHANGED <<kind, rtr, target>>
    BY DEF InspectGood, TaskType, Jump, Points, FreePoints
  <1> QED BY <1>1, <1>2 DEF TaskType

LEMMA InspectBadType ==
    ASSUME TaskType, NEW t \in Task, InspectBad(t)
    PROVE  TaskType'
  <1>1. row' \in [Task -> Row]
    BY RunningType, CidType DEF InspectBad, TaskType
  <1>2. target' \in [Task -> Addr]
    BY RunningType DEF InspectBad, TaskType
  <1>3. /\ pc' \in [Task -> Points]
        /\ UNCHANGED <<kind, rtr>>
    BY DEF InspectBad, TaskType, Jump, Points, FreePoints
  <1> QED BY <1>1, <1>2, <1>3 DEF TaskType

-----------------------------------------------------------------------------
(* Type correctness of every step *)

LEMMA StopStepType ==
    ASSUME TypeOK, NEW t \in Task, StopStep(t)
    PROVE  TypeOK'
  <1>1. CASE StopContainer(t)
    BY <1>1, FrameType, GotoType, RemoveType DEF StopContainer, TypeOK,
       Points, Critical, StopPoints
  <1>2. CASE StopRecord(t)
    BY <1>2, FrameType, GotoType, SaveStateType, LocalType DEF StopRecord,
       TypeOK, Points, Critical, StopPoints, RuntimeState
  <1>3. CASE StopRedis(t)
    BY <1>3, FrameType, GotoType, LocalType, SetRouteType DEF StopRedis, TypeOK, Points,
       Critical, StopPoints, RouteType
  <1>4. CASE StopTable(t)
    BY <1>4, FrameType, GotoType, LocalType DEF StopTable, TypeOK, Points,
       Critical, StopPoints, RouteType
  <1>5. CASE StopPublish(t)
    BY <1>5, FrameType, GotoType, ReleaseType, AfterStopPoint, PublishType DEF
       StopPublish, TypeOK, Points, Critical, StopPoints, StartPoints
  <1> QED
    BY <1>1, <1>2, <1>3, <1>4, <1>5 DEF StopStep

LEMMA StartStepType ==
    ASSUME TypeOK, NEW t \in Task, StartStep(t)
    PROVE  TypeOK'
  <1>1. CASE RefuseImage(t)
    BY <1>1, FrameType, GotoType, SaveStateType, LocalType DEF RefuseImage,
       TypeOK, Points, Critical, StartPoints, RuntimeState
  <1>2. CASE Inspect(t)
    BY <1>2, FrameType, InspectType DEF Inspect, TypeOK
  <1>3. CASE AdoptRecord(t)
    BY <1>3, FrameType, GotoType, SaveStateType, LocalType DEF AdoptRecord,
       TypeOK, Points, Critical, StartPoints, RuntimeState
  <1>4. CASE AdoptRedis(t)
    BY <1>4, FrameType, GotoType, LocalType, SetRouteType DEF AdoptRedis, TypeOK, Points,
       Critical, StartPoints, RouteType
  <1>5. CASE AdoptTable(t)
    BY <1>5, FrameType, GotoType, ReleaseType, LocalType DEF AdoptTable,
       TypeOK, Points, Critical, StartPoints, FreePoints, RouteType
  <1>6. CASE Clean(t)
    BY <1>6, FrameType, GotoType, RemoveType DEF Clean, TypeOK, Points,
       Critical, StartPoints
  <1>7. CASE Pull(t)
    BY <1>7, FrameType, GotoType DEF Pull, TypeOK, Points, Critical,
       StartPoints
  <1>8. CASE Create(t)
    BY <1>8, FrameType, CreateType DEF Create, TypeOK
  <1>9. CASE Launch(t)
    BY <1>9, FrameType, GotoType, RemoveType DEF Launch, TypeOK, Points,
       Critical, StartPoints, DockerType
  <1>10. CASE Await(t)
    BY <1>10, FrameType, GotoType DEF Await, TypeOK, Points, Critical,
       StartPoints
  <1>11. CASE SickRecord(t)
    BY <1>11, FrameType, GotoType, SaveStateType, LocalType DEF SickRecord,
       TypeOK, Points, Critical, StartPoints, RuntimeState
  <1>12. CASE SickPublish(t)
    BY <1>12, FrameType, GotoType, PublishType DEF SickPublish, TypeOK,
       Points, Critical, StartPoints
  <1>13. CASE RunRecord(t)
    <2>1. StoreType'
      BY <1>13, FrameType, SaveStateType, LocalType DEF RunRecord, SaveState,
         TypeOK, RuntimeState, store
    <2> QED
      BY <1>13, <2>1, FrameType, GotoType DEF RunRecord, TypeOK, Points,
         Critical, StartPoints
  <1>14. CASE RunDesire(t)
    BY <1>14, FrameType, GotoType, SaveDesiredType DEF RunDesire, TypeOK,
       Points, Critical, StartPoints, DesiredState
  <1>15. CASE RunRedis(t)
    BY <1>15, FrameType, GotoType, LocalType DEF RunRedis, TypeOK, Points,
       Critical, StartPoints, RouteType
  <1>16. CASE RunTable(t)
    BY <1>16, FrameType, GotoType, LocalType DEF RunTable, TypeOK, Points,
       Critical, StartPoints, RouteType
  <1>17. CASE RunPublish(t)
    BY <1>17, FrameType, GotoType, ReleaseType, PublishType DEF RunPublish,
       TypeOK, Points, Critical, StartPoints, FreePoints
  <1>18. CASE Fail(t)
    BY <1>18, FrameType, GotoType, ReleaseType, SaveStateType, LocalType DEF
       Fail, TypeOK, Points, Critical, StartPoints, FreePoints, RuntimeState,
       store, StoreType
  <1> QED
    BY <1>1, <1>2, <1>3, <1>4, <1>5, <1>6, <1>7, <1>8, <1>9, <1>10, <1>11,
       <1>12, <1>13, <1>14, <1>15, <1>16, <1>17, <1>18 DEF StartStep

LEMMA FreeStepType ==
    ASSUME TypeOK, NEW t \in Task, FreeStep(t)
    PROVE  TypeOK'
  <1>1. CASE DesireOn(t)
    BY <1>1, FrameType, GotoType, SaveDesiredType DEF DesireOn, TypeOK,
       Points, FreePoints, DesiredState
  <1>2. CASE DesireOff(t)
    BY <1>2, FrameType, GotoType, SaveDesiredType DEF DesireOff, TypeOK,
       Points, FreePoints, DesiredState
  <1>3. CASE TryLock(t)
    BY <1>3, FrameType, GotoType DEF TryLock, TypeOK, Points, Critical,
       StartPoints, FreePoints, LockType
  <1>4. CASE DropRow(t)
    BY <1>4, FrameType, GotoType DEF DropRow, TypeOK, Points, FreePoints,
       StoreType
  <1>5. CASE Probe(t)
    BY <1>5, FrameType DEF Probe, TypeOK, TaskType, Jump, Points, Row, Addr,
       FreePoints
  <1>6. CASE InspectGood(t)
    BY <1>6, FrameType, InspectGoodType DEF InspectGood, TypeOK
  <1>7. CASE InspectBad(t)
    BY <1>7, FrameType, InspectBadType DEF InspectBad, TypeOK
  <1>8. CASE WellTable(t)
    BY <1>8, FrameType, GotoType, LocalType DEF WellTable, TypeOK, Points,
       FreePoints, RouteType
  <1>9. CASE WellRecord(t)
    BY <1>9, FrameType, GotoType, SaveStateType, LocalType DEF WellRecord,
       TypeOK, Points, FreePoints, RuntimeState
  <1>10. CASE WellDesire(t)
    BY <1>10, FrameType, GotoType, SaveDesiredType DEF WellDesire, TypeOK,
       Points, FreePoints, DesiredState
  <1>11. CASE WellRedis(t)
    BY <1>11, FrameType, GotoType, LocalType, SetRouteType DEF WellRedis, TypeOK, Points,
       FreePoints, RouteType
  <1>12. CASE DegradedRecord(t)
    BY <1>12, FrameType, GotoType, SaveStateType, LocalType DEF
       DegradedRecord, TypeOK, Points, FreePoints, RuntimeState
  <1>13. CASE DegradedTable(t)
    BY <1>13, FrameType, GotoType, LocalType DEF DegradedTable, TypeOK,
       Points, FreePoints, RouteType
  <1>14. CASE DegradedRedis(t)
    BY <1>14, FrameType, GotoType, LocalType, SetRouteType DEF DegradedRedis, TypeOK,
       Points, FreePoints, RouteType
  <1>15. CASE GoneRecord(t)
    BY <1>15, FrameType, GotoType, SaveStateType, LocalType DEF GoneRecord,
       TypeOK, Points, FreePoints, RuntimeState
  <1>16. CASE IllRecord(t)
    BY <1>16, FrameType, GotoType, SaveStateType, LocalType DEF IllRecord,
       TypeOK, Points, FreePoints, RuntimeState
  <1>17. CASE Evict(t)
    BY <1>17, FrameType, GotoType, LocalType DEF Evict, TypeOK, Points,
       FreePoints, RouteType
  <1>18. CASE ProxyTable(t)
    BY <1>18, FrameType, GotoType, LocalType DEF ProxyTable, TypeOK, Points,
       FreePoints, RouteType
  <1> QED
    BY <1>1, <1>2, <1>3, <1>4, <1>5, <1>6, <1>7, <1>8, <1>9, <1>10, <1>11,
       <1>12, <1>13, <1>14, <1>15, <1>16, <1>17, <1>18 DEF FreeStep

LEMMA BeginType ==
    ASSUME TypeOK, NEW t \in Task, NEW k \in Kinds, NEW r \in Router, Begin(t, k, r)
    PROVE  TypeOK'
  <1>1. k \in AllKinds BY LifecycleAssumption
  <1>2. SeenBy(k, r) \in Row BY SeenType DEF TypeOK
  <1>3. TaskType'
    BY <1>1, <1>2, FirstPointPoint DEF Begin, TypeOK, TaskType, Jump
  <1>4. ServerType' BY DEF Begin, TypeOK, ServerType
  <1> QED BY <1>3, <1>4, FrameType DEF Begin, TypeOK

LEMMA LockStepType ==
    ASSUME TypeOK, NEW t \in Task, Lock(t)
    PROVE  TypeOK'
  BY FrameType, GotoType
  DEF Lock, TypeOK, LockType, Points, Critical, StopPoints

LEMMA CreateRouterType ==
    ASSUME TypeOK, NEW r \in Router, CreateRouter(r)
    PROVE  TypeOK'
  <1>1. \A d \in DesiredState : NewRow(d) \in Row
    BY DEF NewRow, Row, RuntimeState, HealthStatus, Addr
  <1>2. StoreType' BY <1>1 DEF CreateRouter, TypeOK, StoreType
  <1> QED BY <1>2, FrameType DEF CreateRouter, TypeOK

LEMMA ListenerType ==
    ASSUME TypeOK, Listener
    PROVE  TypeOK'
  <1>1. CASE ListenerApply
    <2>1. BusType' BY <1>1 DEF ListenerApply, TypeOK, BusType, Idle, Addr
    <2>2. RouteType' BY <1>1 DEF ListenerApply, TypeOK, BusType, RouteType
    <2> QED BY <1>1, <2>1, <2>2, FrameType DEF ListenerApply, TypeOK
  <1>2. ASSUME NEW r \in Router, ListenerRead(r)
        PROVE  TypeOK'
    <2>1. reloads[r] \in Nat /\ reloads[r] > 0
      BY <1>2 DEF ListenerRead, TypeOK, BusType
    <2>2. reloads[r] - 1 \in Nat BY <2>1
    <2>3. reloads' \in [Router -> Nat]
      BY <1>2, <2>2 DEF ListenerRead, TypeOK, BusType
    <2>4. db[r].addr \in Addr /\ None \in Addr
      BY DEF TypeOK, StoreType, Row, Addr
    <2>5. listener' \in [rtr : Router \union {None}, addr : Addr]
      BY <1>2, <2>4 DEF ListenerRead
    <2> QED BY <1>2, <2>3, <2>5, FrameType DEF ListenerRead, TypeOK, BusType
  <1> QED BY <1>1, <1>2 DEF Listener

LEMMA EnvironmentType ==
    ASSUME TypeOK, Environment
    PROVE  TypeOK'
  <1>1. ASSUME NEW c \in Container, ContainerDies(c) \/ ContainerReturns(c)
        PROVE  TypeOK'
    BY <1>1, FrameType DEF ContainerDies, ContainerReturns, TypeOK, DockerType, docker
  <1> QED BY <1>1 DEF Environment

LEMMA NoSweepType ==
    NoSweep \in [left : SUBSET Router, rows : [Router -> Row],
                 at : Router \union {None}, step : {"remove", "record", "desire"}]
  BY BlankType DEF NoSweep

LEMMA ServerStepType ==
    ASSUME TypeOK, Server
    PROVE  TypeOK'
  <1>1. CASE Drain
    <2>1. ServerType'
      BY <1>1, NoSweepType DEF Drain, TypeOK, StoreType, ServerType
    <2> QED BY <1>1, <2>1, FrameType DEF Drain, TypeOK
  <1>2. CASE SweepRecord
    <2>1. StoreType'
      BY <1>2, SaveStateType DEF SweepRecord, TypeOK, RuntimeState, Addr
    <2>2. ServerType' BY <1>2 DEF SweepRecord, TypeOK, ServerType
    <2> QED BY <1>2, <2>1, <2>2, FrameType DEF SweepRecord, TypeOK
  <1>3. CASE SweepDesire
    <2>1. StoreType'
      BY <1>3, SaveDesiredType DEF SweepDesire, TypeOK, DesiredState
    <2>2. ServerType' BY <1>3 DEF SweepDesire, TypeOK, ServerType
    <2> QED BY <1>3, <2>1, <2>2, FrameType DEF SweepDesire, TypeOK
  <1>4. CASE Exit
    <2>1. TaskType'
      BY <1>4, BlankType DEF Exit, TypeOK, TaskType, Points, FreePoints, Addr
    <2>2. LockType' /\ RouteType' /\ BusType'
      BY <1>4 DEF Exit, TypeOK, LockType, RouteType, BusType, Idle, Addr
    <2>3. ServerType' BY <1>4, NoSweepType DEF Exit, TypeOK, ServerType
    <2> QED BY <1>4, <2>1, <2>2, <2>3, FrameType DEF Exit, TypeOK
  <1>5. CASE Boot
    <2>1. RouteType' /\ ServerType'
      BY <1>5 DEF Boot, TypeOK, RouteType, ServerType
    <2> QED BY <1>5, <2>1, FrameType DEF Boot, TypeOK
  <1>6. ASSUME NEW r \in Router, SweepRemove(r)
        PROVE  TypeOK'
    <2>1. ServerType' BY <1>6 DEF SweepRemove, TypeOK, ServerType
    <2> QED BY <1>6, <2>1, RemoveType, FrameType DEF SweepRemove, TypeOK
  <1> QED BY <1>1, <1>2, <1>3, <1>4, <1>5, <1>6 DEF Server

LEMMA NextType ==
    ASSUME TypeOK, [Next]_vars
    PROVE  TypeOK'
  <1>1. CASE UNCHANGED vars
    BY <1>1, FrameType DEF vars, TypeOK
  <1>2. CASE Next
    BY <1>2, BeginType, LockStepType, CreateRouterType, ListenerType,
       EnvironmentType, ServerStepType, FreeStepType, StopStepType, StartStepType
    DEF Next
  <1> QED BY <1>1, <1>2

LEMMA InitType == Init => TypeOK
  <1> SUFFICES ASSUME Init PROVE TypeOK
    OBVIOUS
  <1>1. StoreType /\ RouteType /\ DockerType /\ LockType
    BY BlankType DEF Init, StoreType, RouteType, DockerType, LockType, Addr
  <1>2. TaskType
    BY BlankType DEF Init, TaskType, Points, FreePoints, Addr
  <1>3. BusType /\ ServerType
    BY NoSweepType DEF Init, BusType, ServerType, Idle, Addr
  <1> QED BY <1>1, <1>2, <1>3 DEF TypeOK

\* Every variable keeps its type, for any routers, containers and operations.
THEOREM TypeCorrect == Spec => []TypeOK
  <1>1. Init => TypeOK
    BY InitType
  <1>2. TypeOK /\ [Next]_vars => TypeOK'
    BY NextType
  <1> QED
    BY <1>1, <1>2, PTL DEF Spec

-----------------------------------------------------------------------------
(* Mutual exclusion *)

\* A task at work knows its router, and inside the critical section it is the
\* one the router's mutex names.
LockInv ==
    \A t \in Task :
        /\ pc[t] \notin {"unused", "done"} => rtr[t] \in Router
        /\ InCritical(t) => lock[rtr[t]] = t

\* What a step of t does to the mutexes: nothing, outside or inside the critical
\* section; or it takes the mutex of its router; or it gives it back.
Moves(t, l)   == /\ pc' = [pc EXCEPT ![t] = l]
                 /\ IF l = "done" THEN rtr' = [rtr EXCEPT ![t] = None]
                                  ELSE rtr' = rtr
Stays(t, l)   == /\ Moves(t, l)
                 /\ l \in Critical <=> InCritical(t)
                 /\ UNCHANGED lock
Enters(t, l)  == /\ Moves(t, l)
                 /\ lock[rtr[t]] = None
                 /\ lock' = [lock EXCEPT ![rtr[t]] = t]
Leaves(t, l)  == /\ Moves(t, l)
                 /\ InCritical(t) /\ l \notin Critical
                 /\ lock' = [lock EXCEPT ![rtr[t]] = None]

LEMMA GotoMoves ==
    ASSUME NEW t, NEW l, Goto(t, l)
    PROVE  Moves(t, l)
  BY DEF Goto, Jump, Moves, locals

LEMMA StaysLock ==
    ASSUME TypeOK, LockInv, NEW t \in Task, NEW l \in Points, Stays(t, l),
           pc[t] \notin {"unused", "done"}
    PROVE  LockInv'
  BY DEF TypeOK, TaskType, LockInv, Stays, Moves, InCritical, Critical,
         StopPoints, StartPoints

LEMMA EntersLock ==
    ASSUME TypeOK, LockInv, NEW t \in Task, NEW l \in Points, Enters(t, l),
           l # "done", pc[t] \notin {"unused", "done"}
    PROVE  LockInv'
  <1>1. rtr[t] \in Router /\ rtr' = rtr
    BY DEF LockInv, Enters, Moves
  <1>2. lock'[rtr[t]] = t
    BY <1>1 DEF TypeOK, LockType, Enters
  <1>3. ASSUME NEW u \in Task, u # t, InCritical(u)
        PROVE  rtr[u] # rtr[t] /\ rtr[u] \in Router
    BY <1>3, LifecycleAssumption DEF LockInv, Enters, InCritical, Critical,
       StopPoints, StartPoints
  <1>4. \A u \in Task : u # t /\ InCritical(u) => lock'[rtr[u]] = u
    BY <1>1, <1>3 DEF TypeOK, LockType, Enters, LockInv
  <1> QED
    BY <1>1, <1>2, <1>4 DEF TypeOK, TaskType, LockInv, Enters, Moves, InCritical

LEMMA LeavesLock ==
    ASSUME TypeOK, LockInv, NEW t \in Task, NEW l \in Points, Leaves(t, l)
    PROVE  LockInv'
  <1>1. rtr[t] \in Router /\ lock[rtr[t]] = t
    BY DEF LockInv, Leaves, InCritical, Critical, StopPoints, StartPoints
  <1>2. \A u \in Task : u # t /\ InCritical(u) => lock'[rtr[u]] = u
    BY <1>1 DEF TypeOK, LockType, Leaves, LockInv, InCritical, Critical,
       StopPoints, StartPoints
  <1>3. \A u \in Task : u # t => pc'[u] = pc[u] /\ rtr'[u] = rtr[u]
    BY DEF TypeOK, TaskType, Leaves, Moves
  <1>4. ~InCritical(t)' /\ (l \notin {"unused", "done"} => rtr'[t] \in Router)
    BY <1>1 DEF TypeOK, TaskType, Leaves, Moves, InCritical
  <1>5. pc'[t] = l
    BY DEF TypeOK, TaskType, Leaves, Moves
  <1> QED
    BY <1>2, <1>3, <1>4, <1>5 DEF LockInv, InCritical

LEMMA StopStepMoves ==
    ASSUME NEW t \in Task, StopStep(t)
    PROVE  InCritical(t) /\ \E l \in Points : Stays(t, l) \/ Leaves(t, l)
  <1> USE GotoMoves DEF At, InCritical, Points, Critical, StopPoints,
     StartPoints, FreePoints, Stays, Leaves
  <1>1. CASE StopContainer(t) BY <1>1 DEF StopContainer
  <1>2. CASE StopRecord(t) BY <1>2 DEF StopRecord
  <1>3. CASE StopRedis(t) BY <1>3 DEF StopRedis
  <1>4. CASE StopTable(t) BY <1>4 DEF StopTable
  <1>5. CASE StopPublish(t) BY <1>5 DEF StopPublish, Release, AfterStop
  <1> QED
    BY <1>1, <1>2, <1>3, <1>4, <1>5 DEF StopStep

LEMMA StartStepMoves ==
    ASSUME NEW t \in Task, StartStep(t)
    PROVE  InCritical(t) /\ \E l \in Points : Stays(t, l) \/ Leaves(t, l)
  <1> USE GotoMoves DEF At, InCritical, Points, Critical, StopPoints,
     StartPoints, FreePoints, Stays, Leaves
  <1>1. CASE RefuseImage(t) BY <1>1 DEF RefuseImage
  <1>2. CASE Inspect(t) BY <1>2 DEF Inspect, Jump, Moves
  <1>3. CASE AdoptRecord(t) BY <1>3 DEF AdoptRecord
  <1>4. CASE AdoptRedis(t) BY <1>4 DEF AdoptRedis
  <1>5. CASE AdoptTable(t) BY <1>5 DEF AdoptTable, Release
  <1>6. CASE Clean(t) BY <1>6 DEF Clean
  <1>7. CASE Pull(t) BY <1>7 DEF Pull
  <1>8. CASE Create(t) BY <1>8 DEF Create, Jump, Moves
  <1>9. CASE Launch(t) BY <1>9 DEF Launch
  <1>10. CASE Await(t) BY <1>10 DEF Await
  <1>11. CASE SickRecord(t) BY <1>11 DEF SickRecord
  <1>12. CASE SickPublish(t) BY <1>12 DEF SickPublish
  <1>13. CASE RunRecord(t) BY <1>13 DEF RunRecord
  <1>14. CASE RunDesire(t) BY <1>14 DEF RunDesire
  <1>15. CASE RunRedis(t) BY <1>15 DEF RunRedis
  <1>16. CASE RunTable(t) BY <1>16 DEF RunTable
  <1>17. CASE RunPublish(t) BY <1>17 DEF RunPublish, Release
  <1>18. CASE Fail(t) BY <1>18 DEF Fail, Release
  <1> QED
    BY <1>1, <1>2, <1>3, <1>4, <1>5, <1>6, <1>7, <1>8, <1>9, <1>10, <1>11,
       <1>12, <1>13, <1>14, <1>15, <1>16, <1>17, <1>18 DEF StartStep

LEMMA FreeStepMoves ==
    ASSUME NEW t \in Task, FreeStep(t)
    PROVE  /\ pc[t] \notin {"unused", "done"}
           /\ \E l \in Points : \/ Stays(t, l)
                              \/ /\ l \in Critical /\ l # "done"
                                 /\ ~InCritical(t) /\ Enters(t, l)
  <1> USE GotoMoves DEF At, InCritical, Points, Critical, StopPoints,
     StartPoints, FreePoints, Stays, Enters
  <1>1. CASE DesireOn(t) BY <1>1 DEF DesireOn
  <1>2. CASE DesireOff(t) BY <1>2 DEF DesireOff
  <1>3. CASE TryLock(t) BY <1>3 DEF TryLock
  <1>4. CASE DropRow(t) BY <1>4 DEF DropRow
  <1>5. CASE Probe(t) BY <1>5 DEF Probe, Jump, Moves
  <1>6. CASE InspectGood(t) BY <1>6 DEF InspectGood, Jump, Moves
  <1>7. CASE InspectBad(t) BY <1>7 DEF InspectBad, Jump, Moves
  <1>8. CASE WellTable(t) BY <1>8 DEF WellTable
  <1>9. CASE WellRecord(t) BY <1>9 DEF WellRecord
  <1>10. CASE WellDesire(t) BY <1>10 DEF WellDesire
  <1>11. CASE WellRedis(t) BY <1>11 DEF WellRedis
  <1>12. CASE DegradedRecord(t) BY <1>12 DEF DegradedRecord
  <1>13. CASE DegradedTable(t) BY <1>13 DEF DegradedTable
  <1>14. CASE DegradedRedis(t) BY <1>14 DEF DegradedRedis
  <1>15. CASE GoneRecord(t) BY <1>15 DEF GoneRecord
  <1>16. CASE IllRecord(t) BY <1>16 DEF IllRecord
  <1>17. CASE Evict(t) BY <1>17 DEF Evict
  <1>18. CASE ProxyTable(t) BY <1>18 DEF ProxyTable
  <1> QED
    BY <1>1, <1>2, <1>3, <1>4, <1>5, <1>6, <1>7, <1>8, <1>9, <1>10, <1>11,
       <1>12, <1>13, <1>14, <1>15, <1>16, <1>17, <1>18 DEF FreeStep

LEMMA TaskStepLock ==
    ASSUME TypeOK, LockInv, NEW t \in Task, FreeStep(t) \/ StopStep(t) \/ StartStep(t)
    PROVE  LockInv'
  <1>1. CASE FreeStep(t)
    BY <1>1, FreeStepMoves, StaysLock, EntersLock
  <1>2. CASE StopStep(t) \/ StartStep(t)
    <2>1. pc[t] \notin {"unused", "done"}
      BY <1>2, StopStepMoves, StartStepMoves DEF InCritical, Critical,
         StopPoints, StartPoints
    <2> QED
      BY <1>2, <2>1, StopStepMoves, StartStepMoves, StaysLock, LeavesLock
  <1> QED BY <1>1, <1>2

LEMMA NextLock ==
    ASSUME TypeOK, LockInv, [Next]_vars
    PROVE  LockInv'
  <1>1. CASE UNCHANGED <<pc, rtr, lock>>
    BY <1>1 DEF LockInv, InCritical
  <1>2. ASSUME NEW t \in Task, NEW r \in Router, NEW k \in Kinds, Begin(t, k, r)
        PROVE  LockInv'
    <2>1. k \in AllKinds BY LifecycleAssumption
    <2>2. FirstPoint(k, SeenBy(k, r)) \notin Critical
      BY <2>1, FirstPointPoint
    <2> QED
      BY <1>2, <2>2 DEF TypeOK, TaskType, Begin, Jump, LockInv, InCritical
  <1>3. ASSUME NEW t \in Task, Lock(t)
        PROVE  LockInv'
    BY <1>3, GotoMoves, EntersLock DEF Lock, At, Enters, Points, Critical, StopPoints
  <1>4. ASSUME NEW t \in Task, FreeStep(t) \/ StopStep(t) \/ StartStep(t)
        PROVE  LockInv'
    BY <1>4, TaskStepLock
  <1>5. CASE Exit
    BY <1>5 DEF Exit, LockInv, InCritical, Critical, StopPoints, StartPoints, At
  <1>6. CASE Server /\ ~Exit
    BY <1>1, <1>6 DEF Server, Drain, SweepRecord, SweepDesire, Boot, SweepRemove, locals
  <1>7. CASE Listener \/ Environment \/ \E r \in Router : CreateRouter(r)
    BY <1>1, <1>7 DEF Listener, ListenerApply, ListenerRead, Environment,
       ContainerDies, ContainerReturns, CreateRouter, locals
  <1>8. CASE UNCHANGED vars
    BY <1>1, <1>8 DEF vars, locals
  <1> QED
    BY <1>2, <1>3, <1>4, <1>5, <1>6, <1>7, <1>8 DEF Next

LEMMA InitLock == Init => LockInv
  BY DEF Init, LockInv, InCritical, Critical, StopPoints, StartPoints

\* The mutex does its work for any number of tasks and routers: two tasks are
\* never inside the critical section of the same router.
THEOREM MutualExclusionHolds == Spec => []MutualExclusion
  <1>1. Init => LockInv
    BY InitLock
  <1>2. TypeOK /\ LockInv /\ [Next]_vars => LockInv'
    BY NextLock
  <1>3. LockInv => MutualExclusion
    BY DEF LockInv, MutualExclusion
  <1> QED
    BY TypeCorrect, <1>1, <1>2, <1>3, PTL DEF Spec

-----------------------------------------------------------------------------
(* A mutex that is taken *)

Works(t, r) == InCritical(t) /\ rtr[t] = r

HeldInv == \A r \in Router :
              lock[r] # None => lock[r] \in Task /\ Works(lock[r], r)

LEMMA StaysHeld ==
    ASSUME TypeOK, HeldInv, NEW t \in Task, NEW l \in Points, Stays(t, l)
    PROVE  HeldInv'
  <1>1. /\ pc'[t] = l /\ (l # "done" => rtr'[t] = rtr[t]) /\ UNCHANGED lock
        /\ \A u \in Task : u # t => pc'[u] = pc[u] /\ rtr'[u] = rtr[u]
    BY DEF Stays, Moves, TypeOK, TaskType
  <1>2. l \in Critical <=> InCritical(t)
    BY DEF Stays
  <1>3. InCritical(t) => l # "done"
    BY <1>2 DEF Critical, StopPoints, StartPoints
  <1> QED BY <1>1, <1>2, <1>3 DEF HeldInv, Works, InCritical

LEMMA EntersHeld ==
    ASSUME TypeOK, HeldInv, NEW t \in Task, NEW l \in Critical, Enters(t, l),
           rtr[t] \in Router, ~InCritical(t)
    PROVE  HeldInv'
  <1>1. /\ pc'[t] = l /\ rtr'[t] = rtr[t]
        /\ \A u \in Task : u # t => pc'[u] = pc[u] /\ rtr'[u] = rtr[u]
    BY DEF Enters, Moves, TypeOK, TaskType, Critical, StopPoints, StartPoints
  <1>2. /\ \A r \in Router : r # rtr[t] => lock'[r] = lock[r]
        /\ lock'[rtr[t]] = t
    BY DEF Enters, TypeOK, LockType
  <1> QED BY <1>1, <1>2 DEF HeldInv, Works, InCritical

LEMMA LeavesHeld ==
    ASSUME TypeOK, HeldInv, NEW t \in Task, NEW l \in Points, Leaves(t, l),
           rtr[t] \in Router
    PROVE  HeldInv'
  <1>1. \A u \in Task : u # t => pc'[u] = pc[u] /\ rtr'[u] = rtr[u]
    BY DEF Leaves, Moves, TypeOK, TaskType
  <1>2. /\ \A r \in Router : r # rtr[t] => lock'[r] = lock[r]
        /\ lock'[rtr[t]] = None
    BY DEF Leaves, TypeOK, LockType
  <1> QED BY <1>1, <1>2 DEF HeldInv, Works, InCritical

LEMMA NextHeld ==
    ASSUME TypeOK, LockInv, HeldInv, [Next]_vars
    PROVE  HeldInv'
  <1>1. ASSUME NEW t \in Task, StopStep(t) \/ StartStep(t)
        PROVE  HeldInv'
    <2>1. rtr[t] \in Router
      BY <1>1, StopStepMoves, StartStepMoves
      DEF LockInv, InCritical, Critical, StopPoints, StartPoints
    <2> QED BY <1>1, <2>1, StopStepMoves, StartStepMoves, StaysHeld, LeavesHeld
  <1>2. ASSUME NEW t \in Task, FreeStep(t)
        PROVE  HeldInv'
    <2>1. rtr[t] \in Router BY <1>2, FreeStepMoves DEF LockInv
    <2> QED BY <1>2, <2>1, FreeStepMoves, StaysHeld, EntersHeld
  <1>3. ASSUME NEW t \in Task, Lock(t)
        PROVE  HeldInv'
    <2>1. /\ rtr[t] \in Router /\ ~InCritical(t)
          /\ Enters(t, "stop_container") /\ "stop_container" \in Critical
      BY <1>3, GotoMoves
      DEF Lock, At, LockInv, Enters, InCritical, Critical, StopPoints, StartPoints
    <2> QED BY <2>1, EntersHeld
  <1>4. ASSUME NEW t \in Task, NEW k \in Kinds, NEW r \in Router, Begin(t, k, r)
        PROVE  HeldInv'
    <2>1. ~InCritical(t)
      BY <1>4 DEF Begin, At, InCritical, Critical, StopPoints, StartPoints
    <2>2. UNCHANGED lock /\ \A u \in Task : u # t => pc'[u] = pc[u] /\ rtr'[u] = rtr[u]
      BY <1>4 DEF Begin, Jump, TypeOK, TaskType
    <2> QED BY <2>1, <2>2 DEF HeldInv, Works, InCritical
  <1>5. CASE Exit
    BY <1>5 DEF Exit, HeldInv
  <1>6. CASE UNCHANGED <<pc, rtr, lock>>
    BY <1>6 DEF HeldInv, Works, InCritical
  <1> QED
    BY <1>1, <1>2, <1>3, <1>4, <1>5, <1>6 DEF Next, vars, locals, CreateRouter, Listener,
       ListenerApply, ListenerRead, Environment, ContainerDies, ContainerReturns,
       Server, Drain, SweepRecord, SweepDesire, Boot, SweepRemove

\* No path leaks a mutex, for any number of routers and tasks, any operations,
\* failures and exits of the process: whoever holds one is still at work.
THEOREM HeldIsAtWorkHolds == Spec => []HeldIsAtWork
  <1>1. Init => HeldInv
    BY DEF Init, HeldInv
  <1>2. TypeOK /\ LockInv /\ HeldInv /\ [Next]_vars => HeldInv'
    BY NextHeld
  <1>3. HeldInv => HeldIsAtWork
    BY DEF HeldInv, HeldIsAtWork, Works
  <1>4. TypeOK /\ LockInv /\ [Next]_vars => LockInv'
    BY NextLock
  <1> QED
    BY TypeCorrect, InitLock, <1>1, <1>2, <1>3, <1>4, PTL DEF Spec

-----------------------------------------------------------------------------
(* Coherence of the row *)

\* What a task knows at point l of its copy w of the row and of the address a
\* it is about to record: enough for the next write to leave the row sound.
Knows(l, w, a) ==
    /\ l \in {"adopt_record", "launch", "await", "sick_record", "run_record",
              "seen_ok", "well_table", "well_record"} => a # None
    /\ l \in {"probe", "seen_bad"} => (w.addr = None <=> w.cid = None)
    /\ l = "seen_bad" => a = w.addr
    /\ l \in {"seen_ok", "well_table", "well_record", "ill_record"} => w.cid # None
    /\ l = "ill_record" => w.addr # None

CopyInv == \A t \in Task : Knows(pc[t], row[t], target[t])

SoundInv == RowCoherent /\ CopyInv

LEMMA JumpCopy ==
    ASSUME TypeOK, CopyInv, NEW t \in Task, NEW l, Jump(t, l),
           \A u \in Task \ {t} : row'[u] = row[u] /\ target'[u] = target[u],
           Knows(l, row'[t], target'[t])
    PROVE  CopyInv'
  <1>1. pc'[t] = l /\ \A u \in Task \ {t} : pc'[u] = pc[u]
    BY DEF TypeOK, TaskType, Jump
  <1>2. \A u \in Task : Knows(pc'[u], row'[u], target'[u])
    BY <1>1 DEF CopyInv
  <1> QED BY <1>2 DEF CopyInv, Knows

LEMMA GotoCopy ==
    ASSUME TypeOK, CopyInv, NEW t \in Task, NEW l, Goto(t, l),
           Knows(l, row[t], target[t])
    PROVE  CopyInv'
  <1>1. Jump(t, l) BY DEF Goto
  <1>2. \A u \in Task \ {t} : row'[u] = row[u] /\ target'[u] = target[u]
    BY DEF Goto, TypeOK, TaskType, locals
  <1>3. CASE l = "done"
    <2>1. Knows(l, row'[t], target'[t]) BY <1>3 DEF Knows
    <2> QED BY <1>1, <1>2, <2>1, JumpCopy
  <1>4. CASE l # "done"
    <2>1. row' = row /\ target' = target BY <1>4 DEF Goto, locals
    <2> QED BY <1>1, <1>2, <2>1, JumpCopy
  <1> QED BY <1>3, <1>4

\* An UPDATE with sound values leaves every row sound; one with a health status
\* the schema rejects leaves every row alone.
LEMMA SaveStateSound ==
    ASSUME StoreType, RowCoherent, NEW r, NEW rt, NEW a, NEW c, NEW h,
           SaveState(r, rt, a, c, h),
           h \in HealthStatus =>
               IF rt \in {"running", "unhealthy"} THEN a # None /\ c # None
                                                  ELSE a = None /\ c = None
    PROVE  RowCoherent'
  BY DEF StoreType, RowCoherent, Sound, SaveState, WriteState

LEMMA SaveDesiredSound ==
    ASSUME StoreType, RowCoherent, NEW r, NEW d, SaveDesired(r, d)
    PROVE  RowCoherent'
  BY DEF StoreType, RowCoherent, Sound, SaveDesired, Row

LEMMA SameRowsSound ==
    ASSUME RowCoherent, UNCHANGED db
    PROVE  RowCoherent'
  BY DEF RowCoherent, Sound

\* The steps that choose a container or an address.
LEMMA RunningSome == ASSUME NEW r PROVE \A c \in Running(r) : c # None
  BY LifecycleAssumption DEF Running, Named

LEMMA InspectSound ==
    ASSUME TypeOK, SoundInv, NEW t \in Task, Inspect(t)
    PROVE  SoundInv'
  <1>1. RowCoherent' BY SameRowsSound DEF Inspect, SoundInv, store
  <1>2. ASSUME NEW c \in Running(rtr[t]), target' = [target EXCEPT ![t] = c],
               Jump(t, "adopt_record")
        PROVE  CopyInv'
    BY <1>2, JumpCopy, RunningSome DEF Inspect, SoundInv, Knows, TypeOK, TaskType
  <1>3. CASE Jump(t, "clean") /\ UNCHANGED target
    BY <1>1, <1>3, JumpCopy DEF Inspect, SoundInv, Knows
  <1> QED BY <1>1, <1>2, <1>3 DEF Inspect, SoundInv

LEMMA CreateSound ==
    ASSUME TypeOK, SoundInv, NEW t \in Task, Create(t)
    PROVE  SoundInv'
  <1>1. RowCoherent' BY SameRowsSound DEF Create, SoundInv, store
  <1>2. ASSUME NEW c \in Container, target' = [target EXCEPT ![t] = c],
               Jump(t, "launch")
        PROVE  CopyInv'
    BY <1>2, JumpCopy, LifecycleAssumption
    DEF Create, SoundInv, Knows, TypeOK, TaskType
  <1>3. CASE Jump(t, "fail") /\ UNCHANGED target
    BY <1>1, <1>3, JumpCopy DEF Create, SoundInv, Knows
  <1> QED BY <1>1, <1>2, <1>3 DEF Create, SoundInv

LEMMA ProbeSound ==
    ASSUME TypeOK, SoundInv, NEW t \in Task, Probe(t)
    PROVE  SoundInv'
  <1>1. RowCoherent' BY SameRowsSound DEF Probe, SoundInv, store
  <1>2. /\ target'[t] = row[t].addr /\ row' = row
        /\ \A u \in Task \ {t} : target'[u] = target[u]
    BY DEF Probe, TypeOK, TaskType
  <1>3. row[t].addr = None <=> row[t].cid = None
    BY DEF Probe, At, SoundInv, CopyInv, Knows
  <1>4. CASE Jump(t, "seen_ok") /\ row[t].addr # None
    BY <1>1, <1>2, <1>3, <1>4, JumpCopy DEF SoundInv, Knows
  <1>5. CASE Jump(t, "seen_bad")
    BY <1>1, <1>2, <1>3, <1>5, JumpCopy DEF SoundInv, Knows
  <1> QED BY <1>4, <1>5 DEF Probe

LEMMA CidCopy ==
    ASSUME TaskType, NEW t \in Task, NEW c \in Addr,
           row' = [row EXCEPT ![t].cid = c]
    PROVE  /\ row'[t].cid = c /\ row'[t].addr = row[t].addr
           /\ \A u \in Task \ {t} : row'[u] = row[u]
  BY DEF TaskType, Row

LEMMA InspectGoodSound ==
    ASSUME TypeOK, SoundInv, NEW t \in Task, InspectGood(t)
    PROVE  SoundInv'
  <1>1. RowCoherent' BY SameRowsSound DEF InspectGood, SoundInv, store
  <1>2. target' = target /\ target[t] # None /\ row[t].cid # None
    BY DEF InspectGood, At, SoundInv, CopyInv, Knows
  <1>3. row'[t].cid # None /\ \A u \in Task \ {t} : row'[u] = row[u]
    <2>1. ASSUME NEW c \in Running(rtr[t]), row' = [row EXCEPT ![t].cid = c]
          PROVE  row'[t].cid # None /\ \A u \in Task \ {t} : row'[u] = row[u]
      <3>1. c \in Addr /\ c # None
        BY <2>1, RunningSome, RunningType
      <3> QED BY <2>1, <3>1, CidCopy DEF TypeOK
    <2> QED BY <1>2, <2>1 DEF InspectGood
  <1>4. CopyInv'
    BY <1>2, <1>3, JumpCopy DEF InspectGood, SoundInv, Knows
  <1> QED BY <1>1, <1>4 DEF SoundInv

LEMMA InspectBadSound ==
    ASSUME TypeOK, SoundInv, NEW t \in Task, InspectBad(t)
    PROVE  SoundInv'
  <1>1. RowCoherent' BY SameRowsSound DEF InspectBad, SoundInv, store
  <1>2. /\ row[t].addr = None <=> row[t].cid = None
        /\ target[t] = row[t].addr
    BY DEF InspectBad, At, SoundInv, CopyInv, Knows
  <1>3. ASSUME NEW c \in Running(rtr[t]), row' = [row EXCEPT ![t].cid = c],
               \/ target' = [target EXCEPT ![t] = c] /\ Jump(t, "well_table")
               \/ UNCHANGED target /\ Jump(t, "degraded_record")
        PROVE  CopyInv'
    <2>0. c \in Addr /\ c # None
      BY <1>3, RunningSome, RunningType
    <2>1. row'[t].cid # None /\ \A u \in Task \ {t} : row'[u] = row[u]
      BY <1>3, <2>0, CidCopy DEF TypeOK
    <2>2. CASE target' = [target EXCEPT ![t] = c] /\ Jump(t, "well_table")
      <3>1. target'[t] = c /\ \A u \in Task \ {t} : target'[u] = target[u]
        BY <2>2 DEF TypeOK, TaskType
      <3> QED BY <2>1, <2>2, <3>1, RunningSome, JumpCopy DEF SoundInv, Knows
    <2>3. CASE UNCHANGED target /\ Jump(t, "degraded_record")
      BY <2>1, <2>3, JumpCopy DEF SoundInv, Knows
    <2> QED BY <1>3, <2>2, <2>3
  <1>4. CASE /\ Jump(t, IF target[t] = None THEN "gone_record" ELSE "ill_record")
             /\ UNCHANGED <<row, target>>
    <2>1. CASE target[t] = None
      BY <1>1, <1>4, <2>1, JumpCopy DEF SoundInv, Knows
    <2>2. CASE target[t] # None
      BY <1>1, <1>2, <1>4, <2>2, JumpCopy DEF SoundInv, Knows
    <2> QED BY <2>1, <2>2
  <1> QED BY <1>1, <1>3, <1>4 DEF InspectBad, SoundInv

LEMMA StopStepSound ==
    ASSUME TypeOK, SoundInv, NEW t \in Task, StopStep(t)
    PROVE  SoundInv'
  <1> USE GotoCopy, SameRowsSound DEF TypeOK, SoundInv, Knows, At, store
  <1>1. CASE StopContainer(t) BY <1>1 DEF StopContainer
  <1>2. CASE StopRecord(t) BY <1>2, SaveStateSound DEF StopRecord
  <1>3. CASE StopRedis(t) BY <1>3 DEF StopRedis
  <1>4. CASE StopTable(t) BY <1>4 DEF StopTable
  <1>5. CASE StopPublish(t) BY <1>5 DEF StopPublish, Release, AfterStop
  <1> QED
    BY <1>1, <1>2, <1>3, <1>4, <1>5 DEF StopStep

LEMMA StartStepSound ==
    ASSUME TypeOK, SoundInv, NEW t \in Task, StartStep(t)
    PROVE  SoundInv'
  <1> USE GotoCopy, SameRowsSound DEF TypeOK, SoundInv, Knows, At, store
  <1>1. CASE RefuseImage(t) BY <1>1, SaveStateSound DEF RefuseImage
  <1>2. CASE Inspect(t) BY <1>2, InspectSound
  <1>3. CASE AdoptRecord(t) BY <1>3, SaveStateSound DEF AdoptRecord, CopyInv
  <1>4. CASE AdoptRedis(t) BY <1>4 DEF AdoptRedis
  <1>5. CASE AdoptTable(t) BY <1>5 DEF AdoptTable, Release
  <1>6. CASE Clean(t) BY <1>6 DEF Clean
  <1>7. CASE Pull(t) BY <1>7 DEF Pull
  <1>8. CASE Create(t) BY <1>8, CreateSound
  <1>9. CASE Launch(t) BY <1>9 DEF Launch, CopyInv
  <1>10. CASE Await(t) BY <1>10 DEF Await, CopyInv
  <1>11. CASE SickRecord(t) BY <1>11, SaveStateSound DEF SickRecord, CopyInv
  <1>12. CASE SickPublish(t) BY <1>12 DEF SickPublish
  <1>13. CASE RunRecord(t) BY <1>13, SaveStateSound DEF RunRecord, CopyInv, SaveState
  <1>14. CASE RunDesire(t) BY <1>14, SaveDesiredSound DEF RunDesire
  <1>15. CASE RunRedis(t) BY <1>15 DEF RunRedis
  <1>16. CASE RunTable(t) BY <1>16 DEF RunTable
  <1>17. CASE RunPublish(t) BY <1>17 DEF RunPublish, Release
  <1>18. CASE Fail(t) BY <1>18, SaveStateSound DEF Fail, Release
  <1> QED
    BY <1>1, <1>2, <1>3, <1>4, <1>5, <1>6, <1>7, <1>8, <1>9, <1>10, <1>11,
       <1>12, <1>13, <1>14, <1>15, <1>16, <1>17, <1>18 DEF StartStep

LEMMA FreeStepSound ==
    ASSUME TypeOK, SoundInv, NEW t \in Task, FreeStep(t)
    PROVE  SoundInv'
  <1> USE GotoCopy, SameRowsSound DEF TypeOK, SoundInv, Knows, At, store
  <1>1. CASE DesireOn(t) BY <1>1, SaveDesiredSound DEF DesireOn
  <1>2. CASE DesireOff(t) BY <1>2, SaveDesiredSound DEF DesireOff
  <1>3. CASE TryLock(t) BY <1>3 DEF TryLock
  <1>4. CASE DropRow(t) BY <1>4 DEF DropRow
  <1>5. CASE Probe(t) BY <1>5, ProbeSound
  <1>6. CASE InspectGood(t) BY <1>6, InspectGoodSound
  <1>7. CASE InspectBad(t) BY <1>7, InspectBadSound
  <1>8. CASE WellTable(t) BY <1>8 DEF WellTable, CopyInv
  <1>9. CASE WellRecord(t) BY <1>9, SaveStateSound DEF WellRecord, CopyInv
  <1>10. CASE WellDesire(t) BY <1>10, SaveDesiredSound DEF WellDesire
  <1>11. CASE WellRedis(t) BY <1>11 DEF WellRedis
  <1>12. CASE DegradedRecord(t) BY <1>12, SaveStateSound DEF DegradedRecord, CopyInv, HealthStatus
  <1>13. CASE DegradedTable(t) BY <1>13 DEF DegradedTable
  <1>14. CASE DegradedRedis(t) BY <1>14 DEF DegradedRedis
  <1>15. CASE GoneRecord(t) BY <1>15, SaveStateSound DEF GoneRecord
  <1>16. CASE IllRecord(t) BY <1>16, SaveStateSound DEF IllRecord, CopyInv
  <1>17. CASE Evict(t) BY <1>17 DEF Evict
  <1>18. CASE ProxyTable(t) BY <1>18 DEF ProxyTable
  <1> QED
    BY <1>1, <1>2, <1>3, <1>4, <1>5, <1>6, <1>7, <1>8, <1>9, <1>10, <1>11,
       <1>12, <1>13, <1>14, <1>15, <1>16, <1>17, <1>18 DEF FreeStep

LEMMA BeginSound ==
    ASSUME TypeOK, SoundInv, "ask" \notin Kinds, NEW t \in Task, NEW k \in Kinds,
           NEW r \in Router, Begin(t, k, r)
    PROVE  SoundInv'
  <1> DEFINE l == FirstPoint(k, SeenBy(k, r))
  <1>1. RowCoherent' BY SameRowsSound DEF Begin, SoundInv, store
  <1>2. row'[t] = SeenBy(k, r) /\ target' = target
        /\ \A u \in Task \ {t} : row'[u] = row[u]
    BY DEF Begin, TypeOK, TaskType
  <1>3. CASE k = "check"
    <2>1. SeenBy(k, r) = db[r] BY <1>3 DEF SeenBy
    <2>2. SeenBy(k, r).addr = None <=> SeenBy(k, r).cid = None
      BY <2>1 DEF SoundInv, RowCoherent, Sound
    <2>3. l = "probe" BY <1>3 DEF FirstPoint
    <2>4. CopyInv'
      BY <1>2, <2>2, <2>3, JumpCopy DEF Begin, SoundInv, Knows
    <2> QED BY <1>1, <2>4 DEF SoundInv
  <1>4. CASE k # "check"
    <2>1. k \in AllKinds \ {"check", "ask"} BY <1>4, LifecycleAssumption
    <2>2. l \in {"lock", "desire_on", "desire_off", "drop_row", "try_lock",
                 "proxy_table"}
      BY <2>1 DEF FirstPoint, AllKinds
    <2>3. Knows(l, row'[t], target'[t]) BY <2>2 DEF Knows
    <2>4. CopyInv' BY <1>2, <2>3, JumpCopy DEF Begin, SoundInv
    <2> QED BY <1>1, <2>4 DEF SoundInv
  <1> QED BY <1>3, <1>4

LEMMA SameTasksSound ==
    ASSUME CopyInv, UNCHANGED <<pc, row, target>>
    PROVE  CopyInv'
  BY DEF CopyInv, Knows

LEMMA ServerSound ==
    ASSUME TypeOK, SoundInv, Server
    PROVE  SoundInv'
  <1> USE DEF SoundInv, TypeOK, store, locals
  <1>1. CASE Drain BY <1>1, SameTasksSound, SameRowsSound DEF Drain
  <1>2. CASE SweepRecord BY <1>2, SameTasksSound, SaveStateSound DEF SweepRecord
  <1>3. CASE SweepDesire BY <1>3, SameTasksSound, SaveDesiredSound DEF SweepDesire
  <1>4. CASE Exit
    <2>1. CopyInv' BY <1>4 DEF Exit, At, CopyInv, Knows
    <2> QED BY <1>4, <2>1, SameRowsSound DEF Exit
  <1>5. CASE Boot BY <1>5, SameTasksSound, SameRowsSound DEF Boot
  <1>6. ASSUME NEW r \in Router, SweepRemove(r) PROVE SoundInv'
    BY <1>6, SameTasksSound, SameRowsSound DEF SweepRemove
  <1> QED BY <1>1, <1>2, <1>3, <1>4, <1>5, <1>6 DEF Server

LEMMA NextSound ==
    ASSUME TypeOK, SoundInv, "ask" \notin Kinds, [Next]_vars
    PROVE  SoundInv'
  <1> USE DEF SoundInv
  <1>1. CASE UNCHANGED <<db, pc, row, target>>
    BY <1>1, SameTasksSound, SameRowsSound
  <1>2. ASSUME NEW r \in Router, CreateRouter(r) PROVE SoundInv'
    <2>1. RowCoherent'
      BY <1>2 DEF CreateRouter, RowCoherent, Sound, NewRow, TypeOK, StoreType
    <2> QED BY <1>2, <2>1, SameTasksSound DEF CreateRouter, locals
  <1>3. ASSUME NEW t \in Task, Lock(t) PROVE SoundInv'
    BY <1>3, GotoCopy, SameRowsSound DEF Lock, Knows, store
  <1>4. CASE Listener \/ Environment \/ UNCHANGED vars
    BY <1>1, <1>4 DEF Listener, ListenerApply, ListenerRead, Environment,
       ContainerDies, ContainerReturns, vars, store, locals
  <1> QED
    BY <1>2, <1>3, <1>4, BeginSound, FreeStepSound, StopStepSound,
       StartStepSound, ServerSound DEF Next

LEMMA InitSound == Init => SoundInv
  BY DEF Init, SoundInv, RowCoherent, Sound, CopyInv, Knows, Blank, NewRow

\* Without the health endpoint's overlaid copies, no interleaving of operations,
\* checks, crashes and shutdowns records a running router that has no container
\* to stop or a stopped one that still has one, for any number of them.
THEOREM RowCoherentHolds == "ask" \notin Kinds /\ Spec => []RowCoherent
  <1> SUFFICES ASSUME "ask" \notin Kinds PROVE Spec => []RowCoherent
    OBVIOUS
  <1>1. Init => SoundInv
    BY InitSound
  <1>2. TypeOK /\ SoundInv /\ [Next]_vars => SoundInv'
    BY NextSound
  <1>3. SoundInv => RowCoherent
    BY DEF SoundInv
  <1> QED
    BY TypeCorrect, <1>1, <1>2, <1>3, PTL DEF Spec

-----------------------------------------------------------------------------
(* Isolation of the routes *)

RowsMine   == \A r \in Router : Mine(r, db[r].addr) /\ Mine(r, db[r].cid)
RedisMine  == \A r \in Router : Mine(r, redis[r])
TableMine  == \A r \in Router : Mine(r, table[r])
TasksMine  == \A t \in Task :
                 /\ rtr[t] # None => /\ Mine(rtr[t], row[t].addr)
                                    /\ Mine(rtr[t], row[t].cid)
                                    /\ Mine(rtr[t], target[t])
                 /\ pc[t] = "unused" => target[t] = None
ListenMine == listener.rtr # None => Mine(listener.rtr, listener.addr)

\* A container that was never created has no name: whoever creates it takes no
\* container that an address already names.
Unnamed    == \A c \in Container : cst[c] = "unused" => owner[c] = None

OwnInv == RowsMine /\ RedisMine /\ TableMine /\ TasksMine /\ ListenMine /\ Unnamed

\* While no container gets a name, what does not change stays the router's own.
LEMMA FrameMine ==
    ASSUME UNCHANGED owner
    PROVE  /\ RowsMine /\ UNCHANGED db => RowsMine'
           /\ RedisMine /\ UNCHANGED redis => RedisMine'
           /\ TableMine /\ UNCHANGED table => TableMine'
           /\ TasksMine /\ UNCHANGED <<pc, rtr, row, target>> => TasksMine'
           /\ ListenMine /\ UNCHANGED listener => ListenMine'
           /\ Unnamed /\ UNCHANGED cst => Unnamed'
  BY DEF Mine, RowsMine, RedisMine, TableMine, TasksMine, ListenMine, Unnamed

LEMMA SaveStateMine ==
    ASSUME StoreType, RowsMine, UNCHANGED owner, NEW r, NEW rt, NEW a, NEW c,
           NEW h, Mine(r, a), Mine(r, c), SaveState(r, rt, a, c, h)
    PROVE  RowsMine'
  BY DEF StoreType, Mine, RowsMine, SaveState, WriteState

LEMMA SaveDesiredMine ==
    ASSUME StoreType, RowsMine, UNCHANGED owner, NEW r, NEW d, SaveDesired(r, d)
    PROVE  RowsMine'
  BY DEF StoreType, Row, Mine, RowsMine, SaveDesired

LEMMA RouteMine ==
    ASSUME RouteType, UNCHANGED owner, NEW r, NEW a, Mine(r, a)
    PROVE  /\ RedisMine /\ SetRoute(r, a) => RedisMine'
           /\ TableMine /\ table' = [table EXCEPT ![r] = a] => TableMine'
  BY DEF RouteType, Mine, RedisMine, TableMine, SetRoute

LEMMA RemoveMine ==
    ASSUME DockerType, Unnamed, UNCHANGED owner, NEW cs, Remove(cs)
    PROVE  Unnamed'
  BY DEF DockerType, Unnamed, Remove, Exists

LEMMA GotoMine ==
    ASSUME TaskType, TasksMine, UNCHANGED owner, NEW t \in Task, NEW l,
           l # "unused", Goto(t, l)
    PROVE  TasksMine'
  BY DEF TaskType, TasksMine, Mine, Goto, Jump, locals

LEMMA NoneMine == \A r : Mine(r, None)
  BY DEF Mine

LEMMA RunningMine ==
    ASSUME NEW r
    PROVE  \A c \in Running(r) : Mine(r, c) /\ c \in Addr
  BY DEF Running, Named, Mine, Addr

\* What a task at work may write about its router.
LEMMA LocalMine ==
    ASSUME OwnInv, LockInv, NEW t \in Task, pc[t] \notin {"unused", "done"}
    PROVE  /\ rtr[t] \in Router /\ rtr[t] # None
           /\ Mine(rtr[t], row[t].addr) /\ Mine(rtr[t], row[t].cid)
           /\ Mine(rtr[t], target[t])
  BY LifecycleAssumption DEF OwnInv, LockInv, TasksMine

\* A task that picks a container of its router keeps to its own.
LEMMA PickMine ==
    ASSUME TaskType, TasksMine, UNCHANGED <<owner, rtr>>, NEW t \in Task,
           NEW c \in Addr, Mine(rtr[t], c), NEW l, l # "unused", Jump(t, l),
           \/ UNCHANGED row \/ row' = [row EXCEPT ![t].cid = c],
           \/ UNCHANGED target \/ target' = [target EXCEPT ![t] = c]
    PROVE  TasksMine'
  <1>1. \A u \in Task \ {t} : row'[u] = row[u] /\ target'[u] = target[u]
    BY DEF TaskType
  <1>2. /\ row'[t].addr = row[t].addr /\ row'[t].cid \in {row[t].cid, c}
        /\ target'[t] \in {target[t], c}
    BY CidCopy DEF TaskType
  <1>3. pc'[t] # "unused" /\ \A u \in Task \ {t} : pc'[u] = pc[u]
    BY DEF TaskType, Jump
  <1> QED BY <1>1, <1>2, <1>3 DEF TasksMine, Mine

LEMMA CreateMine ==
    ASSUME TypeOK, OwnInv, LockInv, NEW t \in Task, Create(t)
    PROVE  OwnInv'
  <1>1. rtr[t] \in Router /\ UNCHANGED <<rtr, row, db, redis, table, listener>>
    BY DEF Create, At, LockInv, store, bus
  <1>2. ASSUME NEW c \in Container, cst[c] = "unused",
               cst' = [d \in Container |-> IF d = c THEN "created"
                          ELSE IF d \in Named(rtr[t]) THEN "removed" ELSE cst[d]],
               owner' = [owner EXCEPT ![c] = rtr[t]],
               target' = [target EXCEPT ![t] = c], Jump(t, "launch")
        PROVE  OwnInv'
    <2>1. owner[c] = None /\ owner'[c] = rtr[t]
      BY <1>2 DEF OwnInv, Unnamed, TypeOK, DockerType
    <2>2. \A r \in Router : \A d : Mine(r, d) => Mine(r, d)'
      BY <1>2, <2>1, LifecycleAssumption DEF Mine, TypeOK, DockerType
    <2>3. RowsMine' /\ RedisMine' /\ TableMine'
      BY <1>1, <2>2 DEF OwnInv, RowsMine, RedisMine, TableMine
    <2>4. TasksMine'
      <3>1. /\ \A u \in Task \ {t} : target'[u] = target[u] /\ pc'[u] = pc[u]
            /\ pc'[t] # "unused"
        BY <1>2 DEF TypeOK, TaskType, Jump
      <3>2. target'[t] = c /\ Mine(rtr[t], c)'
        BY <1>1, <1>2, <2>1 DEF TypeOK, TaskType, Mine
      <3> QED BY <1>1, <2>2, <3>1, <3>2 DEF OwnInv, TasksMine, TypeOK, TaskType
    <2>5. ListenMine'
      BY <1>1, <2>2 DEF OwnInv, ListenMine, TypeOK, BusType
    <2>6. Unnamed'
      BY <1>2 DEF OwnInv, Unnamed, TypeOK, DockerType
    <2> QED BY <2>3, <2>4, <2>5, <2>6 DEF OwnInv
  <1>3. CASE /\ Remove(Named(rtr[t])) /\ UNCHANGED <<owner, target>>
             /\ Jump(t, "fail")
    <2>1. TasksMine'
      BY <1>1, <1>3 DEF OwnInv, TasksMine, Mine, TypeOK, TaskType, Jump
    <2> QED BY <1>1, <1>3, <2>1, FrameMine, RemoveMine DEF OwnInv, TypeOK
  <1> QED BY <1>2, <1>3 DEF Create

LEMMA ChooseMine ==
    ASSUME TypeOK, OwnInv, LockInv, NEW t \in Task,
           Inspect(t) \/ Probe(t) \/ InspectGood(t) \/ InspectBad(t)
    PROVE  OwnInv'
  <1>1. UNCHANGED <<db, redis, table, cst, owner, rtr, listener>>
    BY DEF Inspect, Probe, InspectGood, InspectBad, store, docker, bus
  <1>2. RowsMine' /\ RedisMine' /\ TableMine' /\ ListenMine' /\ Unnamed'
    BY <1>1, FrameMine DEF OwnInv
  <1>3. pc[t] \notin {"unused", "done"}
    BY DEF Inspect, Probe, InspectGood, InspectBad, At
  <1>4. TasksMine'
    <2>1. CASE Probe(t)
      BY <1>1, <1>3, <2>1, LocalMine, LocalType, PickMine DEF Probe, OwnInv, TypeOK
    <2>2. ASSUME NEW c \in Running(rtr[t]), NEW l, l # "unused", Jump(t, l),
                 \/ UNCHANGED row \/ row' = [row EXCEPT ![t].cid = c],
                 \/ UNCHANGED target \/ target' = [target EXCEPT ![t] = c]
          PROVE  TasksMine'
      BY <1>1, <2>2, RunningMine, PickMine DEF OwnInv, TypeOK
    <2>3. ASSUME NEW l, l # "unused", Jump(t, l), UNCHANGED <<row, target>>
          PROVE  TasksMine'
      BY <1>1, <2>3, NoneMine, PickMine DEF OwnInv, TypeOK, Addr
    <2>4. CASE Inspect(t)
      BY <2>2, <2>3, <2>4 DEF Inspect
    <2>5. CASE InspectGood(t)
      BY <2>2, <2>3, <2>5 DEF InspectGood
    <2>6. CASE InspectBad(t)
      BY <2>2, <2>3, <2>6 DEF InspectBad
    <2> QED BY <2>1, <2>4, <2>5, <2>6
  <1> QED BY <1>2, <1>4 DEF OwnInv

LEMMA StopStepMine ==
    ASSUME TypeOK, OwnInv, LockInv, NEW t \in Task, StopStep(t)
    PROVE  OwnInv'
  <1> USE FrameMine, GotoMine, NoneMine DEF OwnInv, TypeOK, At, store, docker, bus
  <1>1. CASE StopContainer(t) BY <1>1, RemoveMine DEF StopContainer
  <1>2. CASE StopRecord(t) BY <1>2, LocalMine, SaveStateMine DEF StopRecord
  <1>3. CASE StopRedis(t) BY <1>3, LocalMine, RouteMine DEF StopRedis
  <1>4. CASE StopTable(t) BY <1>4, LocalMine, RouteMine DEF StopTable
  <1>5. CASE StopPublish(t)
    BY <1>5 DEF StopPublish, Publish, Release, AfterStop
  <1> QED
    BY <1>1, <1>2, <1>3, <1>4, <1>5 DEF StopStep

LEMMA StartStepMine ==
    ASSUME TypeOK, OwnInv, LockInv, NEW t \in Task, StartStep(t)
    PROVE  OwnInv'
  <1> USE FrameMine, GotoMine, NoneMine DEF OwnInv, TypeOK, At, store, docker, bus
  <1>1. CASE RefuseImage(t) BY <1>1, LocalMine, SaveStateMine DEF RefuseImage
  <1>2. CASE Inspect(t) BY <1>2, ChooseMine
  <1>3. CASE AdoptRecord(t) BY <1>3, LocalMine, SaveStateMine DEF AdoptRecord
  <1>4. CASE AdoptRedis(t) BY <1>4, LocalMine, RouteMine DEF AdoptRedis
  <1>5. CASE AdoptTable(t)
    BY <1>5, LocalMine, RouteMine DEF AdoptTable, Release
  <1>6. CASE Clean(t) BY <1>6, RemoveMine DEF Clean
  <1>7. CASE Pull(t) BY <1>7 DEF Pull
  <1>8. CASE Create(t) BY <1>8, CreateMine
  <1>9. CASE Launch(t) BY <1>9, RemoveMine DEF Launch, Unnamed, DockerType
  <1>10. CASE Await(t) BY <1>10 DEF Await
  <1>11. CASE SickRecord(t) BY <1>11, LocalMine, SaveStateMine DEF SickRecord
  <1>12. CASE SickPublish(t) BY <1>12 DEF SickPublish, Publish
  <1>13. CASE RunRecord(t)
    BY <1>13, LocalMine, SaveStateMine DEF RunRecord, SaveState
  <1>14. CASE RunDesire(t) BY <1>14, SaveDesiredMine DEF RunDesire
  <1>15. CASE RunRedis(t) BY <1>15, LocalMine, RouteMine DEF RunRedis, SetRoute
  <1>16. CASE RunTable(t) BY <1>16, LocalMine, RouteMine DEF RunTable
  <1>17. CASE RunPublish(t) BY <1>17 DEF RunPublish, Publish, Release
  <1>18. CASE Fail(t) BY <1>18, LocalMine, SaveStateMine DEF Fail, Release
  <1> QED
    BY <1>1, <1>2, <1>3, <1>4, <1>5, <1>6, <1>7, <1>8, <1>9, <1>10, <1>11,
       <1>12, <1>13, <1>14, <1>15, <1>16, <1>17, <1>18 DEF StartStep

LEMMA FreeStepMine ==
    ASSUME TypeOK, OwnInv, LockInv, NEW t \in Task, FreeStep(t)
    PROVE  OwnInv'
  <1> USE FrameMine, GotoMine, NoneMine DEF OwnInv, TypeOK, At, store, docker, bus
  <1>1. CASE DesireOn(t) BY <1>1, SaveDesiredMine DEF DesireOn
  <1>2. CASE DesireOff(t) BY <1>2, SaveDesiredMine DEF DesireOff
  <1>3. CASE TryLock(t) BY <1>3 DEF TryLock
  <1>4. CASE DropRow(t) BY <1>4 DEF DropRow
  <1>5. CASE Probe(t) BY <1>5, ChooseMine
  <1>6. CASE InspectGood(t) BY <1>6, ChooseMine
  <1>7. CASE InspectBad(t) BY <1>7, ChooseMine
  <1>8. CASE WellTable(t) BY <1>8, LocalMine, RouteMine DEF WellTable
  <1>9. CASE WellRecord(t) BY <1>9, LocalMine, SaveStateMine DEF WellRecord
  <1>10. CASE WellDesire(t) BY <1>10, SaveDesiredMine DEF WellDesire
  <1>11. CASE WellRedis(t) BY <1>11, LocalMine, RouteMine DEF WellRedis
  <1>12. CASE DegradedRecord(t)
    BY <1>12, LocalMine, SaveStateMine DEF DegradedRecord
  <1>13. CASE DegradedTable(t) BY <1>13, LocalMine, RouteMine DEF DegradedTable
  <1>14. CASE DegradedRedis(t) BY <1>14, LocalMine, RouteMine DEF DegradedRedis
  <1>15. CASE GoneRecord(t) BY <1>15, LocalMine, SaveStateMine DEF GoneRecord
  <1>16. CASE IllRecord(t) BY <1>16, LocalMine, SaveStateMine DEF IllRecord
  <1>17. CASE Evict(t) BY <1>17, LocalMine, RouteMine DEF Evict
  <1>18. CASE ProxyTable(t) BY <1>18, LocalMine, RouteMine DEF ProxyTable
  <1> QED
    BY <1>1, <1>2, <1>3, <1>4, <1>5, <1>6, <1>7, <1>8, <1>9, <1>10, <1>11,
       <1>12, <1>13, <1>14, <1>15, <1>16, <1>17, <1>18 DEF FreeStep

LEMMA BeginMine ==
    ASSUME TypeOK, OwnInv, NEW t \in Task, NEW k \in Kinds, NEW r \in Router,
           Begin(t, k, r)
    PROVE  OwnInv'
  <1>1. UNCHANGED <<db, redis, table, cst, owner, target, listener>>
    BY DEF Begin, store, docker, bus
  <1>2. RowsMine' /\ RedisMine' /\ TableMine' /\ ListenMine' /\ Unnamed'
    BY <1>1, FrameMine DEF OwnInv
  <1>3. Mine(r, SeenBy(k, r).addr) /\ Mine(r, SeenBy(k, r).cid)
    BY DEF OwnInv, RowsMine, TableMine, SeenBy, Overlaid
  <1>4. /\ rtr'[t] = r /\ row'[t] = SeenBy(k, r)
        /\ \A u \in Task \ {t} : rtr'[u] = rtr[u] /\ row'[u] = row[u]
    BY DEF Begin, TypeOK, TaskType
  <1>5. Mine(r, target[t])
    BY DEF Begin, At, OwnInv, TasksMine, Mine
  <1>6. \A u \in Task \ {t} : pc'[u] = pc[u]
    BY DEF Begin, Jump, TypeOK, TaskType
  <1>7. target[t] = None
    BY DEF Begin, At, OwnInv, TasksMine
  <1>8. TasksMine'
    BY <1>1, <1>3, <1>4, <1>5, <1>6, <1>7 DEF OwnInv, TasksMine, Mine
  <1> QED BY <1>2, <1>8 DEF OwnInv

LEMMA ListenerMine ==
    ASSUME TypeOK, OwnInv, Listener
    PROVE  OwnInv'
  <1> USE FrameMine DEF OwnInv, TypeOK, store, docker, locals
  <1>1. CASE ListenerApply
    <2>1. listener.rtr # None => TableMine'
      BY <1>1, RouteMine DEF ListenerApply, ListenMine
    <2>2. listener.rtr = None => TableMine'
      BY <1>1, LifecycleAssumption DEF ListenerApply, TableMine, RouteType, Mine
    <2>3. ListenMine'
      BY <1>1 DEF ListenerApply, ListenMine, Idle, Mine
    <2> QED BY <1>1, <2>1, <2>2, <2>3 DEF ListenerApply
  <1>2. ASSUME NEW r \in Router, ListenerRead(r) PROVE OwnInv'
    <2>1. ListenMine'
      BY <1>2 DEF ListenerRead, ListenMine, RowsMine, Mine
    <2> QED BY <1>2, <2>1 DEF ListenerRead
  <1> QED BY <1>1, <1>2 DEF Listener

LEMMA ServerMine ==
    ASSUME TypeOK, OwnInv, Server
    PROVE  OwnInv'
  <1> USE FrameMine, NoneMine DEF OwnInv, TypeOK, store, docker, locals, bus
  <1>1. CASE Drain BY <1>1 DEF Drain
  <1>2. CASE SweepRecord BY <1>2, SaveStateMine DEF SweepRecord
  <1>3. CASE SweepDesire BY <1>3, SaveDesiredMine DEF SweepDesire
  <1>4. CASE Exit
    <2>1. TasksMine' /\ TableMine' /\ ListenMine'
      BY <1>4 DEF Exit, At, TasksMine, TableMine, ListenMine, Idle, Mine
    <2> QED BY <1>4, <2>1 DEF Exit
  <1>5. CASE Boot
    <2>1. TableMine' BY <1>5 DEF Boot, RedisMine, TableMine, Mine
    <2> QED BY <1>5, <2>1 DEF Boot
  <1>6. ASSUME NEW r \in Router, SweepRemove(r) PROVE OwnInv'
    BY <1>6, RemoveMine DEF SweepRemove
  <1> QED BY <1>1, <1>2, <1>3, <1>4, <1>5, <1>6 DEF Server

LEMMA NextMine ==
    ASSUME TypeOK, LockInv, OwnInv, [Next]_vars
    PROVE  OwnInv'
  <1> USE FrameMine DEF OwnInv, TypeOK
  <1>1. ASSUME NEW r \in Router, CreateRouter(r) PROVE OwnInv'
    <2>1. UNCHANGED owner BY <1>1 DEF CreateRouter, docker
    <2>2. RowsMine'
      BY <1>1, <2>1 DEF CreateRouter, RowsMine, NewRow, Mine, StoreType
    <2> QED BY <1>1, <2>1, <2>2 DEF CreateRouter, docker, locals, bus
  <1>2. ASSUME NEW t \in Task, Lock(t) PROVE OwnInv'
    BY <1>2, GotoMine DEF Lock, store, docker, bus
  <1>3. CASE Environment
    BY <1>3 DEF Environment, ContainerDies, ContainerReturns, Unnamed,
       DockerType, store, locals, bus
  <1>4. CASE UNCHANGED vars
    BY <1>4 DEF vars, store, docker, locals, bus
  <1> QED
    BY <1>1, <1>2, <1>3, <1>4, BeginMine, FreeStepMine, StopStepMine,
       StartStepMine, ListenerMine, ServerMine DEF Next

LEMMA InitMine == Init => OwnInv
  BY DEF Init, OwnInv, RowsMine, RedisMine, TableMine, TasksMine, ListenMine,
         Unnamed, Blank, NewRow, Idle, Mine

\* For any routers, tasks and containers, no address recorded, cached or in
\* flight for a router is of a container created for another one.
THEOREM RouteIsolationHolds == Spec => []RouteIsolation
  <1>1. Init => OwnInv
    BY InitMine
  <1>2. TypeOK /\ LockInv /\ OwnInv /\ [Next]_vars => OwnInv'
    BY NextMine
  <1>3. OwnInv => RouteIsolation
    BY DEF OwnInv, RouteIsolation, RowsMine, RedisMine, TableMine, TasksMine,
           ListenMine
  <1>4. Spec => []LockInv
    BY TypeCorrect, InitLock, NextLock, PTL DEF Spec
  <1> QED
    BY TypeCorrect, <1>1, <1>2, <1>3, <1>4, PTL DEF Spec

==============================================================================
