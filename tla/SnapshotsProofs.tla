--------------------------- MODULE SnapshotsProofs ---------------------------
(***************************************************************************)
(* Theorems about Snapshots, for any number of routers and operations:     *)
(* type correctness, that no mutex outlives the operation that took it,    *)
(* and that the safety guard holds when S3 answers; then that what was     *)
(* backed up comes back: the data of a router alone in its namespace never *)
(* falls behind its snapshot while it runs, and no snapshot replaces a     *)
(* later one.                                                              *)
(***************************************************************************)
EXTENDS Snapshots, TLAPS

-----------------------------------------------------------------------------
(* Type correctness *)

LEMMA SlugType == Slug \in [Router -> Name]
  BY SnapshotsAssumption DEF Injection, IsInjective

LEMMA ObjectType ==
    ASSUME NEW r \in Router
    PROVE  r \in Object /\ Slug[r] \in Object /\ Adapter[r] \in Object
  BY DEF Object

LEMMA ContentType ==
    ASSUME NEW r \in Router
    PROVE  Nothing \in Content /\ Fresh(r) \in Content
  BY SnapshotsAssumption DEF Nothing, Fresh, Content

\* The router of an operation under way.
LEMMA Works ==
    ASSUME TaskType, NEW t \in Task, NEW l, At(t, l), l \notin {"unused", "done"}
    PROVE  rtr[t] \in Router
  BY DEF TaskType, At

\* A move of an operation keeps the operations well formed.
LEMMA GotoType ==
    ASSUME TaskType, NEW t \in Task, NEW l \in Points, Goto(t, l),
           rtr[t] \in Router
    PROVE  TaskType'
  BY DEF TaskType, Goto, locals

LEMMA ProceedType ==
    ASSUME TaskType, NEW t \in Task, NEW l \in Points, NEW k \in Kinds \union {"start", None},
           Proceed(t, k, l), rtr[t] \in Router
    PROVE  TaskType'
  BY DEF TaskType, Proceed

\* A move to any point but "extract" leaves what has been chosen as it is.
LEMMA ChosenKept ==
    ASSUME TypeOK, NEW t \in Task, NEW l, l # "extract",
           pc' = [pc EXCEPT ![t] = l], UNCHANGED chosen
    PROVE  ChosenType'
  BY DEF TypeOK, ChosenType, TaskType, chosen

LEMMA InitType == Init => TypeOK
  BY SnapshotsAssumption, ContentType
  DEF Init, TypeOK, DockerType, StoreType, MutexType, TaskType, ChosenType,
      Points, Content, Nothing

\* The steps that only a task and the mutexes see.
LEMMA BeginType ==
    ASSUME TypeOK, NEW t \in Task, NEW r \in Router, NEW k \in Kinds, Begin(t, r, k)
    PROVE  TypeOK'
  <1>1. TaskType'
    BY DEF Begin, TypeOK, TaskType, StoreType, Points, SnapPoints
  <1>2. ChosenType'
    BY DEF Begin, TypeOK, TaskType, ChosenType, chosen
  <1> QED BY <1>1, <1>2 DEF Begin, TypeOK, DockerType, StoreType, MutexType, docker

LEMMA LockType ==
    ASSUME TypeOK, NEW t \in Task, Lock(t) \/ TryLock(t)
    PROVE  TypeOK'
  <1>1. rtr[t] \in Router
    BY Works DEF Lock, TryLock, TypeOK
  <1>2. PICK l \in {"remove", "snap_lock", "inspect", "done"} : Goto(t, l)
    BY DEF Lock, TryLock
  <1>3. TaskType'
    BY <1>1, <1>2, GotoType DEF TypeOK, Points, SnapPoints, LockPoints
  <1>4. ChosenType'
    BY <1>2, ChosenKept DEF Goto, Lock, TryLock
  <1>5. MutexType'
    BY <1>1 DEF Lock, TryLock, TypeOK, MutexType
  <1> QED BY <1>3, <1>4, <1>5 DEF Lock, TryLock, TypeOK, DockerType, StoreType, docker

\* A snapshot writes what it has read.
LEMMA SnapshotType ==
    ASSUME TypeOK, NEW t \in Task, Snapshot(t)
    PROVE  TypeOK'
  <1>1. rtr[t] \in Router
    BY Works DEF Snapshot, SnapLock, SnapRead, SnapCheck, SnapPut, CopySlug,
       CopyAdapter, TypeOK
  <1>2. /\ rtr[t] \in Object
        /\ Slug[rtr[t]] \in Object
        /\ Adapter[rtr[t]] \in Object
    BY <1>1, ObjectType
  <1>3. PICK l \in KeyPoints \union {"copy_slug", "copy_adapter", "remove", "done"} :
           Goto(t, l)
    BY DEF Snapshot, SnapLock, SnapRead, SnapCheck, SnapPut, CopySlug,
       CopyAdapter, AfterSnapshot, KeyPoints
  <1>4. TaskType'
    BY <1>1, <1>3, GotoType DEF TypeOK, Points, SnapPoints, KeyPoints
  <1>5. MutexType'
    BY <1>2 DEF Snapshot, SnapLock, SnapRead, SnapCheck, SnapPut, CopySlug,
       CopyAdapter, ReleaseKey, TypeOK, MutexType
  <1>6. buf' \in [Task -> Content]
    <2>1. vol[rtr[t]] \in Content
      BY <1>1 DEF TypeOK, DockerType
    <2> QED BY <2>1, <1>1, ContentType DEF Snapshot, SnapLock, SnapRead, SnapCheck,
            SnapPut, CopySlug, CopyAdapter, chosen, TypeOK, ChosenType
  <1>7. ChosenType'
    BY <1>3, <1>6 DEF Snapshot, SnapLock, SnapRead, SnapCheck, SnapPut, CopySlug,
       CopyAdapter, chosen, TypeOK, ChosenType, TaskType, Goto, KeyPoints
  <1>8. s3' \in [Object -> Content]
    <2>1. buf[t] \in Content /\ s3[rtr[t]] \in Content
      BY <1>2 DEF TypeOK, ChosenType, StoreType
    <2>2. ASSUME NEW o \in Object, Copied(rtr[t], o) PROVE s3' \in [Object -> Content]
      BY <2>1, <2>2 DEF Copied, TypeOK, StoreType
    <2> QED BY <2>1, <2>2, <1>2 DEF Snapshot, SnapLock, SnapRead, SnapCheck, SnapPut,
            CopySlug, CopyAdapter, TypeOK, StoreType
  <1>9. UNCHANGED <<row, docker, spoiled>>
    BY DEF Snapshot, SnapLock, SnapRead, SnapCheck, SnapPut, CopySlug, CopyAdapter
  <1> QED BY <1>4, <1>5, <1>7, <1>8, <1>9 DEF TypeOK, DockerType, StoreType, docker

\* The end of a stop, and the purge of a wipe.
LEMMA StopType ==
    ASSUME TypeOK, NEW t \in Task, Remove(t) \/ Record(t) \/ Purge(t)
    PROVE  TypeOK'
  <1>1. rtr[t] \in Router /\ rtr[t] \in Object
    BY Works, ObjectType DEF Remove, Record, Purge, TypeOK
  <1>2. kind[t] \in Kinds \union {"start", None}
    BY DEF TypeOK, TaskType
  <1>3. \/ \E l \in {"record", "done"} : Goto(t, l)
        \/ \E l \in {"clean", "purge", "try_lock"}, k \in {kind[t], "start"} :
             Proceed(t, k, l)
    BY DEF Remove, Record, Purge
  <1>4. TaskType'
    BY <1>1, <1>2, <1>3, GotoType, ProceedType DEF TypeOK, Points, LockPoints
  <1>5. \E l : l # "extract" /\ pc' = [pc EXCEPT ![t] = l]
    BY <1>3 DEF Goto, Proceed
  <1>6. ChosenType'
    BY <1>5, ChosenKept DEF Remove, Record, Purge
  <1>7. DockerType'
    BY <1>1 DEF Remove, Record, Purge, TypeOK, DockerType, docker
  <1>8. StoreType'
    <2>1. UNCHANGED made
      BY DEF Remove, Record, Purge, docker
    <2>2. row' \in [Router -> Nat] /\ \A r \in Router : row'[r] <= made[r]
      BY <1>1 DEF Remove, Record, Purge, TypeOK, StoreType, DockerType
    <2>3. s3' \in [Object -> Content]
      BY <1>1, ContentType DEF Remove, Record, Purge, TypeOK, StoreType
    <2>4. spoiled' \subseteq Router
      BY <1>1 DEF Remove, Record, Purge, TypeOK, StoreType
    <2> QED BY <2>1, <2>2, <2>3, <2>4 DEF StoreType
  <1>9. MutexType'
    BY <1>1 DEF Remove, Record, Purge, Unlock, TypeOK, MutexType
  <1> QED BY <1>4, <1>6, <1>7, <1>8, <1>9 DEF TypeOK

\* A start up to the creation of its container.
LEMMA CreateType ==
    ASSUME TypeOK, NEW t \in Task, Inspect(t) \/ Clean(t) \/ Create(t)
    PROVE  TypeOK'
  <1>1. rtr[t] \in Router
    BY Works DEF Inspect, Clean, Create, TypeOK
  <1>2. \E l \in {"done", "clean", "create", "fail", "look_id"} : Goto(t, l)
    BY DEF Inspect, Clean, Create
  <1>3. TaskType'
    BY <1>1, <1>2, GotoType DEF TypeOK, Points, LockPoints
  <1>4. ChosenType'
    BY <1>2, ChosenKept DEF Inspect, Clean, Create, Goto
  <1>5. made[rtr[t]] \in Nat
    BY <1>1 DEF TypeOK, DockerType
  <1>6. DockerType'
    BY <1>1, <1>5 DEF Inspect, Clean, Create, TypeOK, DockerType, docker
  <1>7. StoreType'
    <2>1. \A r \in Router : made[r] <= made'[r]
      BY <1>1, <1>5 DEF Inspect, Clean, Create, TypeOK, DockerType, docker
    <2>2. row' \in [Router -> Nat] /\ \A r \in Router : row'[r] <= made[r]
      BY <1>1, <1>5 DEF Inspect, Clean, Create, TypeOK, StoreType, DockerType
    <2>3. \A r \in Router : row'[r] <= made'[r]
      BY <2>1, <2>2, <1>6 DEF DockerType, TypeOK
    <2> QED BY <2>2, <2>3 DEF Inspect, Clean, Create, TypeOK, StoreType
  <1>8. MutexType'
    BY <1>1 DEF Inspect, Clean, Create, Unlock, TypeOK, MutexType
  <1> QED BY <1>3, <1>4, <1>6, <1>7, <1>8 DEF TypeOK

\* The choice of a snapshot: what goes on to be extracted is an object.
LEMMA ChoiceType ==
    ASSUME TypeOK, NEW t \in Task, LookUp(t) \/ Search(t)
    PROVE  TypeOK'
  <1>1. rtr[t] \in Router
    BY Works DEF LookUp, Look, Search, TypeOK
  <1>2. \E l \in {"extract", "look_slug", "look_adapter", "search", "launch"} : Goto(t, l)
    BY DEF LookUp, Look, Search
  <1>3. TaskType'
    BY <1>1, <1>2, GotoType DEF TypeOK, Points, LockPoints
  <1>4. ChosenType'
    <2>1. ASSUME NEW l \in {"look_id", "look_slug", "look_adapter"},
                 NEW n \in {"look_slug", "look_adapter", "search"},
                 NEW o \in Object, Look(t, l, o, n)
          PROVE  ChosenType'
      BY <2>1 DEF Look, Goto, TypeOK, ChosenType, TaskType
    <2>2. CASE Search(t)
      BY <2>2 DEF Search, Databases, Goto, TypeOK, ChosenType, TaskType
    <2> QED BY <2>1, <2>2, <1>1, ObjectType DEF LookUp
  <1>5. UNCHANGED <<row, docker, s3, lock, held, spoiled>>
    BY DEF LookUp, Look, Search
  <1> QED BY <1>3, <1>4, <1>5 DEF TypeOK, DockerType, StoreType, MutexType, docker

\* The extraction and what follows it.
LEMMA LaunchType ==
    ASSUME TypeOK, NEW t \in Task,
           Extract(t) \/ Launch(t) \/ RunRecord(t) \/ Fail(t)
    PROVE  TypeOK'
  <1>1. rtr[t] \in Router
    BY Works DEF Extract, Launch, RunRecord, Fail, TypeOK
  <1>2. \E l \in {"launch", "run_record", "fail", "done"} : Goto(t, l)
    BY DEF Extract, Launch, RunRecord, Fail
  <1>3. TaskType'
    BY <1>1, <1>2, GotoType DEF TypeOK, Points, LockPoints
  <1>4. ChosenType'
    BY <1>2 DEF Extract, Launch, RunRecord, Fail, chosen, Goto, TypeOK, ChosenType,
       TaskType
  <1>5. DockerType'
    <2>1. At(t, "extract") => s3[pick[t]] \in Content
      BY DEF At, TypeOK, ChosenType, StoreType
    <2> QED BY <2>1, <1>1 DEF Extract, Launch, RunRecord, Fail, TypeOK, DockerType, docker
  <1>6. StoreType'
    <2>1. made[rtr[t]] \in Nat /\ UNCHANGED made
      BY <1>1 DEF Extract, Launch, RunRecord, Fail, TypeOK, DockerType, docker
    <2>2. row' \in [Router -> Nat] /\ \A r \in Router : row'[r] <= made[r]
      BY <1>1, <2>1 DEF Extract, Launch, RunRecord, Fail, TypeOK, StoreType, DockerType
    <2> QED BY <2>1, <2>2, <1>1 DEF Extract, Launch, RunRecord, Fail, TypeOK, StoreType
  <1>7. MutexType'
    BY <1>1 DEF Extract, Launch, RunRecord, Fail, Unlock, TypeOK, MutexType
  <1> QED BY <1>3, <1>4, <1>5, <1>6, <1>7 DEF TypeOK

\* The world outside the gateway.
LEMMA WorldType ==
    ASSUME TypeOK, NEW r \in Router, Write(r) \/ ContainerDies(r)
    PROVE  TypeOK'
  <1>1. CASE Write(r)
    <2>1. vol[r] \in Content /\ vol[r].ver + 1 \in 0 .. MaxVersion
      BY <1>1, SnapshotsAssumption DEF Write, TypeOK, DockerType, Content
    <2>2. [vol[r] EXCEPT !.ver = vol[r].ver + 1] \in Content
      BY <2>1 DEF Content
    <2>3. vol' \in [Router -> Content]
      BY <1>1, <2>2 DEF Write, TypeOK, DockerType
    <2> QED BY <1>1, <2>3 DEF Write, TypeOK, DockerType, StoreType, MutexType,
            TaskType, ChosenType, locals, chosen
  <1>2. CASE ContainerDies(r)
    BY <1>2 DEF ContainerDies, TypeOK, DockerType, StoreType, MutexType, TaskType,
       ChosenType, locals, chosen
  <1> QED BY <1>1, <1>2

LEMMA HostLostType == TypeOK /\ HostLost => TypeOK'
  <1> SUFFICES ASSUME TypeOK, HostLost PROVE TypeOK'
    OBVIOUS
  <1>1. DockerType'
    BY ContentType DEF HostLost, TypeOK, DockerType
  <1>2. StoreType'
    BY DEF HostLost, TypeOK, StoreType
  <1>3. MutexType'
    BY DEF HostLost, MutexType
  <1>4. TaskType'
    BY DEF HostLost, TaskType, Points
  <1>5. ChosenType'
    <2>1. buf' \in [Task -> Content] /\ pick' \in [Task -> Object \union {None}]
      BY SnapshotsAssumption DEF HostLost, Nothing, Content
    <2>2. \A t \in Task : pc'[t] # "extract"
      BY DEF HostLost
    <2> QED BY <2>1, <2>2 DEF ChosenType
  <1> QED BY <1>1, <1>2, <1>3, <1>4, <1>5 DEF TypeOK

LEMMA StutterType == TypeOK /\ UNCHANGED vars => TypeOK'
  BY DEF TypeOK, DockerType, StoreType, MutexType, TaskType, ChosenType, vars,
     docker, locals, chosen

LEMMA StepType ==
    ASSUME TypeOK, NEW t \in Task, Step(t)
    PROVE  TypeOK'
  BY LockType, SnapshotType, StopType, CreateType, ChoiceType, LaunchType DEF Step

\* Every variable keeps its type, for any routers, operations, failures and losses.
THEOREM SnapshotsTypeCorrect == Spec => []TypeOK
  <1>1. TypeOK /\ [Next]_vars => TypeOK'
    BY BeginType, StepType, WorldType, HostLostType, StutterType DEF Next
  <1> QED BY <1>1, InitType, PTL DEF Spec

-----------------------------------------------------------------------------
(* The mutexes *)

\* Who holds the mutex of a router works on it, and is no manual sync or shutdown
\* sweep, which never take it; who holds that of a key is in its snapshot.
UseInv ==
    /\ \A r \in Router : lock[r] # None =>
          /\ rtr[lock[r]] = r
          /\ kind[lock[r]] \notin {"sync", "sweep"}
          /\ pc[lock[r]] \in SnapPoints \union LockPoints \union {"remove", "record"}
    /\ \A o \in Object : held[o] # None =>
          rtr[held[o]] = o /\ pc[held[o]] \in KeyPoints
    /\ \A t \in Task : pc[t] \in {"lock", "try_lock"} => kind[t] \notin {"sync", "sweep"}

\* The points at which an operation has the mutex of its router, if it takes it.
Locked == SnapPoints \union LockPoints \union {"remove", "record"}

\* A step of t leaves the other operations where they are.
OnlyMoves(t) == \A u \in Task \ {t} : pc'[u] = pc[u] /\ rtr'[u] = rtr[u] /\ kind'[u] = kind[u]

\* What is left to show of a step: that it takes a mutex for nobody else, and
\* that where t ends, it holds the mutexes that are its own.
LEMMA UseFrame ==
    ASSUME TypeOK, UseInv, NEW t \in Task, OnlyMoves(t),
           \A r \in Router : lock'[r] \in {None, t, lock[r]},
           \A o \in Object : held'[o] \in {None, t, held[o]},
           \A r \in Router : lock'[r] = t =>
              rtr'[t] = r /\ kind'[t] \notin {"sync", "sweep"} /\ pc'[t] \in Locked,
           pc'[t] \in {"lock", "try_lock"} => kind'[t] \notin {"sync", "sweep"},
           \A o \in Object : held'[o] = t => rtr'[t] = o /\ pc'[t] \in KeyPoints
    PROVE  UseInv'
  <1>1. ASSUME NEW r \in Router, lock'[r] # None, lock'[r] # t
        PROVE  /\ rtr'[lock'[r]] = r
               /\ kind'[lock'[r]] \notin {"sync", "sweep"}
               /\ pc'[lock'[r]] \in Locked
    <2>1. lock'[r] = lock[r] /\ lock[r] \in Task \ {t}
      BY <1>1 DEF TypeOK, MutexType
    <2> QED BY <2>1, <1>1 DEF UseInv, OnlyMoves, Locked
  <1>2. ASSUME NEW o \in Object, held'[o] # None, held'[o] # t
        PROVE  rtr'[held'[o]] = o /\ pc'[held'[o]] \in KeyPoints
    <2>1. held'[o] = held[o] /\ held[o] \in Task \ {t}
      BY <1>2 DEF TypeOK, MutexType
    <2> QED BY <2>1, <1>2 DEF UseInv, OnlyMoves
  <1>3. ASSUME NEW u \in Task, pc'[u] \in {"lock", "try_lock"}
        PROVE  kind'[u] \notin {"sync", "sweep"}
    BY <1>3 DEF UseInv, OnlyMoves
  <1> QED BY <1>1, <1>2, <1>3 DEF UseInv, Locked

\* A move within the same operation.
LEMMA GotoMoves ==
    ASSUME TaskType, NEW t \in Task, NEW l, Goto(t, l)
    PROVE  /\ OnlyMoves(t)
           /\ pc'[t] = l
           /\ l # "done" => rtr'[t] = rtr[t] /\ kind'[t] = kind[t]
  BY DEF TaskType, Goto, OnlyMoves, locals

LEMMA ProceedMoves ==
    ASSUME TaskType, NEW t \in Task, NEW k, NEW l, Proceed(t, k, l)
    PROVE  OnlyMoves(t) /\ pc'[t] = l /\ rtr'[t] = rtr[t] /\ kind'[t] = k
  BY DEF TaskType, Proceed, OnlyMoves

\* Where t holds a mutex before its step.
LEMMA UseBefore ==
    ASSUME UseInv, NEW t \in Task
    PROVE  /\ \A r \in Router : lock[r] = t =>
                rtr[t] = r /\ kind[t] \notin {"sync", "sweep"} /\ pc[t] \in Locked
           /\ \A o \in Object : held[o] = t => rtr[t] = o /\ pc[t] \in KeyPoints
  BY SnapshotsAssumption DEF UseInv, Locked

LEMMA BeginUse ==
    ASSUME TypeOK, UseInv, NEW t \in Task, NEW r \in Router, NEW k \in Kinds,
           Begin(t, r, k)
    PROVE  UseInv'
  <1>1. OnlyMoves(t)
    BY DEF Begin, OnlyMoves, TypeOK, TaskType
  <1>2. pc[t] \notin Locked \union KeyPoints
    BY DEF Begin, At, Locked, SnapPoints, LockPoints, KeyPoints
  <1>3. pc'[t] \in {"lock", "try_lock"} => kind'[t] \notin {"sync", "sweep"}
    BY DEF Begin, TypeOK, TaskType
  <1> QED BY <1>1, <1>2, <1>3, UseBefore, UseFrame DEF Begin

LEMMA LockUse ==
    ASSUME TypeOK, UseInv, NEW t \in Task, Lock(t) \/ TryLock(t)
    PROVE  UseInv'
  <1>1. rtr[t] \in Router
    BY Works DEF Lock, TryLock, TypeOK
  <1>2. pc[t] \notin Locked \union KeyPoints
    BY DEF Lock, TryLock, At, Locked, SnapPoints, LockPoints, KeyPoints
  <1>3. \A r \in Router : lock[r] # t
    BY <1>2, UseBefore
  <1>4. \E l : Goto(t, l) /\ l \in {"remove", "snap_lock", "inspect", "done"}
    BY DEF Lock, TryLock
  <1>5. OnlyMoves(t) /\ pc'[t] \notin {"lock", "try_lock"}
    BY <1>4, GotoMoves DEF TypeOK
  <1>6. UNCHANGED held
    BY DEF Lock, TryLock
  <1>7. CASE UNCHANGED lock
    BY <1>2, <1>3, <1>5, <1>6, <1>7, UseBefore, UseFrame
  <1>8. CASE lock' = [lock EXCEPT ![rtr[t]] = t] /\ ~Goto(t, "done")
    <2>1. pc'[t] \in Locked /\ rtr'[t] = rtr[t] /\ kind'[t] = kind[t]
      BY <1>4, <1>8, GotoMoves DEF TypeOK, Locked, SnapPoints, LockPoints
    <2>2. kind[t] \notin {"sync", "sweep"}
      BY DEF UseInv, Lock, TryLock, At
    <2>3. \A r \in Router : lock'[r] = IF r = rtr[t] THEN t ELSE lock[r]
      BY <1>8 DEF TypeOK, MutexType
    <2> QED BY <1>2, <1>3, <1>5, <1>6, <2>1, <2>2, <2>3, UseBefore, UseFrame
  <1>9. Lock(t) \/ TryLock(t) => UNCHANGED lock \/ ~Goto(t, "done")
    BY DEF Lock, TryLock, Goto, TypeOK, TaskType, At
  <1> QED BY <1>7, <1>8, <1>9 DEF Lock, TryLock

\* A step that leaves t inside, or outside, of what its mutexes protect.
LEMMA InsideUse ==
    ASSUME TypeOK, UseInv, NEW t \in Task, NEW l, Goto(t, l), UNCHANGED <<lock, held>>,
           l \in Locked \/ pc[t] \notin Locked,
           pc[t] \notin KeyPoints \/ l \in KeyPoints,
           l \notin {"lock", "try_lock"}
    PROVE  UseInv'
  <1>1. OnlyMoves(t) /\ pc'[t] = l
    BY GotoMoves DEF TypeOK
  <1>2. l = "done" => l \notin Locked \union KeyPoints
    BY DEF Locked, SnapPoints, KeyPoints, LockPoints
  <1>3. l \in Locked \union KeyPoints => rtr'[t] = rtr[t] /\ kind'[t] = kind[t]
    BY <1>2, GotoMoves DEF TypeOK
  <1> QED BY <1>1, <1>2, <1>3, UseBefore, UseFrame

LEMMA SnapshotUse ==
    ASSUME TypeOK, UseInv, NEW t \in Task, Snapshot(t)
    PROVE  UseInv'
  <1>1. rtr[t] \in Router /\ rtr[t] \in Object
    BY Works, ObjectType DEF Snapshot, SnapLock, SnapRead, SnapCheck, SnapPut,
       CopySlug, CopyAdapter, TypeOK
  <1>2. UNCHANGED lock /\ pc[t] \in Locked
    BY DEF Snapshot, SnapLock, SnapRead, SnapCheck, SnapPut, CopySlug,
       CopyAdapter, At, Locked, SnapPoints, KeyPoints
  <1>3. \E l : /\ Goto(t, l)
               /\ \/ l \in SnapPoints \union {"remove"}
                  \/ l = "done" /\ kind[t] = "sync"
    BY DEF Snapshot, SnapLock, SnapRead, SnapCheck, SnapPut, CopySlug,
       CopyAdapter, AfterSnapshot, SnapPoints, KeyPoints
  <1>4. /\ OnlyMoves(t)
        /\ pc'[t] \notin {"lock", "try_lock"}
        /\ kind[t] # "sync" =>
              pc'[t] \in Locked /\ rtr'[t] = rtr[t] /\ kind'[t] = kind[t]
    BY <1>3, GotoMoves DEF TypeOK, Locked, SnapPoints, KeyPoints
  <1>5. /\ \A o \in Object : held'[o] \in {None, t, held[o]}
        /\ \A o \in Object : held'[o] = t => rtr'[t] = o /\ pc'[t] \in KeyPoints
    <2>1. CASE SnapLock(t)
      BY <2>1, <1>1, UseBefore, GotoMoves
      DEF SnapLock, At, KeyPoints, TypeOK, MutexType
    <2>2. CASE UNCHANGED held /\ Goto(t, "snap_check")
      BY <2>2, UseBefore, GotoMoves DEF KeyPoints, TypeOK
    <2>3. CASE UNCHANGED held /\ Goto(t, "snap_put")
      BY <2>3, UseBefore, GotoMoves DEF KeyPoints, TypeOK
    <2>4. CASE ReleaseKey(t)
      <3>1. \A o \in Object : held'[o] = IF o = rtr[t] THEN None ELSE held[o]
        BY <2>4 DEF ReleaseKey, TypeOK, MutexType
      <3> QED BY <3>1, UseBefore, SnapshotsAssumption
    <2>5. CASE CopySlug(t) \/ CopyAdapter(t)
      BY <2>5, UseBefore DEF CopySlug, CopyAdapter, At, KeyPoints
    <2> QED BY <2>1, <2>2, <2>3, <2>4, <2>5 DEF Snapshot, SnapRead, SnapCheck, SnapPut
  <1> QED BY <1>2, <1>4, <1>5, UseBefore, UseFrame

\* A step of a task that gives back a mutex it was about to lose.
LEMMA UnlockUse ==
    ASSUME TypeOK, UseInv, NEW t \in Task, pc[t] \notin KeyPoints,
           Unlock(t), UNCHANGED held, OnlyMoves(t),
           pc'[t] \in {"lock", "try_lock"} => kind'[t] \notin {"sync", "sweep"}
    PROVE  UseInv'
  <1>1. \A r \in Router : lock'[r] = IF r = rtr[t] THEN None ELSE lock[r]
    BY DEF Unlock, TypeOK, MutexType
  <1>2. \A r \in Router : lock'[r] # t
    BY <1>1, UseBefore, SnapshotsAssumption
  <1> QED BY <1>1, <1>2, UseBefore, UseFrame

LEMMA StopUse ==
    ASSUME TypeOK, UseInv, NEW t \in Task, Remove(t) \/ Record(t) \/ Purge(t)
    PROVE  UseInv'
  <1>1. CASE Remove(t)
    BY <1>1, InsideUse DEF Remove, Locked, KeyPoints, At
  <1>2. CASE Record(t)
    <2>1. /\ OnlyMoves(t)
          /\ pc'[t] \in {"lock", "try_lock"} => kind'[t] = "start"
          /\ kind[t] = "restart" => /\ pc'[t] = "clean"
                                    /\ rtr'[t] = rtr[t] /\ kind'[t] = kind[t]
      BY <1>2, GotoMoves, ProceedMoves DEF Record, TypeOK
    <2>2. pc[t] \notin KeyPoints /\ UNCHANGED held
      BY <1>2 DEF Record, At, KeyPoints
    <2>3. CASE Unlock(t)
      BY <2>1, <2>2, <2>3, UnlockUse
    <2>4. CASE UNCHANGED lock /\ kind[t] = "restart"
      BY <2>1, <2>2, <2>4, UseBefore, UseFrame DEF Locked, LockPoints
    <2>5. CASE UNCHANGED lock /\ kind[t] = "sweep"
      BY <2>1, <2>2, <2>5, UseBefore, UseFrame
    <2> QED BY <1>2, <2>3, <2>4, <2>5 DEF Record
  <1>3. CASE Purge(t)
    <2>1. /\ OnlyMoves(t)
          /\ pc'[t] \in {"lock", "try_lock"} => kind'[t] = "start"
      BY <1>3, GotoMoves, ProceedMoves DEF Purge, TypeOK
    <2>2. pc[t] \notin Locked \union KeyPoints /\ UNCHANGED <<lock, held>>
      BY <1>3 DEF Purge, At, Locked, SnapPoints, KeyPoints, LockPoints
    <2> QED BY <2>1, <2>2, UseBefore, UseFrame
  <1> QED BY <1>1, <1>2, <1>3

LEMMA StartUse ==
    ASSUME TypeOK, UseInv, NEW t \in Task,
           \/ Inspect(t) \/ Clean(t) \/ Create(t) \/ LookUp(t) \/ Search(t)
           \/ Extract(t) \/ Launch(t) \/ RunRecord(t) \/ Fail(t)
    PROVE  UseInv'
  <1>1. pc[t] \notin KeyPoints /\ UNCHANGED held
    BY DEF Inspect, Clean, Create, LookUp, Look, Search, Extract, Launch,
       RunRecord, Fail, At, KeyPoints
  <1>2. \/ \E l \in LockPoints : Goto(t, l) /\ UNCHANGED lock
        \/ Goto(t, "done") /\ Unlock(t)
    BY DEF Inspect, Clean, Create, LookUp, Look, Search, Extract, Launch,
       RunRecord, Fail, LockPoints
  <1>3. CASE \E l \in LockPoints : Goto(t, l) /\ UNCHANGED lock
    BY <1>1, <1>3, InsideUse DEF Locked, LockPoints
  <1>4. CASE Goto(t, "done") /\ Unlock(t)
    BY <1>1, <1>4, GotoMoves, UnlockUse DEF TypeOK
  <1> QED BY <1>2, <1>3, <1>4

LEMMA WorldUse ==
    ASSUME TypeOK, UseInv,
           \/ \E r \in Router : Write(r) \/ ContainerDies(r)
           \/ HostLost
           \/ UNCHANGED vars
    PROVE  UseInv'
  <1>1. CASE HostLost
    BY <1>1 DEF HostLost, UseInv
  <1>2. CASE UNCHANGED <<lock, held, pc, locals>>
    BY <1>2 DEF UseInv, locals
  <1> QED BY <1>1, <1>2 DEF Write, ContainerDies, vars

LEMMA UseStep == TypeOK /\ UseInv /\ [Next]_vars => UseInv'
  BY BeginUse, LockUse, SnapshotUse, StopUse, StartUse, WorldUse DEF Next, Step

LEMMA UseInit == Init => UseInv
  BY DEF Init, UseInv

\* The mutex of a router is held by an operation at work on that router and that
\* of a key by a snapshot of it, whatever fails and however many operations meet.
THEOREM LocksAreUsedHolds == Spec => []LocksAreUsed
  <1>1. UseInv => LocksAreUsed
    BY DEF UseInv, LocksAreUsed
  <1> QED BY <1>1, UseStep, UseInit, SnapshotsTypeCorrect, PTL DEF Spec

-----------------------------------------------------------------------------
(* The guard *)

\* Who is in a snapshot holds the mutex of its key, and what is about to be
\* uploaded has a database unless the object has none.
HeldInv  == \A t \in Task : pc[t] \in KeyPoints => held[rtr[t]] = t
GuardInv == \A t \in Task : At(t, "snap_put") => HasDB(buf[t]) \/ ~HasDB(s3[rtr[t]])

\* Two operations are never in a snapshot of one key.
LEMMA OneSnapshot ==
    ASSUME HeldInv, NEW t \in Task, NEW u \in Task, pc[t] \in KeyPoints,
           pc[u] \in KeyPoints, rtr[t] = rtr[u]
    PROVE  t = u
  BY DEF HeldInv

\* The steps that touch no key's mutex and end in no snapshot.
LEMMA OutsideHeld ==
    ASSUME TypeOK, HeldInv, NEW t \in Task, OnlyMoves(t), UNCHANGED held,
           pc'[t] \notin KeyPoints
    PROVE  HeldInv'
  BY DEF HeldInv, OnlyMoves

LEMMA SnapshotHeld ==
    ASSUME TypeOK, HeldInv, NEW t \in Task, Snapshot(t)
    PROVE  HeldInv'
  <1>1. rtr[t] \in Object
    BY Works, ObjectType DEF Snapshot, SnapLock, SnapRead, SnapCheck, SnapPut,
       CopySlug, CopyAdapter, TypeOK
  <1>2. \E l \in SnapPoints \union {"remove", "done"} : Goto(t, l)
    BY DEF Snapshot, SnapLock, SnapRead, SnapCheck, SnapPut, CopySlug,
       CopyAdapter, AfterSnapshot, SnapPoints, KeyPoints
  <1>3. OnlyMoves(t)
    BY <1>2, GotoMoves DEF TypeOK
  <1>4. CASE SnapLock(t)
    <2>1. \A o \in Object : held'[o] = IF o = rtr[t] THEN t ELSE held[o]
      BY <1>4 DEF SnapLock, TypeOK, MutexType
    <2>2. held[rtr[t]] = None /\ rtr'[t] = rtr[t]
      BY <1>4, GotoMoves DEF SnapLock, TypeOK
    <2>3. ASSUME NEW u \in Task \ {t}, pc'[u] \in KeyPoints PROVE held'[rtr'[u]] = u
      <3>1. pc[u] \in KeyPoints /\ rtr'[u] = rtr[u] /\ held[rtr[u]] = u
        BY <1>3, <2>3 DEF OnlyMoves, HeldInv
      <3>2. rtr[u] \in Object /\ rtr[u] # rtr[t]
        BY <3>1, <2>2, ObjectType, SnapshotsAssumption DEF TypeOK, TaskType, KeyPoints
      <3> QED BY <2>1, <3>1, <3>2
    <2> QED BY <1>1, <2>1, <2>2, <2>3 DEF HeldInv
  <1>5. CASE pc[t] \in KeyPoints /\ ReleaseKey(t) /\ pc'[t] \notin KeyPoints
    <2>1. \A o \in Object : held'[o] = IF o = rtr[t] THEN None ELSE held[o]
      BY <1>5 DEF ReleaseKey, TypeOK, MutexType
    <2>2. ASSUME NEW u \in Task \ {t}, pc'[u] \in KeyPoints PROVE held'[rtr'[u]] = u
      <3>1. pc[u] \in KeyPoints /\ rtr'[u] = rtr[u] /\ held[rtr[u]] = u
        BY <1>3, <2>2 DEF OnlyMoves, HeldInv
      <3>2. rtr[u] \in Object /\ rtr[u] # rtr[t]
        BY <1>5, <3>1, OneSnapshot, ObjectType DEF TypeOK, TaskType, KeyPoints
      <3> QED BY <2>1, <3>1, <3>2
    <2> QED BY <1>5, <2>2 DEF HeldInv
  <1>6. CASE pc[t] \in KeyPoints /\ UNCHANGED held /\ rtr'[t] = rtr[t]
    BY <1>3, <1>6 DEF HeldInv, OnlyMoves
  <1>7. CASE SnapRead(t) \/ SnapCheck(t) \/ SnapPut(t)
    <2>1. pc[t] \in KeyPoints
      BY <1>7 DEF SnapRead, SnapCheck, SnapPut, At, KeyPoints
    <2>2. \/ ReleaseKey(t) /\ \E l \in {"copy_slug", "remove", "done"} : Goto(t, l)
          \/ UNCHANGED held /\ \E l \in {"snap_check", "snap_put"} : Goto(t, l)
      BY <1>7 DEF SnapRead, SnapCheck, SnapPut, AfterSnapshot
    <2> QED BY <2>1, <2>2, <1>5, <1>6, GotoMoves DEF TypeOK, KeyPoints
  <1>8. CASE CopySlug(t) \/ CopyAdapter(t)
    <2>1. UNCHANGED held /\ \E l \in {"copy_adapter", "remove", "done"} : Goto(t, l)
      BY <1>8 DEF CopySlug, CopyAdapter, AfterSnapshot
    <2> QED BY <2>1, OutsideHeld, GotoMoves DEF TypeOK, KeyPoints
  <1> QED BY <1>4, <1>7, <1>8 DEF Snapshot

LEMMA HeldStep == TypeOK /\ HeldInv /\ [Next]_vars => HeldInv'
  <1> SUFFICES ASSUME TypeOK, HeldInv, [Next]_vars PROVE HeldInv'
    OBVIOUS
  <1>1. ASSUME NEW t \in Task, NEW r \in Router, NEW k \in Kinds, Begin(t, r, k)
        PROVE  HeldInv'
    BY <1>1, OutsideHeld DEF Begin, OnlyMoves, TypeOK, TaskType, KeyPoints
  <1>2. ASSUME NEW t \in Task, Lock(t) \/ TryLock(t) PROVE HeldInv'
    BY <1>2, OutsideHeld, GotoMoves DEF Lock, TryLock, TypeOK, KeyPoints
  <1>3. ASSUME NEW t \in Task, Remove(t) \/ Record(t) \/ Purge(t) PROVE HeldInv'
    BY <1>3, OutsideHeld, GotoMoves, ProceedMoves
    DEF Remove, Record, Purge, TypeOK, KeyPoints
  <1>4. ASSUME NEW t \in Task,
               \/ Inspect(t) \/ Clean(t) \/ Create(t) \/ LookUp(t) \/ Search(t)
               \/ Extract(t) \/ Launch(t) \/ RunRecord(t) \/ Fail(t)
        PROVE  HeldInv'
    <2>1. UNCHANGED held /\ \E l \in LockPoints \union {"done"} : Goto(t, l)
      BY <1>4 DEF Inspect, Clean, Create, LookUp, Look, Search, Extract, Launch,
         RunRecord, Fail, LockPoints
    <2> QED BY <2>1, OutsideHeld, GotoMoves DEF TypeOK, LockPoints, KeyPoints
  <1>5. CASE HostLost
    BY <1>5 DEF HostLost, HeldInv, KeyPoints
  <1>6. ASSUME NEW r \in Router, Write(r) \/ ContainerDies(r) PROVE HeldInv'
    BY <1>6 DEF Write, ContainerDies, HeldInv, locals
  <1>7. CASE UNCHANGED vars
    BY <1>7 DEF vars, HeldInv, locals
  <1> QED BY <1>1, <1>2, <1>3, <1>4, <1>5, <1>6, <1>7, SnapshotHeld DEF Next, Step

\* What a step may do to the object under a router's id.
LEMMA ObjectStep ==
    ASSUME TypeOK, [Next]_vars, NEW r \in Router
    PROVE  \/ s3'[r] = s3[r]
           \/ s3'[r] = Nothing /\ \E t \in Task : At(t, "purge")
           \/ \E t \in Task : At(t, "snap_put") /\ rtr[t] = r /\ s3'[r] = buf[t]
  <1>1. ASSUME NEW t \in Task, SnapPut(t)
        PROVE  s3'[r] = s3[r] \/ (At(t, "snap_put") /\ rtr[t] = r /\ s3'[r] = buf[t])
    BY <1>1, ObjectType DEF SnapPut, TypeOK, StoreType
  <1>2. ASSUME NEW t \in Task, Purge(t)
        PROVE  s3'[r] = s3[r] \/ (s3'[r] = Nothing /\ At(t, "purge"))
    BY <1>2, ObjectType DEF Purge, TypeOK, StoreType
  <1>3. ASSUME NEW t \in Task, CopySlug(t) \/ CopyAdapter(t) PROVE s3'[r] = s3[r]
    <2>1. rtr[t] \in Router
      BY <1>3, Works DEF CopySlug, CopyAdapter, TypeOK
    <2>2. Slug[rtr[t]] # r /\ Adapter[rtr[t]] # r
      BY <2>1, SlugType, SnapshotsAssumption
    <2> QED BY <1>3, <2>2, ObjectType DEF CopySlug, CopyAdapter, Copied, TypeOK, StoreType
  <1>4. ASSUME NEW t \in Task,
               \/ Lock(t) \/ TryLock(t) \/ SnapLock(t) \/ SnapRead(t) \/ SnapCheck(t)
               \/ Remove(t) \/ Record(t) \/ Inspect(t) \/ Clean(t) \/ Create(t)
               \/ LookUp(t) \/ Search(t) \/ Extract(t) \/ Launch(t) \/ RunRecord(t)
               \/ Fail(t)
        PROVE  UNCHANGED s3
    BY <1>4 DEF Lock, TryLock, SnapLock, SnapRead, SnapCheck, Remove, Record,
       Inspect, Clean, Create, LookUp, Look, Search, Extract, Launch, RunRecord, Fail
  <1>5. ASSUME NEW t \in Task, NEW q \in Router, NEW k \in Kinds, Begin(t, q, k)
        PROVE  UNCHANGED s3
    BY <1>5 DEF Begin
  <1>6. CASE HostLost \/ UNCHANGED vars \/ \E q \in Router : Write(q) \/ ContainerDies(q)
    BY <1>6 DEF HostLost, Write, ContainerDies, vars
  <1> QED BY <1>1, <1>2, <1>3, <1>4, <1>5, <1>6 DEF Next, Step, Snapshot

\* An operation about to upload has just passed the guard, or was about to before.
LEMMA PutStep ==
    ASSUME TypeOK, [Next]_vars, NEW u \in Task, At(u, "snap_put")'
    PROVE  \/ At(u, "snap_put") /\ buf'[u] = buf[u] /\ rtr'[u] = rtr[u]
           \/ SnapCheck(u)
  <1>1. ASSUME NEW t \in Task, OnlyMoves(t), pc'[t] # "snap_put",
               \A w \in Task \ {t} : buf'[w] = buf[w]
        PROVE  At(u, "snap_put") /\ buf'[u] = buf[u] /\ rtr'[u] = rtr[u]
    BY <1>1 DEF OnlyMoves, At
  <1>2. ASSUME NEW t \in Task, NEW r \in Router, NEW k \in Kinds, Begin(t, r, k)
        PROVE  At(u, "snap_put") /\ buf'[u] = buf[u] /\ rtr'[u] = rtr[u]
    BY <1>1, <1>2 DEF Begin, OnlyMoves, TypeOK, TaskType, chosen
  <1>3. ASSUME NEW t \in Task, SnapCheck(t), t # u
        PROVE  At(u, "snap_put") /\ buf'[u] = buf[u] /\ rtr'[u] = rtr[u]
    <2>1. OnlyMoves(t)
      BY <1>3, GotoMoves DEF SnapCheck, TypeOK
    <2> QED BY <1>3, <2>1 DEF SnapCheck, OnlyMoves, At, TypeOK, ChosenType
  <1>4. ASSUME NEW t \in Task,
               \/ SnapLock(t) \/ SnapRead(t) \/ SnapPut(t) \/ CopySlug(t) \/ CopyAdapter(t)
        PROVE  At(u, "snap_put") /\ buf'[u] = buf[u] /\ rtr'[u] = rtr[u]
    <2>1. \E l \in {"snap_read", "snap_check", "copy_slug", "copy_adapter", "remove",
                    "done"} : Goto(t, l)
      BY <1>4 DEF SnapLock, SnapRead, SnapPut, CopySlug, CopyAdapter, AfterSnapshot
    <2>2. \A w \in Task \ {t} : buf'[w] = buf[w]
      BY <1>4 DEF SnapLock, SnapRead, SnapPut, CopySlug, CopyAdapter, chosen, TypeOK,
         ChosenType
    <2> QED BY <1>1, <2>1, <2>2, GotoMoves DEF TypeOK
  <1>5. ASSUME NEW t \in Task,
               \/ Lock(t) \/ TryLock(t) \/ Remove(t) \/ Record(t) \/ Purge(t)
        PROVE  At(u, "snap_put") /\ buf'[u] = buf[u] /\ rtr'[u] = rtr[u]
    <2>1. OnlyMoves(t) /\ pc'[t] # "snap_put"
      BY <1>5, GotoMoves, ProceedMoves DEF Lock, TryLock, Remove, Record, Purge, TypeOK
    <2>2. UNCHANGED buf
      BY <1>5 DEF Lock, TryLock, Remove, Record, Purge, chosen
    <2> QED BY <1>1, <2>1, <2>2
  <1>6. ASSUME NEW t \in Task,
               \/ Inspect(t) \/ Clean(t) \/ Create(t) \/ LookUp(t) \/ Search(t)
               \/ Extract(t) \/ Launch(t) \/ RunRecord(t) \/ Fail(t)
        PROVE  At(u, "snap_put") /\ buf'[u] = buf[u] /\ rtr'[u] = rtr[u]
    <2>1. UNCHANGED buf /\ \E l \in LockPoints \union {"done"} : Goto(t, l)
      BY <1>6 DEF Inspect, Clean, Create, LookUp, Look, Search, Extract, Launch,
         RunRecord, Fail, LockPoints, chosen
    <2> QED BY <1>1, <2>1, GotoMoves DEF TypeOK, LockPoints
  <1>7. ~HostLost
    BY DEF HostLost, At
  <1>8. CASE UNCHANGED vars \/ \E r \in Router : Write(r) \/ ContainerDies(r)
    BY <1>8 DEF Write, ContainerDies, vars, locals, chosen, At
  <1> QED BY <1>2, <1>3, <1>4, <1>5, <1>6, <1>7, <1>8 DEF Next, Step, Snapshot

LEMMA GuardStep ==
    ASSUME "s3" \notin Faults, TypeOK, HeldInv, GuardInv, [Next]_vars
    PROVE  GuardInv'
  <1> SUFFICES ASSUME NEW u \in Task, At(u, "snap_put")'
               PROVE  HasDB(buf'[u]) \/ ~HasDB(s3'[rtr'[u]])
    BY DEF GuardInv, At, HasDB
  <1>1. CASE At(u, "snap_put") /\ buf'[u] = buf[u] /\ rtr'[u] = rtr[u]
    <2>1. rtr[u] \in Router
      BY <1>1, Works DEF TypeOK
    <2>2. CASE s3'[rtr[u]] = s3[rtr[u]]
      BY <1>1, <2>2 DEF GuardInv
    <2>3. CASE s3'[rtr[u]] = Nothing
      BY <1>1, <2>3 DEF HasDB, Nothing
    <2>4. ASSUME NEW t \in Task, At(t, "snap_put"), rtr[t] = rtr[u], s3'[rtr[u]] = buf[t]
          PROVE  HasDB(buf'[u]) \/ ~HasDB(s3'[rtr'[u]])
      <3>1. t = u
        BY <1>1, <2>4, OneSnapshot DEF At, KeyPoints
      <3> QED BY <1>1, <2>4, <3>1
    <2> QED BY <2>1, <2>2, <2>3, <2>4, ObjectStep
  <1>2. CASE SnapCheck(u)
    <2>1. Goto(u, "snap_put") /\ UNCHANGED <<buf, s3>>
      BY <1>2, GotoMoves DEF SnapCheck, TypeOK, At
    <2>2. rtr'[u] = rtr[u]
      BY <2>1, GotoMoves DEF TypeOK
    <2>3. HasDB(buf[u]) \/ ~HasDB(s3[rtr[u]])
      BY <1>2, GotoMoves DEF SnapCheck, TypeOK, At
    <2> QED BY <2>1, <2>2, <2>3
  <1> QED BY <1>1, <1>2, PutStep

\* While S3 answers, only a wipe takes the last database away from under a
\* router's id, whatever is lost or fails and however many snapshots of the router
\* are under way.
THEOREM GuardHoldsAlways == "s3" \notin Faults /\ Spec => GuardHolds
  <1> SUFFICES ASSUME "s3" \notin Faults PROVE Spec => GuardHolds
    OBVIOUS
  <1> DEFINE Safe == \A r \in Router :
                        HasDB(s3[r]) /\ ~HasDB(s3'[r]) => \E t \in Task : At(t, "purge")
  <1>1. TypeOK /\ GuardInv /\ [Next]_vars => Safe
    BY ObjectStep DEF GuardInv
  <1>2. TypeOK /\ HeldInv /\ GuardInv /\ [Next]_vars => GuardInv'
    BY GuardStep
  <1>3. Init => HeldInv /\ GuardInv
    BY DEF Init, HeldInv, GuardInv, KeyPoints, At
  <1>4. GuardHolds <=> [][Safe]_vars
    BY DEF GuardHolds
  <1> QED BY <1>1, <1>2, <1>3, <1>4, HeldStep, SnapshotsTypeCorrect, PTL DEF Spec

-----------------------------------------------------------------------------
(* Who works under the mutex of a router holds it *)

Owner(t) == pc[t] \in Locked /\ kind[t] \notin {"sync", "sweep"}

MineInv ==
    \A t \in Task :
       /\ Owner(t) => lock[rtr[t]] = t
       /\ pc[t] \in LockPoints => kind[t] \notin {"sync", "sweep"}
       /\ pc[t] \in {"remove", "record"} => kind[t] # "sync"

OwnerKind(t) == /\ pc[t] \in LockPoints => kind[t] \notin {"sync", "sweep"}
                /\ pc[t] \in {"remove", "record"} => kind[t] # "sync"

LEMMA MineFrame ==
    ASSUME TypeOK, MineInv, NEW t \in Task, OnlyMoves(t), OwnerKind(t)',
           \/ /\ UNCHANGED lock
              /\ Owner(t)' => Owner(t) /\ rtr'[t] = rtr[t]
           \/ /\ lock[rtr[t]] = None /\ lock' = [lock EXCEPT ![rtr[t]] = t]
              /\ rtr[t] \in Router /\ rtr'[t] = rtr[t]
           \/ /\ Owner(t) /\ Unlock(t) /\ ~Owner(t)'
    PROVE  MineInv'
  <1>1. ASSUME NEW u \in Task \ {t}
        PROVE  /\ Owner(u)' => lock'[rtr'[u]] = u
               /\ OwnerKind(u)'
    <2>1. pc'[u] = pc[u] /\ rtr'[u] = rtr[u] /\ kind'[u] = kind[u]
      BY DEF OnlyMoves
    <2>2. OwnerKind(u)'
      BY <2>1 DEF OwnerKind, MineInv
    <2>3. ASSUME Owner(u) PROVE lock'[rtr[u]] = u
      <3>1. lock[rtr[u]] = u /\ rtr[u] \in Router
        BY <2>3 DEF MineInv, Owner, TypeOK, TaskType, Locked, SnapPoints, LockPoints, KeyPoints
      <3>2. CASE UNCHANGED lock
        BY <3>1, <3>2
      <3>3. CASE lock[rtr[t]] = None /\ lock' = [lock EXCEPT ![rtr[t]] = t]
        BY <3>1, <3>3, SnapshotsAssumption
      <3>4. CASE Owner(t) /\ Unlock(t)
        BY <3>1, <3>4 DEF MineInv, Unlock
      <3> QED BY <3>2, <3>3, <3>4
    <2> QED BY <2>1, <2>2, <2>3 DEF Owner
  <1>2. Owner(t)' => lock'[rtr'[t]] = t
    BY DEF MineInv, TypeOK, MutexType
  <1> QED BY <1>1, <1>2 DEF MineInv, OwnerKind

LEMMA InitMine == Init => MineInv
  BY DEF Init, MineInv, Owner, Locked, SnapPoints, LockPoints, KeyPoints

LEMMA BeginMine ==
    ASSUME TypeOK, MineInv, NEW t \in Task, NEW r \in Router, NEW k \in Kinds, Begin(t, r, k)
    PROVE  MineInv'
  <1>1. OnlyMoves(t) /\ UNCHANGED lock
    BY DEF Begin, OnlyMoves, TypeOK, TaskType
  <1>2. \/ pc'[t] \in {"try_lock", "lock"}
        \/ pc'[t] = "snap_lock" /\ kind'[t] \in {"sync", "sweep"}
    BY DEF Begin, TypeOK, TaskType
  <1>3. ~Owner(t)' /\ OwnerKind(t)'
    BY <1>2 DEF Owner, OwnerKind, Locked, SnapPoints, LockPoints, KeyPoints
  <1> QED BY <1>1, <1>3, MineFrame

\* A step of t to another point, with its mutex and its kind kept
LEMMA InsideMine ==
    ASSUME TypeOK, MineInv, NEW t \in Task, NEW l, Goto(t, l), UNCHANGED lock,
           pc[t] \in Locked,
           l \in LockPoints => pc[t] \in LockPoints,
           l \in {"remove", "record"} => kind[t] # "sync"
    PROVE  MineInv'
  <1>1. OnlyMoves(t) /\ pc'[t] = l /\ (l # "done" => rtr'[t] = rtr[t] /\ kind'[t] = kind[t])
    BY GotoMoves DEF TypeOK
  <1>2. CASE l = "done"
    <2>1. ~Owner(t)' /\ OwnerKind(t)'
      BY <1>1, <1>2 DEF Owner, OwnerKind, Locked, SnapPoints, LockPoints, KeyPoints
    <2> QED BY <1>1, <2>1, MineFrame
  <1>3. CASE l # "done"
    <2>1. (Owner(t)' => Owner(t)) /\ OwnerKind(t)'
      BY <1>1, <1>3 DEF Owner, OwnerKind, MineInv
    <2> QED BY <1>1, <1>3, <2>1, MineFrame
  <1> QED BY <1>2, <1>3

\* An operation ends, or goes on without its mutex.
LEMMA ReleaseMine ==
    ASSUME TypeOK, MineInv, NEW t \in Task, OnlyMoves(t), Owner(t), Unlock(t),
           pc'[t] \in {"done", "try_lock", "purge"}
    PROVE  MineInv'
  <1>1. ~Owner(t)' /\ OwnerKind(t)'
    BY DEF Owner, OwnerKind, Locked, SnapPoints, LockPoints, KeyPoints
  <1> QED BY <1>1, MineFrame

LEMMA LockMine ==
    ASSUME TypeOK, UseInv, MineInv, NEW t \in Task, Lock(t) \/ TryLock(t)
    PROVE  MineInv'
  <1>1. rtr[t] \in Router
    BY Works DEF Lock, TryLock, TypeOK
  <1>2. kind[t] \notin {"sync", "sweep"}
    BY DEF UseInv, Lock, TryLock, At
  <1>3. \/ /\ lock[rtr[t]] = None /\ lock' = [lock EXCEPT ![rtr[t]] = t]
           /\ \E l \in {"remove", "snap_lock", "inspect"} : Goto(t, l)
        \/ UNCHANGED lock /\ Goto(t, "done")
    BY DEF Lock, TryLock
  <1>4. CASE UNCHANGED lock /\ Goto(t, "done")
    <2>1. OnlyMoves(t) /\ pc'[t] = "done"
      BY <1>4, GotoMoves DEF TypeOK
    <2>2. ~Owner(t)' /\ OwnerKind(t)'
      BY <2>1 DEF Owner, OwnerKind, Locked, SnapPoints, LockPoints, KeyPoints
    <2> QED BY <1>4, <2>1, <2>2, MineFrame
  <1>5. ASSUME NEW l \in {"remove", "snap_lock", "inspect"}, Goto(t, l),
               lock[rtr[t]] = None, lock' = [lock EXCEPT ![rtr[t]] = t]
        PROVE  MineInv'
    <2>1. OnlyMoves(t) /\ pc'[t] = l /\ rtr'[t] = rtr[t] /\ kind'[t] = kind[t]
      BY <1>5, GotoMoves DEF TypeOK
    <2>2. OwnerKind(t)'
      BY <1>2, <2>1 DEF OwnerKind
    <2> QED BY <1>1, <1>5, <2>1, <2>2, MineFrame
  <1> QED BY <1>3, <1>4, <1>5

LEMMA SnapshotMine ==
    ASSUME TypeOK, MineInv, NEW t \in Task, Snapshot(t)
    PROVE  MineInv'
  <1>1. UNCHANGED lock /\ pc[t] \in SnapPoints
    BY DEF Snapshot, SnapLock, SnapRead, SnapCheck, SnapPut, CopySlug, CopyAdapter, At,
       SnapPoints, KeyPoints
  <1>2. \E l : /\ Goto(t, l)
               /\ l \in SnapPoints \/ l = AfterSnapshot(t)
    BY DEF Snapshot, SnapLock, SnapRead, SnapCheck, SnapPut, CopySlug, CopyAdapter,
       SnapPoints, KeyPoints
  <1>3. PICK l : Goto(t, l) /\ (l \in SnapPoints \/ l = AfterSnapshot(t))
    BY <1>2
  <1>4. /\ l \notin LockPoints /\ pc[t] \in Locked
        /\ l \in {"remove", "record"} => kind[t] # "sync"
    BY <1>1, <1>3 DEF AfterSnapshot, SnapPoints, KeyPoints, LockPoints, Locked
  <1> QED BY <1>1, <1>3, <1>4, InsideMine

LEMMA StopMine ==
    ASSUME TypeOK, MineInv, NEW t \in Task, Remove(t) \/ Record(t) \/ Purge(t)
    PROVE  MineInv'
  <1>1. CASE Remove(t)
    <2>1. Goto(t, "record") /\ UNCHANGED lock /\ pc[t] = "remove"
      BY <1>1 DEF Remove, At
    <2>2. pc[t] \in Locked /\ kind[t] # "sync" /\ "record" \notin LockPoints
      BY <2>1 DEF MineInv, Locked, LockPoints
    <2> QED BY <2>1, <2>2, InsideMine
  <1>2. CASE Record(t)
    <2>1. pc[t] = "record" /\ pc[t] \in Locked /\ kind[t] # "sync"
      BY <1>2 DEF Record, At, MineInv, Locked
    <2>2. CASE kind[t] = "restart"
      <3>1. Proceed(t, "restart", "clean") /\ UNCHANGED lock
        BY <1>2, <2>2 DEF Record
      <3>2. OnlyMoves(t) /\ pc'[t] = "clean" /\ rtr'[t] = rtr[t] /\ kind'[t] = "restart"
        BY <3>1, ProceedMoves DEF TypeOK
      <3>3. Owner(t) /\ OwnerKind(t)'
        BY <2>1, <2>2, <3>2 DEF Owner, OwnerKind
      <3> QED BY <3>1, <3>2, <3>3, MineFrame
    <2>3. CASE kind[t] = "sweep"
      <3>1. Goto(t, "done") /\ UNCHANGED lock
        BY <1>2, <2>3 DEF Record
      <3>2. "done" \notin LockPoints
        BY DEF LockPoints
      <3> QED BY <2>1, <3>1, <3>2, InsideMine
    <2>4. CASE kind[t] \notin {"restart", "sweep"}
      <3>1. /\ Unlock(t)
            /\ \/ Proceed(t, "wipe", "purge") \/ Proceed(t, "start", "try_lock")
               \/ Goto(t, "done")
        BY <1>2, <2>4 DEF Record
      <3>2. OnlyMoves(t) /\ pc'[t] \in {"done", "try_lock", "purge"}
        BY <3>1, ProceedMoves, GotoMoves DEF TypeOK
      <3>3. Owner(t)
        BY <2>1, <2>4 DEF Owner
      <3> QED BY <3>1, <3>2, <3>3, ReleaseMine
    <2> QED BY <2>2, <2>3, <2>4
  <1>3. CASE Purge(t)
    <2>1. UNCHANGED lock /\ (Proceed(t, "start", "try_lock") \/ Goto(t, "done"))
      BY <1>3 DEF Purge
    <2>2. OnlyMoves(t) /\ pc'[t] \in {"try_lock", "done"}
      BY <2>1, ProceedMoves, GotoMoves DEF TypeOK
    <2>3. ~Owner(t)' /\ OwnerKind(t)'
      BY <2>2 DEF Owner, OwnerKind, Locked, SnapPoints, LockPoints, KeyPoints
    <2> QED BY <2>1, <2>2, <2>3, MineFrame
  <1> QED BY <1>1, <1>2, <1>3

LEMMA StartMine ==
    ASSUME TypeOK, MineInv, NEW t \in Task,
           \/ Inspect(t) \/ Clean(t) \/ Create(t) \/ LookUp(t) \/ Search(t)
           \/ Extract(t) \/ Launch(t) \/ RunRecord(t) \/ Fail(t)
    PROVE  MineInv'
  <1>1. pc[t] \in LockPoints
    BY DEF Inspect, Clean, Create, LookUp, Look, Search, Extract, Launch, RunRecord, Fail,
       At, LockPoints
  <1>2. pc[t] \in Locked /\ Owner(t)
    BY <1>1 DEF Locked, MineInv, Owner
  <1>3. \/ Unlock(t) /\ Goto(t, "done")
        \/ UNCHANGED lock /\ \E l \in LockPoints : Goto(t, l)
    BY DEF Inspect, Clean, Create, LookUp, Look, Search, Extract, Launch, RunRecord, Fail,
       LockPoints
  <1>4. CASE Unlock(t) /\ Goto(t, "done")
    BY <1>2, <1>4, ReleaseMine, GotoMoves DEF TypeOK
  <1>5. ASSUME NEW l \in LockPoints, Goto(t, l), UNCHANGED lock PROVE MineInv'
    <2>1. l \notin {"remove", "record"}
      BY DEF LockPoints
    <2> QED BY <1>1, <1>2, <1>5, <2>1, InsideMine
  <1> QED BY <1>3, <1>4, <1>5

LEMMA MineStep == TypeOK /\ UseInv /\ MineInv /\ [Next]_vars => MineInv'
  <1> SUFFICES ASSUME TypeOK, UseInv, MineInv, [Next]_vars PROVE MineInv'
    OBVIOUS
  <1>1. CASE HostLost
    BY <1>1 DEF HostLost, MineInv, Owner, Locked, SnapPoints, LockPoints, KeyPoints
  <1>2. CASE UNCHANGED vars \/ \E r \in Router : Write(r) \/ ContainerDies(r)
    BY <1>2 DEF vars, locals, Write, ContainerDies, MineInv, Owner
  <1> QED BY <1>1, <1>2, BeginMine, LockMine, SnapshotMine, StopMine, StartMine DEF Next, Step

-----------------------------------------------------------------------------
(* What a step of one operation may do to the data of a router alone in    *)
(* its namespace, while the router is not wiped and S3 answers             *)

Reading   == {"snap_check", "snap_put"}              \* an archive is on its way
Looking   == {"look_slug", "look_adapter", "search"} \* the router's own key had no database
Hydrating == {"look_id", "extract"} \union Looking

\* t looks for a database, or has found one, elsewhere than under the id.
Elsewhere(t, r) == pc[t] \in Looking \/ (At(t, "extract") /\ pick[t] # r)

\* The last container made has been recorded nowhere yet.
Unseen(r) == row[r] < made[r] /\ \A t \in Task : cid[t] < made[r]

OthersKeep(t) == \A u \in Task \ {t} : /\ pc'[u] = pc[u] /\ rtr'[u] = rtr[u]
                                       /\ cid'[u] = cid[u] /\ pick'[u] = pick[u]
                                       /\ buf'[u] = buf[u]

Uploads(t, r) ==
    \/ s3' = s3
    \/ At(t, "snap_put") /\ s3' = [s3 EXCEPT ![r] = buf[t]] /\ pc'[t] \notin Reading \union Hydrating
    \/ /\ pc[t] \in {"copy_slug", "copy_adapter"} /\ pc'[t] \notin Reading \union Hydrating
       /\ \E o \in Object \ {r} : s3' = [s3 EXCEPT ![o] = s3[r]]

Hydrates(t, r) ==
    \/ vol' = vol
    \/ /\ At(t, "extract") /\ held[pick[t]] = None /\ pick[t] \in Object
       /\ HasDB(s3[pick[t]]) /\ vol' = [vol EXCEPT ![r] = s3[pick[t]]]
       /\ s3' = s3 /\ pc'[t] = "launch"

Reads(t, r) ==
    pc'[t] \in Reading =>
       /\ s3' = s3 /\ vol' = vol
       /\ \/ pc[t] \in Reading /\ buf'[t] = buf[t]
          \/ buf'[t] = vol[r] /\ cid[t] = made[r] /\ up[r] # "none" /\ rtr[t] = r

Chooses(t, r) ==
    /\ Elsewhere(t, r)' => s3' = s3 /\ (Elsewhere(t, r) \/ s3[r].ver = 0)
    /\ pc'[t] = "launch" =>
         /\ s3' = s3
         /\ \/ At(t, "search")
            \/ /\ At(t, "extract") /\ pick[t] \in Object
               /\ HasDB(s3[pick[t]]) => vol' = [vol EXCEPT ![r] = s3[pick[t]]]
    /\ pc'[t] = "run_record" => At(t, "launch")

Counts(t, r) ==
    /\ cid'[t] \in {cid[t], 0, row[r]}
    /\ \/ made' = made /\ row'[r] \in {row[r], 0} /\ (up'[r] = "halted" => up[r] = "halted")
          /\ (pc'[t] \in Hydrating => pc[t] \in Hydrating)
       \/ /\ At(t, "create") /\ made' = [made EXCEPT ![r] = @ + 1] /\ row' = row
       \/ /\ made' = made /\ up[r] = "running" /\ At(t, "inspect") /\ up' = up
          /\ pc'[t] \notin Hydrating
       \/ /\ made' = made /\ At(t, "run_record") /\ up' = up
          /\ pc'[t] \notin Hydrating
    /\ up'[r] = "running" => up[r] = "running" \/ At(t, "launch")

Effects(t, r) == /\ OthersKeep(t)
                 /\ Uploads(t, r) /\ Hydrates(t, r) /\ Reads(t, r)
                 /\ Chooses(t, r) /\ Counts(t, r)

LEMMA GotoKeeps ==
    ASSUME TypeOK, NEW t \in Task, NEW l, Goto(t, l)
    PROVE  /\ pc'[t] = l /\ cid'[t] \in {cid[t], 0}
           /\ \A u \in Task \ {t} : pc'[u] = pc[u] /\ rtr'[u] = rtr[u] /\ cid'[u] = cid[u]
  BY DEF TypeOK, TaskType, Goto, locals

LEMMA ProceedKeeps ==
    ASSUME TypeOK, NEW t \in Task, NEW k, NEW l, Proceed(t, k, l)
    PROVE  /\ pc'[t] = l /\ cid'[t] = 0
           /\ \A u \in Task \ {t} : pc'[u] = pc[u] /\ rtr'[u] = rtr[u] /\ cid'[u] = cid[u]
  BY DEF TypeOK, TaskType, Proceed

\* A step that only moves t, to a point where nothing is known of the data
LEMMA PlainEffects ==
    ASSUME TypeOK, NEW t \in Task, NEW r \in Router, Router = {r},
           OthersKeep(t), cid'[t] \in {cid[t], 0, row[r]},
           pc'[t] \notin Reading \union Hydrating \union {"launch", "run_record"},
           UNCHANGED <<s3, vol, made>>, row'[r] \in {row[r], 0}, up'[r] \in {up[r], "none"}
    PROVE  Effects(t, r)
  BY DEF Effects, Uploads, Hydrates, Reads, Chooses, Counts, Elsewhere, At, Reading, Looking,
         Hydrating

LEMMA BeginEffects ==
    ASSUME TypeOK, NEW t \in Task, NEW r \in Router, Router = {r}, NEW k \in Kinds, Begin(t, r, k)
    PROVE  Effects(t, r)
  <1>1. /\ pc'[t] \in {"try_lock", "snap_lock", "lock"} /\ cid'[t] \in {cid[t], row[r]}
        /\ \A u \in Task \ {t} : pc'[u] = pc[u] /\ rtr'[u] = rtr[u] /\ cid'[u] = cid[u]
    BY DEF Begin, TypeOK, TaskType
  <1>2. UNCHANGED <<s3, vol, made, row, up, pick, buf>>
    BY DEF Begin, docker, chosen
  <1> QED BY <1>1, <1>2, PlainEffects DEF OthersKeep, Reading, Hydrating, Looking

LEMMA LockEffects ==
    ASSUME TypeOK, NEW t \in Task, NEW r \in Router, Router = {r}, Lock(t) \/ TryLock(t)
    PROVE  Effects(t, r)
  <1>1. \E l \in {"remove", "snap_lock", "inspect", "done"} : Goto(t, l)
    BY DEF Lock, TryLock
  <1>2. UNCHANGED <<s3, vol, made, row, up, pick, buf>>
    BY DEF Lock, TryLock, docker, chosen
  <1> QED BY <1>1, <1>2, GotoKeeps, PlainEffects DEF OthersKeep, Reading, Hydrating, Looking

LEMMA StopEffects ==
    ASSUME TypeOK, NEW t \in Task, NEW r \in Router, Router = {r},
           Remove(t) \/ Record(t) \/ (Purge(t) /\ r \notin spoiled')
    PROVE  Effects(t, r)
  <1>1. rtr[t] = r
    BY Works DEF Remove, Record, Purge, TypeOK
  <1>2. ~(Purge(t) /\ r \notin spoiled')
    BY <1>1 DEF Purge
  <1>3. CASE Remove(t)
    <2>1. Goto(t, "record") /\ UNCHANGED <<s3, vol, made, row, pick, buf>>
      BY <1>3 DEF Remove, chosen
    <2>2. up'[r] \in {up[r], "none"}
      BY <1>1, <1>3 DEF Remove, TypeOK, DockerType
    <2> QED BY <2>1, <2>2, GotoKeeps, PlainEffects DEF OthersKeep, Reading, Hydrating, Looking
  <1>4. CASE Record(t)
    <2>1. \/ Goto(t, "done")
          \/ \E k, l : Proceed(t, k, l) /\ l \in {"clean", "purge", "try_lock"}
      BY <1>4 DEF Record
    <2>2. UNCHANGED <<s3, vol, made, up, pick, buf>> /\ row'[r] = 0
      BY <1>1, <1>4 DEF Record, docker, chosen, TypeOK, StoreType
    <2> QED BY <2>1, <2>2, GotoKeeps, ProceedKeeps, PlainEffects
        DEF OthersKeep, Reading, Hydrating, Looking
  <1> QED BY <1>2, <1>3, <1>4

LEMMA SnapshotEffects ==
    ASSUME "s3" \notin Faults, TypeOK, NEW t \in Task, NEW r \in Router, Router = {r}, Snapshot(t)
    PROVE  Effects(t, r)
  <1>1. rtr[t] = r
    BY Works DEF Snapshot, SnapLock, SnapRead, SnapCheck, SnapPut, CopySlug, CopyAdapter, TypeOK
  <1>2. UNCHANGED <<vol, made, row, up, pick>>
    BY DEF Snapshot, SnapLock, SnapRead, SnapCheck, SnapPut, CopySlug, CopyAdapter, docker, chosen
  <1>3. AfterSnapshot(t) \in {"done", "remove"}
    BY DEF AfterSnapshot
  <1>4. CASE SnapLock(t)
    <2>1. Goto(t, "snap_read") /\ UNCHANGED <<s3, buf>>
      BY <1>4 DEF SnapLock, chosen
    <2> QED BY <1>2, <2>1, GotoKeeps, PlainEffects DEF OthersKeep, Reading, Hydrating, Looking
  <1>5. CASE SnapRead(t)
    <2>1. CASE Goto(t, AfterSnapshot(t)) /\ UNCHANGED <<s3, buf>>
      BY <1>2, <1>3, <2>1, GotoKeeps, PlainEffects DEF OthersKeep, Reading, Hydrating, Looking
    <2>2. CASE /\ cid[t] = made[r] /\ up[r] # "none" /\ buf' = [buf EXCEPT ![t] = vol[r]]
               /\ Goto(t, "snap_check") /\ UNCHANGED s3
      <3>1. buf'[t] = vol[r] /\ \A u \in Task \ {t} : buf'[u] = buf[u]
        BY <2>2 DEF TypeOK, ChosenType
      <3> QED BY <1>1, <1>2, <2>2, <3>1, GotoKeeps
          DEF OthersKeep, Effects, Uploads, Hydrates, Reads, Chooses, Counts, Elsewhere, At,
              Reading, Looking, Hydrating
    <2> QED BY <1>1, <1>5, <2>1, <2>2 DEF SnapRead
  <1>6. CASE SnapCheck(t)
    <2>1. UNCHANGED s3 /\ pc[t] = "snap_check"
      BY <1>6 DEF SnapCheck, At
    <2>2. CASE Goto(t, "copy_slug") /\ buf' = [buf EXCEPT ![t] = Nothing]
      <3>1. \A u \in Task \ {t} : buf'[u] = buf[u]
        BY <2>2 DEF TypeOK, ChosenType
      <3> QED BY <1>2, <2>1, <2>2, <3>1, GotoKeeps, PlainEffects
          DEF OthersKeep, Reading, Hydrating, Looking
    <2>3. CASE Goto(t, "snap_put") /\ UNCHANGED buf
      BY <1>2, <2>1, <2>3, GotoKeeps
      DEF OthersKeep, Effects, Uploads, Hydrates, Reads, Chooses, Counts, Elsewhere, At,
          Reading, Looking, Hydrating
    <2> QED BY <1>6, <2>2, <2>3 DEF SnapCheck
  <1>7. CASE SnapPut(t)
    <2>1. /\ At(t, "snap_put") /\ s3' = [s3 EXCEPT ![r] = buf[t]] /\ Goto(t, "copy_slug")
          /\ buf' = [buf EXCEPT ![t] = Nothing]
      BY <1>1, <1>7 DEF SnapPut
    <2>2. \A u \in Task \ {t} : buf'[u] = buf[u]
      BY <2>1 DEF TypeOK, ChosenType
    <2> QED BY <1>2, <2>1, <2>2, GotoKeeps
        DEF OthersKeep, Effects, Uploads, Hydrates, Reads, Chooses, Counts, Elsewhere, At,
            Reading, Looking, Hydrating
  <1>8. CASE CopySlug(t) \/ CopyAdapter(t)
    <2>1. /\ pc[t] \in {"copy_slug", "copy_adapter"} /\ UNCHANGED buf
          /\ \E l \in {"copy_adapter", "done", "remove"} : Goto(t, l)
      BY <1>3, <1>8 DEF CopySlug, CopyAdapter, chosen, At
    <2>2. s3' = s3 \/ \E o \in Object \ {r} : s3' = [s3 EXCEPT ![o] = s3[r]]
      <3>1. /\ Slug[r] \in Object \ {r} /\ Adapter[r] \in Object \ {r}
        BY ObjectType, SlugType, SnapshotsAssumption
      <3> QED BY <1>1, <1>8, <3>1 DEF CopySlug, CopyAdapter, Copied
    <2> QED BY <1>2, <2>1, <2>2, GotoKeeps
        DEF OthersKeep, Effects, Uploads, Hydrates, Reads, Chooses, Counts, Elsewhere, At,
            Reading, Looking, Hydrating
  <1> QED BY <1>4, <1>5, <1>6, <1>7, <1>8 DEF Snapshot

LEMMA LookEffects ==
    ASSUME "s3" \notin Faults, TypeOK, NEW t \in Task, NEW r \in Router, Router = {r},
           LookUp(t) \/ Search(t)
    PROVE  Effects(t, r)
  <1>1. rtr[t] = r
    BY Works DEF LookUp, Look, Search, TypeOK
  <1>2. UNCHANGED <<vol, made, row, up, s3, buf>>
    BY DEF LookUp, Look, Search, docker
  <1>3. \A u \in Task \ {t} : pick'[u] = pick[u]
    BY DEF LookUp, Look, Search, TypeOK, ChosenType
  <1>4. PICK l \in {"extract", "look_slug", "look_adapter", "search", "launch"} : Goto(t, l)
    BY DEF LookUp, Look, Search
  <1>5. pc[t] \in {"look_id"} \union Looking
    BY DEF LookUp, Look, Search, At, Looking
  <1>6. CASE pc[t] \in Looking
    <2>1. l = "launch" => At(t, "search")
      BY <1>4, GotoKeeps DEF LookUp, Look, Search, At
    <2> QED BY <1>2, <1>3, <1>4, <1>6, <2>1, GotoKeeps
        DEF OthersKeep, Effects, Uploads, Hydrates, Reads, Chooses, Counts, Elsewhere, At,
            Reading, Looking, Hydrating
  <1>7. CASE pc[t] = "look_id"
    <2>1. Look(t, "look_id", r, "look_slug")
      BY <1>1, <1>7 DEF LookUp, Look, Search, At
    <2>2. CASE HasDB(s3[r]) /\ pick' = [pick EXCEPT ![t] = r] /\ Goto(t, "extract")
      <3>1. pick'[t] = r
        BY <2>2 DEF TypeOK, ChosenType
      <3> QED BY <1>2, <1>3, <1>7, <2>2, <3>1, GotoKeeps
          DEF OthersKeep, Effects, Uploads, Hydrates, Reads, Chooses, Counts, Elsewhere, At,
              Reading, Looking, Hydrating
    <2>3. CASE ~HasDB(s3[r]) /\ Goto(t, "look_slug")
      <3>1. s3[r].ver = 0
        <4>1. s3[r] \in Content
          BY ObjectType DEF TypeOK, StoreType
        <4> QED BY <2>3, <4>1 DEF HasDB, Content
      <3> QED BY <1>2, <1>3, <1>7, <2>3, <3>1, GotoKeeps
          DEF OthersKeep, Effects, Uploads, Hydrates, Reads, Chooses, Counts, Elsewhere, At,
              Reading, Looking, Hydrating
    <2> QED BY <2>1, <2>2, <2>3 DEF Look
  <1> QED BY <1>5, <1>6, <1>7

LEMMA StartEffects ==
    ASSUME TypeOK, NEW t \in Task, NEW r \in Router, Router = {r}, r \notin spoiled',
           \/ Inspect(t) \/ Clean(t) \/ Create(t) \/ Extract(t) \/ Launch(t) \/ RunRecord(t)
           \/ Fail(t)
    PROVE  Effects(t, r)
  <1>1. rtr[t] = r
    BY Works DEF Inspect, Clean, Create, Extract, Launch, RunRecord, Fail, TypeOK
  <1>2. UNCHANGED <<s3, buf>>
    BY DEF Inspect, Clean, Create, Extract, Launch, RunRecord, Fail, chosen
  <1>3. \A u \in Task \ {t} : pick'[u] = pick[u]
    BY DEF Inspect, Clean, Create, Extract, Launch, RunRecord, Fail, chosen, TypeOK, ChosenType
  <1>4. CASE Inspect(t)
    BY <1>1, <1>2, <1>3, <1>4, GotoKeeps
    DEF Inspect, docker, OthersKeep, Effects, Uploads, Hydrates, Reads, Chooses, Counts,
        Elsewhere, At, Reading, Looking, Hydrating, TypeOK, StoreType
  <1>5. CASE Clean(t)
    <2>1. UNCHANGED <<vol, made, row>> /\ up'[r] \in {up[r], "none"}
      BY <1>1, <1>5 DEF Clean, TypeOK, DockerType
    <2>2. Goto(t, "create") \/ Goto(t, "fail")
      BY <1>5 DEF Clean
    <2> QED BY <1>2, <1>3, <2>1, <2>2, GotoKeeps, PlainEffects
        DEF OthersKeep, Reading, Hydrating, Looking
  <1>6. CASE Create(t)
    <2>1. UNCHANGED <<row, vol>> /\ At(t, "create")
      BY <1>6 DEF Create
    <2>2. CASE Goto(t, "fail") /\ UNCHANGED <<made, up>>
      BY <1>2, <1>3, <2>1, <2>2, GotoKeeps, PlainEffects DEF OthersKeep, Reading, Hydrating, Looking
    <2>3. CASE /\ Goto(t, "look_id") /\ made' = [made EXCEPT ![r] = @ + 1]
               /\ up' = [up EXCEPT ![r] = "halted"]
      <3>1. up'[r] = "halted"
        BY <2>3 DEF TypeOK, DockerType
      <3> QED BY <1>2, <1>3, <2>1, <2>3, <3>1, GotoKeeps
          DEF OthersKeep, Effects, Uploads, Hydrates, Reads, Chooses, Counts, Elsewhere, At,
              Reading, Looking, Hydrating
    <2> QED BY <1>1, <1>6, <2>2, <2>3 DEF Create
  <1>7. CASE Extract(t)
    <2>1. /\ At(t, "extract") /\ held[pick[t]] = None /\ Goto(t, "launch")
          /\ UNCHANGED <<row, made, up>>
      BY <1>7 DEF Extract
    <2>2. vol' = IF HasDB(s3[pick[t]]) THEN [vol EXCEPT ![r] = s3[pick[t]]] ELSE vol
      BY <1>1, <1>7 DEF Extract
    <2>3. pick[t] \in Object
      BY <2>1 DEF TypeOK, ChosenType, At
    <2> QED BY <1>2, <1>3, <2>1, <2>2, <2>3, GotoKeeps
        DEF OthersKeep, Effects, Uploads, Hydrates, Reads, Chooses, Counts, Elsewhere, At,
            Reading, Looking, Hydrating
  <1>8. CASE Launch(t)
    <2>1. At(t, "launch") /\ UNCHANGED <<row, made, vol>> /\ up'[r] \in {"running", "none"}
      BY <1>1, <1>8 DEF Launch, TypeOK, DockerType
    <2>2. \E l \in {"run_record", "fail"} : Goto(t, l)
      BY <1>8 DEF Launch
    <2> QED BY <1>2, <1>3, <2>1, <2>2, GotoKeeps
        DEF OthersKeep, Effects, Uploads, Hydrates, Reads, Chooses, Counts, Elsewhere, At,
            Reading, Looking, Hydrating
  <1>9. CASE RunRecord(t)
    BY <1>1, <1>2, <1>3, <1>9, GotoKeeps
    DEF RunRecord, docker, OthersKeep, Effects, Uploads, Hydrates, Reads, Chooses, Counts,
        Elsewhere, At, Reading, Looking, Hydrating
  <1>10. CASE Fail(t)
    <2>1. UNCHANGED <<vol, made, up>> /\ row'[r] \in {row[r], 0} /\ Goto(t, "done")
      BY <1>1, <1>10 DEF Fail, docker, TypeOK, StoreType
    <2> QED BY <1>2, <1>3, <2>1, GotoKeeps, PlainEffects DEF OthersKeep, Reading, Hydrating, Looking
  <1> QED BY <1>4, <1>5, <1>6, <1>7, <1>8, <1>9, <1>10

LEMMA StepEffects ==
    ASSUME "s3" \notin Faults, TypeOK, NEW t \in Task, NEW r \in Router, Router = {r},
           r \notin spoiled', Step(t) \/ \E q \in Router, k \in Kinds : Begin(t, q, k)
    PROVE  Effects(t, r)
  BY BeginEffects, LockEffects, SnapshotEffects, StopEffects, LookEffects, StartEffects DEF Step
-----------------------------------------------------------------------------
(* The invariant of a router alone in its namespace.  Its own object is    *)
(* the latest; an archive on its way is between object and volume; a       *)
(* container that is being hydrated is known to no operation, so that none *)
(* can read it; who looks for a database elsewhere finds that of the       *)
(* router's own object or none; and a volume that is behind its object has *)
(* no running container, and none that an operation knows.                 *)

Latest(r)   == \A o \in Object : s3[o].ver <= s3[r].ver
Between(r)  == \A t \in Task : pc[t] \in Reading =>
                  s3[r].ver <= buf[t].ver /\ buf[t].ver <= vol[r].ver
Known(r)    == \A t \in Task : cid[t] <= made[r]
Hidden(r)   == \A t \in Task : pc[t] \in Hydrating => Unseen(r)
Same(r)     == \A t \in Task : Elsewhere(t, r) /\ s3[r].ver > 0 =>
                  /\ \A u \in Task : pc[u] \notin Reading
                  /\ \A o \in Object : s3[o].ver \in {0, s3[r].ver}
Behind(r)   == vol[r].ver < s3[r].ver
NotServed(r) == Behind(r) =>
                  /\ up[r] # "running" /\ (up[r] = "halted" => Unseen(r))
                  /\ \A t \in Task : ~Elsewhere(t, r) /\ pc[t] \notin {"launch", "run_record"}

BackInv(r) == Latest(r) /\ Between(r) /\ Known(r) /\ Hidden(r) /\ Same(r) /\ NotServed(r)

LEMMA Versions ==
    ASSUME TypeOK, NEW r \in Router
    PROVE  /\ vol[r].ver \in Nat /\ made[r] \in Nat /\ row[r] \in Nat /\ row[r] <= made[r]
           /\ \A o \in Object : s3[o].ver \in Nat
           /\ \A t \in Task : buf[t].ver \in Nat /\ cid[t] \in Nat
  BY SnapshotsAssumption DEF TypeOK, DockerType, StoreType, TaskType, ChosenType, Content

LEMMA LatestStep ==
    ASSUME TypeOK, NEW t \in Task, NEW r \in Router, Effects(t, r), BackInv(r)
    PROVE  Latest(r)'
  <1>1. r \in Object /\ s3 \in [Object -> Content]
    BY ObjectType DEF TypeOK, StoreType
  <1>2. CASE s3' = s3
    BY <1>2 DEF BackInv, Latest
  <1>3. CASE At(t, "snap_put") /\ s3' = [s3 EXCEPT ![r] = buf[t]]
    <2>1. s3[r].ver <= buf[t].ver /\ s3'[r] = buf[t]
      BY <1>1, <1>3 DEF BackInv, Between, At, Reading
    <2>2. ASSUME NEW o \in Object PROVE s3'[o].ver <= s3'[r].ver
      <3>1. s3'[o] = s3[o] \/ s3'[o] = buf[t]
        BY <1>1, <1>3
      <3> QED BY <1>1, <2>1, <3>1, Versions DEF BackInv, Latest
    <2> QED BY <2>2 DEF Latest
  <1>4. ASSUME NEW c \in Object \ {r}, s3' = [s3 EXCEPT ![c] = s3[r]]
        PROVE  Latest(r)'
    <2>1. ASSUME NEW o \in Object PROVE s3'[o].ver <= s3'[r].ver
      <3>1. s3'[r] = s3[r] /\ (s3'[o] = s3[o] \/ s3'[o] = s3[r])
        BY <1>1, <1>4
      <3> QED BY <3>1, <1>1, Versions DEF BackInv, Latest
    <2> QED BY <2>1 DEF Latest
  <1> QED BY <1>2, <1>3, <1>4 DEF Effects, Uploads

\* What t extracts from elsewhere than the router's own object while that has a
\* database is the same version.
LEMMA ExtractsSame ==
    ASSUME TypeOK, NEW t \in Task, NEW r \in Router, BackInv(r),
           At(t, "extract"), pick[t] \in Object, HasDB(s3[pick[t]])
    PROVE  /\ s3[pick[t]].ver = s3[r].ver
           /\ pick[t] # r => \A u \in Task : pc[u] \notin Reading
  <1>1. /\ s3[pick[t]].ver <= s3[r].ver /\ s3[pick[t]].ver > 0
        /\ s3[r].ver \in Nat /\ s3[pick[t]].ver \in Nat
    BY Versions, ObjectType DEF BackInv, Latest, HasDB
  <1>2. CASE pick[t] # r
    <2>1. Elsewhere(t, r) /\ s3[r].ver > 0
      BY <1>1, <1>2 DEF Elsewhere
    <2> QED BY <1>1, <2>1 DEF BackInv, Same
  <1> QED BY <1>1, <1>2

LEMMA BetweenStep ==
    ASSUME TypeOK, HeldInv, NEW t \in Task, NEW r \in Router, Router = {r}, Effects(t, r),
           BackInv(r)
    PROVE  Between(r)'
  <1> SUFFICES ASSUME NEW u \in Task, pc'[u] \in Reading
               PROVE  s3'[r].ver <= buf'[u].ver /\ buf'[u].ver <= vol'[r].ver
    BY DEF Between
  <1>0. r \in Object /\ s3 \in [Object -> Content] /\ vol \in [Router -> Content]
    BY ObjectType DEF TypeOK, StoreType, DockerType
  <1>1. CASE u = t
    <2>1. s3' = s3 /\ vol' = vol
      BY <1>1 DEF Effects, Reads
    <2>2. CASE pc[t] \in Reading /\ buf'[t] = buf[t]
      BY <1>1, <2>1, <2>2 DEF BackInv, Between
    <2>3. CASE buf'[t] = vol[r] /\ cid[t] = made[r] /\ up[r] # "none"
      <3>1. ~Unseen(r)
        BY <2>3, Versions DEF Unseen
      <3>2. ~Behind(r)
        BY <2>3, <3>1 DEF BackInv, NotServed, TypeOK, DockerType
      <3> QED BY <1>0, <1>1, <2>1, <2>3, <3>2, Versions DEF Behind
    <2> QED BY <1>1, <2>2, <2>3 DEF Effects, Reads
  <1>2. CASE u # t
    <2>1. pc[u] \in Reading /\ buf'[u] = buf[u]
      BY <1>2 DEF Effects, OthersKeep
    <2>2. s3[r].ver <= buf[u].ver /\ buf[u].ver <= vol[r].ver
      BY <2>1 DEF BackInv, Between
    <2>3. pc[u] \in KeyPoints /\ rtr[u] = r
      BY <2>1 DEF Reading, KeyPoints, TypeOK, TaskType
    <2>4. s3'[r] = s3[r]
      <3>1. ~At(t, "snap_put")
        <4>1. SUFFICES ASSUME At(t, "snap_put") PROVE FALSE
          OBVIOUS
        <4>2. pc[t] \in KeyPoints /\ rtr[t] = r
          BY <4>1 DEF At, KeyPoints, TypeOK, TaskType
        <4> QED BY <1>2, <2>3, <4>2, OneSnapshot
      <3> QED BY <1>0, <3>1 DEF Effects, Uploads
    <2>5. vol' = vol
      <3>1. SUFFICES ASSUME At(t, "extract"), held[pick[t]] = None, pick[t] \in Object,
                            HasDB(s3[pick[t]])
                     PROVE  FALSE
        BY DEF Effects, Hydrates
      <3>2. held[r] = u
        BY <2>3 DEF HeldInv
      <3>3. pick[t] # r
        BY <3>1, <3>2, SnapshotsAssumption
      <3> QED BY <2>1, <3>1, <3>3, ExtractsSame
    <2> QED BY <2>1, <2>2, <2>4, <2>5
  <1> QED BY <1>1, <1>2

\* A new container is unseen, and one that is stays so.
LEMMA UnseenStep ==
    ASSUME TypeOK, NEW t \in Task, NEW r \in Router, Effects(t, r), BackInv(r),
           \/ At(t, "create") /\ made' = [made EXCEPT ![r] = @ + 1] /\ row' = row
           \/ made' = made /\ row'[r] \in {row[r], 0} /\ Unseen(r)
    PROVE  Unseen(r)'
  <1>1. \A u \in Task : cid'[u] \in {cid[u], 0, row[r]}
    BY DEF Effects, Counts, OthersKeep
  <1>2. CASE made' = [made EXCEPT ![r] = @ + 1] /\ row' = row
    <2>1. made'[r] = made[r] + 1
      BY <1>2 DEF TypeOK, DockerType
    <2>2. \A u \in Task : cid[u] <= made[r]
      BY DEF BackInv, Known
    <2> QED BY <1>1, <1>2, <2>1, <2>2, Versions DEF Unseen
  <1>3. CASE made' = made /\ row'[r] \in {row[r], 0} /\ Unseen(r)
    BY <1>1, <1>3, Versions DEF Unseen
  <1> QED BY <1>2, <1>3

LEMMA KnownStep ==
    ASSUME TypeOK, NEW t \in Task, NEW r \in Router, Effects(t, r), BackInv(r)
    PROVE  Known(r)'
  <1>1. \A u \in Task : cid'[u] \in {cid[u], 0, row[r]}
    BY DEF Effects, Counts, OthersKeep
  <1>2. made'[r] \in {made[r], made[r] + 1}
    BY DEF Effects, Counts, TypeOK, DockerType
  <1>3. \A u \in Task : cid[u] <= made[r]
    BY DEF BackInv, Known
  <1> QED BY <1>1, <1>2, <1>3, Versions DEF Known

LEMMA HiddenStep ==
    ASSUME TypeOK, MineInv, NEW t \in Task, NEW r \in Router, Router = {r}, Effects(t, r),
           BackInv(r)
    PROVE  Hidden(r)'
  <1> SUFFICES ASSUME NEW u \in Task, pc'[u] \in Hydrating PROVE Unseen(r)'
    BY DEF Hidden
  <1>1. CASE At(t, "create") /\ made' = [made EXCEPT ![r] = @ + 1] /\ row' = row
    BY <1>1, UnseenStep
  <1>2. CASE /\ made' = made /\ row'[r] \in {row[r], 0}
             /\ pc'[t] \in Hydrating => pc[t] \in Hydrating
    <2>1. pc[u] \in Hydrating
      BY <1>2 DEF Effects, OthersKeep
    <2> QED BY <1>2, <2>1, UnseenStep DEF BackInv, Hidden
  <1>3. ~(pc[t] \in {"inspect", "run_record"} /\ pc'[t] \notin Hydrating)
    <2> SUFFICES ASSUME pc[t] \in {"inspect", "run_record"}, pc'[t] \notin Hydrating
                 PROVE  FALSE
      OBVIOUS
    <2>1. u # t /\ pc[u] \in Hydrating
      BY DEF Effects, OthersKeep
    <2>2. Owner(t) /\ Owner(u)
      BY <2>1 DEF MineInv, Owner, Locked, LockPoints, Hydrating, Looking
    <2>3. rtr[t] = r /\ rtr[u] = r
      BY <2>1 DEF TypeOK, TaskType, Hydrating, Looking
    <2> QED BY <2>1, <2>2, <2>3 DEF MineInv
  <1> QED BY <1>1, <1>2, <1>3 DEF Effects, Counts, At

LEMMA SameStep ==
    ASSUME TypeOK, HeldInv, NEW t \in Task, NEW r \in Router, Router = {r}, Effects(t, r),
           BackInv(r)
    PROVE  Same(r)'
  <1> SUFFICES ASSUME NEW u \in Task, Elsewhere(u, r)', s3'[r].ver > 0
               PROVE  /\ \A w \in Task : pc'[w] \notin Reading
                      /\ \A o \in Object : s3'[o].ver \in {0, s3'[r].ver}
    BY DEF Same
  <1>0. r \in Object /\ s3 \in [Object -> Content]
    BY ObjectType DEF TypeOK, StoreType
  <1>1. u # t => Elsewhere(u, r)
    BY DEF Effects, OthersKeep, Elsewhere, At
  <1>2. Elsewhere(u, r)
    <2>1. u = t => Elsewhere(t, r) \/ s3[r].ver = 0
      BY DEF Effects, Chooses
    <2>2. u = t => s3' = s3
      BY DEF Effects, Chooses
    <2> QED BY <1>1, <2>1, <2>2
  <1>3. Unseen(r)
    BY <1>2 DEF Elsewhere, At, BackInv, Hidden, Hydrating
  <1>4. CASE s3[r].ver > 0
    <2>1. /\ \A w \in Task : pc[w] \notin Reading
          /\ \A o \in Object : s3[o].ver \in {0, s3[r].ver}
      BY <1>2, <1>4 DEF BackInv, Same
    <2>2. pc'[t] \notin Reading
      BY <1>3, <2>1, Versions DEF Effects, Reads, Unseen
    <2>3. \A w \in Task : pc'[w] \notin Reading
      BY <2>1, <2>2 DEF Effects, OthersKeep
    <2>4. ~At(t, "snap_put")
      BY <2>1 DEF At, Reading
    <2>5. s3'[r] = s3[r] /\ \A o \in Object : s3'[o] = s3[o] \/ s3'[o] = s3[r]
      BY <1>0, <2>4 DEF Effects, Uploads
    <2> QED BY <2>1, <2>3, <2>5
  <1>5. CASE s3[r].ver = 0
    <2>1. \A o \in Object : s3[o].ver = 0
      BY <1>5, Versions DEF BackInv, Latest
    <2>2. /\ At(t, "snap_put") /\ s3' = [s3 EXCEPT ![r] = buf[t]]
          /\ pc'[t] \notin Reading \union Hydrating
      BY <1>0, <1>5, <2>1 DEF Effects, Uploads
    <2>3. \A o \in Object : s3'[o].ver \in {0, s3'[r].ver}
      BY <1>0, <2>1, <2>2
    <2>4. ASSUME NEW w \in Task PROVE pc'[w] \notin Reading
      <3>1. SUFFICES ASSUME w # t, pc[w] \in Reading PROVE FALSE
        BY <2>2 DEF Effects, OthersKeep
      <3>2. pc[w] \in KeyPoints /\ pc[t] \in KeyPoints /\ rtr[w] = r /\ rtr[t] = r
        BY <2>2, <3>1 DEF Reading, KeyPoints, At, TypeOK, TaskType
      <3> QED BY <3>1, <3>2, OneSnapshot
    <2> QED BY <2>3, <2>4
  <1> QED BY <1>0, <1>4, <1>5, Versions

LEMMA BehindStays ==
    ASSUME TypeOK, NEW t \in Task, NEW r \in Router, Effects(t, r), BackInv(r), Behind(r)'
    PROVE  Behind(r) /\ s3'[r] = s3[r] /\ vol' = vol
  <1>0. r \in Object /\ s3 \in [Object -> Content] /\ vol \in [Router -> Content]
    BY ObjectType DEF TypeOK, StoreType, DockerType
  <1>1. vol' = vol
    <2>1. SUFFICES ASSUME At(t, "extract"), pick[t] \in Object, HasDB(s3[pick[t]]),
                          vol' = [vol EXCEPT ![r] = s3[pick[t]]], s3' = s3
                   PROVE  FALSE
      BY DEF Effects, Hydrates
    <2>2. vol'[r].ver = s3[r].ver
      BY <1>0, <2>1, ExtractsSame
    <2> QED BY <2>1, <2>2, <1>0, Versions DEF Behind
  <1>2. s3'[r] = s3[r]
    <2>1. CASE At(t, "snap_put") /\ s3' = [s3 EXCEPT ![r] = buf[t]]
      <3>1. s3'[r].ver = buf[t].ver /\ buf[t].ver <= vol[r].ver
        BY <1>0, <2>1 DEF BackInv, Between, At, Reading
      <3> QED BY <1>1, <3>1, Versions DEF Behind
    <2> QED BY <1>0, <2>1 DEF Effects, Uploads
  <1> QED BY <1>1, <1>2 DEF Behind

LEMMA NotServedStep ==
    ASSUME TypeOK, NEW t \in Task, NEW r \in Router, Effects(t, r), BackInv(r)
    PROVE  NotServed(r)'
  <1> SUFFICES ASSUME Behind(r)'
               PROVE  /\ up'[r] # "running" /\ (up'[r] = "halted" => Unseen(r)')
                      /\ \A u \in Task : ~Elsewhere(u, r)' /\ pc'[u] \notin {"launch", "run_record"}
    BY DEF NotServed
  <1>1. Behind(r) /\ s3'[r] = s3[r] /\ vol' = vol
    BY BehindStays
  <1>2. /\ up[r] # "running" /\ (up[r] = "halted" => Unseen(r))
        /\ \A u \in Task : ~Elsewhere(u, r) /\ pc[u] \notin {"launch", "run_record"}
    BY <1>1 DEF BackInv, NotServed
  <1>3. s3[r].ver > 0 /\ s3[r].ver \in Nat /\ vol[r].ver \in Nat
    BY <1>1, Versions, ObjectType DEF Behind
  <1>4. up'[r] # "running"
    BY <1>2 DEF Effects, Counts, At
  <1>5. up'[r] = "halted" => Unseen(r)'
    BY <1>2, UnseenStep DEF Effects, Counts, At
  <1>6. ~Elsewhere(t, r)'
    BY <1>2, <1>3 DEF Effects, Chooses
  <1>7. pc'[t] # "run_record"
    BY <1>2 DEF Effects, Chooses, At
  <1>8. pc'[t] # "launch"
    <2>1. SUFFICES ASSUME pc'[t] = "launch" PROVE FALSE
      OBVIOUS
    <2>2. ~At(t, "search") /\ (At(t, "extract") => pick[t] = r)
      BY <1>2 DEF Elsewhere, Looking, At
    <2>3. vol' = [vol EXCEPT ![r] = s3[r]]
      BY <1>3, <2>1, <2>2 DEF Effects, Chooses, HasDB
    <2>4. vol'[r].ver = s3[r].ver
      BY <2>3 DEF TypeOK, DockerType
    <2> QED BY <1>1, <1>3, <2>4 DEF Behind
  <1>9. \A u \in Task \ {t} : ~Elsewhere(u, r)' /\ pc'[u] \notin {"launch", "run_record"}
    BY <1>2 DEF Effects, OthersKeep, Elsewhere, At
  <1> QED BY <1>4, <1>5, <1>6, <1>7, <1>8, <1>9

-----------------------------------------------------------------------------
(* The router, its host, and the two theorems *)

\* A router is spoiled for good.
LEMMA Spoils == [Next]_vars => spoiled \subseteq spoiled'
  BY DEF Next, vars, Begin, Step, Lock, TryLock, Snapshot, SnapLock, SnapRead, SnapCheck, SnapPut,
     CopySlug, CopyAdapter, Remove, Record, Purge, Inspect, Clean, Create, LookUp, Look, Search,
     Extract, Launch, RunRecord, Fail, Write, ContainerDies, HostLost

LEMMA InitBack == ASSUME Init, NEW r \in Router PROVE BackInv(r)
  <1>1. r \in Object
    BY ObjectType
  <1> QED BY <1>1 DEF Init, BackInv, Latest, Between, Known, Hidden, Same, NotServed, Behind,
      Elsewhere, At, Reading, Hydrating, Looking, Nothing, Fresh

LEMMA WorldBack ==
    ASSUME TypeOK, NEW r \in Router, BackInv(r),
           \/ UNCHANGED vars \/ HostLost \/ \E q \in Router : Write(q) \/ ContainerDies(q)
    PROVE  BackInv(r)'
  <1>1. CASE UNCHANGED vars
    BY <1>1 DEF vars, docker, locals, chosen, BackInv, Latest, Between, Known, Hidden, Same,
       NotServed, Behind, Elsewhere, Unseen, At
  <1>2. CASE HostLost
    <2>1. /\ \A t \in Task : pc'[t] \in {"unused", "done"} /\ cid'[t] = 0
          /\ up'[r] = "none" /\ s3' = s3 /\ made' = made
      BY <1>2 DEF HostLost
    <2> QED BY <2>1, Versions DEF BackInv, Latest, Between, Known, Hidden, Same,
       NotServed, Behind, Elsewhere, Unseen, At, Reading, Hydrating, Looking
  <1>3. ASSUME NEW q \in Router, Write(q) PROVE BackInv(r)'
    <2>1. UNCHANGED <<row, made, up, s3, pc, cid, pick, buf>> /\ up[q] = "running"
      BY <1>3 DEF Write, locals, chosen
    <2>2. vol'[r].ver \in Nat /\ vol'[r].ver >= vol[r].ver
      BY <1>3 DEF Write, TypeOK, DockerType, Content
    <2> QED BY <2>1, <2>2, Versions, ObjectType DEF BackInv, Latest, Between, Known, Hidden, Same,
       NotServed, Behind, Elsewhere, Unseen, At
  <1>4. ASSUME NEW q \in Router, ContainerDies(q) PROVE BackInv(r)'
    <2>1. UNCHANGED <<row, made, vol, s3, pc, cid, pick, buf>>
      BY <1>4 DEF ContainerDies, locals, chosen
    <2>2. up[r] # "running" => up'[r] = up[r]
      BY <1>4 DEF ContainerDies, TypeOK, DockerType
    <2>3. Behind(r)' => Behind(r)
      BY <2>1 DEF Behind
    <2> QED BY <2>1, <2>2, <2>3 DEF BackInv, Latest, Between, Known, Hidden, Same,
       NotServed, Elsewhere, Unseen, At
  <1> QED BY <1>1, <1>2, <1>3, <1>4

LEMMA BackStep ==
    ASSUME "s3" \notin Faults, TypeOK, HeldInv, MineInv, NEW r \in Router, Router = {r},
           BackInv(r), r \notin spoiled', [Next]_vars
    PROVE  BackInv(r)' /\ s3'[r].ver >= s3[r].ver /\ s3'[Slug[r]].ver >= s3[Slug[r]].ver
  <1>0. r \in Object /\ Slug[r] \in Object /\ s3 \in [Object -> Content]
    BY ObjectType DEF TypeOK, StoreType
  <1>1. ASSUME NEW t \in Task, Step(t) \/ \E q \in Router, k \in Kinds : Begin(t, q, k)
        PROVE  BackInv(r)' /\ s3'[r].ver >= s3[r].ver /\ s3'[Slug[r]].ver >= s3[Slug[r]].ver
    <2>1. Effects(t, r)
      BY <1>1, StepEffects
    <2>2. BackInv(r)'
      BY <2>1, LatestStep, BetweenStep, KnownStep, HiddenStep, SameStep, NotServedStep
      DEF BackInv
    <2>3. s3'[r].ver >= s3[r].ver
      <3>1. At(t, "snap_put") => s3[r].ver <= buf[t].ver
        BY DEF BackInv, Between, At, Reading
      <3> QED BY <1>0, <2>1, <3>1, Versions DEF Effects, Uploads
    <2>4. s3'[Slug[r]].ver >= s3[Slug[r]].ver
      <3>1. Slug[r] # r
        BY SlugType, SnapshotsAssumption
      <3>2. s3'[Slug[r]] = s3[Slug[r]] \/ s3'[Slug[r]] = s3[r]
        BY <1>0, <2>1, <3>1 DEF Effects, Uploads
      <3> QED BY <1>0, <3>2, Versions DEF BackInv, Latest
    <2> QED BY <2>2, <2>3, <2>4
  <1>2. CASE UNCHANGED vars \/ HostLost \/ \E q \in Router : Write(q) \/ ContainerDies(q)
    <2>1. s3' = s3
      BY <1>2 DEF vars, HostLost, Write, ContainerDies
    <2> QED BY <1>0, <1>2, <2>1, WorldBack, Versions
  <1> QED BY <1>1, <1>2 DEF Next

\* The router is alone in its namespace.
Single == \E r \in Router : Router = {r}

BackedUp == \A r \in Router \ spoiled : BackInv(r)

LEMMA NotBehind == TypeOK /\ BackedUp => RunningNotBehind
  BY Versions, ObjectType DEF RunningNotBehind, BackedUp, BackInv, NotServed, Behind

Onward == \A r \in Router \ spoiled' :
             s3'[r].ver >= s3[r].ver /\ s3'[Slug[r]].ver >= s3[Slug[r]].ver

LEMMA BackedUpStep ==
    ASSUME "s3" \notin Faults, Single, TypeOK, HeldInv, MineInv, BackedUp, [Next]_vars
    PROVE  BackedUp' /\ Onward
  BY BackStep, Spoils DEF Single, BackedUp, Onward

\* What was backed up comes back: while S3 answers, a router alone in its
\* namespace whose container runs has at least the data of its snapshot, whatever
\* operations overlap, whenever the container dies or the host is lost.
THEOREM RunningNotBehindHolds ==
    Single /\ "s3" \notin Faults /\ Spec => []RunningNotBehind
  <1> SUFFICES ASSUME Single, "s3" \notin Faults PROVE Spec => []RunningNotBehind
    OBVIOUS
  <1>1. Init => HeldInv /\ BackedUp
    BY InitBack DEF BackedUp, Init, HeldInv, KeyPoints
  <1>2. TypeOK /\ HeldInv /\ MineInv /\ BackedUp /\ [Next]_vars => BackedUp'
    BY BackedUpStep
  <1>3. TypeOK /\ BackedUp => RunningNotBehind
    BY NotBehind
  <1> QED BY <1>1, <1>2, <1>3, InitMine, MineStep, UseInit, UseStep, HeldStep,
      SnapshotsTypeCorrect, PTL DEF Spec

\* Nor does a snapshot of such a router, or the copy of one under its slug, ever
\* replace a later one.
THEOREM BackupNeverOlderHolds ==
    Single /\ "s3" \notin Faults /\ Spec => BackupNeverOlder
  <1> SUFFICES ASSUME Single, "s3" \notin Faults PROVE Spec => BackupNeverOlder
    OBVIOUS
  <1>1. Init => HeldInv /\ BackedUp
    BY InitBack DEF BackedUp, Init, HeldInv, KeyPoints
  <1>2. TypeOK /\ HeldInv /\ MineInv /\ BackedUp /\ [Next]_vars => BackedUp' /\ Onward
    BY BackedUpStep
  <1>3. BackupNeverOlder <=> [][Onward]_vars
    BY DEF BackupNeverOlder, Onward
  <1> QED BY <1>1, <1>2, <1>3, InitMine, MineStep, UseInit, UseStep, HeldStep,
      SnapshotsTypeCorrect, PTL DEF Spec

=============================================================================
