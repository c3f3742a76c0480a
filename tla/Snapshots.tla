------------------------------ MODULE Snapshots ------------------------------
(***************************************************************************)
(* The data of a router: the volume its containers write, and the          *)
(* snapshots of it in S3 that a stop makes and a start puts back.          *)
(*                                                                         *)
(* A volume and an object hold a version of a router's database: how many  *)
(* times it has been written, 0 when there is no database in it.  Every    *)
(* snapshot is stored under the router's id and copied under its slug and  *)
(* its adapter's name; a start looks at the three and, when none has a     *)
(* database, takes any object that has one.                                *)
(*                                                                         *)
(* A task is one operation: it has read the container id of the row, and   *)
(* waits for the mutex of the router and for those of the S3 keys.         *)
(* RouterLifecycle has the rest of these operations: here a container is   *)
(* its number among those made for its router.                             *)
(***************************************************************************)
EXTENDS Naturals, FiniteSets, Functions

CONSTANTS
    Router,      \* routers, named by their id
    Name,        \* slugs and adapters
    Slug,        \* the slug of a router
    Adapter,     \* the adapter of a router
    Task,        \* operations
    None,        \* no router, task or object
    Kinds,       \* the operations of this instance
    Faults,      \* the services whose calls may fail
    Losses,      \* whether the host, its containers and volumes, may be lost
    MaxVersion   \* bound on the writes to a database

ASSUME SnapshotsAssumption ==
    /\ None \notin Router \union Task \union Name
    /\ Router \intersect Name = {}
    /\ Slug \in Injection(Router, Name)
    /\ Adapter \in [Router -> Name]
    /\ Kinds \subseteq {"start", "stop", "restart", "wipe", "restore",
                        "sync", "sweep"}
    /\ Faults \subseteq {"docker", "s3"}
    /\ Losses \in BOOLEAN
    /\ MaxVersion \in Nat

VARIABLES
    row,      \* the container id in the router's row, 0 for none
    made,     \* the number of containers made for a router: the id of the last
    up,       \* that container: none, halted (it can be read) or running
    vol,      \* the content of the router's named volume
    s3,       \* the objects
    lock,     \* routerLocks
    held,     \* keyLocks
    pc,       \* the next step of a task
    kind,     \* its operation
    rtr,      \* its router
    cid,      \* the container id in its copy of the row
    pick,     \* the object chosen so far to hydrate from
    buf,      \* the archive read from the container
    spoiled   \* history: routers wiped, or started without their snapshot

docker == <<made, up, vol>>
locals == <<kind, rtr, cid>>
chosen == <<pick, buf>>
vars   == <<row, docker, s3, lock, held, pc, locals, chosen, spoiled>>

-----------------------------------------------------------------------------
(* Content *)

Object  == Router \union {Slug[r] : r \in Router} \union {Adapter[r] : r \in Router}
Content == [of : Router \union {None}, ver : 0 .. MaxVersion]
Nothing == [of |-> None, ver |-> 0]
Fresh(r) == [of |-> r, ver |-> 0]   \* an image's own files

Exists(o) == s3[o] # Nothing
HasDB(c)  == c.ver > 0

-----------------------------------------------------------------------------
(* Types *)

KeyPoints  == {"snap_read", "snap_check", "snap_put"}
SnapPoints == {"snap_lock", "copy_slug", "copy_adapter"} \union KeyPoints
LockPoints == {"inspect", "clean", "create", "look_id", "look_slug",
               "look_adapter", "search", "extract", "launch", "run_record", "fail"}
Points     == {"unused", "try_lock", "lock", "remove", "record", "purge", "done"}
              \union SnapPoints \union LockPoints

DockerType == /\ made \in [Router -> Nat]
              /\ up \in [Router -> {"none", "halted", "running"}]
              /\ vol \in [Router -> Content]
StoreType  == /\ row \in [Router -> Nat]
              /\ \A r \in Router : row[r] <= made[r]
              /\ s3 \in [Object -> Content]
              /\ spoiled \subseteq Router
MutexType  == /\ lock \in [Router -> Task \union {None}]
              /\ held \in [Object -> Task \union {None}]
TaskType   == /\ pc \in [Task -> Points]
              /\ kind \in [Task -> Kinds \union {"start", None}]
              /\ rtr \in [Task -> Router \union {None}]
              /\ cid \in [Task -> Nat]
              /\ \A t \in Task : pc[t] \notin {"unused", "done"} => rtr[t] \in Router
ChosenType == /\ pick \in [Task -> Object \union {None}]
              /\ buf \in [Task -> Content]
              /\ \A t \in Task : pc[t] = "extract" => pick[t] \in Object

\* Every variable holds a value of the type the code gives it; a recorded
\* container has been made, an operation under way has a router, and what is
\* extracted has been chosen.
TypeOK == DockerType /\ StoreType /\ MutexType /\ TaskType /\ ChosenType

\* Every router has been started once, and nothing has been backed up.
Init ==
    /\ row = [r \in Router |-> 1]
    /\ made = [r \in Router |-> 1]
    /\ up = [r \in Router |-> "running"]
    /\ vol = [r \in Router |-> Fresh(r)]
    /\ s3 = [o \in Object |-> Nothing]
    /\ lock = [r \in Router |-> None]
    /\ held = [o \in Object |-> None]
    /\ pc = [t \in Task |-> "unused"]
    /\ kind = [t \in Task |-> None]
    /\ rtr = [t \in Task |-> None]
    /\ cid = [t \in Task |-> 0]
    /\ pick = [t \in Task |-> None]
    /\ buf = [t \in Task |-> Nothing]
    /\ spoiled = {}

-----------------------------------------------------------------------------
(* Steps of a task *)

At(t, l)   == pc[t] = l

\* Move to point l; nothing is left of an operation that has ended.
Goto(t, l) ==
    /\ pc' = [pc EXCEPT ![t] = l]
    /\ IF l = "done" THEN /\ kind' = [kind EXCEPT ![t] = None]
                          /\ rtr' = [rtr EXCEPT ![t] = None]
                          /\ cid' = [cid EXCEPT ![t] = 0]
       ELSE UNCHANGED locals

\* The stop is over; what follows no longer needs the container of the copy.
Proceed(t, k, l) ==
    /\ pc' = [pc EXCEPT ![t] = l]
    /\ kind' = [kind EXCEPT ![t] = k]
    /\ cid' = [cid EXCEPT ![t] = 0]
    /\ UNCHANGED rtr

Unlock(t)  == lock' = [lock EXCEPT ![rtr[t]] = None]

\* The request arrives: a handler, the boot or the shutdown sweep reads the row.
Begin(t, r, k) ==
    /\ At(t, "unused") /\ k \in Kinds
    /\ k \in {"sync", "sweep"} => row[r] # 0
    /\ rtr' = [rtr EXCEPT ![t] = r]
    /\ IF k = "start" \/ (k = "restore" /\ row[r] = 0)
       THEN /\ pc' = [pc EXCEPT ![t] = "try_lock"]
            /\ kind' = [kind EXCEPT ![t] = "start"]
            /\ UNCHANGED cid
       ELSE /\ pc' = [pc EXCEPT ![t] = IF k \in {"sync", "sweep"} THEN "snap_lock"
                                       ELSE "lock"]
            /\ kind' = [kind EXCEPT ![t] = k]
            /\ cid' = [cid EXCEPT ![t] = row[r]]
    /\ UNCHANGED <<row, docker, s3, lock, held, chosen, spoiled>>

Lock(t) ==
    /\ At(t, "lock") /\ lock[rtr[t]] = None
    /\ lock' = [lock EXCEPT ![rtr[t]] = t]
    /\ Goto(t, IF kind[t] = "restore" \/ cid[t] = 0 THEN "remove" ELSE "snap_lock")
    /\ UNCHANGED <<row, docker, s3, held, chosen, spoiled>>

TryLock(t) ==
    /\ At(t, "try_lock")
    /\ \/ /\ lock[rtr[t]] = None
          /\ lock' = [lock EXCEPT ![rtr[t]] = t]
          /\ Goto(t, "inspect")
       \/ /\ lock[rtr[t]] # None
          /\ Goto(t, "done")
          /\ UNCHANGED lock
    /\ UNCHANGED <<row, docker, s3, held, chosen, spoiled>>

-----------------------------------------------------------------------------
(* Snapshot *)

AfterSnapshot(t) == IF kind[t] = "sync" THEN "done" ELSE "remove"

\* (mutant) The key has no mutex.
SnapLockFree(t) ==
    /\ At(t, "snap_lock")
    /\ held' = [held EXCEPT ![rtr[t]] = t]
    /\ Goto(t, "snap_read")
    /\ UNCHANGED <<row, docker, s3, lock, chosen, spoiled>>

\* The read of the container, the guard and the upload are under the key's mutex.
SnapLock(t) ==
    /\ At(t, "snap_lock") /\ held[rtr[t]] = None
    /\ held' = [held EXCEPT ![rtr[t]] = t]
    /\ Goto(t, "snap_read")
    /\ UNCHANGED <<row, docker, s3, lock, chosen, spoiled>>

ReleaseKey(t) == held' = [held EXCEPT ![rtr[t]] = None]

\* (mutant) A failed read keeps the mutex.
SnapReadLeak(t) ==
    /\ At(t, "snap_read")
    /\ LET r == rtr[t] IN
       IF cid[t] = made[r] /\ up[r] # "none"
       THEN buf' = [buf EXCEPT ![t] = vol[r]] /\ Goto(t, "snap_check")
       ELSE Goto(t, AfterSnapshot(t)) /\ UNCHANGED buf
    /\ UNCHANGED <<row, docker, s3, lock, held, pick, spoiled>>

\* A container that is gone cannot be read.
SnapRead(t) ==
    /\ At(t, "snap_read")
    /\ LET r == rtr[t] IN
       \/ /\ cid[t] = made[r] /\ up[r] # "none"
          /\ buf' = [buf EXCEPT ![t] = vol[r]]
          /\ Goto(t, "snap_check")
          /\ UNCHANGED held
       \/ /\ cid[t] # made[r] \/ up[r] = "none" \/ "docker" \in Faults
          /\ ReleaseKey(t)
          /\ Goto(t, AfterSnapshot(t))
          /\ UNCHANGED buf
    /\ UNCHANGED <<row, docker, s3, lock, pick, spoiled>>

\* (mutant) There is no guard.
SnapUnguarded(t) ==
    /\ At(t, "snap_check")
    /\ Goto(t, "snap_put")
    /\ UNCHANGED <<row, docker, s3, lock, held, chosen, spoiled>>

\* The safety guard: an archive without a database does not replace an object
\* with one.  A failed inspection passes for an object without.
SnapCheck(t) ==
    /\ At(t, "snap_check")
    /\ \/ /\ ~HasDB(buf[t]) /\ HasDB(s3[rtr[t]])
          /\ ReleaseKey(t)
          /\ buf' = [buf EXCEPT ![t] = Nothing]
          /\ Goto(t, "copy_slug")
       \/ /\ HasDB(buf[t]) \/ ~HasDB(s3[rtr[t]]) \/ "s3" \in Faults
          /\ Goto(t, "snap_put")
          /\ UNCHANGED <<held, buf>>
    /\ UNCHANGED <<row, docker, s3, lock, pick, spoiled>>

SnapPut(t) ==
    /\ At(t, "snap_put")
    /\ \/ /\ s3' = [s3 EXCEPT ![rtr[t]] = buf[t]]
          /\ Goto(t, "copy_slug")
       \/ /\ "s3" \in Faults
          /\ Goto(t, AfterSnapshot(t))
          /\ UNCHANGED s3
    /\ ReleaseKey(t)
    /\ buf' = [buf EXCEPT ![t] = Nothing]
    /\ UNCHANGED <<row, docker, lock, pick, spoiled>>

\* Server-side copies of what the id's object holds by now, without the mutex of
\* either key and without the guard; their errors are ignored.
Copied(r, o) == \/ s3' = IF Exists(r) THEN [s3 EXCEPT ![o] = s3[r]] ELSE s3
                \/ "s3" \in Faults /\ UNCHANGED s3

CopySlug(t) ==
    /\ At(t, "copy_slug")
    /\ Copied(rtr[t], Slug[rtr[t]])
    /\ Goto(t, IF Adapter[rtr[t]] = Slug[rtr[t]] THEN AfterSnapshot(t)
               ELSE "copy_adapter")
    /\ UNCHANGED <<row, docker, lock, held, chosen, spoiled>>

CopyAdapter(t) ==
    /\ At(t, "copy_adapter")
    /\ Copied(rtr[t], Adapter[rtr[t]])
    /\ Goto(t, AfterSnapshot(t))
    /\ UNCHANGED <<row, docker, lock, held, chosen, spoiled>>

Snapshot(t) == \/ SnapLock(t) \/ SnapRead(t) \/ SnapCheck(t) \/ SnapPut(t)
               \/ CopySlug(t) \/ CopyAdapter(t)

-----------------------------------------------------------------------------
(* Stop, and what follows it *)

\* The container of the copy is removed; its volume stays.
Remove(t) ==
    /\ At(t, "remove")
    /\ \/ up' = IF cid[t] = made[rtr[t]] THEN [up EXCEPT ![rtr[t]] = "none"] ELSE up
       \/ "docker" \in Faults /\ UNCHANGED up
    /\ Goto(t, "record")
    /\ UNCHANGED <<row, made, vol, s3, lock, held, chosen, spoiled>>

\* The row loses its container id, and the mutex is released, but by a restart,
\* which keeps it, and by the shutdown sweep, which never had it.
Record(t) ==
    /\ At(t, "record")
    /\ row' = [row EXCEPT ![rtr[t]] = 0]
    /\ IF kind[t] \in {"restart", "sweep"} THEN UNCHANGED lock ELSE Unlock(t)
    /\ CASE kind[t] = "restart" -> Proceed(t, "restart", "clean")
         [] kind[t] = "wipe"    -> Proceed(t, "wipe", "purge")
         [] kind[t] = "restore" -> Proceed(t, "start", "try_lock")
         [] OTHER -> Goto(t, "done")
    /\ UNCHANGED <<docker, s3, held, chosen, spoiled>>

\* wipeRouter deletes what is under the router's id, and starts a router that is
\* meant to run.
Purge(t) ==
    /\ At(t, "purge")
    /\ \/ s3' = [s3 EXCEPT ![rtr[t]] = Nothing]
       \/ "s3" \in Faults /\ UNCHANGED s3
    /\ spoiled' = spoiled \union {rtr[t]}
    /\ Proceed(t, "start", "try_lock") \/ Goto(t, "done")
    /\ UNCHANGED <<row, docker, lock, held, chosen>>

-----------------------------------------------------------------------------
(* Start *)

\* A running container that answers is adopted as it is.
Inspect(t) ==
    /\ At(t, "inspect")
    /\ \/ /\ up[rtr[t]] = "running"
          /\ row' = [row EXCEPT ![rtr[t]] = made[rtr[t]]]
          /\ Unlock(t)
          /\ Goto(t, "done")
       \/ /\ Goto(t, "clean")
          /\ UNCHANGED <<row, lock>>
    /\ UNCHANGED <<docker, s3, held, chosen, spoiled>>

\* The old container goes, the image comes, or the start fails.
Clean(t) ==
    /\ At(t, "clean")
    /\ \/ up' = [up EXCEPT ![rtr[t]] = "none"]
       \/ "docker" \in Faults /\ UNCHANGED up
    /\ Goto(t, "create") \/ Goto(t, "fail")
    /\ UNCHANGED <<row, made, vol, s3, lock, held, chosen, spoiled>>

\* The name is cleared once more and the new container mounts the old volume.
Create(t) ==
    /\ At(t, "create")
    /\ \/ /\ made' = [made EXCEPT ![rtr[t]] = @ + 1]
          /\ up' = [up EXCEPT ![rtr[t]] = "halted"]
          /\ Goto(t, "look_id")
       \/ /\ "docker" \in Faults
          /\ Goto(t, "fail")
          /\ UNCHANGED <<made, up>>
    /\ UNCHANGED <<row, vol, s3, lock, held, chosen, spoiled>>

\* A candidate key: the first with a database ends the search, the first without
\* is remembered.
Look(t, l, o, next) ==
    /\ At(t, l)
    /\ \/ /\ HasDB(s3[o])
          /\ pick' = [pick EXCEPT ![t] = o]
          /\ Goto(t, "extract")
       \/ /\ ~HasDB(s3[o]) \/ "s3" \in Faults
          /\ \/ /\ Exists(o) /\ pick[t] = None
                /\ pick' = [pick EXCEPT ![t] = o]
             \/ /\ ~Exists(o) \/ pick[t] # None \/ "s3" \in Faults
                /\ UNCHANGED pick
          /\ Goto(t, next)
    /\ UNCHANGED <<row, docker, s3, lock, held, buf, spoiled>>

LookUp(t) ==
    \/ Look(t, "look_id", rtr[t], "look_slug")
    \/ Look(t, "look_slug", Slug[rtr[t]], "look_adapter")
    \/ Look(t, "look_adapter", Adapter[rtr[t]], "search")

Databases == {o \in Object : HasDB(s3[o])}

\* (mutant) The search goes on to extract whatever it has found.
SearchAlways(t) ==
    /\ At(t, "search")
    /\ \/ \E o \in Databases : pick' = [pick EXCEPT ![t] = o]
       \/ Databases = {} /\ UNCHANGED pick
    /\ Goto(t, "extract")
    /\ UNCHANGED <<row, docker, s3, lock, held, buf, spoiled>>

\* The largest object with a database under namespaces/, whoever's it is; failing
\* that the remembered one; failing that nothing is extracted.
Search(t) ==
    /\ At(t, "search")
    /\ \/ /\ \E o \in Databases : pick' = [pick EXCEPT ![t] = o]
          /\ Goto(t, "extract")
       \/ /\ Databases = {} \/ "s3" \in Faults
          /\ Goto(t, IF pick[t] = None THEN "launch" ELSE "extract")
          /\ UNCHANGED pick
    /\ UNCHANGED <<row, docker, s3, lock, held, buf, spoiled>>

\* (mutant) The key's mutex is not waited for.
ExtractAtOnce(t) ==
    /\ At(t, "extract")
    /\ vol' = IF HasDB(s3[pick[t]]) THEN [vol EXCEPT ![rtr[t]] = s3[pick[t]]] ELSE vol
    /\ pick' = [pick EXCEPT ![t] = None]
    /\ Goto(t, "launch")
    /\ UNCHANGED <<row, made, up, s3, lock, held, buf, spoiled>>

\* Under the key's mutex the archive is copied over the volume: its database
\* replaces the volume's, and an archive without one leaves that in place.  A
\* failure is a warning in the log.
Extract(t) ==
    /\ At(t, "extract") /\ held[pick[t]] = None
    /\ \/ /\ vol' = IF HasDB(s3[pick[t]])
                    THEN [vol EXCEPT ![rtr[t]] = s3[pick[t]]] ELSE vol
          /\ UNCHANGED spoiled
       \/ /\ Faults # {}
          /\ spoiled' = spoiled \union {rtr[t]}
          /\ UNCHANGED vol
    /\ pick' = [pick EXCEPT ![t] = None]
    /\ Goto(t, "launch")
    /\ UNCHANGED <<row, made, up, s3, lock, held, buf>>

Launch(t) ==
    /\ At(t, "launch")
    /\ \/ /\ up' = [up EXCEPT ![rtr[t]] = "running"]
          /\ Goto(t, "run_record")
       \/ /\ up' = [up EXCEPT ![rtr[t]] = "none"]
          /\ Goto(t, "fail")
    /\ UNCHANGED <<row, made, vol, s3, lock, held, chosen, spoiled>>

\* The container is recorded, healthy or not.
RunRecord(t) ==
    /\ At(t, "run_record")
    /\ row' = [row EXCEPT ![rtr[t]] = made[rtr[t]]]
    /\ \/ Unlock(t) /\ Goto(t, "done")
       \/ Goto(t, "fail") /\ UNCHANGED lock
    /\ UNCHANGED <<docker, s3, held, chosen, spoiled>>

\* Start, but not Restart, records the failure and forgets the container.
Fail(t) ==
    /\ At(t, "fail")
    /\ row' = IF kind[t] = "restart" THEN row ELSE [row EXCEPT ![rtr[t]] = 0]
    /\ Unlock(t)
    /\ Goto(t, "done")
    /\ UNCHANGED <<docker, s3, held, chosen, spoiled>>

-----------------------------------------------------------------------------
(* The container and the host *)

\* A running container writes its database.
Write(r) ==
    /\ up[r] = "running" /\ vol[r].ver < MaxVersion
    /\ vol' = [vol EXCEPT ![r].ver = @ + 1]
    /\ UNCHANGED <<row, made, up, s3, lock, held, pc, locals, chosen, spoiled>>

ContainerDies(r) ==
    /\ up[r] = "running"
    /\ up' = [up EXCEPT ![r] = "halted"]
    /\ UNCHANGED <<row, made, vol, s3, lock, held, pc, locals, chosen, spoiled>>

\* A deployment replaces the host: what is not in PostgreSQL or S3 is gone.
HostLost ==
    /\ Losses
    /\ up' = [r \in Router |-> "none"]
    /\ vol' = [r \in Router |-> Fresh(r)]
    /\ lock' = [r \in Router |-> None]
    /\ held' = [o \in Object |-> None]
    /\ pc' = [t \in Task |-> IF At(t, "unused") THEN "unused" ELSE "done"]
    /\ kind' = [t \in Task |-> None]
    /\ rtr' = [t \in Task |-> None]
    /\ cid' = [t \in Task |-> 0]
    /\ pick' = [t \in Task |-> None]
    /\ buf' = [t \in Task |-> Nothing]
    /\ UNCHANGED <<row, made, s3, spoiled>>

-----------------------------------------------------------------------------
(* The specification *)

Step(t) ==
    \/ Lock(t) \/ TryLock(t) \/ Snapshot(t)
    \/ Remove(t) \/ Record(t) \/ Purge(t)
    \/ Inspect(t) \/ Clean(t) \/ Create(t) \/ LookUp(t) \/ Search(t)
    \/ Extract(t) \/ Launch(t) \/ RunRecord(t) \/ Fail(t)

Next ==
    \/ \E t \in Task, r \in Router, k \in Kinds : Begin(t, r, k)
    \/ \E t \in Task : Step(t)
    \/ \E r \in Router : Write(r) \/ ContainerDies(r)
    \/ HostLost

Spec == Init /\ [][Next]_vars

-----------------------------------------------------------------------------
(* Properties *)

\* While a container runs, its router's snapshot is not ahead of it: whatever was
\* backed up is put back, be the host lost, an upload under way or several
\* operations asked for at once.  Not once a router has been wiped, or started
\* although its snapshot could not be put back.  One router: another one's object
\* may be chosen (HydratesOwn).
RunningNotBehind ==
    \A r \in Router \ spoiled : up[r] = "running" => vol[r].ver >= s3[r].ver

\* No snapshot, and no copy of one, replaces a later one (under the same
\* conditions): uploads of one key are serialised with what they read.
BackupNeverOlder ==
    [][\A r \in Router \ spoiled' :
          s3'[r].ver >= s3[r].ver /\ s3'[Slug[r]].ver >= s3[Slug[r]].ver]_vars

\* "before overwriting an existing snapshot, verify we aren't destroying database
\* state" (storage/fast_bridge.go:661): only a wipe takes the last database away
\* from under a router's id, even when a snapshot could not be put back.
GuardHolds ==
    [][\A r \in Router :
          HasDB(s3[r]) /\ ~HasDB(s3'[r]) => \E t \in Task : At(t, "purge")]_vars

\* The mutex of a router is held by an operation at work on that router, and that
\* of a key by a snapshot: neither outlives its holder.
LocksAreUsed ==
    /\ \A r \in Router : lock[r] # None =>
          /\ rtr[lock[r]] = r
          /\ pc[lock[r]] \in SnapPoints \union LockPoints \union {"remove", "record"}
    /\ \A o \in Object : held[o] # None =>
          rtr[held[o]] = o /\ pc[held[o]] \in KeyPoints

\* "searches namespaces/ in S3 for historical snapshots belonging to the router or
\* adapter" (storage/fast_bridge.go:411): a volume never gets the database of a
\* router of another adapter.
HydratesOwn ==
    \A r \in Router : HasDB(vol[r]) => Adapter[vol[r].of] = Adapter[r]

==============================================================================
