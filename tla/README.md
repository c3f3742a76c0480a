# Verification of the CleverRoute gateway

TLA+ models of the gateway in `src/gateway`, a Go server that runs "routers":
upstream AI-gateway products (OmniRoute, LiteLLM, ...), each in a sibling Docker
container, reached through one reverse proxy. TLC checks the models on small
instances; TLAPS proves the theorems listed below for every instance.

## 1. Inventory

| Part | Source | State it keeps | Operations |
|---|---|---|---|
| Lifecycle manager | `internal/adapters/manager.go` | a mutex per router (`routerLocks`) | Start, Stop, Restart, HealthCheck, StopAllForShutdown, ReconcileAndStartAll, Snapshot, RestoreSnapshot |
| Routing table | `internal/router/router.go` | map slug -> address, in memory | Load (from Redis), Set, Delete, Lookup, Snapshot |
| Supervisor, listener, checker | `internal/runtime/runtime.go` | none: goroutines | Boot once, Listen forever, HealthCheck of all routers every 30 s, prune hourly |
| Administration API | `internal/api/api.go` | none: handlers and the goroutines they leave behind | create, start, stop, restart, delete, wipe, restore, health; environment, credentials, keys, sessions, storage |
| Proxy | `internal/proxy/proxy.go` | none | resolve a router, authenticate, check limits, forward, scan usage |
| Store | `internal/store/store.go`, `migrations/*.sql` | PostgreSQL: routers, credentials, keys, usage, audit, users | one statement per method, except the list of models, which is replaced in a transaction |
| Cache and bus | `internal/cache/cache.go` | Redis: routes, cached keys, sessions, counters; the reload channel | get, set, delete, publish, a subscription that reconnects |
| Virtual keys | `internal/keys/keys.go` | none of its own | Authenticate, CheckRate, AllowModel, AllowRouter |
| Snapshot bridge | `internal/storage/fast_bridge.go` | objects in S3, a scratch directory | snapshot, copies under slug and adapter, hydrate, restore |
| Volume watcher | `internal/storage/watcher.go` | pending paths, a debounce timer | watch, debounce, close; no code of the gateway constructs one |
| WebSocket hubs | `internal/api/ws.go` | the set of clients of a router, a channel per client | register, unregister, broadcast, follow logs |
| Environment of a router | `api.go`, `manager.go`, `EnvironmentVariablesCard.tsx` | one JSON column, and the list each page works on | load, edit, reveal, save, complete with permanent secrets, make a container of |
| Adapter catalogue | `internal/adapters/<product>.go` | none: ten static descriptions | which secrets must last, how the container's variables are put together, how an answer is read |
| Model discovery | `manager.go`, `store.go` | the models of a router and their counts | ask, replace the list, count |
| Admin interface | `src/admin/app/lib/useRouterRealtime.ts` | what a page shows and waits for | click, follow events, poll, reconnect |
| Admin sessions | `api.go`, `cache.go` | a token in Redis | login, slide the expiry, logout |
| Migrations | `internal/store/migrations.go` | `schema_migrations` | execute a file, then record it |
| Server process | `cmd/server/main.go` | - | load the table, start the workers, drain and stop on a signal |
| Secret box, configuration, logger, terminal, explorer, metrics | `internal/secrets`, `internal/config`, ... | data only | no ordering to get wrong |

How they interact. Handlers answer at once and leave a goroutine that calls the
manager with *the copy of the row the handler read*. The manager writes four
stores, one after the other and without a transaction: the row in PostgreSQL, the
hash of routes in Redis, the table in memory, the containers in Docker. It then
publishes a reload event; the listener of every instance reads the row again and
writes the table. The checker calls HealthCheck, which takes no mutex and writes
the same four stores. The proxy reads the table and, when it misses, the row, whose
address it puts into the table. At boot the table comes from Redis.

The proxy knows a router from a path, a subdomain, a cookie or a Referer, and rewrites
what the product answers so that the next request finds the router again. Pages load a
masked list of variables and save all of it; they learn of operations from a socket that
drops events and from a poll that may be late.

What is hard: operations on stale copies; a mutex that some writers do not take;
writes that fail and are ignored; processes killed between two writes; containers
that die or come back by themselves; contexts that end in the middle of an operation;
answers that arrive after newer ones; addresses that mean something else a moment later.
`PROJECT.json` lists each hazard at its line with the properties that watch it.

## 2. `RouterLifecycle`: the core

Variables and the code they stand for:

| Variable | Code |
|---|---|
| `life`, `db` | the router's row: absent, live or deleted, and the columns desired_state, runtime_state, health_status, target_addr, container_id |
| `redis`, `table` | the routes in Redis and in memory |
| `cst`, `owner` | the containers: state, and the router in their name |
| `lock` | `routerLocks` |
| `pc`, `kind`, `rtr`, `row`, `target` | a goroutine or request: where it is, what it does, for which router, the copy of the row it works from, the address it found |
| `reloads`, `listener` | reload events not yet consumed, and the listener between its read and its write |
| `phase`, `sweep`, `queue` | the process: up, draining, down; the shutdown sweep; the routers boot has still to start |

One action per write: `Stop` is `Lock`, `StopContainer`, `StopRecord`, `StopRedis`,
`StopTable`, `StopPublish`; `Start` is `TryLock` followed by the adoption of a running
container (`Adopt*`) or by `Clean`, `Pull`, `Create`, `Launch`, `Await` and `Run*` or
`Sick*`; `HealthCheck` is `Probe`, one of two inspections, and the writes of its four
outcomes. `Begin` reads the row the way the caller does: handlers through
`findRouter`, which overlays the routing table (`Overlaid`).

Failures. `Faults` names the services whose calls may fail: "store" and "redis" lose a
write whose error the code ignores (a cancelled request context does the same) and
make the checked ones return; "docker" makes removals and inspections fail. A pull, a
create, a container start, a health wait and the checked row write may fail in every
instance. `Exit` kills the process at any moment, swept or not.

Abstractions, each with its reason:

- An address is the container it reaches. A container that is gone never answers,
  and Docker handing its IP to another container is not modelled.
- `desired_state` and `desired_status` are one column: the code writes them together.
- `waitForHealthy` is one step with three outcomes: an answer, the deadline, the end of
  the caller's context (after which nothing more can be written).
- ContainerStop, model discovery, audit and events to browsers change none of the state
  modelled here; the snapshot before a stop and the hydration of a start are section 4.
- The listing that boot, checker and sweep share is read router by router by boot and
  checker, which allows every interleaving of the real loop and more.
- Each task runs one operation; a run with three tasks is three operations, in any order
  and overlap, and every container id is used once.

## 3. `RouterLifecycle`: properties and runs

| Run | Instance | Properties | Question |
|---|---|---|---|
| `lifecycle_serial` | 1 router, 2 containers, 3 of start/stop/restart/restore, no lost writes | `TypeOK`, `MutualExclusion`, `RunningIsRouted`, `StoppedIsUnrouted`, `FreshContainerSafe`, `IsService` | do operations under the mutex leave the four stores in agreement, does any of them destroy another's container, and does each look like one step? |
| `lifecycle_two` | 2 routers (one image refused), 2 tasks of start/stop/restart/delete/wipe/check/proxy, every service failing | `RouteIsolation`, `RowCoherent` | can one router ever be given another's address, and does the row always name what must be stopped? |
| `lifecycle_ends` | 1 router, 1 container, 2 tasks, every service failing, fair | `HeldIsAtWork`, `EveryOperationEnds` | can the mutex leak or two operations wait for each other? |
| `lifecycle_recovery` | 1 router, 2 containers, 3 of boot/stop, exits | `RunningIsRouted`, `StoppedIsUnrouted` | does the next boot repair what a killed process left in Redis? |

Bounds. Two containers are the fewest for which "the container I made" and "the one
I remember" differ; three tasks let two stale copies meet one start. Reload events are
counted per router and bounded by the tasks. All the runs set `CHECK_DEADLOCK FALSE`:
when each task has run and no container moves, the server is simply idle. Tasks and
containers are symmetric in the safety runs; the liveness run uses no symmetry.

`RouterService` is the promise behind the serial run: a router is running, stopped,
failed or unhealthy at rest, or busy, and what is done to it is taken and given back.
`Create`, `Take`, `Give` and `Delete` are its only steps, and a stop, a start or a restart
ends in one of the states of its own kind (`Outcome`). `Service == INSTANCE RouterService
WITH ...` maps to it: `Status` is the row together with its routes when nobody holds the
mutex (a row that says running while Redis leads elsewhere is "misrouted", which
`RouterService` does not know) and busy while somebody does; `Doing` is the operation that holds the
mutex, read off where it is. So all the writes of an operation become the one `Give` that
ends it, and whatever another task does meanwhile must be a stutter.

`HeldIsAtWork` is the safety half of `EveryOperationEnds`: a mutex that is taken is held by
a task that is inside an operation on that router. A path that ended without the unlock
would break it at once.

Which instance claims what. `IsService` is claimed where `RunningIsRouted` is and the
process does not exit. `RunningIsRouted` and `StoppedIsUnrouted` are claimed for
operations that take the mutex and lose no write: a check, a proxy request or an ignored
error can break them, as the code is written, and nothing in the repository promises
otherwise. `RunningIsRouted` does not speak of the in-memory table: a slow listener can
overwrite it. `RowCoherent` excludes the health *endpoint* (kind "ask"),
whose copy is overlaid with the table and can write back "running" without a container.

What the code does against its own text, known from the model and without a run of its
own: a stop whose copy of the row has no container id leaves the container that a later
start made running (`manager.go:525` and `549`); the check of a live container whose copy
has no address empties the route (`manager.go:1037`, "MUST NOT
be knocked offline or evicted from the hot routing table", and `1042`); and a listener that read the row before a start wrote it leaves the older address
in the table (`runtime.go:37` and `41`). Two more surprises are hazards, because
a comment of the code announces them: boot starts every router whatever its desired state,
and a start that meets a busy mutex is dropped even when it is a stop that holds it.

Fairness (`lifecycle_ends` only). Weak fairness on a task's own steps: a goroutine that can run does
run, and each call it waits for ends because Docker, HTTP and database calls carry
deadlines. Strong fairness on `Lock`: `sync.Mutex` hands itself to its oldest waiter
after a millisecond. Weak fairness on the listener, a dedicated goroutine. Nothing is
assumed of administrators, containers or signals.

## 4. `Snapshots`: the data of a router

The lifecycle again, seen from the volume a container writes and the objects that hold
its copies in S3; a container is here only its number among those made for its router.

| Variable | Code |
|---|---|
| `row` | the container id in the row |
| `made`, `up` | the containers made for a router, and whether the last is running, halted or gone |
| `vol` | the named volume of the router, which outlives its containers |
| `s3` | the objects `namespaces/<id or slug or adapter>/...` |
| `lock`, `held` | `routerLocks`, and `keyLocks` of the bridge |
| `pc`, `kind`, `rtr`, `cid` | an operation: where it is, what it does, for which router, the container id it read |
| `pick`, `buf` | the key chosen to hydrate from; the archive read from the container |
| `spoiled` | history: routers wiped, or started although a snapshot could not be extracted |

A content is a *version*: whose database it is and how many times it was written, 0 when
there is none. That is all the guard, the search and the properties tell apart.

`SnapshotContainer` is `SnapLock` (the key's mutex), `SnapRead`, `SnapCheck` (the safety
guard), `SnapPut`; `CopySlug` and `CopyAdapter` are the server-side copies, after the
mutex is released. `Remove`, `Record` and `Purge` are the rest of a stop and of a wipe.
`Inspect`, `Clean`, `Create`, `LookUp` and `Search` (the candidate keys, then any object
with a database), `Extract`, `Launch`, `RunRecord`, `Fail` are a start. `Write`,
`ContainerDies` and `HostLost` (a deployment that takes containers and volumes with it)
are the environment. A stop is what a wipe begins with and a plain start what a restore
ends with, so the instance leaves the kinds "stop" and "start" out.

| Run | Instance | Properties | Question |
|---|---|---|---|
| `snapshots` | 1 router with a slug of its own, 3 of restart/restore/wipe/sync/sweep, Docker failing, host lost, 2 writes | `TypeOK`, `RunningNotBehind`, `BackupNeverOlder`, `GuardHolds`, `LocksAreUsed` | does what was backed up come back, can an upload undo a later one, does the guard hold, do the two kinds of mutex come free? |
| `doc_hydrate` | 2 routers, 2 tasks | `HydratesOwn` | a start can take another router's database |

Bounds. Three operations are one that reads early, one that replaces the container and
one that starts it; two writes give an older and a later database. One router, because
with two the search may hand over another's data (`doc_hydrate`) and versions of
different databases cannot be compared. S3 never fails in `snapshots`: a failed
inspection counts as "no database" in the guard, which therefore does not protect
anything then; the actions have that branch, the claim is for a working S3.

Two consequences the model shows and no run states. A restart takes its snapshot before
it stops the container (`manager.go:562`) and the start extracts it over the volume
(`manager.go:457`), so what was written in between is rolled back, although
`omniroute.go:19` says that what is in the volume survives restarts. And `doc_hydrate`,
which is a finding, is the last resort of `fast_bridge.go:449`: the largest database of any router.

## 5. `VirtualKeys`: keys, rate limit, budget

| Variable | Code |
|---|---|
| `row`, `spent`, `usage` | the row of a key (absent, active, revoked, deleted), its spent_cents and its usage rows |
| `cached` | the ticks left to the key's entry in Redis |
| `rate` | its counter in Redis: the value and the ticks left |
| `pc`, `key` | a request: the next check and the key it presents |
| `since` | history: for how long no active row or warming request has existed |
| `log` | history: the requests admitted in each of the last `Window` ticks |

A request is `Arrive`, `Lookup` (cache), `Select` (PostgreSQL), `Warm` (the entry is
written after the row was read), `CheckRate` (the Lua script), `CheckBudget`,
`RecordUsage`; the allowlists of routers and models may refuse at the point where the
code consults them. `Tick` is the passing of time: Redis drops what has expired.

| Run | Instance | Properties | Question |
|---|---|---|---|
| `keys` | one limited and one unlimited key, 2 requests, window and lifetime of 2 ticks, store and Redis failing, fair | `TypeOK`, `RateBounded`, `RevokedExpires`, `RevokedStaysOut`, `LimitIsTemporary` | what gets through in a minute, how long a revoked key is accepted, does a refusal end? |

`RateBounded` says twice the limit: a fixed window admits a burst at the end of one
window and another at the start of the next, within any span of one window. Two ticks
are the shortest window in which those are different instants. A counter's values
beyond the first refused one are equivalent. Fairness: time passes (`Tick`), and each
check is one database or Redis call, which returns; the forwarded request itself may
stream for ever, so `RecordUsage` has none. Nothing is claimed of budgets: the cost
recorded is the constant 0 (`proxy.go:743`), so no budget is ever used up.

## 6. `RouterEnv` and `AdapterCatalogue`: variables and secrets

`AdapterCatalogue` holds what the ten products' adapters decide: which secrets must last
(`Requirements`, `Lacking`, `Ensured`), how a container's variables are put together
(`Env`, from the adapter's defaults, the router's older configuration and the column), and
how an answer to a request for models is read (`ParseModels`, `Shipped`). It has no state.
A text is its kind (blank, mask, shorter or longer than the 32 characters some products
ask for, drawn by the gateway) and who wrote it; a stored variable adds the two flags of
the column. A product's name is a constant, so each instance meets all ten.

| Variable of `RouterEnv` | Code |
|---|---|
| `product`, `env`, `creds` | adapter_type and env_vars of the row; whether credentials are saved |
| `tabs` | per browser page: the list it shows, the names edited, and the save it has under way |
| `login` | the password of the product's own panel that each page shows (`getInitialPassword`) |
| `ops` | starts and restarts, with the copy of the variables they were called with |
| `lock`, `live`, `made` | the router's mutex, its container, and what that was made of |
| `current`, `astray`, `touched`, `shown` | history: whose copy is still that of the row, whether a write lost somebody's, which names a save changed, whether a secret was revealed |

A save is `SaveRead` (the stored value of each masked secret is looked up, `Cleaned`) and
`SaveWrite` (the whole column). A start is `Ask`, `Lock`, `Ensure` (which writes back the
whole column of its own copy) and `Make` or `StartFails`.

| Run | Instance | Properties | Question |
|---|---|---|---|
| `settings` | each product, one page, two starts, two saves, a database that fails | `TypeOK`, `DrawnStaysSealed`, `KeysOutliveContainers`, `SaveIsExact` | do secrets stay encrypted and masked, does a later container get the secrets of the former, does a save change only what was edited? |
| `doc_credential` | one page, two starts, one save, nothing fails | `CredentialsAreNoObstacle` | after a credential is saved no start succeeds (a finding: the query leaves out the column it decrypts) |

Bounds. One edit per opening of a page, because a save stores what the page shows and a
second edit adds nothing a second save does not; two saves let a page be loaded again
after a start completed the variables. Each product is edited with the names its adapter
cares about. `KeysOutliveContainers` and `SaveIsExact` are claimed for writers who had
read what they replaced: the others overwrite one another, as the code is written, and the
history variables are there to say so. Presets and the import of a `.env` text replace the
list of the page and are left out, as are two rows of one name.

One drawn secret is on a page that nobody asked to show it. `Load` is the whole load of the
page (`page.tsx:50-75`), which fetches the initial password along with the list, each with its
own failure; `InitialPassword` is the answer (`api.go:877-928`), decrypted: INITIAL_PASSWORD,
else ENCRYPTION_KEY, else the constant of OmniRoute. For FreeLLMAPI and OpenConnector that
ENCRYPTION_KEY is one the gateway drew. So `DrawnStaysSealed` is claimed of the list, and of
`login` it says that no *other* drawn secret gets there. SETUP_CODE and SETUP_KEY, which
the handler tries next, are names no adapter keeps and the instance does not type; they are
left out. Both answers are read off the row at one moment, where the code reads it twice.

## 7. `ModelDiscovery` and `ModelRegister`: the list of models

`ModelRegister` is the promise: a list that changes only when a whole answer comes in,
which replaces everything except rows of answers that came in while it was being written.
`ModelDiscovery` is `DiscoverModels` and the transaction of `UpsertModels` in PostgreSQL
under READ COMMITTED, and implements it: `Register == INSTANCE ModelRegister WITH ...`
maps the committed rows to the list and the transactions under way to open callers.

| Variable | Code |
|---|---|
| `product`, `stored`, `counts` | the row's product, the committed models, the two counts of the row |
| `txs` | the discoveries: the answer, what is left to insert, the rows their DELETE saw, the models they hold |
| `last`, `over`, `counter` | history: the last to commit, who committed since a DELETE began, the last to write counts |

`DeleteStart` fixes what the DELETE sees, `DeleteEnd` waits for whoever holds one of those
rows, `Insert` for whoever holds the model, `DeadlockVictim` is one of a circle of waiters,
`Rollback` any other failure, `Count` the separate statement that follows the commit.

| Run | Instance | Properties | Question |
|---|---|---|---|
| `discovery` | each product, 2 discoveries, 5 answers of at most three models and none, failures | `TypeOK`, `ProviderNamed`, `CountsAgree`, `IsRegister`, `EveryDiscoveryEnds` | does a reader see whole answers, can two discoveries wait for each other for ever, do the counts fit the list, does each model have a provider? |

An answer is a list in the product's own order, and it may name a model twice: `queue` is
inserted entry by entry, the later entry of a model overwriting the earlier one (`Upserted`,
and `ByModel` for what the whole list comes to), while `Counted` counts the entries, as
`manager.go:942-943` does. So the counts may exceed the stored list after a single discovery,
and `CountsAgree` claims equality only for an answer with no model named twice, and otherwise
that the counts are not too low. An identifier is a vendor, a family and a rest; `NoVendor` is
one without a slash, and a leading slash gives the vendor "", which the adapters
store as the provider when no owner is named (`newapi.go:192`): `ProviderNamed` excepts those
identifiers, and no others. The answers of the run have two models in opposite orders, one model
named twice with two owners, leading slashes with an owner and without, a bare list, and a
form nobody reads.

Two discoveries with two models each are the fewest that wait in a circle. Fairness: a
discovery that has begun goes on (its calls carry deadlines) and PostgreSQL finds deadlocks
after `deadlock_timeout`.

## 8. `ProxyRequests`: whose router a request is for

One request per browser tab at a time, each lookup and each answer a step, while
the table, the rows and the accepted tokens change in between.

| Variable | Code |
|---|---|
| `rows`, `table`, `active` | routers with an address in the row and in the table; accepted keys and sessions |
| `jar` | the two cookies of the gateway, per host |
| `tabs` | the page a tab shows and its own address |
| `reqs` | the request of each tab: address, token, the cookies it was sent with, the router found, the key it counts on, the scanner's buffer |
| `usage` | usage recorded |
| `hops`, `sends`, `changes` | history and bounds |

`Visit`, `Browse` and `Call` are the browser and API clients, with addresses as
`transformHTML` and the injected script rewrote them; `Route` and `RouteByRow` the
lookups by subdomain, path, cookie, Referer and row; `Local` what the gateway answers or
redirects by itself (`Landing`, `Redirects`); `Admit` the checks of a key, in one step
(section 5 has them one by one); `Forward` and `Retry` the container's answer and the
alternative paths after a 404; `Copy` and `Finish` the usage scanner. A path is a sequence of
segments; `aim` records which of the page's product's paths was meant.

| Run | Instance | Properties | Question |
|---|---|---|---|
| `requests` | 1 tab, 3 routers (plain, one answered in its place, one redirected to another page), 1 key for one router, 1 session, 3 requests, 1 change, a buffer of 1 chunk, answers of up to 2 | `TypeOK`, `KeyStaysInAllowlist`, `FindsItsWay`, `RedirectsEnd`, `UsageCaptured` | can a confined key reach another router, does what a page asks for get to its own router, do redirects end, is usage lost? |

Three requests are one that opens a page, one that makes another router the active one, and
one of the first page; a single change is enough for the table to lose a router between the
two lookups.

`ProxyAssumption` asks of a slug what `validateSlug` (`api.go:53`) asks: it is none of the four
reserved names. A router may therefore be called like a page, of a product or of the gateway's
redirects: login, ui, v1, workspace, dashboard. What is claimed is bounded by properties
and not by assumptions:

- `FindsItsWay` speaks of a request whose `aim` is set, and `Aimed` sets it as long as subdomain
  and cookie name the page's router, the page's address names no other, and no router is
  called like the first segment of what is asked for. With one cookie for all tabs, opening
  a second router takes what the first page asks for, and a router called login takes `/login`
  from every page: that is how the code is written.
- `RedirectsEnd` allows two redirects in a row, three if a router is called login (`/login` is
  then that router's prefix, and leads to `/login`, and on). A router called dashboard is excluded:
  it is redirected to `/dashboard`, which is its own prefix with nothing behind, for ever
  (`proxy.go:182-206`). Only redirects of the gateway's own are counted. One that comes from the
  container starts a new row, so a circle that passes through the product is not claimed
  to be impossible.

The run's routers are called like no page; the theorems of section 10 cover the others. TLC agrees
on a fourth router called login as well (7.9 million states); that instance is left out, because
it takes twice the time of this one. `UsageCaptured` is claimed for
answers within the buffer and for answers that are one JSON document.

## 9. `RouterConsole`: what a page shows

The page of one router, its connection to the hub, its poll and its buttons. Operations
appear as the sequence of row writes, table changes and events an observer sees of the
manager's code (`Starting`, `Stopping`, `Scripts`, `Checks`, `Reloads`, `Discoveries`); what they do is section 2.

| Variable | Code |
|---|---|
| `row`, `routed` | runtime_state of the row; whether the table has an address (`findRouter` shows "running" then) |
| `doing` | what is left to do of the operation that has the mutex, and of each worker beside it |
| `asked` | the page's own request, until it has the mutex |
| `page` | the state shown, the operation it waits for, the answer of a poll not yet applied |
| `socket`, `chan` | how far `wsRouter` is; the snapshot and the client's channel |
| `fresh`, `missed` | history, since the page waits: the row was written; an event did not reach the channel, a start failed right after its write and told nobody, or a snapshot said "running", by the table, where the row ends the wait |

`Operation` is whoever has the mutex, one at a time. A health check, the reload listener, the
proxy's fallback and a discovery take no mutex, so each member of `Checker` goes through the
writes and events of one of them, step by step, beside it.

One end of a start is silent: the row is written as running, `SetRoute` fails, and
`startLocked` returns (`manager.go:490-496`) with no table entry and no event. It is the script
with the write `U("running")`. `Start` then records a failure and announces that; `Restart` does
not, so nothing is left to come and a page that waits for it waits on: `Perform` notes it in `missed`.

`Discover` is the fourth button's wait, which a "models" event or a failed request ends
(`useRouterRealtime.ts:276-294`). The handler itself refuses only a second discovery, but its
button is enabled only while the page shows a running router and neither starts nor
stops it (`page.tsx:333`), so it replaces no other wait. A failure that arrives when an event has
already ended the wait is left out: it could only end another wait, or none.

| Run | Instance | Properties | Question |
|---|---|---|---|
| `console` | a channel of 1, one worker beside the operation, 2 operations, checks or discoveries, 1 break | `TypeOK`, `EndIsOnItsWay`, `PageSettles`, `WaitEnds` | does a page end up showing what the gateway knows, and stop waiting for what has happened? |

A channel of one fills with one event, the real one (`ws.go:319`) with more; lines of the
container's log share it and so may fill it at any time, which is all they do here. Two
operations are a page's own and one somebody else started or a check. One worker goes beside the
operation, because a second only makes the run several times longer; the safety half of it is
proved for any number of them.

`EndIsOnItsWay` is why `WaitEnds` holds: once the row is in a state that ends the wait, such a
state is in the channel, or somebody has still to announce it, or the page has no connection
and the next one begins with a snapshot. Neither claims anything when an event was lost
or a restart ended silently after its write (`missed`), when a restart ends unhealthy, when an
operation ends without any write, or when the event of a discovery was lost:
the page then goes on waiting, until it is loaded again. A failed request (`Fail`) may have lost
only its answer, so the operation may still run.

Fairness: operations end (`EveryOperationEnds`) and so do checks, reloads and discoveries, a page reconnects after three
seconds, polls every eight, and reads its connection.

## 10. Proofs

Each proof below names the inductive invariant its theorem needed; TLC checks the properties
themselves on the instances above.

`RouterLifecycleProofs`: all five hold for any sets of routers, containers and tasks and
any `Faults`, `Allowed`, `Kinds` and `Exits`, from `LifecycleAssumption` (None is not one
of them; the parameters are of their kind).

- `TypeCorrect`: `Spec => []TypeOK`. By groups of variables; each group has a frame
  lemma and one lemma per helper that writes it.
- `MutualExclusionHolds`: `Spec => []MutualExclusion`. The invariant says nothing of who
  holds `lock`, so the induction is on `LockInv`: whoever is in a critical section holds
  the mutex of its router.
- `HeldIsAtWorkHolds`: `Spec => []HeldIsAtWork`. The converse of `LockInv`, inductive once
  `LockInv` and the types are known (`HeldInv`): `EntersHeld` is the one way to take a mutex, `LeavesHeld`
  the one way out of a critical section, and every other step stays inside
  (`StaysHeld`) or is somebody else's.
- `RowCoherentHolds`: `"ask" \notin Kinds /\ Spec => []RowCoherent`. A check writes what it
  copied, so the induction carries `CopyInv`: every copy in flight was coherent when
  read, and every point of a start or a check that is about to record "running" has
  something to record.
- `RouteIsolationHolds`: `Spec => []RouteIsolation`. The induction carries what each point
  knows of the container it is about to publish (`OwnInv`), and `LockInv`, because only
  the mutex keeps a second start of the router from removing it meanwhile.

`RouterRoutesProofs`, under the same `LifecycleAssumption` and for any routers, containers
and tasks:

- `RunningIsRoutedHolds`, `StoppedIsUnroutedHolds`: `Orderly /\ Spec => []...`, where
  `Orderly` says that no write is lost and no check, health endpoint or proxy fallback runs:
  the setting in which the runs claim the two. Exits, shutdown sweeps and boots are all
  in. Neither property says anything of a router somebody works on, so the induction
  is on `RouteInv`: while the process is up, a live router whose mutex nobody holds and
  which the boot supervisor has reached is settled, and one whose mutex is held is what
  its holder owes at the point it has reached (`HoldsAt`, one case per point). It needs
  `KindInv` (only starts give up on a busy mutex), `AbsentInv` (a row never inserted has
  left no trace in Redis or the table), `PhaseInv` (no task survives its process, only a
  draining process sweeps), and `LockInv`, `HeldInv` and `OwnInv` of the module above. `OwnOnly` and
  `FrameRouter` reduce every step to the router it works on.
- `FreshContainerIsSafe`: `~Exits /\ Spec => FreshContainerSafe`, whatever fails and
  whichever operations run. Whoever removes a container by name works on the router that
  owns it (`RemoverWorks`), and the mutex leaves one such task. The hypothesis keeps the
  shutdown sweep out, which removes what a start is still making without its mutex.
- `IsServiceHolds`: `Orderly /\ ~Exits /\ Spec => IsService`, the refinement of `RouterService`.
  What makes it hold is `RouteInv`: when the mutex is given back, the writes of the operation
  add up to a state of its kind (`HolderEnds`), and a router nobody works on agrees with
  itself (`ServedInv`), so that taking its mutex is a step from a state at rest. Every
  step is then shown to serve one router (`Serves`: create, take, give, delete or stutter) and
  to leave the others `Still`. Orderly and no exits, because a killed process
  leaves a half-done operation that its successor repairs in steps the service does not have.

`VirtualKeysProofs`, for any keys, limits, budgets, window and lifetime, from the
assumption that these are naturals and None is no key:

- `KeysTypeCorrect`: `Spec => []TypeOK`.
- `RateBoundedHolds`: `Spec => []RateBounded`, at most twice the limit in any window. The
  induction is on `LimitInv`: the last `Window` ticks divide into those on which the present
  counter has counted and those before (`Open`), what was admitted on either side is within the
  limit, and on the present side within the counter too (`Kept`). What was admitted is a sum
  over a function, defined by a recursive function; its lemmas (a sum is a number, grows with
  its length, shifts when a tick passes) need induction on the length, which is done with a set
  of numbers instead of a predicate (`SetInduction`, from the library's fact that a
  well-founded relation has minimal elements).
- `RevokedExpiresHolds`: `Spec => []RevokedExpires`. The induction is on `AgeInv`: the age
  since revocation and the lifetime left of the entry never exceed `CacheTtl` together,
  and the age is zero as long as a request could still write the entry.

`SnapshotsProofs`, for any routers, operations, kinds, losses and number of writes, from
`SnapshotsAssumption` (slugs are injective, no slug or adapter is a router's id, None is
none of them):

- `SnapshotsTypeCorrect`: `Spec => []TypeOK`, from one lemma per group of actions.
- `LocksAreUsedHolds`: `Spec => []LocksAreUsed`, whatever fails. The induction is on
  `UseInv`, which adds that no holder of a router's mutex is a manual sync or a shutdown
  sweep: those snapshot and end without giving back what they never took. `UseFrame`
  reduces each step to what it does to its own task and mutexes.
- `GuardHoldsAlways`: `"s3" \notin Faults /\ Spec => GuardHolds`. The guard's inspection
  and the upload are two steps; `GuardInv` says that what is about to be uploaded has a
  database or replaces none, and it is the mutex of the key (`HeldInv`: whoever is in a
  snapshot holds it) that keeps this true until the upload. The hypothesis is needed: a
  failed inspection counts as finding no database.

It goes on from there, for a router alone in its namespace (`Single`; with two,
a start may take the other's object, which `HydratesOwn` shows) while S3 answers:

- `RunningNotBehindHolds` and `BackupNeverOlderHolds`, `Single /\ "s3" \notin Faults /\ Spec`
  implies `[]RunningNotBehind` and `BackupNeverOlder`. `RunningNotBehind` says nothing of a
  container that is still being filled, nor of an archive on its way up. `BackInv` does: the
  router's own object is the latest of all (`Latest`); an archive on its way is no older than
  the object and no newer than the volume (`Between`); no operation knows a container that is
  being hydrated (`Known`, `Hidden`), so that none can read it half filled; whoever looks for a
  database elsewhere finds the same one or none (`Same`); and a volume that is behind has no
  running container and none that an operation could read or launch (`NotServed`). `Effects`
  says what one step may do to these, action by action; the six conjuncts are then proved from
  it and never look at an action again. `HostLost` keeps them because it empties the volume
  and ends every operation. The mutexes come in through `HeldInv` (one snapshot of a key) and
  `MineInv` (who works under a router's mutex holds it, so that nobody records a container
  while another is being filled).

`ModelDiscoveryProofs`, for any discoveries and any answers, from `DiscoveryAssumption`
(nobody is no discovery) and `AnswersAreLists` (what a body decodes to is a list):

- `DiscoveryIsRegister`: `Spec => IsRegister`, the refinement. The induction is on `IInv`:
  what is inserted and left to insert make up an answer (`Whole`), and every row not yet
  deleted is one the DELETE saw or was put by somebody who committed since (`Known`), which
  is what makes a commit a step of the register.
- `ProviderAlwaysNamed`, `CountsAgreeAlways`, `DiscoveryTypeCorrect`: from `ListInv`, which
  adds who holds what (`Locks`), who wrote the rows (`Authored`), and that the list is the
  answer of the last one to commit if none committed under it (`CountInv`). The providers are
  a case split over the ten products and the forms of an answer. The counts are compared
  through the positions of the list: a list has at least as many positions as models, and
  as many if it names none twice.

`RouterEnvProofs`, for any tabs, operations, names and configuration and all products:

- `DrawnStaysSealedAlways`: `Spec => []DrawnStaysSealed`. The induction is on `SealInv`: not
  only the row but every list in a tab and every copy in a start is sealed, since each of
  them may be the next to be written; and wherever a drawn text stands under a name, it was drawn
  for that name, which is why a page that shows ENCRYPTION_KEY shows no other
  secret. Looking at a secret ends the claim, so the invariant is
  conditional on `shown`.
- `SaveIsExactAlways`: `Spec => SaveIsExact`, from `ExactInv`: a tab that is current shows
  the row itself, masked, on the names nobody edited in it, and once it saves, its list is
  the row on those names: `Cleaned` gives back what `Masked` hid, because what is no secret
  is not encrypted either.
- `KeysOutliveContainersAlways`: `Spec => KeysOutliveContainers`. The induction is on
  `KeysInv`: while every write was by someone who had read what it replaced, whoever
  is current has the row in its copy (`Copies`), the row still has what the last container
  was made with, as recorded (`Kept`), except what a save affected, and the product's
  requirements were met then (`Complete`), so that what is drawn anew was affected too. `Apart`
  and `GivenAgain` are where the ten products come in, one case each.
- `EnvTypeCorrect`: `Spec => []TypeOK`, from the two above and `WordsInv` and `ControlInv`.

They rest on `EnvAssumption`: no tab is an operation, None is no operation, and
what the configuration gives are texts.

`ProxyRequestsProofs`, for any routers, keys, allowlists, sessions, pages and limits, from
`ProxyAssumption` (the slugs are such as `validateSlug` allows, those called like a page included):

- `KeyStaysInAllowlistAlways` and `UsageCapturedAlways`: from `ReqInv`, which says of each
  request that nothing after `Admit` changes its router or key, and that what is buffered and
  what is to come make up an answer that fits.
- `FindsItsWayAlways` and `ProxyTypeCorrect`: from `WayInv`. While a request carries an aim, what
  `Aimed` says of it goes on holding (`AimedOK`); while it is still looked up, its address leads
  where the page meant (`Leads` in `AimOK`), through every lookup and redirect; and once it is
  found, it is the page's router that was found.
- `RedirectsEndAlways`: from `HopInv`, which says where a request can be after each redirect
  in a row, no router being called dashboard: after one it is at a home page, of a router or
  of the gateway, after two at the root, where nothing redirects; but a router called login takes
  `/login` for a visit of its own, and is a third on the way there. It rests on what `Clean` makes of these few addresses: a path
  whose empty segments are at its end loses just those (`TrimUpTo`, for any length).

`RouterConsoleProofs`, for any number of checks, reloads, discoveries, operations and breaks and any length of
the channel, from `ConsoleAssumption` (the operation is none of the workers beside it, the channel holds something):

- `ConsoleTypeCorrect`: `Spec => []TypeOK`, in which the bound on the channel is what matters.
- `EndIsOnItsWayHolds`: `Spec => []EndIsOnItsWay`. The property says nothing of an operation
  that has still to write. What makes it inductive is that everything left to do,
  of operations and checks alike, is a script in which every write of the row is followed by the
  event that tells of it, but for a silent one at its end (`Announced`, one case for each
  script the code has), so a write leaves its event behind or is missed, and an event leaves for
  the channel or is missed.

Only model-checked, being liveness under fairness and outside the prover's reach:
`EveryOperationEnds`, `RevokedStaysOut`, `LimitIsTemporary`, `EveryDiscoveryEnds`,
`PageSettles` and `WaitEnds`. The safety facts that three of them turn on are proved:
`HeldIsAtWork`, `RevokedExpires` and `EndIsOnItsWay`. The two findings
(`HydratesOwn`, `CredentialsAreNoObstacle`) are counterexamples and have nothing to prove.

## 11. Plan

Written so far: `RouterLifecycle` with `RouterService`, `VirtualKeys`, `Snapshots`, `RouterEnv` with
`AdapterCatalogue`, `ModelDiscovery` with `ModelRegister`, `ProxyRequests`, `RouterConsole`.

What would come next, the most important first:

1. `ReloadBus`: a second instance of the gateway, a subscription that reconnects and loses
   events, and what a check or the proxy's fallback repairs of the other table.
2. `Sessions`: the sliding expiry of a session against its logout.
3. The log goroutine of a socket (`ws.go:347`), which sends on a channel that unregister
   closes: a panic, so a model of channels that can be closed under a sender.
4. `Migrations`: a crash between a file and its record, for files that may and may not run
   twice.
5. An abstract specification for the limiter (at most N per aligned window) and its
   simulation.

## 12. Not modelled

The terminal, the storage explorer, metrics and the logger do input and output on other
components' state. The reading of the configuration and AES-GCM itself are data. The volume
watcher is constructed by its own test and by no code of the gateway. Admin sessions and
migrations have no module yet; the hazards name the lines.

Within the modelled parts: the reload event a discovery publishes when it ends; Docker
reusing an address; an archive cut short by a broken tar stream; the snapshots of scratch
directories and a router with several volumes; presets, `.env` import and repeated names on
the variables' page; WebSocket upgrades and transport timeouts of the proxy; the hub of the
system log. The list of hazards says where each would bite.
