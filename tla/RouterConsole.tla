----------------------------- MODULE RouterConsole -----------------------------
(***************************************************************************)
(* The page of a router, which shows its state while operations change it: *)
(* the hub that sends every page the events of its router, the socket      *)
(* under it, the page's own polling, and the buttons that wait for an      *)
(* event.                                                                  *)
(*                                                                         *)
(* What operations do to the router is in RouterLifecycle.  Here they are  *)
(* what an observer sees of them: a sequence of writes of the row, changes *)
(* of the routing table and events.  Whoever is at the page stays logged   *)
(* in.                                                                     *)
(***************************************************************************)
EXTENDS Naturals, Sequences

CONSTANTS
    Operation,  \* whoever has the router's mutex
    Checker,    \* whoever works beside it at a time: health checks, reloads, discoveries
    Cap,        \* messages that a client's channel holds
    MaxOps,     \* operations, checks and discoveries of a behaviour, whoever's
    MaxBreaks   \* connections of the page that break

ASSUME ConsoleAssumption ==
    /\ Operation \notin Checker
    /\ Cap \in Nat \ {0} /\ MaxOps \in Nat /\ MaxBreaks \in Nat

Worker == {Operation} \union Checker

VARIABLES
    row,      \* runtime_state of the router's row
    routed,   \* the routing table has an address of the router
    doing,    \* what is left to do of the operation and of each checker
    asked,    \* the page's request that has not got the mutex
    page,     \* what the page shows, what it waits for, the poll's answer
    socket,   \* the page's connection: how far wsRouter is with it
    chan,     \* the snapshot and the channel of that client
    fresh,    \* history: the row was written since the page waits
    missed,   \* history: since then an event did not get to the channel, a start
              \* failed right after its write and told nobody, or a snapshot said
              \* running, by the table, where the row ends the wait
    left      \* what may still happen, of what is bounded

observed == <<row, routed>>
line     == <<socket, chan>>
history  == <<fresh, missed>>
vars == <<observed, doing, asked, page, line, history, left>>

State == {"running", "stopped", "failed", "unhealthy"}
Shown == State \union {"starting", "stopping"}
Kind  == {"start", "stop", "restart"}
Busy  == Kind \union {"", "discover"}

Event == Shown \union {"models"}

-----------------------------------------------------------------------------
(* What operations and health checks do, as far as a page can see.  An     *)
(* untold write is one after which the operation fails.                    *)

E(event) == <<"emit", event>>
W(state) == <<"write", state>>
U(state) == <<"untold", state>>
R(state) == <<"route", state>>

\* (mutant) The stop is announced before it is recorded.
StoppingTold == {<<E("stopping"), R("off"), E("stopped"), W("stopped")>>, <<E("stopping")>>}

\* stopLockedInternal; it ends early when the container cannot be removed.
Stopping == {<<E("stopping"), W("stopped"), R("off"), E("stopped")>>, <<E("stopping")>>}

\* startLocked: the container runs; its route does not get into Redis, when the
\* row says running already; it does not get healthy, or is never made; the image
\* is refused.
Starting == {<<E("starting"), W("running"), R("on"), E("running")>>,
             <<E("starting"), U("running")>>,
             <<E("starting"), W("unhealthy"), E("unhealthy")>>,
             <<E("starting")>>,
             <<W("failed"), E("failed")>>}

Succeeds(script) == \E i \in DOMAIN script : script[i] = R("on")

\* Start may find the container running, and records every failure; Restart
\* does neither.
Scripts(kind) ==
    CASE kind = "start"   -> {IF Succeeds(s) THEN s ELSE s \o <<W("failed"), E("failed")>> : s \in Starting}
                             \union {<<W("running"), R("on"), E("running")>>}
      [] kind = "stop"    -> Stopping
      [] kind = "restart" -> {s \o t : s \in Stopping, t \in Starting}

\* HealthCheck, which takes no mutex: nothing new, well again, degraded (which
\* the row refuses) with an address or with none, unhealthy, gone.
Checks == {<<R("on")>>,
           <<R("on"), W("running"), E("running")>>,
           <<R("on"), E("running")>>,
           <<R("off"), E("running")>>,
           <<W("unhealthy"), R("off"), E("unhealthy")>>,
           <<W("stopped"), R("off"), E("stopped")>>}

\* The reload listener and the proxy's fallback set the table by the row they
\* read before.
Reloads == {<<R("on")>>, <<R("off")>>}

\* DiscoverModels, of the button or at the end of a start: an event, unless it fails
Discoveries == {<<E("models")>>, <<>>}

\* findRouter
Seen == IF routed THEN "running" ELSE row

Init ==
    /\ row \in {"running", "stopped"} /\ routed = (row = "running")
    /\ doing = [w \in Worker |-> <<>>] /\ asked = ""
    /\ page = [shown |-> row, busy |-> "", answer |-> ""]
    /\ socket = "none" /\ chan = <<>>
    /\ fresh = FALSE /\ missed = FALSE
    /\ left = [ops |-> MaxOps, breaks |-> MaxBreaks]

-----------------------------------------------------------------------------
(* The hub *)

\* What ends the wait for an operation
Ends(busy) == CASE busy = "start"   -> {"running", "unhealthy", "failed"}
                [] busy = "stop"    -> {"stopped", "failed"}
                [] busy = "restart" -> {"running", "failed"}
                [] OTHER            -> {}

Waiting == page.busy # ""

\* (mutant) A send that waits for nobody's room
BroadcastOverFull(state) ==
    /\ chan' = IF socket = "live" THEN Append(chan, state) ELSE chan
    /\ UNCHANGED missed

\* Broadcast, under the mutex that register and unregister take: the event is
\* appended or, when the channel is full, dropped.  The snapshot is in nobody's
\* way; lines of the container's log, which are not kept here, may fill the
\* channel at any time.
Broadcast(state) ==
    \/ /\ socket = "live" /\ Len(chan) <= Cap
       /\ chan' = Append(chan, state)
       /\ UNCHANGED missed
    \/ /\ missed' = (missed \/ (Waiting /\ socket # "none"))
       /\ UNCHANGED chan

-----------------------------------------------------------------------------
(* Operations and health checks *)

Free == doing[Operation] = <<>>

Begin(kind) == \E script \in Scripts(kind) : doing' = [doing EXCEPT ![Operation] = script]

\* Somebody else's operation: another page's, the supervisor's
Other ==
    /\ Free /\ left.ops > 0
    /\ \E kind \in Kind : Begin(kind)
    /\ left' = [left EXCEPT !.ops = @ - 1]
    /\ UNCHANGED <<observed, asked, page, line, history>>

\* The page's own: a start that finds the mutex taken is skipped, the others
\* wait.
Take ==
    /\ asked # ""
    /\ \/ Free /\ Begin(asked)
       \/ ~Free /\ asked = "start" /\ UNCHANGED doing
    /\ asked' = ""
    /\ UNCHANGED <<observed, page, line, history, left>>

Check(c) ==
    /\ doing[c] = <<>> /\ left.ops > 0
    /\ \E script \in Checks \union Reloads \union Discoveries : doing' = [doing EXCEPT ![c] = script]
    /\ left' = [left EXCEPT !.ops = @ - 1]
    /\ UNCHANGED <<observed, asked, page, line, history>>

\* One step of an operation or of a check, and what is left of it: the history
\* sees the writes of the row, and that nothing comes after an untold one (Start
\* records that it failed; Restart does not).
Perform(step, rest) ==
    \/ /\ step[1] = "write"
       /\ row' = step[2] /\ fresh' = (fresh \/ Waiting)
       /\ UNCHANGED <<routed, chan, missed>>
    \/ /\ step[1] = "untold"
       /\ row' = step[2] /\ fresh' = (fresh \/ Waiting)
       /\ missed' = (missed \/ (Waiting /\ rest = <<>>))
       /\ UNCHANGED <<routed, chan>>
    \/ /\ step[1] = "route"
       /\ routed' = (step[2] = "on")
       /\ UNCHANGED <<row, chan, history>>
    \/ /\ step[1] = "emit"
       /\ Broadcast(step[2])
       /\ UNCHANGED <<observed, fresh>>

Do(w) ==
    /\ doing[w] # <<>>
    /\ Perform(Head(doing[w]), Tail(doing[w]))
    /\ doing' = [doing EXCEPT ![w] = Tail(@)]
    /\ UNCHANGED <<asked, page, socket, left>>

-----------------------------------------------------------------------------
(* wsRouter: the page's client of the hub *)

\* (mutant) The page gets the next event first, and not the state.
OpenBlank ==
    /\ socket = "none"
    /\ socket' = "found" /\ chan' = <<>>
    /\ UNCHANGED <<observed, doing, asked, page, history, left>>

\* The row is read first, for the snapshot ...
Open ==
    /\ socket = "none"
    /\ socket' = "found" /\ chan' = <<Seen>>
    /\ missed' = (missed \/ (fresh /\ row \in Ends(page.busy) /\ Seen \notin Ends(page.busy)))
    /\ UNCHANGED <<observed, doing, asked, page, fresh, left>>

\* ... then the client is registered.
Register ==
    /\ socket = "found"
    /\ socket' = "live"
    /\ UNCHANGED <<observed, doing, asked, page, chan, history, left>>

-----------------------------------------------------------------------------
(* The page: useRouterRealtime *)

\* handleStart, handleRestart, handleStop: what they refuse
Clickable(kind) ==
    /\ page.busy = ""
    /\ CASE kind = "start"   -> page.shown # "running"
         [] kind = "restart" -> page.shown \notin {"starting", "stopping"}
         [] kind = "stop"    -> page.shown \notin {"stopped", "stopping"}

\* The history is of one wait.
Waits == /\ fresh' = (fresh /\ page'.busy # "")
         /\ missed' = (missed /\ page'.busy # "")

Click ==
    /\ left.ops > 0 /\ asked = ""
    /\ \E kind \in Kind :
         /\ Clickable(kind)
         /\ asked' = kind
         /\ page' = [page EXCEPT !.busy = kind, !.shown = IF kind = "stop" THEN "stopping" ELSE "starting"]
    /\ left' = [left EXCEPT !.ops = @ - 1]
    /\ UNCHANGED <<observed, doing, line, history>>

\* handleDiscover, whose button is there while the page shows a running router
\* and does not wait.  The handler discovers, taking no mutex.
Discover ==
    /\ left.ops > 0
    /\ page.busy = "" /\ page.shown = "running"
    /\ page' = [page EXCEPT !.busy = "discover"]
    /\ \E c \in Checker : /\ doing[c] = <<>>
                         /\ \E script \in Discoveries : doing' = [doing EXCEPT ![c] = script]
    /\ left' = [left EXCEPT !.ops = @ - 1]
    /\ UNCHANGED <<observed, asked, line, history>>

\* The discovery fails, or its answer does.
DiscoverFails ==
    /\ page.busy = "discover"
    /\ page' = [page EXCEPT !.busy = ""]
    /\ Waits
    /\ UNCHANGED <<observed, doing, asked, line, left>>

\* The request fails on its way, or its answer does, and the wait is over.
Fail ==
    /\ asked # "" /\ page.busy = asked
    /\ page' = [page EXCEPT !.busy = "", !.shown = IF asked = "start" THEN "stopped" ELSE @]
    /\ asked' \in {"", asked}
    /\ Waits
    /\ UNCHANGED <<observed, doing, line, left>>

\* onmessage
Deliver ==
    /\ socket = "live" /\ chan # <<>>
    /\ page' = IF Head(chan) = "models"
               THEN [page EXCEPT !.busy = IF @ = "discover" THEN "" ELSE @]
               ELSE [page EXCEPT !.shown = Head(chan), !.busy = IF Head(chan) \in Ends(@) THEN "" ELSE @]
    /\ chan' = Tail(chan)
    /\ Waits
    /\ UNCHANGED <<observed, doing, asked, socket, left>>

\* The connection is lost, with whatever was on its way; the page opens
\* another.
Break ==
    /\ socket # "none" /\ left.breaks > 0
    /\ socket' = "none" /\ chan' = <<>>
    /\ left' = [left EXCEPT !.breaks = @ - 1]
    /\ UNCHANGED <<observed, doing, asked, page, history>>

\* The poll, every eight seconds: the answer may be old when it arrives, and is
\* not shown while the page waits.
Fetch ==
    /\ page.answer = ""
    /\ page' = [page EXCEPT !.answer = Seen]
    /\ UNCHANGED <<observed, doing, asked, line, history, left>>

\* (mutant) The answer is not shown while an operation looks to be under way.
ApplyAtRest ==
    /\ page.answer # ""
    /\ page' = [page EXCEPT !.answer = "",
                            !.shown = IF page.shown \in State THEN page.answer ELSE @]
    /\ UNCHANGED <<observed, doing, asked, line, history, left>>

Apply ==
    /\ page.answer # ""
    /\ page' = [page EXCEPT !.answer = "", !.shown = IF page.busy = "" THEN page.answer ELSE @]
    /\ UNCHANGED <<observed, doing, asked, line, history, left>>

-----------------------------------------------------------------------------
Next ==
    \/ Other \/ Take \/ (\E c \in Checker : Check(c)) \/ (\E w \in Worker : Do(w))
    \/ Open \/ Register \/ Break
    \/ Click \/ Discover \/ Fail \/ DiscoverFails \/ Deliver \/ Fetch \/ Apply

\* Operations end (RouterLifecycle's EveryOperationEnds) and so do checks, the
\* browser reconnects after three seconds and polls every eight.
Fairness ==
    /\ WF_vars(Take) /\ \A w \in Worker : WF_vars(Do(w))
    /\ WF_vars(Open) /\ WF_vars(Register)
    /\ WF_vars(Deliver) /\ WF_vars(Fetch) /\ WF_vars(Apply)

Spec == Init /\ [][Next]_vars /\ Fairness

-----------------------------------------------------------------------------
(* Properties *)

\* The channel holds no more than its limit and the snapshot, and nobody sends
\* to a client that is not registered.
TypeOK ==
    /\ row \in State /\ routed \in BOOLEAN
    /\ asked \in Kind \union {""}
    /\ page.shown \in Shown /\ page.busy \in Busy /\ page.answer \in State \union {""}
    /\ socket \in {"none", "found", "live"}
    /\ Len(chan) <= CASE socket = "none" -> 0 [] socket = "found" -> 1 [] OTHER -> Cap + 1

\* What a page shows becomes what the gateway knows: lost and dropped messages,
\* operations that fail without an event and the answer of an old poll are all
\* made up for, unless the page waits for an operation.
PageSettles == <>[](page.busy # "" \/ page.shown = Seen)

\* What ends the wait is on its way: while a page waits and the row has been
\* brought to a state that ends the wait, such a state is in the page's channel,
\* or an operation or a check has still to announce one, or the page has no
\* connection and the next begins with a snapshot; unless an event was lost to
\* a full channel or between reading the row and registering, or a restart wrote
\* the row and then could not set the route, which nobody announces, or the
\* snapshot took the table's word for a router that has stopped.
EndIsOnItsWay ==
    fresh /\ ~missed /\ row \in Ends(page.busy) =>
        \/ socket = "none"
        \/ \E i \in DOMAIN chan : chan[i] \in Ends(page.busy)
        \/ \E w \in Worker : \E i \in DOMAIN doing[w], state \in Ends(page.busy) : doing[w][i] = E(state)

\* The page does not wait for ever, then: the wait ends, though the connection
\* breaks.  It does go on for ever after a restart that ends unhealthy, that fails
\* to set the route of a row it wrote as running, or that ends with no write; after
\* an event that was missed; and after a discovery whose event was.
WaitEnds == <>[](missed \/ ~(fresh /\ row \in Ends(page.busy)))

=============================================================================
