----------------------------- MODULE ProxyRequests -----------------------------
(***************************************************************************)
(* What becomes of a request to the proxy, from the tabs of one browser:   *)
(* which router it is for, what the gateway answers by itself, who may     *)
(* send it, what the container answers, and how the answer's addresses are *)
(* rewritten so that what the page asks for next finds its way back.       *)
(*                                                                         *)
(* A router is known by the first segment of a path, by a subdomain, or    *)
(* else by the cookie of the router used last, which all tabs on one host  *)
(* share.  A path is a sequence of segments, the last "" after a trailing  *)
(* slash.                                                                  *)
(* The table changes at any time: RouterLifecycle says when.  The checks   *)
(* of virtual keys are those of VirtualKeys, here in one step.             *)
(***************************************************************************)
EXTENDS Naturals, Sequences, FiniteSets

CONSTANTS
    Tab,       \* pages open in the browser
    Slug,      \* slugs of routers
    Look,      \* the product a slug reads like: code asks what it contains
    Key,       \* virtual keys
    Allow,     \* the routers each key is for
    Session,   \* tokens of administrators' sessions
    None,      \* no slug, no token
    Pages,     \* paths that pages ask for
    MaxSends,  \* requests a behaviour starts
    MaxChanges,\* changes of the table, the rows and the tokens in a behaviour
    Limit,     \* bytes the usage scanner buffers, in chunks
    MaxBody    \* chunks of an answer

\* What validateSlug refuses, and no more: a router may be called like a page,
\* of the gateway's redirects or of a product.  None of these words reads like
\* a product.
ASSUME ProxyAssumption ==
    /\ \A s \in Slug : Look[s] \in {"plain", "portkey", "freellm", "bifrost", "litellm"}
    /\ \A s \in Slug \intersect {"dashboard", "login", "workspace"} : Look[s] = "plain"
    /\ Slug \intersect {"", "admin", "api", "healthz", "metrics"} = {}
    /\ Slug \subseteq STRING /\ Pages \subseteq Seq(STRING) /\ None \notin Slug
    /\ {MaxSends, MaxChanges, Limit, MaxBody} \subseteq Nat

VARIABLES
    rows,     \* routers whose row has an address
    table,    \* routers the in-memory table has an address of
    active,   \* keys and sessions that are accepted
    jar,      \* the cookies cr_router_auth and cr_active_router of each host
    tabs,     \* what each tab shows: its page and that page's own URL
    reqs,     \* the request each tab waits for
    usage,    \* usage recorded
    sends,    \* requests started
    changes,  \* changes so far
    hops      \* redirects by the gateway itself since each tab's request was sent

world == <<rows, table, active, changes>>
vars  == <<world, jar, tabs, reqs, usage, sends, hops>>

-----------------------------------------------------------------------------
(* Paths *)

\* strings.Trim(path, "/"): from the first segment that is not empty to the last
Clean(path) ==
    LET named == {i \in DOMAIN path : path[i] # ""}
        first == CHOOSE i \in named : \A j \in named : i <= j
        last  == CHOOSE i \in named : \A j \in named : j <= i
    IN IF named = {} THEN <<>> ELSE SubSeq(path, first, last)
IsApi(path) == path # <<>> /\ Head(path) \in {"v1", "api"}
Segments(path) == {path[i] : i \in DOMAIN path}
First(path) == IF path = <<>> THEN "" ELSE Head(path)

NoAim  == [router |-> None, path |-> <<>>]
NoPage == [slug |-> None, sub |-> None, root |-> FALSE, url |-> <<>>]
NoReq  == [pc |-> "idle", nav |-> FALSE, get |-> TRUE, sub |-> None, url |-> <<>>, token |-> None,
           cookie |-> [auth |-> None, active |-> None], referer |-> <<>>, aim |-> NoAim,
           target |-> None, root |-> FALSE, up |-> <<>>, rest |-> <<>>,
           ki |-> None, left |-> 0, size |-> 0, buf |-> 0, stream |-> FALSE]

\* The gateway's own host, None, and the subdomains of the routers
Host == Slug \union {None}

Init ==
    /\ rows = Slug /\ table = Slug
    /\ active = Key \union Session
    /\ jar = [host \in Host |-> [auth |-> None, active |-> None]]
    /\ tabs = [t \in Tab |-> NoPage]
    /\ reqs = [t \in Tab |-> NoReq]
    /\ usage = {}
    /\ sends = 0 /\ changes = 0
    /\ hops = [t \in Tab |-> 0]

-----------------------------------------------------------------------------
(* The browser *)

\* What a page means by a request counts as long as subdomain and cookie name
\* its router and the page's own address no other, and as long as no router is
\* called like the path's first segment, or like the first of the address that
\* asks for it, but for the router's own prefix on the gateway's host.
Aimed(aim, cookie, sub, referer, url) ==
    IF /\ {cookie.active, sub} \ {None} = {aim.router}
       /\ Slug \intersect Segments(referer) \subseteq {aim.router}
       /\ First(aim.path) \notin Slug
       /\ First(url) \in Slug => sub = None /\ First(url) = aim.router
    THEN aim ELSE NoAim

\* A request goes out with the cookies of that moment.
Request(nav, get, sub, url) ==
    [NoReq EXCEPT !.pc = "sent", !.nav = nav, !.get = get, !.sub = sub, !.url = url, !.cookie = jar[sub]]

Start(t, request) ==
    /\ reqs[t].pc = "idle" /\ sends < MaxSends
    /\ reqs' = [reqs EXCEPT ![t] = request]
    /\ sends' = sends + 1
    /\ hops' = [hops EXCEPT ![t] = 0]
    /\ UNCHANGED <<world, jar, tabs, usage>>

\* An address is typed.
Visit(t) ==
    \E s \in Slug, path \in Pages :
      \/ Start(t, Request(TRUE, TRUE, None, <<s>> \o path))
      \/ Start(t, Request(TRUE, TRUE, s, path))

\* A program calls a model with a key or with a token of the product's own.
Call(t) ==
    \E s \in Slug, token \in Key \union Session \union {"native"}, models \in BOOLEAN :
      Start(t, [Request(FALSE, models, None, <<s, "v1", IF models THEN "models" ELSE "chat">>)
                  EXCEPT !.token = token])

\* transformHTML rewrites the addresses of what a page loads, and the script
\* it adds those that the page fetches; links stay as they are.
Assets == {"_next", "static", "assets", "manifest", "favicon", "icon"}
Prefix(page) == IF page.root THEN <<>> ELSE <<page.slug>>
Loaded(page, path) == IF path # <<>> /\ Head(path) \in Assets THEN Prefix(page) \o path ELSE path
Fetched(page, path) == Prefix(page) \o path

\* A page asks for one of its product's paths.
Browse(t) ==
    LET page == tabs[t] IN
    /\ page.slug # None
    /\ \E path \in Pages :
         LET asked(nav, url) == [Request(nav, TRUE, page.sub, url) EXCEPT
                 !.referer = page.url,
                 !.aim = Aimed([router |-> page.slug, path |-> path], jar[page.sub], page.sub, page.url, url)]
         IN \/ Start(t, asked(TRUE, path))
            \/ Start(t, asked(FALSE, Loaded(page, path)))
            \/ Start(t, asked(FALSE, Fetched(page, path)))

-----------------------------------------------------------------------------
(* The gateway *)

SlugOf(r) == First(r.url)

\* A mutant of Fallback: any router will do once the cookie's own is gone.
FallbackToAny(r) ==
    IF Clean(r.url) = <<>> THEN {} ELSE IF r.cookie.active \in table THEN {r.cookie.active} ELSE table

\* findFallbackRouter
Fallback(r) ==
    IF Clean(r.url) = <<>> THEN {}
    ELSE IF r.cookie.active \in table THEN {r.cookie.active}
    ELSE table \intersect Segments(r.referer)

Cookies(t) == jar[reqs[t].sub]

\* An answer of the gateway's own or of the container: its cookies reach the
\* jar, and a page shows in the tab that navigated.
Answered(t, cookies, page) ==
    /\ reqs' = [reqs EXCEPT ![t] = NoReq]
    /\ jar' = [jar EXCEPT ![reqs[t].sub] = cookies]
    /\ tabs' = [tabs EXCEPT ![t] = IF reqs[t].nav THEN page ELSE @]
    /\ UNCHANGED <<rows, active, changes, sends, hops>>

\* A redirect is followed at once, with a GET and the cookies that came with it.
Redirected(t, cookies, url, aim) ==
    /\ reqs' = [reqs EXCEPT ![t] = [NoReq EXCEPT !.pc = "sent", !.nav = reqs[t].nav, !.sub = reqs[t].sub,
                                      !.url = url, !.token = reqs[t].token, !.cookie = cookies,
                                      !.referer = reqs[t].referer,
                                      !.aim = Aimed(aim, cookies, reqs[t].sub, reqs[t].referer, url)]]
    /\ jar' = [jar EXCEPT ![reqs[t].sub] = cookies]
    /\ UNCHANGED <<world, tabs, usage, sends>>

ErrorPage(t) == [NoPage EXCEPT !.url = reqs[t].url]

Found(t, target, root, up) ==
    reqs' = [reqs EXCEPT ![t].pc = "found", ![t].target = target, ![t].root = root, ![t].up = up]

\* Handle and the lookups of handleRequest.  The root is never forwarded.
Route(t) ==
    LET r == reqs[t]
        bySub  == r.sub \in table
        bySlug == SlugOf(r) \in table
    IN
    /\ r.pc = "sent"
    /\ \/ /\ Clean(r.url) = <<>>
          /\ Answered(t, Cookies(t), ErrorPage(t))
          /\ UNCHANGED <<table, usage>>
       \/ /\ Clean(r.url) # <<>>
          /\ \/ bySub /\ Found(t, r.sub, TRUE, r.url)
             \/ ~bySub /\ bySlug /\ Found(t, SlugOf(r), FALSE, Tail(r.url))
             \/ ~bySub /\ ~bySlug /\ \E s \in Fallback(r) : Found(t, s, TRUE, r.url)
             \/ /\ ~bySub /\ ~bySlug /\ Fallback(r) = {}
                /\ reqs' = [reqs EXCEPT ![t].pc = "lost"]
          /\ UNCHANGED <<world, jar, tabs, usage, sends, hops>>

\* The row of the slug, which also fills the table; or 502
RouteByRow(t) ==
    LET r == reqs[t] IN
    /\ r.pc = "lost"
    /\ \/ /\ SlugOf(r) \in rows
          /\ Found(t, SlugOf(r), FALSE, Tail(r.url))
          /\ table' = table \union {SlugOf(r)}
          /\ UNCHANGED <<rows, active, changes, jar, tabs, usage, sends, hops>>
       \/ /\ SlugOf(r) \notin rows
          /\ Answered(t, Cookies(t), ErrorPage(t))
          /\ UNCHANGED <<table, usage>>

\* A mutant of Landing: LiteLLM's page without the path under which it is.
LandingAtSlug(s, clean) ==
    CASE Look[s] = "bifrost" -> <<"workspace", "logs">>
      [] Look[s] = "litellm" -> <<s, "">>
      [] Look[s] = "freellm" -> IF clean = <<"login">> THEN <<"login">> ELSE <<>>
      [] OTHER               -> IF clean = <<"login">> THEN <<"login">> ELSE <<"dashboard">>

\* Where the router's own page is, for a browser that opens it under its slug
Landing(s, clean) ==
    CASE Look[s] = "bifrost" -> <<"workspace", "logs">>
      [] Look[s] = "litellm" -> <<s, "ui", "">>
      [] Look[s] = "freellm" -> IF clean = <<"login">> THEN <<"login">> ELSE <<>>
      [] OTHER               -> IF clean = <<"login">> THEN <<"login">> ELSE <<"dashboard">>

Redirects(r) ==
    LET clean == Clean(r.up)
        browsed == r.get /\ ~IsApi(r.up)
    IN  CASE r.root /\ browsed /\ clean = <<"dashboard">> /\ Look[r.target] = "freellm" -> {<<>>}
          [] r.root /\ browsed /\ clean = <<"workspace">> -> {<<"workspace", "logs">>}
          [] ~r.root /\ browsed
               /\ clean \in {<<>>, <<"open">>, <<"dashboard">>, <<"login">>, <<"workspace">>} ->
               {Landing(r.target, clean)}
          [] r.root /\ r.get /\ r.url = <<r.target>> -> {<<>>}
          [] OTHER -> {}

\* What is answered without the container: the page made for Portkey and the
\* status of /v1
IsPortkeyPage(r) ==
    /\ Look[r.target] = "portkey" /\ r.get /\ ~IsApi(r.up)
    /\ r.root \/ Clean(r.up) \in {<<>>, <<"open">>, <<"ui">>, <<"dashboard">>, <<"healthz">>}

IsStatus(r) == Clean(r.up) = <<"v1">> /\ r.get

\* Only the activation under the slug sets the cookie.
Activating(t) == IF reqs[t].root THEN Cookies(t) ELSE [Cookies(t) EXCEPT !.active = reqs[t].target]

Local(t) ==
    LET r == reqs[t] IN
    /\ r.pc = "found"
    /\ \/ /\ IsPortkeyPage(r) \/ (Redirects(r) = {} /\ IsStatus(r))
          /\ Answered(t, Cookies(t), ErrorPage(t))
          /\ UNCHANGED <<table, usage>>
       \/ /\ ~IsPortkeyPage(r)
          /\ \E url \in Redirects(r) : Redirected(t, Activating(t), url, r.aim)
          /\ hops' = [hops EXCEPT ![t] = @ + 1]
       \/ /\ ~IsPortkeyPage(r) /\ Redirects(r) = {} /\ ~IsStatus(r)
          /\ reqs' = [reqs EXCEPT ![t].pc = "routed"]
          /\ UNCHANGED <<world, jar, tabs, usage, sends, hops>>

\* extractToken: what the request says, else the cookie
Token(r) == IF r.token # None THEN r.token ELSE r.cookie.auth

IsAdmin(r) == Token(r) \in Session \intersect active

\* A mutant of Admitted: the allowlist is asked about the segment of the path.
AdmittedBySegment(r) ==
    IF IsAdmin(r) \/ Token(r) \notin Key THEN TRUE
    ELSE Token(r) \in active /\ (SlugOf(r) \in Slug => SlugOf(r) \in Allow[Token(r)])

Admitted(r) == IF IsAdmin(r) \/ Token(r) \notin Key THEN TRUE
               ELSE Token(r) \in active /\ r.target \in Allow[Token(r)]

\* The cookies of an admitted request, whatever its answer will be
Granted(t) == [auth   |-> IF Token(reqs[t]) # None THEN Token(reqs[t]) ELSE Cookies(t).auth,
               active |-> reqs[t].target]

\* A refused key, an exhausted limit or budget, a model that is not allowed
Admit(t) ==
    LET r == reqs[t] IN
    /\ r.pc = "routed"
    /\ \/ /\ Admitted(r)
          /\ reqs' = [reqs EXCEPT ![t].pc = "forward",
                                  ![t].ki = IF IsAdmin(r) \/ Token(r) \notin Key THEN None ELSE Token(r)]
          /\ UNCHANGED <<world, jar, tabs, usage, sends, hops>>
       \/ /\ ~Admitted(r) \/ (~IsAdmin(r) /\ Token(r) \in Key)
          /\ \E cookies \in {Cookies(t)} \union (IF Admitted(r) THEN {Granted(t)} ELSE {}) :
               Answered(t, cookies, ErrorPage(t))
          /\ UNCHANGED <<table, usage>>

\* The paths tried in turn after a 404
Alternatives(up) ==
    LET clean == Clean(up) IN
    CASE Len(up) > 1 /\ up[1] = "v1" /\ up[2] # ""   -> <<<<"api">> \o up>>
      [] Len(up) > 2 /\ SubSeq(up, 1, 2) = <<"api", "v1">> /\ up[3] # "" -> <<Tail(up)>>
      [] clean = <<"v1">>        -> <<<<"api", "v1">>, <<"v1", "models">>, <<"api", "v1", "models">>>>
      [] clean = <<"api", "v1">> -> <<<<"v1">>, <<"api", "v1", "models">>, <<"v1", "models">>>>
      [] Segments(up) \intersect {"v1", "api"} # {} /\ up[Len(up)] = "models" ->
           <<<<"v1", "models">>, <<"api", "v1", "models">>>>
      [] OTHER -> <<>>

\* rewriteLocation, of the path in a Location with or without the container's
\* host.  Without a prefix the latter is left alone, and the browser is lost.
Rewritten(r, path) ==
    IF r.root \/ (path # <<>> /\ Head(path) = r.target) THEN path ELSE <<r.target>> \o path

\* The container's answer: a page, a redirect to one of its paths, which knows
\* the prefix or not, or what a model says, which passes through the scanner
Arrive(t) ==
    LET r == reqs[t]
        page == [slug |-> r.target, sub |-> r.sub, root |-> r.root, url |-> r.url]
    IN
    \/ /\ Answered(t, Granted(t), page)
       /\ UNCHANGED <<table, usage>>
    \/ \E path \in Pages : \E location \in {path, IF r.root THEN path ELSE <<r.target>> \o path} :
         /\ Redirected(t, Granted(t), Rewritten(r, location), [router |-> r.target, path |-> path])
         /\ hops' = [hops EXCEPT ![t] = 0]
    \/ \E size \in 1 .. MaxBody, stream \in BOOLEAN :
         /\ ~r.get
         /\ reqs' = [reqs EXCEPT ![t].pc = "copying", ![t].left = size, ![t].size = size,
                                 ![t].stream = stream]
         /\ jar' = [jar EXCEPT ![r.sub] = Granted(t)]
         /\ UNCHANGED <<world, tabs, usage, sends, hops>>

\* A mutant of Forward: a connection that breaks leaves the request half cleared.
ForwardHalfCleared(t) == reqs[t].pc = "forward" /\ reqs' = [reqs EXCEPT ![t].pc = "idle"]
                   /\ UNCHANGED <<world, jar, tabs, usage, sends, hops>>

\* client.Do: the container answers, is unreachable, or has no such path.
Forward(t) ==
    LET r == reqs[t] IN
    /\ r.pc = "forward"
    /\ \/ Arrive(t)
       \/ /\ Answered(t, Granted(t), ErrorPage(t))
          /\ UNCHANGED <<table, usage>>
       \/ /\ reqs' = [reqs EXCEPT ![t].pc = "retry", ![t].rest = Alternatives(r.up)]
          /\ UNCHANGED <<world, jar, tabs, usage, sends, hops>>

Retry(t) ==
    LET r == reqs[t] IN
    /\ r.pc = "retry"
    /\ \/ r.rest # <<>> /\ Arrive(t)
       \/ /\ r.rest # <<>>
          /\ reqs' = [reqs EXCEPT ![t].rest = Tail(@)]
          /\ UNCHANGED <<world, jar, tabs, usage, sends, hops>>
       \/ /\ r.rest = <<>>
          /\ Answered(t, Granted(t), ErrorPage(t))
          /\ UNCHANGED <<table, usage>>

-----------------------------------------------------------------------------
(* The copy of an answer, and the usage read off it *)

\* A mutant of Copy: only what fits as a whole is taken.
CopyWhatFits(t) ==
    LET r == reqs[t] IN
    /\ r.pc = "copying" /\ r.left > 0
    /\ \E n \in 1 .. r.left :
         reqs' = [reqs EXCEPT ![t].left = @ - n, ![t].buf = IF @ + n < Limit THEN @ + n ELSE @]
    /\ UNCHANGED <<world, jar, tabs, usage, sends, hops>>

\* usageScanner.Write takes a whole chunk while it has room.
Copy(t) ==
    LET r == reqs[t] IN
    /\ r.pc = "copying" /\ r.left > 0
    /\ \E n \in 1 .. r.left :
         reqs' = [reqs EXCEPT ![t].left = @ - n, ![t].buf = IF @ < Limit THEN @ + n ELSE @]
    /\ UNCHANGED <<world, jar, tabs, usage, sends, hops>>

\* parse needs one complete JSON object: a stream of events is none.
Parsed(r) == ~r.stream /\ r.buf = r.size

\* The end of the answer, or of the client, and recordUsage of a virtual key
Finish(t) ==
    LET r == reqs[t] IN
    /\ r.pc = "copying"
    /\ usage' = IF r.ki = None THEN usage
                ELSE usage \union {[key |-> r.ki, router |-> r.target, whole |-> r.left = 0,
                                    size |-> r.size, stream |-> r.stream, known |-> Parsed(r)]}
    /\ Answered(t, Cookies(t), ErrorPage(t))
    /\ UNCHANGED table

-----------------------------------------------------------------------------
(* Everybody else *)

\* Routers come and go, in the row first or in the table first; a key is
\* revoked, a session ends.
Change ==
    /\ changes < MaxChanges
    /\ changes' = changes + 1
    /\ \/ \E s \in Slug : table' = (table \ {s}) \union ({s} \ table) /\ UNCHANGED <<rows, active>>
       \/ \E s \in Slug : rows' = (rows \ {s}) \union ({s} \ rows) /\ UNCHANGED <<table, active>>
       \/ \E x \in active : active' = active \ {x} /\ UNCHANGED <<rows, table>>
    /\ UNCHANGED <<jar, tabs, reqs, usage, sends, hops>>

Next ==
    \/ \E t \in Tab :
         \/ Visit(t) \/ Call(t) \/ Browse(t)
         \/ Route(t) \/ RouteByRow(t) \/ Local(t) \/ Admit(t) \/ Forward(t) \/ Retry(t)
         \/ Copy(t) \/ Finish(t)
    \/ Change

Spec == Init /\ [][Next]_vars

-----------------------------------------------------------------------------
(* Properties *)

\* A request has a target from when it is found to when it is answered, which
\* is then the only one whose container sees it, and a tab that shows a page
\* of a router has been given its cookie or was opened under its subdomain.
TypeOK ==
    /\ rows \subseteq Slug /\ table \subseteq Slug /\ active \subseteq Key \union Session
    /\ jar \in [Host -> [auth : Key \union Session \union {"native", None}, active : Host]]
    /\ \A t \in Tab :
         /\ tabs[t].slug \in Slug \union {None}
         /\ reqs[t].pc \in {"idle", "sent", "lost", "found", "routed", "forward", "retry", "copying"}
         /\ (reqs[t].target # None) = (reqs[t].pc \in {"found", "routed", "forward", "retry", "copying"})
         /\ reqs[t].ki # None => reqs[t].pc \in {"forward", "retry", "copying"}
    /\ sends \in 0 .. MaxSends /\ changes \in 0 .. MaxChanges

Forwarded(t) == reqs[t].pc \in {"forward", "retry", "copying"}

\* A virtual key never reaches the container of a router it is not for,
\* whichever of path, subdomain, cookie, referer and row found that router.
KeyStaysInAllowlist ==
    \A t \in Tab : Forwarded(t) /\ reqs[t].ki # None => reqs[t].target \in Allow[reqs[t].ki]

\* Whatever a page asks for, by a link, an asset, a fetch or a redirect, is
\* forwarded to its own router under the path it meant, or to nobody, as long
\* as what Aimed says holds when it goes out: also when the router is leaving
\* the table.  (An address that names another router does catch the request
\* once the cookie's router has left the table, and a router that is called
\* like the path's first segment catches it at any time.)  Under paths the
\* gateway takes for a visit it may be another path.
FindsItsWay ==
    \A t \in Tab : Forwarded(t) /\ reqs[t].aim # NoAim =>
      /\ reqs[t].target = reqs[t].aim.router
      /\ \/ reqs[t].up = reqs[t].aim.path
         \/ Clean(reqs[t].aim.path) \in {<<>>, <<"open">>, <<"dashboard">>, <<"login">>, <<"workspace">>}

\* The gateway's own redirects end: at most two in a row, three if a router is
\* called login, whatever happens to the table in between.  A router called
\* dashboard, which validateSlug allows, is sent from /dashboard to /dashboard
\* for ever, and is excluded; redirects of the containers start a new row, so
\* that nothing is said of a circle of theirs and the gateway's.
RedirectsEnd ==
    "dashboard" \notin Slug => \A t \in Tab : hops[t] <= IF "login" \in Slug THEN 3 ELSE 2

\* Usage is known of every complete answer that fits the buffer, however it
\* was cut into chunks, and of no other than a complete one.
UsageCaptured ==
    \A u \in usage : /\ u.known => u.whole /\ ~u.stream
                     /\ u.whole /\ ~u.stream /\ u.size <= Limit => u.known

=============================================================================
