-------------------------- MODULE ProxyRequestsProofs --------------------------
(***************************************************************************)
(* Whose container a virtual key reaches, where what a page asks for goes, *)
(* how many redirects in a row the gateway sends, and what is recorded of  *)
(* an answer, for any routers, keys, pages, paths and limits.              *)
(***************************************************************************)
EXTENDS ProxyRequests, SequenceTheorems, TLAPS

-----------------------------------------------------------------------------
(* The invariant.  A request that has passed Admit is for a router its key *)
(* is for, and nothing after Admit changes either.  Of an answer that is   *)
(* being copied, what is buffered and what is still to come never exceed   *)
(* its size, and make it up as long as it fits the buffer.                 *)

Fields == {"pc", "nav", "get", "sub", "url", "token", "cookie", "referer", "aim", "target",
           "root", "up", "rest", "ki", "left", "size", "buf", "stream"}

KeyOK(r) == r.pc \in {"forward", "retry", "copying"} /\ r.ki # None => r.target \in Allow[r.ki]

CopyOK(r) == r.pc = "copying" =>
    /\ r.left \in Nat /\ r.size \in Nat /\ r.buf \in Nat
    /\ r.buf + r.left <= r.size
    /\ r.size <= Limit => r.buf + r.left = r.size

\* Until it is forwarded a request has no answer that was copied.
FreshOK(r) == r.pc # "copying" => r.buf = 0

ReqOK(r) == DOMAIN r = Fields /\ KeyOK(r) /\ CopyOK(r) /\ FreshOK(r)

ReqsOK == DOMAIN reqs = Tab /\ \A t \in Tab : ReqOK(reqs[t])

ReqInv == ReqsOK /\ UsageCaptured

-----------------------------------------------------------------------------

LEMMA NoReqOK == ReqOK(NoReq)
  BY DEF ReqOK, KeyOK, CopyOK, FreshOK, NoReq, Fields

\* A step that replaces one request, and no usage
LEMMA ReqFrame ==
  ASSUME ReqInv, NEW t \in Tab, NEW r, ReqOK(r),
         reqs' = [reqs EXCEPT ![t] = r], UNCHANGED usage
  PROVE  ReqInv'
<1>1. DOMAIN reqs = Tab /\ \A u \in Tab : ReqOK(reqs[u]) BY DEF ReqInv, ReqsOK
<1>2. DOMAIN reqs' = Tab BY <1>1
<1>3. ASSUME NEW u \in Tab PROVE ReqOK(reqs'[u]) BY <1>1, <1>3
<1>4. UsageCaptured' BY DEF ReqInv, UsageCaptured
<1>5. QED BY <1>2, <1>3, <1>4 DEF ReqInv, ReqsOK

\* A new request, with a token or an aim of its own or none
LEMMA SentOK ==
  ASSUME NEW r, DOMAIN r = Fields, r.pc = "sent", r.buf = 0
  PROVE  ReqOK(r)
  BY DEF ReqOK, KeyOK, CopyOK, FreshOK

LEMMA RequestOK ==
  ASSUME NEW nav, NEW get, NEW sub, NEW url
  PROVE  /\ DOMAIN Request(nav, get, sub, url) = Fields
         /\ Request(nav, get, sub, url).pc = "sent"
         /\ Request(nav, get, sub, url).buf = 0
  BY DEF Request, NoReq, Fields

LEMMA StartOK ==
  ASSUME ReqInv, NEW t \in Tab, NEW r, DOMAIN r = Fields, r.pc = "sent", r.buf = 0, Start(t, r)
  PROVE  ReqInv'
  BY SentOK, ReqFrame DEF Start

LEMMA AnsweredOK ==
  ASSUME ReqInv, NEW t \in Tab, NEW cookies, NEW page, Answered(t, cookies, page), UNCHANGED usage
  PROVE  ReqInv'
  BY NoReqOK, ReqFrame DEF Answered

LEMMA RedirectedOK ==
  ASSUME ReqInv, NEW t \in Tab, NEW cookies, NEW url, NEW aim, Redirected(t, cookies, url, aim)
  PROVE  ReqInv'
<1> DEFINE r == [NoReq EXCEPT !.pc = "sent", !.nav = reqs[t].nav, !.sub = reqs[t].sub,
                              !.url = url, !.token = reqs[t].token, !.cookie = cookies,
                              !.referer = reqs[t].referer,
                              !.aim = Aimed(aim, cookies, reqs[t].sub, reqs[t].referer, url)]
<1>1. DOMAIN r = Fields /\ r.pc = "sent" /\ r.buf = 0 BY DEF NoReq, Fields
<1>2. reqs' = [reqs EXCEPT ![t] = r] /\ UNCHANGED usage BY DEF Redirected
<1> HIDE DEF r
<1>3. QED BY <1>1, <1>2, SentOK, ReqFrame

\* A step that only takes a request from one place of the proxy to another
\* that is not past Admit
LEMMA MovedOK ==
  ASSUME ReqInv, NEW t \in Tab, reqs[t].pc # "copying", NEW r, DOMAIN r = Fields,
         r.pc \in {"lost", "found", "routed"}, r.buf = reqs[t].buf,
         reqs' = [reqs EXCEPT ![t] = r], UNCHANGED usage
  PROVE  ReqInv'
<1>1. reqs[t].buf = 0 BY DEF ReqInv, ReqsOK, ReqOK, FreshOK
<1>2. ReqOK(r) BY <1>1 DEF ReqOK, KeyOK, CopyOK, FreshOK
<1>3. QED BY <1>2, ReqFrame

-----------------------------------------------------------------------------
(* The actions *)

LEMMA InitReq == Init => ReqInv
<1>1. ASSUME Init PROVE ReqsOK BY <1>1, NoReqOK DEF Init, ReqsOK
<1>2. ASSUME Init PROVE UsageCaptured BY <1>2 DEF Init, UsageCaptured
<1>3. QED BY <1>1, <1>2 DEF ReqInv

LEMMA VisitReq ==
  ASSUME ReqInv, NEW t \in Tab, Visit(t)
  PROVE  ReqInv'
<1>1. PICK s \in Slug, path \in Pages :
        \/ Start(t, Request(TRUE, TRUE, None, <<s>> \o path))
        \/ Start(t, Request(TRUE, TRUE, s, path))
  BY DEF Visit
<1>2. QED BY <1>1, RequestOK, StartOK

LEMMA CallReq ==
  ASSUME ReqInv, NEW t \in Tab, Call(t)
  PROVE  ReqInv'
<1>1. PICK s \in Slug, token \in Key \union Session \union {"native"}, models \in BOOLEAN :
        Start(t, [Request(FALSE, models, None, <<s, "v1", IF models THEN "models" ELSE "chat">>)
                    EXCEPT !.token = token])
  BY DEF Call
<1> DEFINE q == Request(FALSE, models, None, <<s, "v1", IF models THEN "models" ELSE "chat">>)
           r == [q EXCEPT !.token = token]
<1>2. DOMAIN q = Fields /\ q.pc = "sent" /\ q.buf = 0 BY RequestOK
<1>3. Start(t, r) BY <1>1
<1> HIDE DEF q
<1>4. DOMAIN r = Fields /\ r.pc = "sent" /\ r.buf = 0 BY <1>2
<1> HIDE DEF r
<1>5. QED BY <1>3, <1>4, StartOK

LEMMA BrowseReq ==
  ASSUME ReqInv, NEW t \in Tab, Browse(t)
  PROVE  ReqInv'
<1> DEFINE page == tabs[t]
           asked(nav, url, path) == [Request(nav, TRUE, page.sub, url) EXCEPT
                 !.referer = page.url,
                 !.aim = Aimed([router |-> page.slug, path |-> path], jar[page.sub], page.sub, page.url, url)]
<1>1. PICK path \in Pages : \/ Start(t, asked(TRUE, path, path))
                            \/ Start(t, asked(FALSE, Loaded(page, path), path))
                            \/ Start(t, asked(FALSE, Fetched(page, path), path))
  BY DEF Browse
<1>2. ASSUME NEW nav, NEW url
      PROVE  /\ DOMAIN asked(nav, url, path) = Fields
             /\ asked(nav, url, path).pc = "sent" /\ asked(nav, url, path).buf = 0
  <2> DEFINE q == Request(nav, TRUE, page.sub, url)
  <2>1. DOMAIN q = Fields /\ q.pc = "sent" /\ q.buf = 0 BY RequestOK
  <2>2. asked(nav, url, path) = [q EXCEPT !.referer = page.url,
                 !.aim = Aimed([router |-> page.slug, path |-> path], jar[page.sub], page.sub, page.url, url)]
    OBVIOUS
  <2> HIDE DEF q, asked
  <2>3. QED BY <2>1, <2>2
<1> HIDE DEF asked
<1>3. QED BY <1>1, <1>2, StartOK

LEMMA FoundReq ==
  ASSUME ReqInv, NEW t \in Tab, reqs[t].pc # "copying", NEW target, NEW root, NEW up,
         Found(t, target, root, up), UNCHANGED usage
  PROVE  ReqInv'
<1> DEFINE r == [reqs[t] EXCEPT !.pc = "found", !.target = target, !.root = root, !.up = up]
<1>1. DOMAIN reqs[t] = Fields BY DEF ReqInv, ReqsOK, ReqOK
<1>2. DOMAIN r = Fields /\ r.pc = "found" /\ r.buf = reqs[t].buf BY <1>1 DEF Fields
<1>3. reqs' = [reqs EXCEPT ![t] = r] BY DEF Found
<1> HIDE DEF r
<1>4. QED BY <1>2, <1>3, MovedOK

LEMMA PcReq ==
  ASSUME ReqInv, NEW t \in Tab, reqs[t].pc # "copying", NEW p \in {"lost", "routed"},
         reqs' = [reqs EXCEPT ![t].pc = p], UNCHANGED usage
  PROVE  ReqInv'
<1> DEFINE r == [reqs[t] EXCEPT !.pc = p]
<1>1. DOMAIN reqs[t] = Fields BY DEF ReqInv, ReqsOK, ReqOK
<1>2. DOMAIN r = Fields /\ r.pc = p /\ r.buf = reqs[t].buf BY <1>1 DEF Fields
<1>3. reqs' = [reqs EXCEPT ![t] = r] OBVIOUS
<1> HIDE DEF r
<1>4. QED BY <1>2, <1>3, MovedOK

LEMMA RouteReq ==
  ASSUME ReqInv, NEW t \in Tab, Route(t)
  PROVE  ReqInv'
<1>1. reqs[t].pc # "copying" BY DEF Route
<1>2. \/ Answered(t, Cookies(t), ErrorPage(t)) /\ UNCHANGED usage
      \/ UNCHANGED usage /\ \E s, root, up : Found(t, s, root, up)
      \/ UNCHANGED usage /\ reqs' = [reqs EXCEPT ![t].pc = "lost"]
  BY DEF Route, world
<1>3. QED BY <1>1, <1>2, AnsweredOK, FoundReq, PcReq

LEMMA RouteByRowReq ==
  ASSUME ReqInv, NEW t \in Tab, RouteByRow(t)
  PROVE  ReqInv'
<1>1. reqs[t].pc # "copying" BY DEF RouteByRow
<1>2. \/ Answered(t, Cookies(t), ErrorPage(t)) /\ UNCHANGED usage
      \/ UNCHANGED usage /\ \E s, root, up : Found(t, s, root, up)
  BY DEF RouteByRow
<1>3. QED BY <1>1, <1>2, AnsweredOK, FoundReq

LEMMA LocalReq ==
  ASSUME ReqInv, NEW t \in Tab, Local(t)
  PROVE  ReqInv'
<1>1. reqs[t].pc # "copying" BY DEF Local
<1>2. \/ Answered(t, Cookies(t), ErrorPage(t)) /\ UNCHANGED usage
      \/ \E url : Redirected(t, Activating(t), url, reqs[t].aim)
      \/ UNCHANGED usage /\ reqs' = [reqs EXCEPT ![t].pc = "routed"]
  BY DEF Local
<1>3. QED BY <1>1, <1>2, AnsweredOK, RedirectedOK, PcReq

\* The allowlist is asked about the router the request was found to be for.
LEMMA AdmitReq ==
  ASSUME ReqInv, NEW t \in Tab, Admit(t)
  PROVE  ReqInv'
<1> DEFINE k == IF IsAdmin(reqs[t]) \/ Token(reqs[t]) \notin Key THEN None ELSE Token(reqs[t])
           r == [reqs[t] EXCEPT !.pc = "forward", !.ki = k]
<1>1. DOMAIN reqs[t] = Fields /\ reqs[t].buf = 0
  BY DEF ReqInv, ReqsOK, ReqOK, FreshOK, Admit
<1>2. CASE Admitted(reqs[t]) /\ reqs' = [reqs EXCEPT ![t] = r] /\ UNCHANGED usage
  <2>1. k # None => reqs[t].target \in Allow[k] BY <1>2 DEF Admitted
  <2> HIDE DEF k
  <2>2. DOMAIN r = Fields /\ r.pc = "forward" /\ r.ki = k /\ r.target = reqs[t].target /\ r.buf = 0
    BY <1>1 DEF Fields
  <2> HIDE DEF r
  <2>3. ReqOK(r) BY <2>1, <2>2 DEF ReqOK, KeyOK, CopyOK, FreshOK
  <2>4. QED BY <1>2, <2>3, ReqFrame
<1>3. CASE UNCHANGED usage /\ \E cookies : Answered(t, cookies, ErrorPage(t))
  BY <1>3, AnsweredOK
<1>4. \/ Admitted(reqs[t]) /\ reqs' = [reqs EXCEPT ![t] = r] /\ UNCHANGED usage
      \/ UNCHANGED usage /\ \E cookies : Answered(t, cookies, ErrorPage(t))
  BY DEF Admit
<1>5. QED BY <1>2, <1>3, <1>4

LEMMA ArriveReq ==
  ASSUME ReqInv, NEW t \in Tab, reqs[t].pc \in {"forward", "retry"}, Arrive(t)
  PROVE  ReqInv'
<1>1. CASE UNCHANGED usage /\ \E page : Answered(t, Granted(t), page) BY <1>1, AnsweredOK
<1>2. CASE \E url, aim : Redirected(t, Granted(t), url, aim) BY <1>2, RedirectedOK
<1>3. CASE UNCHANGED usage /\ \E size \in 1 .. MaxBody, stream \in BOOLEAN :
             reqs' = [reqs EXCEPT ![t].pc = "copying", ![t].left = size, ![t].size = size,
                                  ![t].stream = stream]
  <2>1. PICK size \in 1 .. MaxBody, stream \in BOOLEAN :
          reqs' = [reqs EXCEPT ![t].pc = "copying", ![t].left = size, ![t].size = size,
                               ![t].stream = stream]
    BY <1>3
  <2> DEFINE r == [reqs[t] EXCEPT !.pc = "copying", !.left = size, !.size = size, !.stream = stream]
  <2>2. DOMAIN reqs[t] = Fields /\ KeyOK(reqs[t]) /\ reqs[t].buf = 0
    BY DEF ReqInv, ReqsOK, ReqOK, FreshOK
  <2>3. /\ DOMAIN r = Fields /\ r.pc = "copying" /\ r.left = size /\ r.size = size
        /\ r.buf = 0 /\ r.ki = reqs[t].ki /\ r.target = reqs[t].target
    BY <2>2 DEF Fields
  <2>4. reqs' = [reqs EXCEPT ![t] = r] BY <2>1
  <2> HIDE DEF r
  <2>5. MaxBody \in Nat BY ProxyAssumption
  <2>6. CopyOK(r)
    <3>1. size \in Nat BY <2>5
    <3>2. QED BY <2>3, <3>1 DEF CopyOK
  <2>7. KeyOK(r) BY <2>2, <2>3 DEF KeyOK
  <2>8. ReqOK(r) BY <2>3, <2>6, <2>7 DEF ReqOK, FreshOK
  <2>9. QED BY <1>3, <2>4, <2>8, ReqFrame
<1>4. QED BY <1>1, <1>2, <1>3 DEF Arrive

LEMMA RestReq ==
  ASSUME ReqInv, NEW t \in Tab, reqs[t].pc \in {"forward", "retry"}, NEW rest,
         reqs' = [reqs EXCEPT ![t].pc = "retry", ![t].rest = rest], UNCHANGED usage
  PROVE  ReqInv'
<1> DEFINE r == [reqs[t] EXCEPT !.pc = "retry", !.rest = rest]
<1>1. DOMAIN reqs[t] = Fields /\ KeyOK(reqs[t]) /\ reqs[t].buf = 0
  BY DEF ReqInv, ReqsOK, ReqOK, FreshOK
<1>2. DOMAIN r = Fields /\ r.pc = "retry" /\ r.ki = reqs[t].ki /\ r.target = reqs[t].target /\ r.buf = 0
  BY <1>1 DEF Fields
<1>3. reqs' = [reqs EXCEPT ![t] = r] OBVIOUS
<1> HIDE DEF r
<1>4. ReqOK(r) BY <1>1, <1>2 DEF ReqOK, KeyOK, CopyOK, FreshOK
<1>5. QED BY <1>3, <1>4, ReqFrame

LEMMA ForwardReq ==
  ASSUME ReqInv, NEW t \in Tab, Forward(t)
  PROVE  ReqInv'
<1>1. reqs[t].pc \in {"forward", "retry"} BY DEF Forward
<1>2. \/ Arrive(t)
      \/ Answered(t, Granted(t), ErrorPage(t)) /\ UNCHANGED usage
      \/ UNCHANGED usage /\ \E rest : reqs' = [reqs EXCEPT ![t].pc = "retry", ![t].rest = rest]
  BY DEF Forward
<1>3. QED BY <1>1, <1>2, ArriveReq, AnsweredOK, RestReq

LEMMA RetryReq ==
  ASSUME ReqInv, NEW t \in Tab, Retry(t)
  PROVE  ReqInv'
<1>1. reqs[t].pc = "retry" BY DEF Retry
<1>2. CASE Arrive(t) BY <1>1, <1>2, ArriveReq
<1>3. CASE Answered(t, Granted(t), ErrorPage(t)) /\ UNCHANGED usage BY <1>3, AnsweredOK
<1>4. CASE UNCHANGED usage /\ reqs' = [reqs EXCEPT ![t].rest = Tail(@)]
  <2> DEFINE r == [reqs[t] EXCEPT !.rest = Tail(@)]
  <2>1. DOMAIN reqs[t] = Fields /\ KeyOK(reqs[t]) /\ reqs[t].buf = 0
    BY <1>1 DEF ReqInv, ReqsOK, ReqOK, FreshOK
  <2>2. DOMAIN r = Fields /\ r.pc = "retry" /\ r.ki = reqs[t].ki /\ r.target = reqs[t].target /\ r.buf = 0
    BY <1>1, <2>1 DEF Fields
  <2>3. reqs' = [reqs EXCEPT ![t] = r] BY <1>4
  <2> HIDE DEF r
  <2>4. ReqOK(r) BY <1>1, <2>1, <2>2 DEF ReqOK, KeyOK, CopyOK, FreshOK
  <2>5. QED BY <1>4, <2>3, <2>4, ReqFrame
<1>5. QED BY <1>2, <1>3, <1>4 DEF Retry

\* A chunk is taken whole while there is room, so an answer that fits is
\* taken to the last chunk.
LEMMA CopyReq ==
  ASSUME ReqInv, NEW t \in Tab, Copy(t)
  PROVE  ReqInv'
<1>1. PICK n \in 1 .. reqs[t].left :
        reqs' = [reqs EXCEPT ![t].left = @ - n, ![t].buf = IF @ < Limit THEN @ + n ELSE @]
  BY DEF Copy
<1> DEFINE r == [reqs[t] EXCEPT !.left = @ - n, !.buf = IF @ < Limit THEN @ + n ELSE @]
<1>2. /\ DOMAIN reqs[t] = Fields /\ KeyOK(reqs[t]) /\ CopyOK(reqs[t])
      /\ reqs[t].pc = "copying" /\ UNCHANGED usage
  BY DEF ReqInv, ReqsOK, ReqOK, Copy
<1>3. /\ DOMAIN r = Fields /\ r.pc = "copying" /\ r.ki = reqs[t].ki /\ r.target = reqs[t].target
      /\ r.size = reqs[t].size /\ r.left = reqs[t].left - n
      /\ r.buf = IF reqs[t].buf < Limit THEN reqs[t].buf + n ELSE reqs[t].buf
  BY <1>2 DEF Fields
<1>4. reqs' = [reqs EXCEPT ![t] = r] BY <1>1
<1> HIDE DEF r
<1>5. /\ reqs[t].left \in Nat /\ reqs[t].size \in Nat /\ reqs[t].buf \in Nat
      /\ reqs[t].buf + reqs[t].left <= reqs[t].size
      /\ reqs[t].size <= Limit => reqs[t].buf + reqs[t].left = reqs[t].size
  BY <1>2 DEF CopyOK
<1>6. Limit \in Nat BY ProxyAssumption
<1>7. CopyOK(r) BY <1>3, <1>5, <1>6 DEF CopyOK
<1>8. ReqOK(r) BY <1>2, <1>3, <1>7 DEF ReqOK, KeyOK, FreshOK
<1>9. QED BY <1>2, <1>4, <1>8, ReqFrame

LEMMA FinishReq ==
  ASSUME ReqInv, NEW t \in Tab, Finish(t)
  PROVE  ReqInv'
<1> DEFINE r == reqs[t]
           u0 == [key |-> r.ki, router |-> r.target, whole |-> r.left = 0,
                  size |-> r.size, stream |-> r.stream, known |-> Parsed(r)]
<1>1. ReqsOK /\ UsageCaptured BY DEF ReqInv
<1>2. reqs' = [reqs EXCEPT ![t] = NoReq] BY DEF Finish, Answered
<1>3. ReqsOK'
  <2>1. DOMAIN reqs' = Tab BY <1>1, <1>2 DEF ReqsOK
  <2>2. ASSUME NEW s \in Tab PROVE ReqOK(reqs'[s]) BY <1>1, <1>2, NoReqOK DEF ReqsOK
  <2>3. QED BY <2>1, <2>2 DEF ReqsOK
<1>4. usage' = usage \/ usage' = usage \union {u0} BY DEF Finish
<1>5. CopyOK(r) /\ r.pc = "copying" BY <1>1 DEF ReqsOK, ReqOK, Finish
<1>6. /\ r.left \in Nat /\ r.size \in Nat /\ r.buf \in Nat
      /\ r.buf + r.left <= r.size
      /\ r.size <= Limit => r.buf + r.left = r.size
  BY <1>5 DEF CopyOK
<1>7. Parsed(r) <=> ~r.stream /\ r.buf = r.size BY DEF Parsed
<1>8. r.buf = r.size => r.left = 0 BY <1>6
<1>9. r.size <= Limit /\ r.left = 0 => r.buf = r.size BY <1>6
<1>10. /\ u0.whole = (r.left = 0) /\ u0.size = r.size
       /\ u0.stream = r.stream /\ u0.known = Parsed(r)
  OBVIOUS
<1> HIDE DEF u0, r
<1>11. /\ u0.known => u0.whole /\ ~u0.stream
       /\ u0.whole /\ ~u0.stream /\ u0.size <= Limit => u0.known
  BY <1>7, <1>8, <1>9, <1>10
<1>12. UsageCaptured' BY <1>1, <1>4, <1>11 DEF UsageCaptured
<1>13. QED BY <1>3, <1>12 DEF ReqInv

LEMMA NextReq == ReqInv /\ [Next]_vars => ReqInv'
<1> SUFFICES ASSUME ReqInv, [Next]_vars PROVE ReqInv'
  OBVIOUS
<1>1. CASE UNCHANGED <<reqs, usage>>
  BY <1>1 DEF ReqInv, ReqsOK, UsageCaptured
<1>2. ASSUME NEW t \in Tab, Visit(t) \/ Call(t) \/ Browse(t) PROVE ReqInv'
  BY <1>2, VisitReq, CallReq, BrowseReq
<1>3. ASSUME NEW t \in Tab, Route(t) \/ RouteByRow(t) \/ Local(t) \/ Admit(t) PROVE ReqInv'
  BY <1>3, RouteReq, RouteByRowReq, LocalReq, AdmitReq
<1>4. ASSUME NEW t \in Tab, Forward(t) \/ Retry(t) \/ Copy(t) \/ Finish(t) PROVE ReqInv'
  BY <1>4, ForwardReq, RetryReq, CopyReq, FinishReq
<1>5. CASE Change BY <1>1, <1>5 DEF Change
<1>6. CASE UNCHANGED vars BY <1>1, <1>6 DEF vars
<1>7. QED BY <1>2, <1>3, <1>4, <1>5, <1>6 DEF Next

\* A virtual key reaches only the containers of routers it is for, whatever
\* path, subdomain, cookie, referer or row found the router, and whatever
\* changes of the table, the rows and the tokens fall in between.
THEOREM KeyStaysInAllowlistAlways == Spec => []KeyStaysInAllowlist
<1>1. ReqInv => KeyStaysInAllowlist
  BY DEF ReqInv, ReqsOK, ReqOK, KeyOK, KeyStaysInAllowlist, Forwarded
<1>2. QED BY <1>1, InitReq, NextReq, PTL DEF Spec

\* Usage is recorded of every complete answer the scanner's buffer holds, into
\* whatever chunks it is cut, and of no broken one.
THEOREM UsageCapturedAlways == Spec => []UsageCaptured
<1>1. ReqInv => UsageCaptured BY DEF ReqInv
<1>2. QED BY <1>1, InitReq, NextReq, PTL DEF Spec

-----------------------------------------------------------------------------
(* The way of a request.  A request a page means for its router either    *)
(* carries that router's slug, or no router's, and then the subdomain or   *)
(* the cookie names it and the other names none.                           *)

Tokens == Key \union Session \union {"native", None}
Cookie == [auth : Tokens, active : Host]
Visiting(path) == Clean(path) \in {<<>>, <<"open">>, <<"dashboard">>, <<"login">>, <<"workspace">>}

Placed(r) == r.pc \in {"found", "routed", "forward", "retry", "copying"}

\* What Aimed says of a request
AimedOK(r) ==
    /\ {r.cookie.active, r.sub} \ {None} = {r.aim.router}
    /\ Slug \intersect Segments(r.referer) \subseteq {r.aim.router}
    /\ First(r.aim.path) \notin Slug
    /\ SlugOf(r) \in Slug => r.sub = None /\ SlugOf(r) = r.aim.router

\* An address from which the gateway finds what the page meant
Leads(url, aim) == \/ url = aim.path
                   \/ url = <<aim.router>> \o aim.path
                   \/ Visiting(aim.path)

KindOK(r) ==
    /\ DOMAIN r = Fields
    /\ r.pc \in {"idle", "sent", "lost", "found", "routed", "forward", "retry", "copying"}
    /\ r.sub \in Host /\ r.token \in Tokens /\ r.cookie \in Cookie
    /\ ~Placed(r) => r.target = None
    /\ r.ki # None => r.pc \in {"forward", "retry", "copying"}

PlaceOK(r) == Placed(r) =>
    /\ r.target \in Slug
    /\ r.root => r.up = r.url

AimOK(r) == r.aim # NoAim =>
    /\ r.aim.router \in Slug /\ r.aim.path \in Pages
    /\ AimedOK(r)
    /\ r.pc \in {"sent", "lost"} => Leads(r.url, r.aim)
    /\ Placed(r) => /\ r.target = r.aim.router
                    /\ r.up = r.aim.path \/ Visiting(r.aim.path)

WayOK(r) == KindOK(r) /\ PlaceOK(r) /\ AimOK(r)

PageOK(page) == page.slug \in Host /\ page.sub \in Host

Tables == rows \subseteq Slug /\ table \subseteq Slug /\ active \subseteq Key \union Session
Jars   == jar = [h \in Host |-> jar[h]] /\ \A h \in Host : jar[h] \in Cookie
Shown == DOMAIN tabs = Tab /\ \A t \in Tab : PageOK(tabs[t])
Ways   == DOMAIN reqs = Tab /\ \A t \in Tab : WayOK(reqs[t])
Bounds == sends \in 0 .. MaxSends /\ changes \in 0 .. MaxChanges

WayInv == Tables /\ Jars /\ Shown /\ Ways /\ Bounds

-----------------------------------------------------------------------------
(* Addresses *)

LEMMA Prefixed ==
  ASSUME NEW s \in Slug, NEW path \in Pages
  PROVE  /\ <<s>> \o path # <<>>
         /\ Head(<<s>> \o path) = s
         /\ Tail(<<s>> \o path) = path
<1>1. s \in STRING /\ path \in Seq(STRING) BY ProxyAssumption
<1>2. QED BY <1>1

LEMMA EmptyPrefix ==
  ASSUME NEW path \in Pages
  PROVE  <<>> \o path = path
<1>1. path \in Seq(STRING) BY ProxyAssumption
<1>2. QED BY <1>1

-----------------------------------------------------------------------------
(* Steps on requests *)

LEMMA WayFrame ==
  ASSUME WayInv, NEW t \in Tab, NEW r, WayOK(r), reqs' = [reqs EXCEPT ![t] = r],
         Tables', Jars', Shown', Bounds'
  PROVE  WayInv'
<1>1. DOMAIN reqs = Tab /\ \A u \in Tab : WayOK(reqs[u]) BY DEF WayInv, Ways
<1>2. DOMAIN reqs' = Tab BY <1>1
<1>3. ASSUME NEW u \in Tab PROVE WayOK(reqs'[u]) BY <1>1, <1>3
<1>4. QED BY <1>2, <1>3 DEF WayInv, Ways

\* What stays the same stays right.
LEMMA WorldSame ==
  ASSUME WayInv
  PROVE  /\ UNCHANGED <<rows, table, active>> => Tables'
         /\ UNCHANGED jar => Jars'
         /\ UNCHANGED tabs => Shown'
         /\ UNCHANGED <<sends, changes>> => Bounds'
  BY DEF WayInv, Tables, Jars, Shown, Bounds

LEMMA NoReqWay == WayOK(NoReq)
<1>1. /\ NoReq.pc = "idle" /\ NoReq.sub = None /\ NoReq.token = None /\ NoReq.target = None
      /\ NoReq.ki = None /\ NoReq.aim = NoAim /\ NoReq.cookie = [auth |-> None, active |-> None]
      /\ DOMAIN NoReq = Fields
  BY DEF NoReq, Fields
<1>2. KindOK(NoReq) BY <1>1 DEF KindOK, Host, Tokens, Cookie, Placed
<1>3. QED BY <1>1, <1>2 DEF WayOK, PlaceOK, AimOK, Placed

LEMMA SentWay ==
  ASSUME NEW r, DOMAIN r = Fields, r.pc = "sent", r.target = None, r.ki = None,
         r.sub \in Host, r.token \in Tokens, r.cookie \in Cookie,
         r.aim # NoAim => /\ r.aim.router \in Slug /\ r.aim.path \in Pages
                          /\ AimedOK(r)
                          /\ Leads(r.url, r.aim)
  PROVE  WayOK(r)
<1>1. KindOK(r) BY DEF KindOK, Placed
<1>2. PlaceOK(r) BY DEF PlaceOK, Placed
<1>3. AimOK(r) BY DEF AimOK, Placed
<1>4. QED BY <1>1, <1>2, <1>3 DEF WayOK

LEMMA StartWay ==
  ASSUME WayInv, NEW t \in Tab, NEW r, WayOK(r), Start(t, r)
  PROVE  WayInv'
<1>1. UNCHANGED <<rows, table, active, jar, tabs, changes>> BY DEF Start, world
<1>2. Tables' /\ Jars' /\ Shown' BY <1>1, WorldSame
<1>3. MaxSends \in Nat BY ProxyAssumption
<1>4. Bounds'
  <2>1. sends \in 0 .. MaxSends /\ changes \in 0 .. MaxChanges BY DEF WayInv, Bounds
  <2>2. sends < MaxSends /\ sends' = sends + 1 BY DEF Start
  <2>3. sends' \in 0 .. MaxSends BY <1>3, <2>1, <2>2
  <2>4. QED BY <1>1, <2>1, <2>3 DEF Bounds
<1>5. reqs' = [reqs EXCEPT ![t] = r] BY DEF Start
<1>6. QED BY <1>2, <1>4, <1>5, WayFrame

\* The jar of the host an answer comes from
LEMMA JarsSet ==
  ASSUME WayInv, NEW h, NEW cookies \in Cookie, jar' = [jar EXCEPT ![h] = cookies]
  PROVE  Jars'
<1>1. jar = [g \in Host |-> jar[g]] /\ \A g \in Host : jar[g] \in Cookie BY DEF WayInv, Jars
<1>2. ASSUME NEW g \in Host PROVE jar'[g] \in Cookie BY <1>1, <1>2
<1>3. jar' = [g \in Host |-> jar'[g]] BY <1>1
<1>4. QED BY <1>2, <1>3 DEF Jars

LEMMA AnsweredWay ==
  ASSUME WayInv, NEW t \in Tab, NEW cookies, NEW page, Answered(t, cookies, page),
         cookies \in Cookie, PageOK(page), table' \subseteq Slug
  PROVE  WayInv'
<1>1. Jars' BY JarsSet DEF Answered
<1>2. Tables' BY DEF WayInv, Tables, Answered
<1>3. Bounds' BY WorldSame DEF Answered
<1>4. Shown'
  <2>1. DOMAIN tabs = Tab /\ \A u \in Tab : PageOK(tabs[u]) BY DEF WayInv, Shown
  <2>2. tabs' = [tabs EXCEPT ![t] = IF reqs[t].nav THEN page ELSE @] BY DEF Answered
  <2>3. DOMAIN tabs' = Tab BY <2>1, <2>2
  <2>4. ASSUME NEW u \in Tab PROVE PageOK(tabs'[u]) BY <2>1, <2>2, <2>4
  <2>5. QED BY <2>3, <2>4 DEF Shown
<1>5. QED BY <1>1, <1>2, <1>3, <1>4, NoReqWay, WayFrame DEF Answered

\* What Aimed lets through
LEMMA AimedCases ==
  ASSUME NEW aim, NEW r, r.aim = Aimed(aim, r.cookie, r.sub, r.referer, r.url)
  PROVE  r.aim = NoAim \/ (r.aim = aim /\ AimedOK(r))
  BY DEF Aimed, AimedOK, SlugOf

\* A redirect to an address which leads where its aim says
LEMMA RedirectedWay ==
  ASSUME WayInv, NEW t \in Tab, NEW cookies \in Cookie, NEW url, NEW aim,
         Redirected(t, cookies, url, aim),
         aim # NoAim /\ First(aim.path) \notin Slug =>
           aim.router \in Slug /\ aim.path \in Pages /\ Leads(url, aim)
  PROVE  WayInv'
<1> DEFINE a == Aimed(aim, cookies, reqs[t].sub, reqs[t].referer, url)
           r == [NoReq EXCEPT !.pc = "sent", !.nav = reqs[t].nav, !.sub = reqs[t].sub,
                              !.url = url, !.token = reqs[t].token, !.cookie = cookies,
                              !.referer = reqs[t].referer, !.aim = a]
<1>1. WayOK(reqs[t]) BY DEF WayInv, Ways
<1>2. /\ DOMAIN r = Fields /\ r.pc = "sent" /\ r.target = None /\ r.ki = None
      /\ r.sub = reqs[t].sub /\ r.url = url /\ r.token = reqs[t].token /\ r.cookie = cookies
      /\ r.referer = reqs[t].referer /\ r.aim = a
  BY DEF NoReq, Fields
<1>3. reqs' = [reqs EXCEPT ![t] = r] BY DEF Redirected
<1>4. r.aim = Aimed(aim, r.cookie, r.sub, r.referer, r.url) BY <1>2
<1> HIDE DEF a, r
<1>5. r.aim = NoAim \/ (r.aim = aim /\ AimedOK(r)) BY <1>4, AimedCases
<1>6. r.sub \in Host /\ r.token \in Tokens /\ r.cookie \in Cookie
  BY <1>1, <1>2 DEF WayOK, KindOK
<1>7. r.aim # NoAim => /\ r.aim.router \in Slug /\ r.aim.path \in Pages
                       /\ AimedOK(r)
                       /\ Leads(r.url, r.aim)
  BY <1>2, <1>5 DEF AimedOK
<1>8. WayOK(r) BY <1>2, <1>6, <1>7, SentWay
<1>9. Jars' BY JarsSet DEF Redirected
<1>10. UNCHANGED <<rows, table, active, tabs, sends, changes>> BY DEF Redirected, world
<1>11. Tables' /\ Shown' /\ Bounds' BY <1>10, WorldSame
<1>12. QED BY <1>3, <1>8, <1>9, <1>11, WayFrame

\* A request is found to be for a router.
LEMMA FoundWay ==
  ASSUME WayInv, NEW t \in Tab, reqs[t].pc \in {"sent", "lost"},
         NEW target \in Slug, NEW root, NEW up, Found(t, target, root, up),
         root => up = reqs[t].url,
         reqs[t].aim # NoAim => /\ target = reqs[t].aim.router
                                /\ up = reqs[t].aim.path \/ Visiting(reqs[t].aim.path),
         UNCHANGED <<rows, active, jar, tabs, sends, changes>>, table' \subseteq Slug
  PROVE  WayInv'
<1> DEFINE r == [reqs[t] EXCEPT !.pc = "found", !.target = target, !.root = root, !.up = up]
<1>1. WayOK(reqs[t]) BY DEF WayInv, Ways
<1>2. DOMAIN reqs[t] = Fields BY <1>1 DEF WayOK, KindOK
<1>3. /\ DOMAIN r = Fields /\ r.pc = "found" /\ r.target = target /\ r.root = root /\ r.up = up
      /\ r.sub = reqs[t].sub /\ r.url = reqs[t].url /\ r.token = reqs[t].token
      /\ r.cookie = reqs[t].cookie /\ r.referer = reqs[t].referer /\ r.aim = reqs[t].aim
      /\ r.ki = reqs[t].ki
  BY <1>2 DEF Fields
<1>4. reqs' = [reqs EXCEPT ![t] = r] BY DEF Found
<1> HIDE DEF r
<1>5. KindOK(r) BY <1>1, <1>3 DEF WayOK, KindOK, Placed
<1>6. PlaceOK(r) BY <1>3 DEF PlaceOK
<1>7. AimOK(r) BY <1>1, <1>3 DEF WayOK, AimOK, AimedOK, SlugOf, Placed
<1>8. WayOK(r) BY <1>5, <1>6, <1>7 DEF WayOK
<1>9. Tables' BY DEF WayInv, Tables
<1>10. Jars' /\ Shown' /\ Bounds' BY WorldSame
<1>11. QED BY <1>4, <1>8, <1>9, <1>10, WayFrame

\* A request that goes on to another place keeps all its way depends on.
LEMMA PassedWay ==
  ASSUME WayInv, NEW t \in Tab, NEW r, DOMAIN r = Fields,
         \/ reqs[t].pc = "sent" /\ r.pc = "lost"
         \/ Placed(reqs[t]) /\ Placed(r),
         r.sub = reqs[t].sub, r.url = reqs[t].url, r.token = reqs[t].token,
         r.cookie = reqs[t].cookie, r.referer = reqs[t].referer, r.aim = reqs[t].aim,
         r.target = reqs[t].target, r.root = reqs[t].root, r.up = reqs[t].up,
         r.ki # None => r.pc \in {"forward", "retry", "copying"},
         reqs' = [reqs EXCEPT ![t] = r], UNCHANGED <<rows, table, active, jar, tabs, sends, changes>>
  PROVE  WayInv'
<1>1. WayOK(reqs[t]) BY DEF WayInv, Ways
<1>2. KindOK(r) BY <1>1 DEF WayOK, KindOK, Placed
<1>3. PlaceOK(r) BY <1>1 DEF WayOK, PlaceOK, Placed
<1>4. AimOK(r) BY <1>1 DEF WayOK, AimOK, AimedOK, SlugOf, Placed
<1>5. WayOK(r) BY <1>2, <1>3, <1>4 DEF WayOK
<1>6. Tables' /\ Jars' /\ Shown' /\ Bounds' BY WorldSame
<1>7. QED BY <1>5, <1>6, WayFrame

-----------------------------------------------------------------------------
(* Cookies and pages of answers *)

LEMMA CookiesOK ==
  ASSUME WayInv, NEW t \in Tab
  PROVE  Cookies(t) \in Cookie
  BY DEF WayInv, Ways, WayOK, KindOK, Jars, Cookies

LEMMA GrantedOK ==
  ASSUME WayInv, NEW t \in Tab, Placed(reqs[t])
  PROVE  Granted(t) \in Cookie
<1>1. KindOK(reqs[t]) /\ reqs[t].target \in Host BY DEF WayInv, Ways, WayOK, PlaceOK, Host
<1>2. reqs[t].token \in Tokens /\ reqs[t].cookie.auth \in Tokens BY <1>1 DEF KindOK, Cookie
<1>3. Token(reqs[t]) \in Tokens BY <1>2 DEF Token
<1>4. Cookies(t).auth \in Tokens BY CookiesOK DEF Cookie
<1>5. QED BY <1>1, <1>3, <1>4 DEF Granted, Cookie

LEMMA ActivatingOK ==
  ASSUME WayInv, NEW t \in Tab, Placed(reqs[t])
  PROVE  Activating(t) \in Cookie
<1>1. reqs[t].target \in Host BY DEF WayInv, Ways, WayOK, PlaceOK, Host
<1>2. Cookies(t) \in Cookie BY CookiesOK
<1>3. QED BY <1>1, <1>2 DEF Activating, Cookie

LEMMA ErrorPageOK ==
  ASSUME NEW t
  PROVE  PageOK(ErrorPage(t))
  BY DEF PageOK, ErrorPage, NoPage, Host

-----------------------------------------------------------------------------
(* The actions *)

LEMMA InitWay == Init => WayInv
<1> SUFFICES ASSUME Init PROVE WayInv
  OBVIOUS
<1>1. Tables BY DEF Init, Tables
<1>2. Jars BY DEF Init, Jars, Cookie, Tokens, Host
<1>3. Shown BY DEF Init, Shown, PageOK, NoPage, Host
<1>4. Ways BY NoReqWay DEF Init, Ways
<1>5. MaxSends \in Nat /\ MaxChanges \in Nat BY ProxyAssumption
<1>6. Bounds BY <1>5 DEF Init, Bounds
<1>7. QED BY <1>1, <1>2, <1>3, <1>4, <1>6 DEF WayInv

LEMMA VisitWay ==
  ASSUME WayInv, NEW t \in Tab, Visit(t)
  PROVE  WayInv'
<1>1. PICK s \in Slug, path \in Pages :
        \/ Start(t, Request(TRUE, TRUE, None, <<s>> \o path))
        \/ Start(t, Request(TRUE, TRUE, s, path))
  BY DEF Visit
<1>2. ASSUME NEW sub \in Host, NEW url
      PROVE  WayOK(Request(TRUE, TRUE, sub, url))
  <2> DEFINE q == Request(TRUE, TRUE, sub, url)
  <2>1. /\ DOMAIN q = Fields /\ q.pc = "sent" /\ q.sub = sub /\ q.cookie = jar[sub]
        /\ q.token = None /\ q.aim = NoAim /\ q.target = None /\ q.ki = None
    BY DEF Request, NoReq, Fields
  <2>2. jar[sub] \in Cookie BY DEF WayInv, Jars
  <2> HIDE DEF q
  <2>3. q.token \in Tokens /\ q.cookie \in Cookie BY <2>1, <2>2 DEF Tokens
  <2>4. WayOK(q) BY <2>1, <2>3, SentWay
  <2>5. QED BY <2>4 DEF q
<1>3. None \in Host /\ s \in Host BY DEF Host
<1>4. QED BY <1>1, <1>2, <1>3, StartWay

LEMMA CallWay ==
  ASSUME WayInv, NEW t \in Tab, Call(t)
  PROVE  WayInv'
<1>1. PICK s \in Slug, token \in Key \union Session \union {"native"}, models \in BOOLEAN :
        Start(t, [Request(FALSE, models, None, <<s, "v1", IF models THEN "models" ELSE "chat">>)
                    EXCEPT !.token = token])
  BY DEF Call
<1> DEFINE q == Request(FALSE, models, None, <<s, "v1", IF models THEN "models" ELSE "chat">>)
           r == [q EXCEPT !.token = token]
<1>2. /\ DOMAIN q = Fields /\ q.pc = "sent" /\ q.sub = None /\ q.cookie = jar[None]
      /\ q.aim = NoAim /\ q.target = None /\ q.ki = None
  BY DEF Request, NoReq, Fields
<1>3. Start(t, r) BY <1>1
<1> HIDE DEF q
<1>4. /\ DOMAIN r = Fields /\ r.pc = "sent" /\ r.sub = None /\ r.cookie = jar[None]
      /\ r.aim = NoAim /\ r.target = None /\ r.ki = None /\ r.token = token
  BY <1>2 DEF Fields
<1> HIDE DEF r
<1>5. None \in Host BY DEF Host
<1>6. jar[None] \in Cookie BY <1>5 DEF WayInv, Jars
<1>7. token \in Tokens BY DEF Tokens
<1>8. WayOK(r) BY <1>4, <1>5, <1>6, <1>7, SentWay
<1>9. QED BY <1>3, <1>8, StartWay

LEMMA BrowseWay ==
  ASSUME WayInv, NEW t \in Tab, Browse(t)
  PROVE  WayInv'
<1> DEFINE page == tabs[t]
           aim(path) == [router |-> page.slug, path |-> path]
           a(path, url) == Aimed(aim(path), jar[page.sub], page.sub, page.url, url)
           asked(nav, url, path) ==
             [Request(nav, TRUE, page.sub, url) EXCEPT !.referer = page.url, !.aim = a(path, url)]
<1>1. PICK path \in Pages : \/ Start(t, asked(TRUE, path, path))
                            \/ Start(t, asked(FALSE, Loaded(page, path), path))
                            \/ Start(t, asked(FALSE, Fetched(page, path), path))
  BY DEF Browse
<1>2. PageOK(page) /\ page.slug # None BY DEF WayInv, Shown, Browse
<1>3. page.slug \in Slug /\ page.sub \in Host BY <1>2 DEF PageOK, Host
<1>4. Prefix(page) \o path = path \/ Prefix(page) \o path = <<page.slug>> \o path
  BY EmptyPrefix DEF Prefix
<1>5. /\ Loaded(page, path) = path \/ Loaded(page, path) = <<page.slug>> \o path
      /\ Fetched(page, path) = path \/ Fetched(page, path) = <<page.slug>> \o path
  BY <1>4 DEF Loaded, Fetched
<1>6. aim(path).router = page.slug /\ aim(path).path = path OBVIOUS
<1>7. ASSUME NEW nav, NEW url, url = path \/ url = <<page.slug>> \o path
      PROVE  WayOK(asked(nav, url, path))
  <2> DEFINE q == Request(nav, TRUE, page.sub, url)
             r == [q EXCEPT !.referer = page.url, !.aim = a(path, url)]
  <2>1. /\ DOMAIN q = Fields /\ q.pc = "sent" /\ q.sub = page.sub /\ q.url = url
        /\ q.cookie = jar[page.sub] /\ q.token = None /\ q.target = None /\ q.ki = None
    BY DEF Request, NoReq, Fields
  <2>2. r = asked(nav, url, path) OBVIOUS
  <2> HIDE DEF q, a, asked, aim
  <2>3. /\ DOMAIN r = Fields /\ r.pc = "sent" /\ r.sub = page.sub /\ r.url = url
        /\ r.cookie = jar[page.sub] /\ r.token = None /\ r.target = None /\ r.ki = None
        /\ r.referer = page.url /\ r.aim = a(path, url)
    BY <2>1 DEF Fields
  <2> HIDE DEF r
  <2>4. r.aim = Aimed(aim(path), r.cookie, r.sub, r.referer, r.url) BY <2>3 DEF a
  <2>5. r.aim = NoAim \/ (r.aim = aim(path) /\ AimedOK(r)) BY <2>4, AimedCases
  <2>6. r.token \in Tokens /\ r.cookie \in Cookie BY <1>3, <2>3 DEF Tokens, WayInv, Jars
  <2>7. r.aim # NoAim => /\ r.aim.router \in Slug /\ r.aim.path \in Pages
                         /\ AimedOK(r)
                         /\ Leads(r.url, r.aim)
    BY <1>3, <1>6, <1>7, <2>3, <2>5 DEF Leads
  <2>8. WayOK(r) BY <1>3, <2>3, <2>6, <2>7, SentWay
  <2>9. QED BY <2>2, <2>8
<1> HIDE DEF asked, page
<1>8. QED BY <1>1, <1>5, <1>7, StartWay

\* An address that begins with no router's name leads there whole, and one
\* that begins with its own router's leads there without it.
LEMMA LedTo ==
  ASSUME NEW r, AimedOK(r), r.aim.path \in Pages, r.aim.router \in Slug, Leads(r.url, r.aim)
  PROVE  /\ SlugOf(r) \in Slug => Tail(r.url) = r.aim.path \/ Visiting(r.aim.path)
         /\ SlugOf(r) \notin Slug \/ r.sub # None => r.url = r.aim.path \/ Visiting(r.aim.path)
<1>1. CASE r.url = r.aim.path BY <1>1 DEF AimedOK, SlugOf
<1>2. CASE r.url = <<r.aim.router>> \o r.aim.path
  <2>1. SlugOf(r) = r.aim.router /\ Tail(r.url) = r.aim.path BY <1>2, Prefixed DEF SlugOf, First
  <2>2. QED BY <2>1 DEF AimedOK
<1>3. CASE Visiting(r.aim.path) BY <1>3
<1>4. QED BY <1>1, <1>2, <1>3 DEF Leads

LEMMA RouteWay ==
  ASSUME WayInv, NEW t \in Tab, Route(t)
  PROVE  WayInv'
<1> DEFINE r == reqs[t]
<1>1. KindOK(r) /\ AimOK(r) BY DEF WayInv, Ways, WayOK
<1>2. r.pc = "sent" BY DEF Route
<1>3. table \subseteq Slug /\ rows \subseteq Slug BY DEF WayInv, Tables
<1>4. None \notin Slug BY ProxyAssumption
<1>5. r.aim # NoAim =>
        r.aim.router \in Slug /\ r.aim.path \in Pages /\ AimedOK(r) /\ Leads(r.url, r.aim)
  BY <1>1, <1>2 DEF AimOK
<1>6. CASE Answered(t, Cookies(t), ErrorPage(t)) /\ UNCHANGED table
  BY <1>3, <1>6, CookiesOK, ErrorPageOK, AnsweredWay
<1>7. CASE /\ UNCHANGED <<world, jar, tabs, usage, sends, hops>>
            /\ \/ r.sub \in table /\ Found(t, r.sub, TRUE, r.url)
               \/ r.sub \notin table /\ SlugOf(r) \in table /\ Found(t, SlugOf(r), FALSE, Tail(r.url))
               \/ /\ r.sub \notin table /\ SlugOf(r) \notin table
                  /\ \E s \in Fallback(r) : Found(t, s, TRUE, r.url)
               \/ reqs' = [reqs EXCEPT ![t].pc = "lost"]
  <2>1. UNCHANGED <<rows, active, jar, tabs, sends, changes>> /\ table' = table
    BY <1>7 DEF world
  <2>2. CASE r.sub \in table /\ Found(t, r.sub, TRUE, r.url)
    <3>1. r.sub \in Slug /\ r.sub # None BY <1>3, <1>4, <2>2
    <3>2. r.aim # NoAim => r.sub = r.aim.router BY <1>5, <3>1 DEF AimedOK
    <3>3. r.aim # NoAim => r.url = r.aim.path \/ Visiting(r.aim.path) BY <1>5, <3>1, LedTo
    <3>4. QED BY <1>2, <1>3, <2>1, <2>2, <3>1, <3>2, <3>3, FoundWay
  <2>3. CASE r.sub \notin table /\ SlugOf(r) \in table /\ Found(t, SlugOf(r), FALSE, Tail(r.url))
    <3>1. SlugOf(r) \in Slug BY <1>3, <2>3
    <3>2. r.aim # NoAim => SlugOf(r) = r.aim.router BY <1>5, <3>1 DEF AimedOK
    <3>3. r.aim # NoAim => Tail(r.url) = r.aim.path \/ Visiting(r.aim.path) BY <1>5, <3>1, LedTo
    <3>4. QED BY <1>2, <1>3, <2>1, <2>3, <3>1, <3>2, <3>3, FoundWay
  <2>4. CASE /\ r.sub \notin table /\ SlugOf(r) \notin table
             /\ \E s \in Fallback(r) : Found(t, s, TRUE, r.url)
    <3>1. PICK s \in Fallback(r) : Found(t, s, TRUE, r.url) BY <2>4
    <3>2. s \in table /\ (s = r.cookie.active \/ s \in Segments(r.referer))
      BY DEF Fallback
    <3>3. s \in Slug /\ s # None BY <1>3, <1>4, <3>2
    <3>4. ASSUME r.aim # NoAim
          PROVE  s = r.aim.router /\ (r.url = r.aim.path \/ Visiting(r.aim.path))
      <4>1. AimedOK(r) /\ r.aim.router \in Slug /\ r.aim.path \in Pages /\ Leads(r.url, r.aim)
        BY <1>5, <3>4
      <4>2. s = r.aim.router
        <5>1. CASE s = r.cookie.active BY <3>3, <4>1, <5>1 DEF AimedOK
        <5>2. CASE s \in Segments(r.referer) BY <3>3, <4>1, <5>2 DEF AimedOK
        <5>3. QED BY <3>2, <5>1, <5>2
      <4>3. SlugOf(r) \notin Slug BY <2>4, <3>2, <4>1, <4>2 DEF AimedOK
      <4>4. QED BY <4>1, <4>2, <4>3, LedTo
    <3>5. QED BY <1>2, <1>3, <2>1, <3>1, <3>3, <3>4, FoundWay
  <2>5. CASE reqs' = [reqs EXCEPT ![t].pc = "lost"]
    <3> DEFINE q == [reqs[t] EXCEPT !.pc = "lost"]
    <3>1. DOMAIN reqs[t] = Fields BY <1>1 DEF KindOK
    <3>2. /\ DOMAIN q = Fields /\ q.pc = "lost" /\ q.sub = reqs[t].sub /\ q.url = reqs[t].url
          /\ q.token = reqs[t].token /\ q.cookie = reqs[t].cookie /\ q.referer = reqs[t].referer
          /\ q.aim = reqs[t].aim /\ q.target = reqs[t].target /\ q.root = reqs[t].root
          /\ q.up = reqs[t].up /\ q.ki = reqs[t].ki
      BY <3>1 DEF Fields
    <3>3. reqs' = [reqs EXCEPT ![t] = q] BY <2>5
    <3> HIDE DEF q
    <3>4. q.ki = None BY <1>1, <1>2, <3>2 DEF KindOK
    <3>5. QED BY <1>2, <2>1, <3>2, <3>3, <3>4, PassedWay
  <2>6. QED BY <1>7, <2>2, <2>3, <2>4, <2>5
<1>8. QED BY <1>6, <1>7 DEF Route

LEMMA RouteByRowWay ==
  ASSUME WayInv, NEW t \in Tab, RouteByRow(t)
  PROVE  WayInv'
<1> DEFINE r == reqs[t]
<1>1. AimOK(r) BY DEF WayInv, Ways, WayOK
<1>2. r.pc = "lost" BY DEF RouteByRow
<1>3. table \subseteq Slug /\ rows \subseteq Slug BY DEF WayInv, Tables
<1>4. CASE Answered(t, Cookies(t), ErrorPage(t)) /\ UNCHANGED table
  BY <1>3, <1>4, CookiesOK, ErrorPageOK, AnsweredWay
<1>5. CASE /\ SlugOf(r) \in rows /\ Found(t, SlugOf(r), FALSE, Tail(r.url))
           /\ table' = table \union {SlugOf(r)}
           /\ UNCHANGED <<rows, active, changes, jar, tabs, usage, sends, hops>>
  <2>1. SlugOf(r) \in Slug BY <1>3, <1>5
  <2>2. r.aim # NoAim =>
          r.aim.router \in Slug /\ r.aim.path \in Pages /\ AimedOK(r) /\ Leads(r.url, r.aim)
    BY <1>1, <1>2 DEF AimOK
  <2>3. r.aim # NoAim => SlugOf(r) = r.aim.router BY <2>1, <2>2 DEF AimedOK
  <2>4. r.aim # NoAim => Tail(r.url) = r.aim.path \/ Visiting(r.aim.path) BY <2>1, <2>2, LedTo
  <2>5. table' \subseteq Slug BY <1>3, <1>5, <2>1
  <2>6. QED BY <1>2, <1>5, <2>1, <2>3, <2>4, <2>5, FoundWay
<1>6. QED BY <1>4, <1>5 DEF RouteByRow

\* The gateway's own redirects: where they go
LEMMA RedirectsTo ==
  ASSUME NEW r, NEW url \in Redirects(r)
  PROVE  /\ \/ url \in {<<>>, <<"workspace", "logs">>, <<"login">>, <<"dashboard">>}
            \/ ~r.root /\ url = <<r.target, "ui", "">>
         /\ \/ Visiting(r.up)
            \/ r.root /\ r.url = <<r.target>>
  BY DEF Redirects, Landing, Visiting

LEMMA LocalWay ==
  ASSUME WayInv, NEW t \in Tab, Local(t)
  PROVE  WayInv'
<1> DEFINE r == reqs[t]
<1>1. KindOK(r) /\ PlaceOK(r) /\ AimOK(r) BY DEF WayInv, Ways, WayOK
<1>2. r.pc = "found" BY DEF Local
<1>3. Placed(r) BY <1>2 DEF Placed
<1>4. table \subseteq Slug BY DEF WayInv, Tables
<1>5. CASE Answered(t, Cookies(t), ErrorPage(t)) /\ UNCHANGED table
  BY <1>4, <1>5, CookiesOK, ErrorPageOK, AnsweredWay
<1>6. ASSUME NEW url \in Redirects(r), Redirected(t, Activating(t), url, r.aim)
      PROVE  WayInv'
  <2>1. r.target \in Slug /\ (r.root => r.up = r.url) BY <1>1, <1>3 DEF PlaceOK
  <2>2. r.aim # NoAim =>
          /\ r.aim.router \in Slug /\ r.aim.path \in Pages
          /\ First(r.aim.path) \notin Slug
          /\ r.up = r.aim.path \/ Visiting(r.aim.path)
    BY <1>1, <1>3 DEF AimOK, AimedOK
  <2>3. ASSUME r.aim # NoAim PROVE Visiting(r.aim.path)
    <3>1. CASE Visiting(r.up) BY <2>2, <2>3, <3>1
    <3>2. CASE r.root /\ r.url = <<r.target>>
      <4>1. <<r.target>> # <<>> /\ Head(<<r.target>>) = r.target OBVIOUS
      <4>2. First(r.up) = r.target BY <2>1, <3>2, <4>1 DEF First
      <4>3. r.up # r.aim.path BY <2>1, <2>2, <2>3, <4>2
      <4>4. QED BY <2>2, <2>3, <4>3
    <3>3. QED BY <3>1, <3>2, RedirectsTo
  <2>4. r.aim # NoAim => Leads(url, r.aim) BY <2>3 DEF Leads
  <2>5. Activating(t) \in Cookie BY <1>3, ActivatingOK
  <2>6. QED BY <1>6, <2>2, <2>4, <2>5, RedirectedWay
<1>7. CASE /\ reqs' = [reqs EXCEPT ![t].pc = "routed"]
           /\ UNCHANGED <<world, jar, tabs, usage, sends, hops>>
  <2> DEFINE q == [reqs[t] EXCEPT !.pc = "routed"]
  <2>1. DOMAIN reqs[t] = Fields BY <1>1 DEF KindOK
  <2>2. /\ DOMAIN q = Fields /\ q.pc = "routed" /\ q.sub = reqs[t].sub /\ q.url = reqs[t].url
        /\ q.token = reqs[t].token /\ q.cookie = reqs[t].cookie /\ q.referer = reqs[t].referer
        /\ q.aim = reqs[t].aim /\ q.target = reqs[t].target /\ q.root = reqs[t].root
        /\ q.up = reqs[t].up /\ q.ki = reqs[t].ki
    BY <2>1 DEF Fields
  <2>3. reqs' = [reqs EXCEPT ![t] = q] BY <1>7
  <2> HIDE DEF q
  <2>4. q.ki = None BY <1>1, <1>2, <2>2 DEF KindOK
  <2>5. UNCHANGED <<rows, table, active, jar, tabs, sends, changes>> BY <1>7 DEF world
  <2>6. Placed(q) BY <2>2 DEF Placed
  <2>7. QED BY <1>3, <2>2, <2>3, <2>4, <2>5, <2>6, PassedWay
<1>8. QED BY <1>5, <1>6, <1>7 DEF Local

LEMMA AdmitWay ==
  ASSUME WayInv, NEW t \in Tab, Admit(t)
  PROVE  WayInv'
<1> DEFINE r == reqs[t]
           k == IF IsAdmin(r) \/ Token(r) \notin Key THEN None ELSE Token(r)
<1>1. KindOK(r) BY DEF WayInv, Ways, WayOK
<1>2. Placed(r) BY DEF Admit, Placed
<1>3. table \subseteq Slug BY DEF WayInv, Tables
<1>4. CASE /\ reqs' = [reqs EXCEPT ![t].pc = "forward", ![t].ki = k]
           /\ UNCHANGED <<world, jar, tabs, usage, sends, hops>>
  <2> DEFINE q == [reqs[t] EXCEPT !.pc = "forward", !.ki = k]
  <2>1. DOMAIN reqs[t] = Fields BY <1>1 DEF KindOK
  <2>2. reqs' = [reqs EXCEPT ![t] = q] BY <1>4
  <2> HIDE DEF k
  <2>3. /\ DOMAIN q = Fields /\ q.pc = "forward" /\ q.sub = reqs[t].sub /\ q.url = reqs[t].url
        /\ q.token = reqs[t].token /\ q.cookie = reqs[t].cookie /\ q.referer = reqs[t].referer
        /\ q.aim = reqs[t].aim /\ q.target = reqs[t].target /\ q.root = reqs[t].root
        /\ q.up = reqs[t].up
    BY <2>1 DEF Fields
  <2> HIDE DEF q
  <2>4. UNCHANGED <<rows, table, active, jar, tabs, sends, changes>> BY <1>4 DEF world
  <2>5. Placed(q) BY <2>3 DEF Placed
  <2>6. QED BY <1>2, <2>2, <2>3, <2>4, <2>5, PassedWay
<1>5. ASSUME NEW cookies \in {Cookies(t), Granted(t)}, Answered(t, cookies, ErrorPage(t)), UNCHANGED table
      PROVE  WayInv'
  <2>1. cookies \in Cookie BY <1>2, <1>5, CookiesOK, GrantedOK
  <2>2. QED BY <1>3, <1>5, <2>1, ErrorPageOK, AnsweredWay
<1>6. QED BY <1>4, <1>5 DEF Admit

\* A container's redirect to one of its paths stays under the router's slug,
\* or needs none.
LEMMA RewrittenTo ==
  ASSUME NEW r, r.target \in Slug, NEW path \in Pages,
         First(path) \notin Slug,
         NEW location \in {path, IF r.root THEN path ELSE <<r.target>> \o path}
  PROVE  Rewritten(r, location) = IF r.root THEN path ELSE <<r.target>> \o path
<1>1. CASE r.root BY <1>1 DEF Rewritten
<1>2. CASE ~r.root /\ location = path
  <2>1. ~(path # <<>> /\ Head(path) = r.target) BY DEF First
  <2>2. QED BY <1>2, <2>1 DEF Rewritten
<1>3. CASE ~r.root /\ location = <<r.target>> \o path
  <2>1. location # <<>> /\ Head(location) = r.target BY <1>3, Prefixed
  <2>2. QED BY <1>3, <2>1 DEF Rewritten
<1>4. QED BY <1>1, <1>2, <1>3

LEMMA ArriveWay ==
  ASSUME WayInv, NEW t \in Tab, reqs[t].pc \in {"forward", "retry"}, Arrive(t)
  PROVE  WayInv'
<1> DEFINE r == reqs[t]
           page == [slug |-> r.target, sub |-> r.sub, root |-> r.root, url |-> r.url]
<1>1. KindOK(r) /\ PlaceOK(r) BY DEF WayInv, Ways, WayOK
<1>2. Placed(r) BY DEF Placed
<1>3. table \subseteq Slug BY DEF WayInv, Tables
<1>4. Granted(t) \in Cookie BY <1>2, GrantedOK
<1>5. r.target \in Slug /\ r.target \in Host BY <1>1, <1>2 DEF PlaceOK, Host
<1>6. CASE Answered(t, Granted(t), page) /\ UNCHANGED <<table, usage>>
  <2>1. PageOK(page) BY <1>1, <1>5 DEF PageOK, KindOK
  <2>2. QED BY <1>3, <1>4, <1>6, <2>1, AnsweredWay
<1>7. ASSUME NEW path \in Pages, NEW location \in {path, IF r.root THEN path ELSE <<r.target>> \o path},
             Redirected(t, Granted(t), Rewritten(r, location), [router |-> r.target, path |-> path])
      PROVE  WayInv'
  <2> DEFINE aim == [router |-> r.target, path |-> path]
             url == Rewritten(r, location)
  <2>1. aim.router = r.target /\ aim.path = path OBVIOUS
  <2>2. First(path) \notin Slug => url = IF r.root THEN path ELSE <<r.target>> \o path
    BY <1>5, RewrittenTo
  <2>3. Redirected(t, Granted(t), url, aim) BY <1>7
  <2> HIDE DEF aim, url
  <2>4. First(aim.path) \notin Slug => Leads(url, aim) BY <2>1, <2>2 DEF Leads
  <2>5. QED BY <1>4, <1>5, <2>1, <2>3, <2>4, RedirectedWay
<1>8. ASSUME NEW size, NEW stream,
             reqs' = [reqs EXCEPT ![t].pc = "copying", ![t].left = size, ![t].size = size,
                                  ![t].stream = stream],
             jar' = [jar EXCEPT ![r.sub] = Granted(t)],
             UNCHANGED <<world, tabs, usage, sends, hops>>
      PROVE  WayInv'
  <2> DEFINE q == [reqs[t] EXCEPT !.pc = "copying", !.left = size, !.size = size, !.stream = stream]
  <2>1. DOMAIN reqs[t] = Fields BY <1>1 DEF KindOK
  <2>2. reqs' = [reqs EXCEPT ![t] = q] BY <1>8
  <2>3. /\ DOMAIN q = Fields /\ q.pc = "copying" /\ q.sub = reqs[t].sub /\ q.url = reqs[t].url
        /\ q.token = reqs[t].token /\ q.cookie = reqs[t].cookie /\ q.referer = reqs[t].referer
        /\ q.aim = reqs[t].aim /\ q.target = reqs[t].target /\ q.root = reqs[t].root
        /\ q.up = reqs[t].up
    BY <2>1 DEF Fields
  <2> HIDE DEF q
  <2>4. WayOK(q)
    BY <1>2, <2>3 DEF WayInv, Ways, WayOK, KindOK, PlaceOK, AimOK, AimedOK, SlugOf, Placed
  <2>5. Jars' BY <1>4, <1>8, JarsSet
  <2>6. UNCHANGED <<rows, table, active, tabs, sends, changes>> BY <1>8 DEF world
  <2>7. Tables' /\ Shown' /\ Bounds' BY <2>6, WorldSame
  <2>8. QED BY <2>2, <2>4, <2>5, <2>7, WayFrame
<1>9. QED BY <1>6, <1>7, <1>8 DEF Arrive

\* Steps that change only how far a forwarded request is
LEMMA ForwardedWay ==
  ASSUME WayInv, NEW t \in Tab, NEW q, Placed(reqs[t]), DOMAIN q = Fields,
         q.pc \in {"forward", "retry", "copying"},
         q.sub = reqs[t].sub, q.url = reqs[t].url, q.token = reqs[t].token,
         q.cookie = reqs[t].cookie, q.referer = reqs[t].referer, q.aim = reqs[t].aim,
         q.target = reqs[t].target, q.root = reqs[t].root, q.up = reqs[t].up,
         reqs' = [reqs EXCEPT ![t] = q], UNCHANGED <<world, jar, tabs, usage, sends, hops>>
  PROVE  WayInv'
<1>1. Placed(q) BY DEF Placed
<1>2. UNCHANGED <<rows, table, active, jar, tabs, sends, changes>> BY DEF world
<1>3. QED BY <1>1, <1>2, PassedWay

LEMMA ForwardWay ==
  ASSUME WayInv, NEW t \in Tab, Forward(t)
  PROVE  WayInv'
<1>1. reqs[t].pc = "forward" /\ Placed(reqs[t]) BY DEF Forward, Placed
<1>2. CASE Arrive(t) BY <1>1, <1>2, ArriveWay
<1>3. CASE Answered(t, Granted(t), ErrorPage(t)) /\ UNCHANGED <<table, usage>>
  <2>1. table' \subseteq Slug BY <1>3 DEF WayInv, Tables
  <2>2. QED BY <1>1, <1>3, <2>1, GrantedOK, ErrorPageOK, AnsweredWay
<1>4. CASE /\ reqs' = [reqs EXCEPT ![t].pc = "retry", ![t].rest = Alternatives(reqs[t].up)]
           /\ UNCHANGED <<world, jar, tabs, usage, sends, hops>>
  <2> DEFINE q == [reqs[t] EXCEPT !.pc = "retry", !.rest = Alternatives(reqs[t].up)]
  <2>1. DOMAIN reqs[t] = Fields BY DEF WayInv, Ways, WayOK, KindOK
  <2>2. reqs' = [reqs EXCEPT ![t] = q] BY <1>4
  <2>3. /\ DOMAIN q = Fields /\ q.pc = "retry" /\ q.sub = reqs[t].sub /\ q.url = reqs[t].url
        /\ q.token = reqs[t].token /\ q.cookie = reqs[t].cookie /\ q.referer = reqs[t].referer
        /\ q.aim = reqs[t].aim /\ q.target = reqs[t].target /\ q.root = reqs[t].root
        /\ q.up = reqs[t].up
    BY <2>1 DEF Fields
  <2> HIDE DEF q
  <2>4. QED BY <1>1, <1>4, <2>2, <2>3, ForwardedWay
<1>5. QED BY <1>2, <1>3, <1>4 DEF Forward

LEMMA RetryWay ==
  ASSUME WayInv, NEW t \in Tab, Retry(t)
  PROVE  WayInv'
<1>1. reqs[t].pc = "retry" /\ Placed(reqs[t]) BY DEF Retry, Placed
<1>2. CASE Arrive(t) BY <1>1, <1>2, ArriveWay
<1>3. CASE Answered(t, Granted(t), ErrorPage(t)) /\ UNCHANGED <<table, usage>>
  <2>1. table' \subseteq Slug BY <1>3 DEF WayInv, Tables
  <2>2. QED BY <1>1, <1>3, <2>1, GrantedOK, ErrorPageOK, AnsweredWay
<1>4. CASE /\ reqs' = [reqs EXCEPT ![t].rest = Tail(@)]
           /\ UNCHANGED <<world, jar, tabs, usage, sends, hops>>
  <2> DEFINE q == [reqs[t] EXCEPT !.rest = Tail(@)]
  <2>1. DOMAIN reqs[t] = Fields BY DEF WayInv, Ways, WayOK, KindOK
  <2>2. reqs' = [reqs EXCEPT ![t] = q] BY <1>4
  <2>3. /\ DOMAIN q = Fields /\ q.pc = "retry" /\ q.sub = reqs[t].sub /\ q.url = reqs[t].url
        /\ q.token = reqs[t].token /\ q.cookie = reqs[t].cookie /\ q.referer = reqs[t].referer
        /\ q.aim = reqs[t].aim /\ q.target = reqs[t].target /\ q.root = reqs[t].root
        /\ q.up = reqs[t].up
    BY <1>1, <2>1 DEF Fields
  <2> HIDE DEF q
  <2>4. QED BY <1>1, <1>4, <2>2, <2>3, ForwardedWay
<1>5. QED BY <1>2, <1>3, <1>4 DEF Retry

LEMMA CopyWay ==
  ASSUME WayInv, NEW t \in Tab, Copy(t)
  PROVE  WayInv'
<1>1. reqs[t].pc = "copying" /\ Placed(reqs[t]) BY DEF Copy, Placed
<1>2. PICK n \in 1 .. reqs[t].left :
        reqs' = [reqs EXCEPT ![t].left = @ - n, ![t].buf = IF @ < Limit THEN @ + n ELSE @]
  BY DEF Copy
<1> DEFINE q == [reqs[t] EXCEPT !.left = @ - n, !.buf = IF @ < Limit THEN @ + n ELSE @]
<1>3. DOMAIN reqs[t] = Fields BY DEF WayInv, Ways, WayOK, KindOK
<1>4. reqs' = [reqs EXCEPT ![t] = q] BY <1>2
<1>5. /\ DOMAIN q = Fields /\ q.pc = "copying" /\ q.sub = reqs[t].sub /\ q.url = reqs[t].url
      /\ q.token = reqs[t].token /\ q.cookie = reqs[t].cookie /\ q.referer = reqs[t].referer
      /\ q.aim = reqs[t].aim /\ q.target = reqs[t].target /\ q.root = reqs[t].root
      /\ q.up = reqs[t].up
  BY <1>1, <1>3 DEF Fields
<1> HIDE DEF q
<1>6. UNCHANGED <<world, jar, tabs, usage, sends, hops>> BY DEF Copy
<1>7. QED BY <1>1, <1>4, <1>5, <1>6, ForwardedWay

LEMMA FinishWay ==
  ASSUME WayInv, NEW t \in Tab, Finish(t)
  PROVE  WayInv'
<1>1. Answered(t, Cookies(t), ErrorPage(t)) /\ UNCHANGED table BY DEF Finish
<1>2. table' \subseteq Slug BY <1>1 DEF WayInv, Tables
<1>3. QED BY <1>1, <1>2, CookiesOK, ErrorPageOK, AnsweredWay

LEMMA ChangeWay ==
  ASSUME WayInv, Change
  PROVE  WayInv'
<1>1. Tables' BY DEF WayInv, Tables, Change
<1>2. Jars' /\ Shown' BY WorldSame DEF Change
<1>3. Ways' BY DEF WayInv, Ways, Change
<1>4. MaxChanges \in Nat BY ProxyAssumption
<1>5. /\ changes \in 0 .. MaxChanges /\ changes < MaxChanges /\ changes' = changes + 1
      /\ sends \in 0 .. MaxSends /\ sends' = sends
  BY DEF WayInv, Bounds, Change
<1>6. Bounds' BY <1>4, <1>5 DEF Bounds
<1>7. QED BY <1>1, <1>2, <1>3, <1>6 DEF WayInv

LEMMA NextWay == WayInv /\ [Next]_vars => WayInv'
<1> SUFFICES ASSUME WayInv, [Next]_vars PROVE WayInv'
  OBVIOUS
<1>1. CASE UNCHANGED vars
  <2>1. UNCHANGED <<rows, table, active, jar, tabs, sends, changes>> /\ UNCHANGED reqs
    BY <1>1 DEF vars, world
  <2>2. Ways' BY <2>1 DEF WayInv, Ways
  <2>3. QED BY <2>1, <2>2, WorldSame DEF WayInv
<1>2. ASSUME NEW t \in Tab, Visit(t) \/ Call(t) \/ Browse(t) PROVE WayInv'
  BY <1>2, VisitWay, CallWay, BrowseWay
<1>3. ASSUME NEW t \in Tab, Route(t) \/ RouteByRow(t) \/ Local(t) \/ Admit(t) PROVE WayInv'
  BY <1>3, RouteWay, RouteByRowWay, LocalWay, AdmitWay
<1>4. ASSUME NEW t \in Tab, Forward(t) \/ Retry(t) \/ Copy(t) \/ Finish(t) PROVE WayInv'
  BY <1>4, ForwardWay, RetryWay, CopyWay, FinishWay
<1>5. CASE Change BY <1>5, ChangeWay
<1>6. QED BY <1>1, <1>2, <1>3, <1>4, <1>5 DEF Next

\* Every variable of the proxy model has its type; a request has a target
\* exactly while it is on its way to a container.
THEOREM ProxyTypeCorrect == Spec => []TypeOK
<1>1. ASSUME WayInv PROVE TypeOK
  <2>1. rows \subseteq Slug /\ table \subseteq Slug /\ active \subseteq Key \union Session
    BY <1>1 DEF WayInv, Tables
  <2>2. jar \in [Host -> Cookie]
    <3>1. jar = [h \in Host |-> jar[h]] BY <1>1 DEF WayInv, Jars
    <3>2. \A h \in Host : jar[h] \in Cookie BY <1>1 DEF WayInv, Jars
    <3>3. QED BY <3>1, <3>2
  <2>3. ASSUME NEW t \in Tab
        PROVE  /\ tabs[t].slug \in Slug \union {None}
               /\ reqs[t].pc \in {"idle", "sent", "lost", "found", "routed", "forward", "retry", "copying"}
               /\ (reqs[t].target # None)
                    = (reqs[t].pc \in {"found", "routed", "forward", "retry", "copying"})
               /\ reqs[t].ki # None => reqs[t].pc \in {"forward", "retry", "copying"}
    <3>1. PageOK(tabs[t]) /\ KindOK(reqs[t]) /\ PlaceOK(reqs[t])
      BY <1>1 DEF WayInv, Shown, Ways, WayOK
    <3>2. Placed(reqs[t]) => reqs[t].target # None BY <3>1, ProxyAssumption DEF PlaceOK
    <3>3. QED BY <3>1, <3>2 DEF PageOK, KindOK, Host, Placed
  <2>4. sends \in 0 .. MaxSends /\ changes \in 0 .. MaxChanges BY <1>1 DEF WayInv, Bounds
  <2>5. QED BY <2>1, <2>2, <2>3, <2>4 DEF TypeOK, Cookie, Tokens
<1>2. QED BY <1>1, InitWay, NextWay, PTL DEF Spec

\* Whatever a page asks for is forwarded to its own router under the path the
\* page meant, or to nobody, whichever way the request was found and however
\* the table, the rows and the cookies changed meanwhile.
THEOREM FindsItsWayAlways == Spec => []FindsItsWay
<1>1. ASSUME WayInv PROVE FindsItsWay
  <2>1. ASSUME NEW t \in Tab, Forwarded(t), reqs[t].aim # NoAim
        PROVE  /\ reqs[t].target = reqs[t].aim.router
               /\ reqs[t].up = reqs[t].aim.path \/ Visiting(reqs[t].aim.path)
    <3>1. Placed(reqs[t]) BY <2>1 DEF Forwarded, Placed
    <3>2. AimOK(reqs[t]) BY <1>1 DEF WayInv, Ways, WayOK
    <3>3. QED BY <2>1, <3>1, <3>2 DEF AimOK
  <2>2. QED BY <2>1 DEF FindsItsWay, Visiting
<1>2. QED BY <1>1, InitWay, NextWay, PTL DEF Spec

-----------------------------------------------------------------------------
(* The gateway's own redirects.  Where one goes to, a router's own         *)
(* "dashboard" leads to another, to the root, where none does; and so does *)
(* "login" when a router of that name takes it for a visit of its own,     *)
(* which goes to "dashboard".  A router called dashboard would be visited  *)
(* there, and redirected there again.                                      *)

HomePage(url) == \/ url \in {<<"dashboard">>, <<"login">>, <<"workspace", "logs">>}
                 \/ \E s \in Slug : url = <<s, "ui", "">>

\* How a request was found
FoundOK(r) == IF r.root THEN r.up = r.url ELSE r.target = First(r.url) /\ r.up = Tail(r.url)

\* What is known of a request after h redirects in a row
HopOK(h, r) ==
    /\ h \in 0 .. 3
    /\ h = 3 => "login" \in Slug
    /\ h > 0 /\ r.pc \in {"sent", "lost", "found"} =>
         \/ r.pc = "sent" /\ r.url = <<>>
         \/ h = 1 /\ HomePage(r.url)
         \/ h = 2 /\ "login" \in Slug /\ r.url = <<"dashboard">>
    /\ h > 0 /\ r.pc = "found" => FoundOK(r)

HopInv == hops = [t \in Tab |-> hops[t]] /\ \A t \in Tab : HopOK(hops[t], reqs[t])

\* The first and the last of some numbers that have both ends of an interval
LEMMA BothEnds ==
  ASSUME NEW n \in Nat, NEW S, S \subseteq 1 .. n, 1 \in S, n \in S
  PROVE  /\ (CHOOSE i \in S : \A j \in S : i <= j) = 1
         /\ (CHOOSE i \in S : \A j \in S : j <= i) = n
<1> DEFINE Low(i) == \A j \in S : i <= j
           High(i) == \A j \in S : j <= i
<1>1. Low(1) /\ High(n) OBVIOUS
<1>2. \A i \in S : (Low(i) => i = 1) /\ (High(i) => i = n) OBVIOUS
<1> HIDE DEF Low, High
<1>3. (CHOOSE i \in S : Low(i)) = 1 BY <1>1, <1>2
<1>4. (CHOOSE i \in S : High(i)) = n BY <1>1, <1>2
<1>5. QED BY <1>3, <1>4 DEF Low, High

\* Clean, of any element for the empty segment
Trim(path, e) ==
    LET named == {i \in DOMAIN path : path[i] # e}
        first == CHOOSE i \in named : \A j \in named : i <= j
        last  == CHOOSE i \in named : \A j \in named : j <= i
    IN IF named = {} THEN <<>> ELSE SubSeq(path, first, last)

\* A path keeps its segments up to n if the n-th is the last that is not empty.
LEMMA TrimUpTo ==
  ASSUME NEW path, NEW e, NEW m \in Nat, DOMAIN path = 1 .. m, NEW n \in 1 .. m,
         path[1] # e, path[n] # e, \A i \in 1 .. m : i > n => path[i] = e
  PROVE  Len(Trim(path, e)) = n /\ \A i \in 1 .. n : Trim(path, e)[i] = path[i]
<1> DEFINE named == {i \in DOMAIN path : path[i] # e}
           first == CHOOSE i \in named : \A j \in named : i <= j
           last  == CHOOSE i \in named : \A j \in named : j <= i
           S == {path[i] : i \in 1 .. n}
<1>1. n \in Nat /\ n \in Int /\ 1 <= n OBVIOUS
<1>2. named \subseteq 1 .. n /\ 1 \in named /\ n \in named OBVIOUS
<1>3. Trim(path, e) = IF named = {} THEN <<>> ELSE SubSeq(path, first, last) BY DEF Trim
<1> HIDE DEF named
<1>4. first = 1 /\ last = n BY <1>1, <1>2, BothEnds
<1> HIDE DEF first, last
<1>5. Trim(path, e) = SubSeq(path, 1, n) BY <1>2, <1>3, <1>4
<1>6. \A i \in 1 .. n : path[i] \in S OBVIOUS
<1> HIDE DEF S
<1>7. /\ Len(SubSeq(path, 1, n)) = IF 1 <= n THEN n - 1 + 1 ELSE 0
      /\ \A i \in 1 .. n - 1 + 1 : SubSeq(path, 1, n)[i] = path[1 + i - 1]
  BY <1>1, <1>6, SubSeqProperties
<1>8. QED BY <1>1, <1>5, <1>7

\* What is left of a path when its empty segments are at its end, however long.
LEMMA TrimsUpTo ==
  \A p, e : \A h \in Nat : \A k \in 1 .. h :
    /\ DOMAIN p = 1 .. h /\ p[1] # e /\ p[k] # e /\ \A i \in 1 .. h : i > k => p[i] = e
    => Len(Trim(p, e)) = k /\ \A i \in 1 .. k : Trim(p, e)[i] = p[i]
  BY TrimUpTo

\* The same for the path a request is matched by.
LEMMA CleanUpTo ==
  ASSUME NEW path, NEW m \in Nat, DOMAIN path = 1 .. m, NEW n \in 1 .. m,
         path[1] # "", path[n] # "", \A i \in 1 .. m : i > n => path[i] = ""
  PROVE  Len(Clean(path)) = n /\ \A i \in 1 .. n : Clean(path)[i] = path[i]
<1>1. Clean(path) = Trim(path, "") BY Zenon DEF Clean, Trim
<1>2. Len(Trim(path, "")) = n /\ \A i \in 1 .. n : Trim(path, "")[i] = path[i]
  BY TrimsUpTo, Zenon
<1>3. QED BY <1>1, <1>2, Zenon

LEMMA CleanRoot == Clean(<<>>) = <<>>
<1>1. {i \in DOMAIN <<>> : <<>>[i] # ""} = {} OBVIOUS
<1>2. QED BY <1>1 DEF Clean

\* None of the addresses the gateway redirects to is workspace's,
LEMMA CleanHome ==
  ASSUME NEW url, HomePage(url)
  PROVE  Clean(url) # <<"workspace">>
<1>1. Len(<<"workspace">>) = 1 /\ <<"workspace">>[1] = "workspace" OBVIOUS
<1>2. ASSUME NEW a, url = <<a>>, a \in {"dashboard", "login"} PROVE Clean(url) # <<"workspace">>
  <2>1. DOMAIN <<a>> = 1 .. 1 /\ <<a>>[1] = a OBVIOUS
  <2>2. a # "" /\ a # "workspace" BY <1>2
  <2>3. 1 \in 1 .. 1 /\ \A i \in 1 .. 1 : ~(i > 1) OBVIOUS
  <2>4. Clean(<<a>>)[1] = a BY <2>1, <2>2, <2>3, CleanUpTo
  <2>5. QED BY <1>1, <1>2, <2>2, <2>4
<1>3. CASE url = <<"workspace", "logs">>
  <2>1. DOMAIN url = 1 .. 2 BY <1>3
  <2>2. url[1] = "workspace" BY <1>3
  <2>3. url[2] = "logs" BY <1>3
  <2>4. url[1] # "" /\ url[2] # "" BY <2>2, <2>3
  <2>5. 2 \in 1 .. 2 /\ \A i \in 1 .. 2 : ~(i > 2) OBVIOUS
  <2>6. Len(Clean(url)) = 2 BY <2>1, <2>4, <2>5, CleanUpTo
  <2>7. QED BY <1>1, <2>6
<1>4. ASSUME NEW s \in Slug, url = <<s, "ui", "">> PROVE Clean(url) # <<"workspace">>
  <2>1. DOMAIN url = 1 .. 3
    <3>1. DOMAIN <<s, "ui", "">> = 1 .. 3 OBVIOUS
    <3>2. QED BY <1>4, <3>1
  <2>2. url[1] # "" BY <1>4, ProxyAssumption
  <2>3. url[2] = "ui" BY <1>4
  <2>4. url[3] = "" BY <1>4
  <2>5. url[2] # "" BY <2>3
  <2>6. 2 \in 1 .. 3 /\ \A i \in 1 .. 3 : i > 2 => i = 3 OBVIOUS
  <2>7. \A i \in 1 .. 3 : i > 2 => url[i] = "" BY <2>4, <2>6, Zenon
  <2>8. Len(Clean(url)) = 2
    <3>1. 3 \in Nat OBVIOUS
    <3>2. QED BY <2>1, <2>2, <2>5, <2>6, <2>7, <3>1, CleanUpTo, Zenon
  <2>9. QED BY <1>1, <2>8
<1>5. QED BY <1>2, <1>3, <1>4 DEF HomePage

LEMMA OneWord == 1 \in 1 .. 1 /\ Len(<<>>) # 1
<1>1. Len(<<>>) = 0 OBVIOUS
<1>2. 1 \in 1 .. 1 /\ 0 # 1 OBVIOUS
<1>3. QED BY <1>1, <1>2

\* and a page of a product under a slug is none that a browser is sent from.
LEMMA CleanWord ==
  ASSUME NEW w \in {"ui", "logs"}, NEW url, NEW m \in Nat, DOMAIN url = 1 .. m, 1 \in 1 .. m,
         url[1] = w, \A i \in 1 .. m : i > 1 => url[i] = ""
  PROVE  ~Visiting(url)
<1>1. w # "" OBVIOUS
<1>2. Len(Clean(url)) = 1 /\ Clean(url)[1] = w BY <1>1, OneWord, CleanUpTo
<1>3. Len(<<>>) # 1 BY OneWord
<1>4. \A a : <<a>>[1] = a OBVIOUS
<1>5. w # "open" /\ w # "dashboard" /\ w # "login" /\ w # "workspace" OBVIOUS
<1>6. Clean(url) # <<>> BY <1>2, <1>3, Zenon
<1>7. ASSUME NEW a, a # w PROVE Clean(url) # <<a>> BY <1>2, <1>4, <1>7
<1>8. QED BY <1>5, <1>6, <1>7 DEF Visiting

LEMMA CleanUi == ~Visiting(<<"ui", "">>)
<1> DEFINE url == <<"ui", "">>
<1>1. DOMAIN url = 1 .. 2 /\ 1 \in 1 .. 2 /\ 2 \in Nat OBVIOUS
<1>2. url[1] = "ui" OBVIOUS
<1>3. url[2] = "" OBVIOUS
<1> HIDE DEF url
<1>4. \A i \in 1 .. 2 : i > 1 => i = 2 OBVIOUS
<1>5. \A i \in 1 .. 2 : i > 1 => url[i] = "" BY <1>3, <1>4
<1>6. ~Visiting(url) BY <1>1, <1>2, <1>5, CleanWord
<1>7. QED BY <1>6 DEF url

LEMMA CleanLogs == ~Visiting(<<"logs">>)
<1> DEFINE url == <<"logs">>
<1>1. DOMAIN url = 1 .. 1 /\ 1 \in 1 .. 1 /\ 1 \in Nat OBVIOUS
<1>2. url[1] = "logs" OBVIOUS
<1> HIDE DEF url
<1>3. \A i \in 1 .. 1 : ~(i > 1) OBVIOUS
<1>4. ~Visiting(url) BY <1>1, <1>2, <1>3, CleanWord
<1>5. QED BY <1>4 DEF url

\* From a home page a redirect goes to the root; from "login", which a router
\* of that name has taken for a visit, to "dashboard".
LEMMA RedirectsHome ==
  ASSUME NEW r, "dashboard" \notin Slug, r.target \in Slug, HomePage(r.url), FoundOK(r),
         NEW url \in Redirects(r)
  PROVE  \/ url = <<>>
         \/ r.url = <<"login">> /\ "login" \in Slug /\ url = <<"dashboard">>
<1>1. CASE r.root
  <2>1. Clean(r.up) # <<"workspace">> BY <1>1, CleanHome DEF FoundOK
  <2>2. QED BY <1>1, <2>1 DEF Redirects
<1>2. CASE ~r.root
  <2>1. r.target = First(r.url) /\ r.up = Tail(r.url) BY <1>2 DEF FoundOK
  <2>2. Visiting(r.up) /\ url = Landing(r.target, Clean(r.up)) BY <1>2 DEF Redirects, Visiting
  <2>3. CASE r.url = <<"dashboard">>
    <3>1. <<"dashboard">> # <<>> /\ Head(<<"dashboard">>) = "dashboard" OBVIOUS
    <3>2. QED BY <2>1, <2>3, <3>1 DEF First
  <2>4. CASE r.url = <<"login">>
    <3>1. <<"login">> # <<>> /\ Head(<<"login">>) = "login" /\ Tail(<<"login">>) = <<>> OBVIOUS
    <3>2. r.target = "login" /\ Clean(r.up) = <<>> BY <2>1, <2>4, <3>1, CleanRoot DEF First
    <3>3. "login" \in Slug /\ Look["login"] = "plain" BY <3>2, ProxyAssumption
    <3>4. <<>> # <<"login">> OBVIOUS
    <3>5. Landing("login", <<>>) = <<"dashboard">> BY <3>3, <3>4 DEF Landing
    <3>6. QED BY <2>2, <2>4, <3>2, <3>3, <3>5
  <2>5. CASE r.url = <<"workspace", "logs">>
    <3>1. Tail(<<"workspace", "logs">>) = <<"logs">> OBVIOUS
    <3>2. QED BY <2>1, <2>2, <2>5, <3>1, CleanLogs
  <2>6. ASSUME NEW s \in Slug, r.url = <<s, "ui", "">> PROVE FALSE
    <3>1. \A a, b, c : Tail(<<a, b, c>>) = <<b, c>> OBVIOUS
    <3>2. QED BY <2>1, <2>2, <2>6, <3>1, CleanUi
  <2>7. QED BY <2>3, <2>4, <2>5, <2>6 DEF HomePage
<1>3. QED BY <1>1, <1>2

\* Steps that do not redirect
LEMMA HopFrame ==
  ASSUME HopInv, DOMAIN reqs = Tab, NEW t \in Tab, NEW r, reqs' = [reqs EXCEPT ![t] = r],
         \/ HopOK(hops[t], r) /\ UNCHANGED hops
         \/ \E h : HopOK(h, r) /\ hops' = [hops EXCEPT ![t] = h]
  PROVE  HopInv'
<1>1. PICK h : HopOK(h, r) /\ hops' = [hops EXCEPT ![t] = h]
  <2>1. hops = [hops EXCEPT ![t] = hops[t]] BY DEF HopInv
  <2>2. QED BY <2>1
<1>2. DOMAIN hops' = Tab BY <1>1 DEF HopInv
<1>3. ASSUME NEW u \in Tab PROVE HopOK(hops'[u], reqs'[u]) BY <1>1 DEF HopInv
<1>4. QED BY <1>2, <1>3 DEF HopInv, HopOK, HomePage, FoundOK, First

\* A request that starts, or follows a redirect of the container, has had none.
LEMMA HopReset ==
  ASSUME HopInv, DOMAIN reqs = Tab, NEW t \in Tab, NEW r, reqs' = [reqs EXCEPT ![t] = r],
         hops' = [hops EXCEPT ![t] = 0]
  PROVE  HopInv'
<1>1. HopOK(0, r) BY DEF HopOK
<1>2. QED BY <1>1, HopFrame

\* A request past the redirects, or answered, may have had any number.
LEMMA HopPassed ==
  ASSUME HopInv, DOMAIN reqs = Tab, NEW t \in Tab, NEW r, reqs' = [reqs EXCEPT ![t] = r],
         r.pc \notin {"sent", "lost", "found"}, UNCHANGED hops
  PROVE  HopInv'
<1>1. hops[t] \in 0 .. 3 /\ (hops[t] = 3 => "login" \in Slug) BY DEF HopInv, HopOK
<1>2. HopOK(hops[t], r) BY <1>1 DEF HopOK
<1>3. QED BY <1>2, HopFrame

LEMMA StartHop ==
  ASSUME HopInv, DOMAIN reqs = Tab, NEW t \in Tab, NEW r, Start(t, r)
  PROVE  HopInv'
  BY HopReset DEF Start

LEMMA AnsweredHop ==
  ASSUME HopInv, DOMAIN reqs = Tab, NEW t \in Tab, NEW cookies, NEW page, Answered(t, cookies, page)
  PROVE  HopInv'
<1>1. NoReq.pc = "idle" BY DEF NoReq
<1>2. QED BY <1>1, HopPassed DEF Answered

\* Fields that change and pc, when pc is past the redirects
LEMMA PassedHop ==
  ASSUME WayInv, HopInv, NEW t \in Tab, NEW r, reqs' = [reqs EXCEPT ![t] = r],
         r.pc \in {"routed", "forward", "retry", "copying"}, UNCHANGED hops
  PROVE  HopInv'
<1>1. DOMAIN reqs = Tab BY DEF WayInv, Ways
<1>2. QED BY <1>1, HopPassed

\* The router of a request is found.
LEMMA FoundHop ==
  ASSUME WayInv, HopInv, NEW t \in Tab, reqs[t].pc \in {"sent", "lost"}, reqs[t].url # <<>>,
         NEW s, NEW root, NEW up, Found(t, s, root, up), UNCHANGED hops,
         \/ root = TRUE /\ up = reqs[t].url
         \/ root = FALSE /\ up = Tail(reqs[t].url) /\ s = SlugOf(reqs[t])
  PROVE  HopInv'
<1> DEFINE r == [reqs[t] EXCEPT !.pc = "found", !.target = s, !.root = root, !.up = up]
<1>1. DOMAIN reqs = Tab /\ DOMAIN reqs[t] = Fields BY DEF WayInv, Ways, WayOK, KindOK
<1>2. reqs' = [reqs EXCEPT ![t] = r] BY DEF Found
<1>3. r.pc = "found" /\ r.target = s /\ r.root = root /\ r.up = up /\ r.url = reqs[t].url
  BY <1>1 DEF Fields
<1> HIDE DEF r
<1>4. FoundOK(r) BY <1>3 DEF FoundOK, SlugOf
<1>5. HopOK(hops[t], reqs[t]) BY DEF HopInv
<1>6. HopOK(hops[t], r) BY <1>3, <1>4, <1>5 DEF HopOK
<1>7. QED BY <1>1, <1>2, <1>6, HopFrame

LEMMA RouteHop ==
  ASSUME WayInv, HopInv, NEW t \in Tab, Route(t)
  PROVE  HopInv'
<1> DEFINE r == reqs[t]
<1>1. DOMAIN reqs = Tab /\ DOMAIN r = Fields BY DEF WayInv, Ways, WayOK, KindOK
<1>2. r.pc = "sent" BY DEF Route
<1>3. CASE Answered(t, Cookies(t), ErrorPage(t)) BY <1>1, <1>3, AnsweredHop
<1>4. CASE Clean(r.url) # <<>> /\ UNCHANGED hops
  <2>1. r.url # <<>> BY <1>4, CleanRoot
  <2>2. \A s : Found(t, s, TRUE, r.url) => HopInv' BY <1>2, <1>4, <2>1, FoundHop
  <2>3. CASE \E s : Found(t, s, TRUE, r.url) BY <2>2, <2>3
  <2>4. CASE SlugOf(r) \in table /\ Found(t, SlugOf(r), FALSE, Tail(r.url))
    BY <1>2, <1>4, <2>1, <2>4, FoundHop
  <2>5. CASE reqs' = [reqs EXCEPT ![t].pc = "lost"]
    <3> DEFINE q == [reqs[t] EXCEPT !.pc = "lost"]
    <3>1. reqs' = [reqs EXCEPT ![t] = q] BY <2>5
    <3>2. q.pc = "lost" /\ q.url = r.url BY <1>1 DEF Fields
    <3> HIDE DEF q
    <3>3. HopOK(hops[t], reqs[t]) BY DEF HopInv
    <3>4. HopOK(hops[t], q) BY <1>2, <2>1, <3>2, <3>3 DEF HopOK
    <3>5. QED BY <1>1, <1>4, <3>1, <3>4, HopFrame
  <2>6. QED BY <1>4, <2>3, <2>4, <2>5, <1>3 DEF Route
<1>5. QED BY <1>3, <1>4 DEF Route

LEMMA RouteByRowHop ==
  ASSUME WayInv, HopInv, NEW t \in Tab, RouteByRow(t)
  PROVE  HopInv'
<1> DEFINE r == reqs[t]
<1>1. DOMAIN reqs = Tab BY DEF WayInv, Ways
<1>2. r.pc = "lost" BY DEF RouteByRow
<1>3. CASE Answered(t, Cookies(t), ErrorPage(t)) BY <1>1, <1>3, AnsweredHop
<1>4. CASE SlugOf(r) \in rows /\ Found(t, SlugOf(r), FALSE, Tail(r.url)) /\ UNCHANGED hops
  <2>1. SlugOf(r) \in Slug BY <1>4 DEF WayInv, Tables
  <2>2. r.url # <<>> BY <2>1, ProxyAssumption DEF SlugOf, First
  <2>3. QED BY <1>2, <1>4, <2>2, FoundHop
<1>5. QED BY <1>3, <1>4 DEF RouteByRow

\* The first redirect goes to a home page or to the root, one from a home page
\* to the root, or from "login" to "dashboard" and then to the root, and at the
\* root the gateway answers.
LEMMA LocalHop ==
  ASSUME "dashboard" \notin Slug, WayInv, HopInv, NEW t \in Tab, Local(t)
  PROVE  HopInv'
<1> DEFINE r == reqs[t]
<1>1. DOMAIN reqs = Tab /\ DOMAIN r = Fields BY DEF WayInv, Ways, WayOK, KindOK
<1>2. r.pc = "found" BY DEF Local
<1>3. CASE Answered(t, Cookies(t), ErrorPage(t)) BY <1>1, <1>3, AnsweredHop
<1>4. ASSUME NEW url \in Redirects(r), Redirected(t, Activating(t), url, r.aim),
             hops' = [hops EXCEPT ![t] = @ + 1]
      PROVE  HopInv'
  <2> DEFINE q == [NoReq EXCEPT !.pc = "sent", !.nav = reqs[t].nav, !.sub = reqs[t].sub,
                     !.url = url, !.token = reqs[t].token, !.cookie = Activating(t),
                     !.referer = reqs[t].referer,
                     !.aim = Aimed(r.aim, Activating(t), reqs[t].sub, reqs[t].referer, url)]
  <2>1. q.pc = "sent" /\ q.url = url BY DEF NoReq
  <2>2. reqs' = [reqs EXCEPT ![t] = q] BY <1>4 DEF Redirected
  <2> HIDE DEF q
  <2>3. HopOK(hops[t], r) BY DEF HopInv
  <2>4. r.target \in Slug BY <1>2 DEF WayInv, Ways, WayOK, PlaceOK, Placed
  <2>5. HopOK(hops[t] + 1, q)
    <3>1. CASE hops[t] = 0
      <4>1. url = <<>> \/ HomePage(url) BY <2>4, RedirectsTo DEF HomePage
      <4>2. QED BY <2>1, <3>1, <4>1 DEF HopOK
    <3>2. CASE hops[t] > 0
      <4>1. /\ FoundOK(r)
            /\ \/ hops[t] = 1 /\ HomePage(r.url)
               \/ hops[t] = 2 /\ "login" \in Slug /\ r.url = <<"dashboard">>
        BY <1>2, <2>3, <3>2 DEF HopOK
      <4>2. \/ url = <<>>
            \/ r.url = <<"login">> /\ "login" \in Slug /\ url = <<"dashboard">>
        BY <1>4, <2>4, <4>1, RedirectsHome DEF HomePage
      <4>3. 1 + 1 = 2 /\ 2 + 1 = 3 /\ 2 \in 0 .. 3 /\ 3 \in 0 .. 3 /\ 2 # 3 OBVIOUS
      <4>4. CASE hops[t] = 1 BY <2>1, <4>2, <4>3, <4>4 DEF HopOK
      <4>5. CASE hops[t] = 2 /\ "login" \in Slug /\ r.url = <<"dashboard">>
        <5>1. <<"dashboard">>[1] = "dashboard" /\ <<"login">>[1] = "login" OBVIOUS
        <5>2. url = <<>> BY <4>2, <4>5, <5>1
        <5>3. QED BY <2>1, <4>3, <4>5, <5>2 DEF HopOK
      <4>6. QED BY <4>1, <4>4, <4>5
    <3>3. hops[t] \in 0 .. 3 BY <2>3 DEF HopOK
    <3>4. QED BY <3>1, <3>2, <3>3
  <2>6. hops' = [hops EXCEPT ![t] = hops[t] + 1] BY <1>4
  <2>7. QED BY <1>1, <2>2, <2>5, <2>6, HopFrame
<1>5. CASE reqs' = [reqs EXCEPT ![t].pc = "routed"] /\ UNCHANGED hops
  <2> DEFINE q == [reqs[t] EXCEPT !.pc = "routed"]
  <2>1. reqs' = [reqs EXCEPT ![t] = q] BY <1>5
  <2>2. q.pc = "routed" BY <1>1 DEF Fields
  <2> HIDE DEF q
  <2>3. QED BY <1>5, <2>1, <2>2, PassedHop
<1>6. QED BY <1>3, <1>4, <1>5 DEF Local

LEMMA AdmitHop ==
  ASSUME WayInv, HopInv, NEW t \in Tab, Admit(t)
  PROVE  HopInv'
<1>1. DOMAIN reqs = Tab /\ DOMAIN reqs[t] = Fields BY DEF WayInv, Ways, WayOK, KindOK
<1>2. CASE \E cookies : Answered(t, cookies, ErrorPage(t)) BY <1>1, <1>2, AnsweredHop
<1>3. ASSUME NEW k, reqs' = [reqs EXCEPT ![t].pc = "forward", ![t].ki = k], UNCHANGED hops
      PROVE  HopInv'
  <2> DEFINE q == [reqs[t] EXCEPT !.pc = "forward", !.ki = k]
  <2>1. reqs' = [reqs EXCEPT ![t] = q] BY <1>3
  <2>2. q.pc = "forward" BY <1>1 DEF Fields
  <2> HIDE DEF q
  <2>3. QED BY <1>3, <2>1, <2>2, PassedHop
<1>4. QED BY <1>2, <1>3 DEF Admit

LEMMA ArriveHop ==
  ASSUME WayInv, HopInv, NEW t \in Tab, Arrive(t)
  PROVE  HopInv'
<1>1. DOMAIN reqs = Tab /\ DOMAIN reqs[t] = Fields BY DEF WayInv, Ways, WayOK, KindOK
<1>2. CASE \E page : Answered(t, Granted(t), page) BY <1>1, <1>2, AnsweredHop
<1>3. ASSUME NEW url, NEW aim, Redirected(t, Granted(t), url, aim), hops' = [hops EXCEPT ![t] = 0]
      PROVE  HopInv'
  BY <1>1, <1>3, HopReset DEF Redirected
<1>4. ASSUME NEW size, NEW stream,
             reqs' = [reqs EXCEPT ![t].pc = "copying", ![t].left = size, ![t].size = size,
                                  ![t].stream = stream],
             UNCHANGED hops
      PROVE  HopInv'
  <2> DEFINE q == [reqs[t] EXCEPT !.pc = "copying", !.left = size, !.size = size, !.stream = stream]
  <2>1. reqs' = [reqs EXCEPT ![t] = q] BY <1>4
  <2>2. q.pc = "copying" BY <1>1 DEF Fields
  <2> HIDE DEF q
  <2>3. QED BY <1>4, <2>1, <2>2, PassedHop
<1>5. QED BY <1>2, <1>3, <1>4 DEF Arrive

LEMMA ForwardHop ==
  ASSUME WayInv, HopInv, NEW t \in Tab, Forward(t) \/ Retry(t)
  PROVE  HopInv'
<1>1. DOMAIN reqs = Tab /\ DOMAIN reqs[t] = Fields BY DEF WayInv, Ways, WayOK, KindOK
<1>2. CASE Arrive(t) BY <1>2, ArriveHop
<1>3. CASE Answered(t, Granted(t), ErrorPage(t)) BY <1>1, <1>3, AnsweredHop
<1>4. ASSUME NEW rest, reqs' = [reqs EXCEPT ![t].pc = "retry", ![t].rest = rest], UNCHANGED hops
      PROVE  HopInv'
  <2> DEFINE q == [reqs[t] EXCEPT !.pc = "retry", !.rest = rest]
  <2>1. reqs' = [reqs EXCEPT ![t] = q] BY <1>4
  <2>2. q.pc = "retry" BY <1>1 DEF Fields
  <2> HIDE DEF q
  <2>3. QED BY <1>4, <2>1, <2>2, PassedHop
<1>5. CASE reqs[t].pc = "retry" /\ reqs' = [reqs EXCEPT ![t].rest = Tail(@)] /\ UNCHANGED hops
  <2> DEFINE q == [reqs[t] EXCEPT !.rest = Tail(@)]
  <2>1. reqs' = [reqs EXCEPT ![t] = q] BY <1>5
  <2>2. q.pc = "retry" BY <1>1, <1>5 DEF Fields
  <2> HIDE DEF q
  <2>3. QED BY <1>5, <2>1, <2>2, PassedHop
<1>6. QED BY <1>2, <1>3, <1>4, <1>5 DEF Forward, Retry

LEMMA CopyHop ==
  ASSUME WayInv, HopInv, NEW t \in Tab, Copy(t) \/ Finish(t)
  PROVE  HopInv'
<1>1. DOMAIN reqs = Tab /\ DOMAIN reqs[t] = Fields BY DEF WayInv, Ways, WayOK, KindOK
<1>2. CASE Answered(t, Cookies(t), ErrorPage(t)) BY <1>1, <1>2, AnsweredHop
<1>3. ASSUME NEW n, reqs[t].pc = "copying", UNCHANGED hops,
             reqs' = [reqs EXCEPT ![t].left = @ - n, ![t].buf = IF @ < Limit THEN @ + n ELSE @]
      PROVE  HopInv'
  <2> DEFINE q == [reqs[t] EXCEPT !.left = @ - n, !.buf = IF @ < Limit THEN @ + n ELSE @]
  <2>1. reqs' = [reqs EXCEPT ![t] = q] BY <1>3
  <2>2. q.pc = "copying" BY <1>1, <1>3 DEF Fields
  <2> HIDE DEF q
  <2>3. QED BY <1>3, <2>1, <2>2, PassedHop
<1>4. QED BY <1>2, <1>3 DEF Copy, Finish

LEMMA NextHop == "dashboard" \notin Slug /\ WayInv /\ HopInv /\ [Next]_vars => HopInv'
<1> SUFFICES ASSUME "dashboard" \notin Slug, WayInv, HopInv, [Next]_vars PROVE HopInv'
  OBVIOUS
<1>1. DOMAIN reqs = Tab BY DEF WayInv, Ways
<1>2. CASE UNCHANGED <<reqs, hops>> BY <1>2 DEF HopInv, HopOK, HomePage, FoundOK, First
<1>3. ASSUME NEW t \in Tab, Visit(t) \/ Call(t) \/ Browse(t) PROVE HopInv'
  <2>1. \E r : Start(t, r) BY <1>3 DEF Visit, Call, Browse
  <2>2. QED BY <1>1, <2>1, StartHop
<1>4. ASSUME NEW t \in Tab, Route(t) \/ RouteByRow(t) \/ Local(t) \/ Admit(t) PROVE HopInv'
  BY <1>4, RouteHop, RouteByRowHop, LocalHop, AdmitHop
<1>5. ASSUME NEW t \in Tab, Forward(t) \/ Retry(t) \/ Copy(t) \/ Finish(t) PROVE HopInv'
  BY <1>5, ForwardHop, CopyHop
<1>6. CASE Change BY <1>2, <1>6 DEF Change
<1>7. CASE UNCHANGED vars BY <1>2, <1>7 DEF vars
<1>8. QED BY <1>3, <1>4, <1>5, <1>6, <1>7 DEF Next

LEMMA InitHop == Init => HopInv
<1>1. ASSUME Init PROVE hops = [t \in Tab |-> hops[t]] /\ \A t \in Tab : hops[t] = 0
  BY <1>1 DEF Init
<1>2. ASSUME NEW r PROVE HopOK(0, r) BY DEF HopOK
<1>3. QED BY <1>1, <1>2 DEF HopInv

\* The gateway's own redirects end: two in a row are the most, three if a
\* router is called login, for any routers of any products none of which is
\* called dashboard, whatever the pages ask for and however the table, the rows
\* and the cookies change between one redirect and the next.
THEOREM RedirectsEndAlways == Spec => []RedirectsEnd
<1> DEFINE Inv == "dashboard" \notin Slug => HopInv
<1>1. Init => Inv BY InitHop
<1>2. WayInv /\ Inv /\ [Next]_vars => Inv' BY NextHop
<1>3. Inv => RedirectsEnd
  <2>1. ASSUME NEW h, NEW r, HopOK(h, r) PROVE h \in 0 .. 3 /\ (h = 3 => "login" \in Slug)
    BY <2>1 DEF HopOK
  <2>2. \A h \in 0 .. 3 : h <= 3 /\ (h # 3 => h <= 2) OBVIOUS
  <2>3. QED BY <2>1, <2>2 DEF HopInv, RedirectsEnd
<1> HIDE DEF Inv
<1>4. QED BY <1>1, <1>2, <1>3, InitWay, NextWay, PTL DEF Spec
================================================================================
