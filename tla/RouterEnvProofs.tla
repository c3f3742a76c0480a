---------------------------- MODULE RouterEnvProofs ----------------------------
(***************************************************************************)
(* For any tabs, starts, saves and names, and whatever product the router  *)
(* runs: what the gateway drew stays sealed, a save changes what was       *)
(* edited, and what a container was given as recorded the next is given.   *)
(***************************************************************************)
EXTENDS RouterEnv, TLAPS

-----------------------------------------------------------------------------
(* The invariant.  Stored lists are sealed: what was drawn is encrypted,   *)
(* and what is encrypted is a secret, which is how a page is given a mask  *)
(* for it.  So are the copies of operations and the lists of saves under   *)
(* way, and no page has a drawn text to put into one.                      *)

Sealed(p, e) == \A k \in DOMAIN e :
    /\ DOMAIN e[k] = {"text", "enc", "secret"}
    /\ e[k].enc => e[k].secret
    /\ e[k].text.kind = "made" => e[k].enc /\ DrawnFor(p, k, e[k].text)

Plain(view) == \A k \in DOMAIN view :
    /\ DOMAIN view[k] = {"text", "secret"}
    /\ view[k].text.kind # "made"

TabOK(p, tab) == /\ DOMAIN tab = {"pc", "view", "edited", "list"}
              /\ Plain(tab.view) /\ Sealed(p, tab.list)
OpOK(p, op)   == /\ DOMAIN op = {"pc", "kind", "copy"}
              /\ Sealed(p, op.copy)

TabsOK == DOMAIN tabs = Tab /\ \A t \in Tab : TabOK(product, tabs[t])
OpsOK  == DOMAIN ops = Op /\ \A o \in Op : OpOK(product, ops[o])

LoginsOK == /\ product \in Product /\ DOMAIN login = Tab
            /\ \A t \in Tab : login[t].kind = "made" => DrawnFor(product, "ENCRYPTION_KEY", login[t])

SealInv == ~shown => Sealed(product, env) /\ TabsOK /\ LoginsOK /\ OpsOK

-----------------------------------------------------------------------------
(* The operators keep lists sealed *)

LEMMA NothingSealed == Sealed(product, Nothing) /\ Plain(Nothing)
  BY DEF Sealed, Plain, Nothing

LEMMA OverSealed ==
  ASSUME NEW f, NEW g, Sealed(product, f), Sealed(product, g)
  PROVE  Sealed(product, Over(f, g))
<1>1. ASSUME NEW k \in DOMAIN Over(f, g)
      PROVE  \/ k \in DOMAIN f /\ Over(f, g)[k] = f[k]
             \/ k \in DOMAIN g /\ Over(f, g)[k] = g[k]
  BY DEF Over
<1>2. QED BY <1>1 DEF Sealed

LEMMA OverPlain ==
  ASSUME NEW f, NEW g, Plain(f), Plain(g)
  PROVE  Plain(Over(f, g))
<1>1. ASSUME NEW k \in DOMAIN Over(f, g)
      PROVE  \/ k \in DOMAIN f /\ Over(f, g)[k] = f[k]
             \/ k \in DOMAIN g /\ Over(f, g)[k] = g[k]
  BY DEF Over
<1>2. QED BY <1>1 DEF Plain

LEMMA MaskedPlain ==
  ASSUME NEW e, Sealed(product, e)
  PROVE  Plain(Masked(e))
<1>1. DOMAIN Masked(e) = DOMAIN e BY DEF Masked
<1>2. ASSUME NEW k \in DOMAIN e
      PROVE  /\ DOMAIN Masked(e)[k] = {"text", "secret"}
             /\ Masked(e)[k].text.kind # "made"
  <2>1. Masked(e)[k] = [text |-> IF e[k].secret THEN Mask ELSE e[k].text, secret |-> e[k].secret]
    BY DEF Masked
  <2>2. CASE e[k].secret
    BY <2>1, <2>2 DEF Mask
  <2>3. CASE ~e[k].secret
    BY <2>1, <2>3 DEF Sealed
  <2>4. QED BY <2>2, <2>3
<1>3. QED BY <1>1, <1>2 DEF Plain

LEMMA CleanedSealed ==
  ASSUME NEW view, Plain(view), NEW e, Sealed(product, e)
  PROVE  Sealed(product, Cleaned(view, e))
<1>1. DOMAIN Cleaned(view, e) = DOMAIN view BY DEF Cleaned
<1>2. ASSUME NEW k \in DOMAIN view
      PROVE  /\ DOMAIN Cleaned(view, e)[k] = {"text", "enc", "secret"}
             /\ Cleaned(view, e)[k].enc => Cleaned(view, e)[k].secret
             /\ Cleaned(view, e)[k].text.kind = "made" =>
                  Cleaned(view, e)[k].enc /\ DrawnFor(product, k, Cleaned(view, e)[k].text)
  <2> DEFINE kept == view[k].secret /\ view[k].text \in {Mask, Blank}
  <2>1. CASE kept /\ k \in DOMAIN e
    <3>1. Cleaned(view, e)[k] = [e[k] EXCEPT !.secret = TRUE] BY <2>1 DEF Cleaned
    <3>2. DOMAIN e[k] = {"text", "enc", "secret"} BY <2>1 DEF Sealed
    <3>3. /\ DOMAIN Cleaned(view, e)[k] = DOMAIN e[k]
          /\ Cleaned(view, e)[k].text = e[k].text
          /\ Cleaned(view, e)[k].enc = e[k].enc
          /\ Cleaned(view, e)[k].secret = TRUE
      BY <3>1, <3>2
    <3>4. QED BY <3>2, <3>3, <2>1 DEF Sealed
  <2>2. CASE ~(kept /\ k \in DOMAIN e)
    <3>1. Cleaned(view, e)[k] = [text |-> IF kept THEN Blank ELSE view[k].text,
                                 enc |-> view[k].secret, secret |-> view[k].secret]
      BY <2>2 DEF Cleaned
    <3>2. (IF kept THEN Blank ELSE view[k].text).kind # "made" BY DEF Plain, Blank
    <3>3. QED BY <3>1, <3>2
  <2>3. QED BY <2>1, <2>2
<1>3. QED BY <1>1, <1>2 DEF Sealed

LEMMA EnsuredSealed ==
  ASSUME NEW e, Sealed(product, e), NEW o
  PROVE  Sealed(product, Ensured(product, e, o))
<1> DEFINE missing == Lacking(product, e)
           of(k) == CHOOSE req \in missing : k \in DOMAIN req.draws
           drawn == [k \in UNION {DOMAIN req.draws : req \in missing} |->
                       [text |-> Drawn(o, of(k).draws[k]), enc |-> TRUE, secret |-> TRUE]]
<1>1. Sealed(product, drawn)
  <2>1. ASSUME NEW k \in DOMAIN drawn
        PROVE  DrawnFor(product, k, drawn[k].text)
    <3>1. PICK req \in missing : k \in DOMAIN req.draws BY <2>1
    <3>2. of(k) \in missing /\ k \in DOMAIN of(k).draws BY <3>1
    <3>3. of(k) \in Requirements(product) BY <3>2 DEF Lacking
    <3>4. drawn[k].text.n = of(k).draws[k] BY <2>1 DEF Drawn
    <3> HIDE DEF of, drawn
    <3>5. QED BY <3>2, <3>3, <3>4 DEF DrawnFor
  <2>2. ASSUME NEW k \in DOMAIN drawn
        PROVE  DOMAIN drawn[k] = {"text", "enc", "secret"} /\ drawn[k].enc /\ drawn[k].secret
    BY <2>2
  <2> HIDE DEF drawn
  <2>3. QED BY <2>1, <2>2 DEF Sealed
<1>2. Ensured(product, e, o) = Over(drawn, e) BY DEF Ensured
<1> HIDE DEF drawn
<1>3. QED BY <1>1, <1>2, OverSealed

-----------------------------------------------------------------------------
(* The steps *)

LEMMA TabsKept ==
  ASSUME TabsOK, product' = product, NEW t \in Tab, NEW tab, TabOK(product, tab), tabs' = [tabs EXCEPT ![t] = tab]
  PROVE  TabsOK'
  BY DEF TabsOK

LEMMA OpsKept ==
  ASSUME OpsOK, product' = product, NEW o \in Op, NEW op, OpOK(product, op), ops' = [ops EXCEPT ![o] = op]
  PROVE  OpsOK'
  BY DEF OpsOK

LEMMA ClosedOK == TabOK(product, Closed) /\ OpOK(product, Unused)
  BY NothingSealed DEF TabOK, OpOK, Closed, Unused

\* A field of a tab or an operation is replaced.
LEMMA TabField ==
  ASSUME NEW tab, TabOK(product, tab)
  PROVE  /\ \A pc : TabOK(product, [tab EXCEPT !.pc = pc])
         /\ \A view, edited : Plain(view) => TabOK(product, [tab EXCEPT !.view = view, !.edited = edited])
         /\ \A pc, list : Sealed(product, list) => TabOK(product, [tab EXCEPT !.pc = pc, !.list = list])
  BY DEF TabOK

LEMMA OpField ==
  ASSUME NEW op, OpOK(product, op)
  PROVE  /\ \A pc : OpOK(product, [op EXCEPT !.pc = pc])
         /\ \A pc, copy : Sealed(product, copy) => OpOK(product, [op EXCEPT !.pc = pc, !.copy = copy])
  BY DEF OpOK

LEMMA InitSealed == Init => SealInv
<1> SUFFICES ASSUME Init PROVE Sealed(product, env) /\ TabsOK /\ LoginsOK /\ OpsOK
  BY DEF SealInv
<1>1. Sealed(product, env)
  <2>1. CASE env = Nothing BY <2>1, NothingSealed
  <2>2. CASE env # Nothing
    <3>1. PICK n \in Names : env = [k \in {n} |-> Secret(Typed("long", "creator"))]
      BY <2>2 DEF Init
    <3>2. QED BY <3>1 DEF Sealed, Secret, Typed
  <2>3. QED BY <2>1, <2>2
<1>2. TabsOK BY ClosedOK DEF Init, TabsOK
<1>3. OpsOK BY ClosedOK DEF Init, OpsOK
<1>4. LoginsOK BY DEF Init, LoginsOK, Blank
<1>5. QED BY <1>1, <1>2, <1>3, <1>4

-----------------------------------------------------------------------------
(* Every action *)

LEMMA LoadSealed ==
  ASSUME Sealed(product, env), TabsOK, OpsOK, product' = product, NEW t \in Tab, Load(t)
  PROVE  Sealed(product, env') /\ TabsOK' /\ OpsOK'
<1>1. PICK view \in {Masked(env), Nothing} :
        tabs' = [tabs EXCEPT ![t] = [pc |-> "open", view |-> view, edited |-> {}, list |-> Nothing]]
  BY DEF Load, Closed
<1>2. TabOK(product, [pc |-> "open", view |-> view, edited |-> {}, list |-> Nothing])
  BY <1>1, MaskedPlain, NothingSealed DEF TabOK
<1>3. TabsOK' BY <1>1, <1>2, TabsKept
<1>4. UNCHANGED <<env, ops>> BY DEF Load, row
<1>5. QED BY <1>3, <1>4 DEF OpsOK

\* An edit puts a plain text, a flag or nothing at all into the list of a tab.
LEMMA EditSealed ==
  ASSUME Sealed(product, env), TabsOK, OpsOK, product' = product, NEW t \in Tab, Edit(t), ~shown'
  PROVE  Sealed(product, env') /\ TabsOK' /\ OpsOK'
<1> DEFINE view == tabs[t].view
<1>1. Plain(view) /\ TabOK(product, tabs[t]) BY DEF TabsOK, TabOK
<1>2. ASSUME NEW k, NEW new, Plain(new), Shows(t, k, new)
      PROVE  TabsOK'
  <2> DEFINE tab == [tabs[t] EXCEPT !.view = new, !.edited = @ \union {k}]
  <2>1. tab = [tabs[t] EXCEPT !.view = new, !.edited = tabs[t].edited \union {k}] OBVIOUS
  <2>2. TabOK(product, tab) BY <1>1, <1>2, <2>1, TabField
  <2>3. tabs' = [tabs EXCEPT ![t] = tab] BY <1>2 DEF Shows
  <2> HIDE DEF tab
  <2>4. QED BY <2>2, <2>3, TabsKept
<1>3. ASSUME NEW k, NEW text, NEW secret, text.kind # "made"
      PROVE  Plain(Over([x \in {k} |-> [text |-> text, secret |-> secret]], view))
  <2>1. Plain([x \in {k} |-> [text |-> text, secret |-> secret]]) BY <1>3 DEF Plain
  <2>2. QED BY <2>1, <1>1, OverPlain
<1>4. ASSUME NEW k, Type(t, k) PROVE TabsOK'
  <2>1. PICK size \in {"short", "long"}, secret \in BOOLEAN :
          Shows(t, k, Over([x \in {k} |-> [text |-> Typed(size, t), secret |-> secret]], view))
    BY <1>4 DEF Type
  <2>2. Typed(size, t).kind # "made" BY DEF Typed
  <2>3. QED BY <2>1, <2>2, <1>2, <1>3
<1>5. ASSUME NEW k, Clear(t, k) PROVE TabsOK'
  <2>1. Shows(t, k, Over([x \in {k} |-> [text |-> Blank, secret |-> TRUE]], view)) BY <1>5 DEF Clear
  <2>2. Blank.kind # "made" BY DEF Blank
  <2>3. QED BY <2>1, <2>2, <1>2, <1>3
<1>6. ASSUME NEW k, Tick(t, k) PROVE TabsOK'
  <2> DEFINE new == [view EXCEPT ![k].secret = ~@]
  <2>1. Plain(new) BY <1>1 DEF Plain
  <2>2. Shows(t, k, new) BY <1>6 DEF Tick
  <2>3. QED BY <2>1, <2>2, <1>2
<1>7. ASSUME NEW k, RemoveRow(t, k) PROVE TabsOK'
  <2> DEFINE new == [x \in DOMAIN view \ {k} |-> view[x]]
  <2>1. Plain(new) BY <1>1 DEF Plain
  <2>2. Shows(t, k, new) BY <1>7 DEF RemoveRow
  <2>3. QED BY <2>1, <2>2, <1>2
<1>8. ASSUME NEW k, Reveal(t, k) PROVE FALSE
  BY <1>8 DEF Reveal
<1>9. TabsOK' BY <1>4, <1>5, <1>6, <1>7, <1>8 DEF Edit
<1>10. UNCHANGED <<env, ops>> BY DEF Edit, row
<1>11. QED BY <1>9, <1>10 DEF OpsOK

LEMMA SaveReadSealed ==
  ASSUME Sealed(product, env), TabsOK, OpsOK, product' = product, NEW t \in Tab, SaveRead(t)
  PROVE  Sealed(product, env') /\ TabsOK' /\ OpsOK'
<1> DEFINE tab == [tabs[t] EXCEPT !.pc = "saving", !.list = Cleaned(tabs[t].view, env)]
<1>1. TabOK(product, tabs[t]) /\ Plain(tabs[t].view) BY DEF TabsOK, TabOK
<1>2. TabOK(product, tab) BY <1>1, CleanedSealed, TabField
<1>3. tabs' = [tabs EXCEPT ![t] = tab] BY DEF SaveRead
<1> HIDE DEF tab
<1>4. TabsOK' BY <1>2, <1>3, TabsKept
<1>5. UNCHANGED <<env, ops>> BY DEF SaveRead, row
<1>6. QED BY <1>4, <1>5 DEF OpsOK

LEMMA SaveWriteSealed ==
  ASSUME Sealed(product, env), TabsOK, OpsOK, product' = product, NEW t \in Tab, SaveWrite(t)
  PROVE  Sealed(product, env') /\ TabsOK' /\ OpsOK'
<1>1. Sealed(product, env')
  <2>1. env' = tabs[t].list BY DEF SaveWrite, Write
  <2>2. QED BY <2>1 DEF TabsOK, TabOK
<1>2. TabsOK' BY ClosedOK, TabsKept DEF SaveWrite
<1>3. CASE UNCHANGED ops BY <1>1, <1>2, <1>3 DEF OpsOK
<1>4. ASSUME NEW o \in Op, ops' = [ops EXCEPT ![o].pc = "queued"] PROVE OpsOK'
  <2> DEFINE op == [ops[o] EXCEPT !.pc = "queued"]
  <2>1. OpOK(product, op) BY OpField DEF OpsOK
  <2>2. ops' = [ops EXCEPT ![o] = op] BY <1>4
  <2> HIDE DEF op
  <2>3. QED BY <2>1, <2>2, OpsKept
<1>5. QED BY <1>1, <1>2, <1>3, <1>4 DEF SaveWrite

LEMMA SaveFailsSealed ==
  ASSUME Sealed(product, env), TabsOK, OpsOK, product' = product, NEW t \in Tab, SaveFails(t)
  PROVE  Sealed(product, env') /\ TabsOK' /\ OpsOK'
<1> DEFINE tab == [tabs[t] EXCEPT !.pc = "open", !.list = Nothing]
<1>1. TabOK(product, tab) BY NothingSealed, TabField DEF TabsOK
<1>2. tabs' = [tabs EXCEPT ![t] = tab] BY DEF SaveFails
<1> HIDE DEF tab
<1>3. TabsOK' BY <1>1, <1>2, TabsKept
<1>4. UNCHANGED <<env, ops>> BY DEF SaveFails, row
<1>5. QED BY <1>3, <1>4 DEF OpsOK

LEMMA AskSealed ==
  ASSUME Sealed(product, env), TabsOK, OpsOK, product' = product, NEW o \in Op, Ask(o)
  PROVE  Sealed(product, env') /\ TabsOK' /\ OpsOK'
<1>1. UNCHANGED <<env, tabs>> BY DEF Ask, row
<1>2. ASSUME NEW kind, ops' = [ops EXCEPT ![o] = [pc |-> "ready", kind |-> kind, copy |-> env]]
      PROVE  OpsOK'
  <2>1. OpOK(product, [pc |-> "ready", kind |-> kind, copy |-> env]) BY DEF OpOK
  <2>2. QED BY <2>1, <1>2, OpsKept
<1>3. ASSUME ops' = [ops EXCEPT ![o].pc = "ready", ![o].copy = env]
      PROVE  OpsOK'
  <2> DEFINE op == [ops[o] EXCEPT !.pc = "ready", !.copy = env]
  <2>1. OpOK(product, op) BY OpField DEF OpsOK
  <2>2. ops' = [ops EXCEPT ![o] = op] BY <1>3 DEF OpsOK
  <2> HIDE DEF op
  <2>3. QED BY <2>1, <2>2, OpsKept
<1>4. QED BY <1>1, <1>2, <1>3 DEF Ask, TabsOK

LEMMA LockSealed ==
  ASSUME Sealed(product, env), TabsOK, OpsOK, product' = product, NEW o \in Op, Lock(o)
  PROVE  Sealed(product, env') /\ TabsOK' /\ OpsOK'
<1> DEFINE op == [ops[o] EXCEPT !.pc = "locked"]
<1>1. OpOK(product, op) BY OpField DEF OpsOK
<1>2. ops' = [ops EXCEPT ![o] = op] BY DEF Lock
<1> HIDE DEF op
<1>3. OpsOK' BY <1>1, <1>2, OpsKept
<1>4. UNCHANGED <<env, tabs>> BY DEF Lock, row
<1>5. QED BY <1>3, <1>4 DEF TabsOK

LEMMA EnsureSealed ==
  ASSUME Sealed(product, env), TabsOK, OpsOK, product' = product, NEW o \in Op, Ensure(o)
  PROVE  Sealed(product, env') /\ TabsOK' /\ OpsOK'
<1> DEFINE full == Ensured(product, ops[o].copy, o)
<1>1. OpOK(product, ops[o]) /\ Sealed(product, full) BY EnsuredSealed DEF OpsOK, OpOK
<1> HIDE DEF full
<1>2. UNCHANGED tabs BY DEF Ensure
<1>3. ASSUME env' = full, ops' = [ops EXCEPT ![o].pc = "ensured", ![o].copy = full]
      PROVE  Sealed(product, env') /\ OpsOK'
  <2> DEFINE op == [ops[o] EXCEPT !.pc = "ensured", !.copy = full]
  <2>1. OpOK(product, op) BY <1>1, OpField
  <2>2. ops' = [ops EXCEPT ![o] = op] BY <1>3 DEF OpsOK
  <2> HIDE DEF op
  <2>3. QED BY <1>1, <1>3, <2>1, <2>2, OpsKept
<1>4. ASSUME env' = env, ops' = [ops EXCEPT ![o].pc = "ensured"]
      PROVE  Sealed(product, env') /\ OpsOK'
  <2> DEFINE op == [ops[o] EXCEPT !.pc = "ensured"]
  <2>1. OpOK(product, op) BY <1>1, OpField
  <2>2. ops' = [ops EXCEPT ![o] = op] BY <1>4
  <2> HIDE DEF op
  <2>3. QED BY <1>4, <2>1, <2>2, OpsKept
<1>5. QED BY <1>2, <1>3, <1>4 DEF Ensure, Write, full, TabsOK

\* The end of an operation, with or without a container
LEMMA EndSealed ==
  ASSUME Sealed(product, env), TabsOK, OpsOK, product' = product, NEW o \in Op, End(o), UNCHANGED <<env, tabs>>
  PROVE  Sealed(product, env') /\ TabsOK' /\ OpsOK'
<1> DEFINE op == [Unused EXCEPT !.pc = "done"]
<1>1. OpOK(product, op) BY ClosedOK, OpField
<1>2. ops' = [ops EXCEPT ![o] = op] BY DEF End
<1> HIDE DEF op
<1>3. OpsOK' BY <1>1, <1>2, OpsKept
<1>4. QED BY <1>3 DEF TabsOK

LEMMA LoginStep ==
  ASSUME DOMAIN login = Tab, [Next]_vars
  PROVE  /\ DOMAIN login' = Tab
         /\ \A t \in Tab : login'[t] \in {login[t], Blank, InitialPassword(env)}
<1>1. CASE UNCHANGED login BY <1>1
<1>2. ASSUME NEW t \in Tab, NEW text, login' = [login EXCEPT ![t] = text], text \in {Blank, InitialPassword(env)}
      PROVE  /\ DOMAIN login' = Tab
             /\ \A u \in Tab : login'[u] \in {login[u], Blank, InitialPassword(env)}
  BY <1>2
<1>3. CASE \E t \in Tab : Load(t) BY <1>1, <1>2, <1>3 DEF Load
<1>4. CASE \E t \in Tab : SaveWrite(t) BY <1>2, <1>4 DEF SaveWrite
<1>5. CASE ~\E t \in Tab : Load(t) \/ SaveWrite(t)
  BY <1>1, <1>5 DEF Next, vars, Edit, SaveRead, SaveFails, SaveCredential, Ask, Lock, GiveUp, Ensure,
                    Make, StartFails, Dies
<1>6. QED BY <1>3, <1>4, <1>5

\* What a page shows for a password was stored under one of two names, and of
\* those only ENCRYPTION_KEY is drawn for a product.
LEMMA LoginsSealed ==
  ASSUME Sealed(product, env), LoginsOK, product' = product, [Next]_vars
  PROVE  LoginsOK'
<1>1. ASSUME NEW p \in Product, NEW req \in Requirements(p)
      PROVE  "INITIAL_PASSWORD" \notin DOMAIN req.draws
  BY <1>1 DEF Product, Requirements, Requirement, OmniRouteSecrets, NineRouterSecrets, LiteLLMSecrets,
              FreeLLMAPISecrets, NewApiSecrets, PortkeySecrets, BifrostSecrets, CoAISecrets,
              LLMGatewaySecrets, OpenConnectorSecrets
<1> DEFINE password == InitialPassword(env)
<1>2. password.kind = "made" => DrawnFor(product, "ENCRYPTION_KEY", password)
  <2>1. ASSUME NEW k \in DOMAIN env, env[k].text.kind = "made" PROVE DrawnFor(product, k, env[k].text)
    BY <2>1 DEF Sealed
  <2>2. ~DrawnFor(product, "INITIAL_PASSWORD", password)
    BY <1>1 DEF LoginsOK, DrawnFor
  <2>3. \/ "INITIAL_PASSWORD" \in DOMAIN env /\ password = env["INITIAL_PASSWORD"].text
        \/ "ENCRYPTION_KEY" \in DOMAIN env /\ password = env["ENCRYPTION_KEY"].text
        \/ password \in {Default, Blank}
    BY DEF InitialPassword
  <2>4. Default.kind # "made" /\ Blank.kind # "made" BY DEF Default, Blank
  <2> HIDE DEF password
  <2>5. QED BY <2>1, <2>2, <2>3, <2>4
<1>3. \A t \in Tab : login'[t].kind = "made" => DrawnFor(product, "ENCRYPTION_KEY", login'[t])
  <2> HIDE DEF password
  <2>1. Blank.kind # "made" BY DEF Blank
  <2>2. QED BY <1>2, <2>1, LoginStep DEF LoginsOK, password
<1>4. QED BY <1>3, LoginStep DEF LoginsOK

LEMMA NextSealed == SealInv /\ [Next]_vars => SealInv'
<1> SUFFICES ASSUME SealInv, [Next]_vars, ~shown'
             PROVE  Sealed(product', env') /\ TabsOK' /\ LoginsOK' /\ OpsOK'
  BY DEF SealInv
<1>1. ~shown /\ product' = product
  <2>1. CASE UNCHANGED vars BY <2>1 DEF vars, row, history
  <2>2. CASE Next
    <3>1. ASSUME NEW t \in Tab, Edit(t) PROVE shown' = TRUE \/ shown' = shown
      BY <3>1 DEF Edit, Type, Clear, Tick, RemoveRow, Reveal
    <3>2. CASE \E t \in Tab : Edit(t) BY <3>1, <3>2 DEF Edit, row
    <3>3. ASSUME NEW t \in Tab, Load(t) \/ SaveRead(t) \/ SaveWrite(t) \/ SaveFails(t)
          PROVE  UNCHANGED <<shown, product>>
      BY <3>3 DEF Load, SaveRead, SaveWrite, SaveFails, history, row
    <3>4. CASE SaveCredential \/ Dies BY <3>4 DEF SaveCredential, Dies, history, row
    <3>5. ASSUME NEW o \in Op, Ask(o) \/ Lock(o) \/ GiveUp(o) \/ Ensure(o) \/ Make(o) \/ StartFails(o)
          PROVE  UNCHANGED <<shown, product>>
      BY <3>5 DEF Ask, Lock, GiveUp, Ensure, Make, StartFails, history, row
    <3>6. QED BY <2>2, <3>2, <3>3, <3>4, <3>5 DEF Next
  <2>3. QED BY <2>1, <2>2
<1>2. Sealed(product, env) /\ TabsOK /\ LoginsOK /\ OpsOK BY <1>1 DEF SealInv
<1>3. ASSUME UNCHANGED vars PROVE Sealed(product, env') /\ TabsOK' /\ OpsOK'
  BY <1>1, <1>2, <1>3 DEF vars, row, TabsOK, OpsOK
<1>4. ASSUME NEW t \in Tab, Load(t) \/ Edit(t) \/ SaveRead(t) \/ SaveWrite(t) \/ SaveFails(t)
      PROVE  Sealed(product, env') /\ TabsOK' /\ OpsOK'
  BY <1>1, <1>2, <1>4, LoadSealed, EditSealed, SaveReadSealed, SaveWriteSealed, SaveFailsSealed
<1>5. ASSUME NEW o \in Op, Ask(o) \/ Lock(o) \/ Ensure(o)
      PROVE  Sealed(product, env') /\ TabsOK' /\ OpsOK'
  BY <1>1, <1>2, <1>5, AskSealed, LockSealed, EnsureSealed
<1>6. ASSUME NEW o \in Op, GiveUp(o) \/ Make(o) \/ StartFails(o)
      PROVE  Sealed(product, env') /\ TabsOK' /\ OpsOK'
  <2>1. End(o) /\ UNCHANGED <<env, tabs>> BY <1>6 DEF GiveUp, Make, StartFails, row
  <2>2. QED BY <1>1, <1>2, <2>1, EndSealed
<1>7. ASSUME SaveCredential \/ Dies PROVE Sealed(product, env') /\ TabsOK' /\ OpsOK'
  <2>1. UNCHANGED <<env, tabs, ops>> BY <1>7 DEF SaveCredential, Dies, row
  <2>2. QED BY <1>1, <1>2, <2>1 DEF TabsOK, OpsOK
<1>8. Sealed(product, env') /\ TabsOK' /\ OpsOK' BY <1>3, <1>4, <1>5, <1>6, <1>7 DEF Next
<1>9. QED BY <1>1, <1>2, <1>8, LoginsSealed

\* A secret that EnsurePermanentSecrets drew is never stored in clear and never in
\* the list of a page, unless a page asked to reveal one, whichever flags are
\* ticked, whichever masks come back and whoever overwrites whose list; and what
\* the page shows for the product's password is never a drawn text but the one
\* drawn for an ENCRYPTION_KEY, which getInitialPassword hands out unasked.
THEOREM DrawnStaysSealedAlways == Spec => []DrawnStaysSealed
<1>1. SealInv => DrawnStaysSealed
  BY DEF SealInv, DrawnStaysSealed, Sealed, Plain, TabsOK, TabOK, LoginsOK
<1>2. QED BY <1>1, InitSealed, NextSealed, PTL DEF Spec

-----------------------------------------------------------------------------
(* What a save changes.  A tab whose list is still that of the row shows,  *)
(* for every name it did not edit, what the row holds, masked; and cleaning *)
(* the list gives back what was masked, because what is no secret is not   *)
(* encrypted either.                                                        *)

IsEntry(x) == /\ x = [text |-> x.text, enc |-> x.enc, secret |-> x.secret]
              /\ x.enc \in BOOLEAN /\ x.secret \in BOOLEAN
              /\ x.enc => x.secret
IsShown(x) == /\ x = [text |-> x.text, secret |-> x.secret]
              /\ x.secret \in BOOLEAN

Entries(e)    == \A k \in DOMAIN e : IsEntry(e[k])
Listed(view)  == \A k \in DOMAIN view : IsShown(view[k])

\* f and g agree on every name but those of S.
Agree(f, g, S) == \A k : k \notin S => /\ k \in DOMAIN f <=> k \in DOMAIN g
                                       /\ k \in DOMAIN f => f[k] = g[k]

TabFits(tab, e, fresh) ==
    /\ tab = [pc |-> tab.pc, view |-> tab.view, edited |-> tab.edited, list |-> tab.list]
    /\ Listed(tab.view) /\ Entries(tab.list)
    /\ fresh => tab.pc # "closed" /\ Agree(tab.view, Masked(e), tab.edited)
    /\ fresh /\ tab.pc = "saving" => Agree(tab.list, e, tab.edited)

OpFits(op) == /\ op = [pc |-> op.pc, kind |-> op.kind, copy |-> op.copy]
              /\ Entries(op.copy)

TabsFit == DOMAIN tabs = Tab /\ \A t \in Tab : TabFits(tabs[t], env, t \in current)
OpsFit  == DOMAIN ops = Op /\ \A o \in Op : OpFits(ops[o])

ExactInv == Entries(env) /\ TabsFit /\ OpsFit

\* What the steps make of the record of a tab or an operation
LEMMA TabRecord ==
  ASSUME NEW tab, NEW e, NEW fresh, TabFits(tab, e, fresh), NEW x, NEW y
  PROVE  /\ [[tab EXCEPT !.pc = x] EXCEPT !.list = y]
              = [pc |-> x, view |-> tab.view, edited |-> tab.edited, list |-> y]
         /\ [[tab EXCEPT !.view = x] EXCEPT !.edited = y]
              = [pc |-> tab.pc, view |-> x, edited |-> y, list |-> tab.list]
<1>1. tab = [pc |-> tab.pc, view |-> tab.view, edited |-> tab.edited, list |-> tab.list]
  BY DEF TabFits
<1> DEFINE moved == [tab EXCEPT !.pc = x]
           shows == [tab EXCEPT !.view = x]
<1>2. moved = [pc |-> x, view |-> tab.view, edited |-> tab.edited, list |-> tab.list] BY <1>1
<1>3. shows = [pc |-> tab.pc, view |-> x, edited |-> tab.edited, list |-> tab.list] BY <1>1
<1> HIDE DEF moved, shows
<1>4. [moved EXCEPT !.list = y] = [pc |-> x, view |-> tab.view, edited |-> tab.edited, list |-> y]
  BY <1>2
<1>5. [shows EXCEPT !.edited = y] = [pc |-> tab.pc, view |-> x, edited |-> y, list |-> tab.list]
  BY <1>3
<1>6. QED BY <1>4, <1>5 DEF moved, shows

LEMMA OpRecord ==
  ASSUME NEW op, OpFits(op), NEW x, NEW y
  PROVE  [[op EXCEPT !.pc = x] EXCEPT !.copy = y] = [pc |-> x, kind |-> op.kind, copy |-> y]
<1>1. op = [pc |-> op.pc, kind |-> op.kind, copy |-> op.copy] BY DEF OpFits
<1> DEFINE moved == [op EXCEPT !.pc = x]
<1>2. moved = [pc |-> x, kind |-> op.kind, copy |-> op.copy] BY <1>1
<1> HIDE DEF moved
<1>3. [moved EXCEPT !.copy = y] = [pc |-> x, kind |-> op.kind, copy |-> y] BY <1>2
<1>4. QED BY <1>3 DEF moved

LEMMA MaskedFits ==
  ASSUME NEW e, Entries(e)
  PROVE  /\ Listed(Masked(e)) /\ DOMAIN Masked(e) = DOMAIN e
         /\ \A k \in DOMAIN e : Masked(e)[k] =
              [text |-> IF e[k].secret THEN Mask ELSE e[k].text, secret |-> e[k].secret]
<1>1. DOMAIN Masked(e) = DOMAIN e BY DEF Masked
<1>2. \A k \in DOMAIN e : Masked(e)[k] =
        [text |-> IF e[k].secret THEN Mask ELSE e[k].text, secret |-> e[k].secret]
  BY DEF Masked
<1>3. ASSUME NEW k \in DOMAIN e PROVE IsShown(Masked(e)[k])
  <2>1. e[k].secret \in BOOLEAN BY DEF Entries, IsEntry
  <2>2. PICK text : Masked(e)[k] = [text |-> text, secret |-> e[k].secret] BY <1>2
  <2>3. QED BY <2>1, <2>2 DEF IsShown
<1>4. QED BY <1>1, <1>2, <1>3 DEF Listed

LEMMA CleanedFits ==
  ASSUME NEW view, Listed(view), NEW e, Entries(e)
  PROVE  Entries(Cleaned(view, e))
<1>1. DOMAIN Cleaned(view, e) = DOMAIN view BY DEF Cleaned
<1>2. ASSUME NEW k \in DOMAIN view PROVE IsEntry(Cleaned(view, e)[k])
  <2> DEFINE kept == view[k].secret /\ view[k].text \in {Mask, Blank}
  <2>1. CASE kept /\ k \in DOMAIN e
    <3>1. Cleaned(view, e)[k] = [e[k] EXCEPT !.secret = TRUE] BY <2>1 DEF Cleaned
    <3>2. IsEntry(e[k]) BY <2>1 DEF Entries
    <3>3. Cleaned(view, e)[k] = [text |-> e[k].text, enc |-> e[k].enc, secret |-> TRUE]
      BY <3>1, <3>2 DEF IsEntry
    <3>4. QED BY <3>2, <3>3 DEF IsEntry
  <2>2. CASE ~(kept /\ k \in DOMAIN e)
    <3>1. Cleaned(view, e)[k] = [text |-> IF kept THEN Blank ELSE view[k].text,
                                 enc |-> view[k].secret, secret |-> view[k].secret]
      BY <2>2 DEF Cleaned
    <3>2. view[k].secret \in BOOLEAN BY DEF Listed, IsShown
    <3>3. QED BY <3>1, <3>2 DEF IsEntry
  <2>3. QED BY <2>1, <2>2
<1>3. QED BY <1>1, <1>2 DEF Entries

\* Cleaning what was masked gives back what was stored.
LEMMA CleanedAgrees ==
  ASSUME NEW view, NEW e, Entries(e), NEW S, Agree(view, Masked(e), S)
  PROVE  Agree(Cleaned(view, e), e, S)
<1>1. DOMAIN Cleaned(view, e) = DOMAIN view /\ DOMAIN Masked(e) = DOMAIN e
  BY DEF Cleaned, Masked
<1>2. ASSUME NEW k, k \notin S, k \in DOMAIN view PROVE Cleaned(view, e)[k] = e[k]
  <2>1. k \in DOMAIN e BY <1>1, <1>2 DEF Agree
  <2>2. view[k] = [text |-> IF e[k].secret THEN Mask ELSE e[k].text, secret |-> e[k].secret]
    BY <1>2, <2>1, MaskedFits DEF Agree
  <2>3. IsEntry(e[k]) BY <2>1 DEF Entries
  <2>4. CASE e[k].secret
    <3>1. Cleaned(view, e)[k] = [e[k] EXCEPT !.secret = TRUE] BY <1>2, <2>1, <2>2, <2>4 DEF Cleaned
    <3>2. QED BY <2>3, <2>4, <3>1 DEF IsEntry
  <2>5. CASE ~e[k].secret
    <3>1. view[k] = [text |-> e[k].text, secret |-> FALSE] BY <2>2, <2>3, <2>5 DEF IsEntry
    <3>2. view[k].text = e[k].text /\ view[k].secret = FALSE BY <3>1
    <3>3. Cleaned(view, e)[k] = [text |-> view[k].text, enc |-> view[k].secret,
                                 secret |-> view[k].secret]
      BY <1>2, <3>2 DEF Cleaned
    <3>4. QED BY <2>3, <2>5, <3>2, <3>3 DEF IsEntry
  <2>6. QED BY <2>4, <2>5
<1>3. QED BY <1>1, <1>2 DEF Agree

LEMMA EnsuredFits ==
  ASSUME NEW p, NEW e, Entries(e), NEW o
  PROVE  Entries(Ensured(p, e, o))
<1> DEFINE missing == Lacking(p, e)
           number(k) == (CHOOSE req \in missing : k \in DOMAIN req.draws).draws[k]
           drawn == [k \in UNION {DOMAIN req.draws : req \in missing} |->
                       [text |-> Drawn(o, number(k)), enc |-> TRUE, secret |-> TRUE]]
<1>1. Entries(drawn) BY DEF Entries, IsEntry
<1>2. Ensured(p, e, o) = Over(drawn, e) BY DEF Ensured
<1> HIDE DEF drawn
<1>3. ASSUME NEW k \in DOMAIN Over(drawn, e) PROVE IsEntry(Over(drawn, e)[k])
  <2>1. \/ k \in DOMAIN drawn /\ Over(drawn, e)[k] = drawn[k]
        \/ k \in DOMAIN e /\ Over(drawn, e)[k] = e[k]
    BY DEF Over
  <2>2. QED BY <1>1, <2>1 DEF Entries
<1>4. QED BY <1>2, <1>3 DEF Entries

-----------------------------------------------------------------------------
(* Every action keeps the copies exact *)

\* A step of one tab that leaves the row and the operations alone
LEMMA TabMoves ==
  ASSUME ExactInv, NEW t \in Tab, NEW tab, TabFits(tab, env, t \in current'),
         tabs' = [tabs EXCEPT ![t] = tab], UNCHANGED <<env, ops>>,
         \A u \in Tab \ {t} : u \in current' => u \in current
  PROVE  ExactInv'
<1>1. ASSUME NEW u \in Tab PROVE TabFits(tabs'[u], env', u \in current')
  <2>1. CASE u = t BY <2>1 DEF ExactInv, TabsFit, TabFits
  <2>2. CASE u # t BY <2>2 DEF ExactInv, TabsFit, TabFits
  <2>3. QED BY <2>1, <2>2
<1>2. QED BY <1>1 DEF ExactInv, TabsFit, OpsFit

\* A step of one operation that leaves the row and the tabs alone
LEMMA OpMoves ==
  ASSUME ExactInv, NEW o \in Op, NEW op, OpFits(op), ops' = [ops EXCEPT ![o] = op],
         UNCHANGED <<env, tabs>>, \A u \in Tab : u \in current' => u \in current
  PROVE  ExactInv'
<1>1. ASSUME NEW u \in Tab PROVE TabFits(tabs'[u], env', u \in current')
  BY DEF ExactInv, TabsFit, TabFits
<1>2. QED BY <1>1 DEF ExactInv, TabsFit, OpsFit

\* A write of the row: no tab's list is that of the row any more.
LEMMA RowWritten ==
  ASSUME ExactInv, Entries(env'), OpsFit', \A u \in Tab : u \notin current',
         DOMAIN tabs' = Tab, \A u \in Tab : tabs'[u] = tabs[u] \/ tabs'[u] = Closed
  PROVE  ExactInv'
<1>1. TabFits(Closed, env', FALSE) BY DEF TabFits, Closed, Listed, Entries, Nothing
<1>2. ASSUME NEW u \in Tab PROVE TabFits(tabs'[u], env', u \in current')
  BY <1>1 DEF ExactInv, TabsFit, TabFits
<1>3. QED BY <1>2 DEF ExactInv, TabsFit

LEMMA InitExact == Init => ExactInv
<1> SUFFICES ASSUME Init PROVE ExactInv
  OBVIOUS
<1>1. Entries(env)
  <2>1. CASE env = Nothing BY <2>1 DEF Entries, Nothing
  <2>2. CASE env # Nothing
    <3>1. PICK n \in Names : env = [k \in {n} |-> Secret(Typed("long", "creator"))]
      BY <2>2 DEF Init
    <3>2. QED BY <3>1 DEF Entries, IsEntry, Secret
  <2>3. QED BY <2>1, <2>2
<1>2. TabsFit BY DEF Init, TabsFit, TabFits, Closed, Listed, Entries, Nothing
<1>3. OpsFit BY DEF Init, OpsFit, OpFits, Unused, Entries, Nothing
<1>4. QED BY <1>1, <1>2, <1>3 DEF ExactInv

LEMMA LoadExact ==
  ASSUME ExactInv, NEW t \in Tab, Load(t)
  PROVE  ExactInv'
<1> DEFINE tab(view) == [pc |-> "open", view |-> view, edited |-> {}, list |-> Nothing]
<1>1. UNCHANGED <<env, ops>> BY DEF Load, row
<1>2. Entries(env) /\ Entries(Nothing) /\ Listed(Nothing)
  BY DEF ExactInv, Entries, Listed, Nothing
<1>3. CASE tabs' = [tabs EXCEPT ![t] = tab(Masked(env))] /\ current' = current \union {t}
  <2>1. TabFits(tab(Masked(env)), env, t \in current') BY <1>2, MaskedFits DEF TabFits, Agree
  <2> HIDE DEF tab
  <2>2. QED BY <1>1, <1>3, <2>1, TabMoves
<1>4. CASE tabs' = [tabs EXCEPT ![t] = tab(Nothing)] /\ UNCHANGED current /\ tabs[t].pc = "closed"
  <2>1. t \notin current BY <1>4 DEF ExactInv, TabsFit, TabFits
  <2>2. TabFits(tab(Nothing), env, t \in current') BY <1>2, <1>4, <2>1 DEF TabFits
  <2> HIDE DEF tab
  <2>3. QED BY <1>1, <1>4, <2>2, TabMoves
<1>5. QED BY <1>3, <1>4 DEF Load, Closed

\* An edit disturbs the one name it counts as edited.
LEMMA EditExact ==
  ASSUME ExactInv, NEW t \in Tab, Edit(t)
  PROVE  ExactInv'
<1> DEFINE view == tabs[t].view
<1>1. TabFits(tabs[t], env, t \in current) BY DEF ExactInv, TabsFit
<1>2. UNCHANGED <<env, ops, current>> /\ tabs[t].pc = "open" BY DEF Edit, row
<1>3. ASSUME NEW k, NEW new, Listed(new), Agree(new, view, {k}), Shows(t, k, new)
      PROVE  ExactInv'
  <2> DEFINE tab == [pc |-> "open", view |-> new, edited |-> tabs[t].edited \union {k},
                     list |-> tabs[t].list]
  <2>1. tabs' = [tabs EXCEPT ![t] = tab]
    <3>1. tabs' = [tabs EXCEPT ![t] = [[tabs[t] EXCEPT !.view = new]
                                        EXCEPT !.edited = tabs[t].edited \union {k}]]
      BY <1>3 DEF Shows, ExactInv, TabsFit
    <3> DEFINE edited == tabs[t].edited \union {k}
    <3> HIDE DEF edited
    <3>2. [[tabs[t] EXCEPT !.view = new] EXCEPT !.edited = edited]
          = [pc |-> tabs[t].pc, view |-> new, edited |-> edited, list |-> tabs[t].list]
      BY <1>1, TabRecord
    <3>3. QED BY <1>2, <3>1, <3>2 DEF edited
  <2>2. TabFits(tab, env, t \in current') BY <1>1, <1>2, <1>3 DEF TabFits, Agree
  <2> HIDE DEF tab
  <2>3. QED BY <1>2, <2>1, <2>2, TabMoves
<1>4. Listed(view) BY <1>1 DEF TabFits
<1>5. ASSUME NEW k, NEW text, NEW secret \in BOOLEAN,
             Shows(t, k, Over([x \in {k} |-> [text |-> text, secret |-> secret]], view))
      PROVE  ExactInv'
  <2> DEFINE new == Over([x \in {k} |-> [text |-> text, secret |-> secret]], view)
  <2>1. Listed(new) BY <1>4 DEF Listed, IsShown, Over
  <2>2. Agree(new, view, {k}) BY DEF Agree, Over
  <2>3. QED BY <1>3, <1>5, <2>1, <2>2
<1>6. ASSUME NEW k, Type(t, k) \/ Clear(t, k) PROVE ExactInv'
  BY <1>5, <1>6 DEF Type, Clear
<1>7. ASSUME NEW k, Tick(t, k) PROVE ExactInv'
  <2> DEFINE new == [view EXCEPT ![k].secret = ~@]
  <2>1. k \in DOMAIN view /\ Shows(t, k, new) BY <1>7 DEF Tick
  <2>2. IsShown(view[k]) BY <2>1, <1>4 DEF Listed
  <2>3. new[k] = [text |-> view[k].text, secret |-> ~view[k].secret] BY <2>1, <2>2 DEF IsShown
  <2>4. Listed(new)
    BY <1>4, <2>1, <2>2, <2>3 DEF Listed, IsShown
  <2>5. Agree(new, view, {k}) BY DEF Agree
  <2>6. QED BY <1>3, <2>1, <2>4, <2>5
<1>8. ASSUME NEW k, RemoveRow(t, k) PROVE ExactInv'
  <2> DEFINE new == [x \in DOMAIN view \ {k} |-> view[x]]
  <2>1. Listed(new) /\ Agree(new, view, {k}) BY <1>4 DEF Listed, Agree
  <2>2. QED BY <1>3, <1>8, <2>1 DEF RemoveRow
<1>9. ASSUME NEW k, Reveal(t, k) PROVE ExactInv'
  <2> DEFINE new == [view EXCEPT ![k].text = env[k].text]
  <2>1. k \in DOMAIN view /\ Shows(t, k, new) BY <1>9 DEF Reveal
  <2>2. IsShown(view[k]) BY <2>1, <1>4 DEF Listed
  <2>3. new[k] = [text |-> env[k].text, secret |-> view[k].secret] BY <2>1, <2>2 DEF IsShown
  <2>4. Listed(new)
    BY <1>4, <2>1, <2>2, <2>3 DEF Listed, IsShown
  <2>5. Agree(new, view, {k}) BY DEF Agree
  <2>6. QED BY <1>3, <2>1, <2>4, <2>5
<1>10. QED BY <1>6, <1>7, <1>8, <1>9 DEF Edit

LEMMA SaveReadExact ==
  ASSUME ExactInv, NEW t \in Tab, SaveRead(t)
  PROVE  ExactInv'
<1> DEFINE list == Cleaned(tabs[t].view, env)
           tab == [pc |-> "saving", view |-> tabs[t].view, edited |-> tabs[t].edited, list |-> list]
<1>1. TabFits(tabs[t], env, t \in current) /\ Entries(env) BY DEF ExactInv, TabsFit
<1>2. UNCHANGED <<env, ops, current>> BY DEF SaveRead, row
<1>3. Entries(list) /\ (t \in current => Agree(list, env, tabs[t].edited))
  BY <1>1, CleanedFits, CleanedAgrees DEF TabFits
<1> HIDE DEF list
<1>4. TabFits(tab, env, t \in current') BY <1>1, <1>2, <1>3 DEF TabFits
<1>5. tabs' = [tabs EXCEPT ![t] = tab]
  <2>1. tabs' = [tabs EXCEPT ![t] = [[tabs[t] EXCEPT !.pc = "saving"] EXCEPT !.list = list]]
    BY DEF SaveRead, list, ExactInv, TabsFit
  <2>2. [[tabs[t] EXCEPT !.pc = "saving"] EXCEPT !.list = list] = tab BY <1>1, TabRecord
  <2>3. QED BY <2>1, <2>2
<1> HIDE DEF tab
<1>6. QED BY <1>2, <1>4, <1>5, TabMoves

LEMMA SaveWriteExact ==
  ASSUME ExactInv, NEW t \in Tab, SaveWrite(t)
  PROVE  ExactInv'
<1>1. Entries(env') BY DEF SaveWrite, Write, ExactInv, TabsFit, TabFits
<1>2. \A u \in Tab : u \notin current' BY DEF SaveWrite, Write
<1>3. /\ DOMAIN tabs' = Tab
      /\ \A u \in Tab : tabs'[u] = tabs[u] \/ tabs'[u] = Closed
  BY DEF SaveWrite, ExactInv, TabsFit
<1>4. OpsFit'
  <2>1. CASE UNCHANGED ops BY <2>1 DEF ExactInv, OpsFit
  <2>2. ASSUME NEW o \in Op, ops' = [ops EXCEPT ![o].pc = "queued"] PROVE OpsFit'
    BY <2>2 DEF ExactInv, OpsFit, OpFits
  <2>3. QED BY <2>1, <2>2 DEF SaveWrite
<1>5. QED BY <1>1, <1>2, <1>3, <1>4, RowWritten

LEMMA SaveFailsExact ==
  ASSUME ExactInv, NEW t \in Tab, SaveFails(t)
  PROVE  ExactInv'
<1> DEFINE tab == [pc |-> "open", view |-> tabs[t].view, edited |-> tabs[t].edited, list |-> Nothing]
<1>1. TabFits(tabs[t], env, t \in current) BY DEF ExactInv, TabsFit
<1>2. UNCHANGED <<env, ops, current>> BY DEF SaveFails, row, history
<1>3. TabFits(tab, env, t \in current')
  BY <1>1, <1>2 DEF SaveFails, TabFits, Entries, Nothing
<1>4. tabs' = [tabs EXCEPT ![t] = tab]
  <2>1. tabs' = [tabs EXCEPT ![t] = [[tabs[t] EXCEPT !.pc = "open"] EXCEPT !.list = Nothing]]
    BY DEF SaveFails, ExactInv, TabsFit
  <2>2. [[tabs[t] EXCEPT !.pc = "open"] EXCEPT !.list = Nothing] = tab BY <1>1, TabRecord
  <2>3. QED BY <2>1, <2>2
<1> HIDE DEF tab
<1>5. QED BY <1>2, <1>3, <1>4, TabMoves

LEMMA AskExact ==
  ASSUME ExactInv, NEW o \in Op, Ask(o)
  PROVE  ExactInv'
<1>1. /\ UNCHANGED <<env, tabs>>
      /\ \A u \in Tab : u \in current' => u \in current
  BY EnvAssumption DEF Ask, row
<1>2. Entries(env) /\ OpFits(ops[o]) BY DEF ExactInv, OpsFit
<1>3. PICK kind : ops' = [ops EXCEPT ![o] = [pc |-> "ready", kind |-> kind, copy |-> env]]
  <2>1. CASE ops' = [ops EXCEPT ![o].pc = "ready", ![o].copy = env]
    <3>1. ops' = [ops EXCEPT ![o] = [[ops[o] EXCEPT !.pc = "ready"] EXCEPT !.copy = env]]
      BY <2>1 DEF ExactInv, OpsFit
    <3>2. [[ops[o] EXCEPT !.pc = "ready"] EXCEPT !.copy = env]
          = [pc |-> "ready", kind |-> ops[o].kind, copy |-> env]
      BY <1>2, OpRecord
    <3>3. QED BY <3>1, <3>2
  <2>2. QED BY <2>1 DEF Ask
<1> DEFINE op == [pc |-> "ready", kind |-> kind, copy |-> env]
<1>4. OpFits(op) BY <1>2 DEF OpFits
<1>5. ops' = [ops EXCEPT ![o] = op] BY <1>3
<1> HIDE DEF op
<1>6. QED BY <1>1, <1>4, <1>5, OpMoves

LEMMA LockExact ==
  ASSUME ExactInv, NEW o \in Op, Lock(o)
  PROVE  ExactInv'
<1> DEFINE op == [ops[o] EXCEPT !.pc = "locked"]
<1>1. UNCHANGED <<env, tabs, current>> BY DEF Lock, row, history
<1>2. OpFits(op) BY DEF ExactInv, OpsFit, OpFits
<1>3. ops' = [ops EXCEPT ![o] = op] BY DEF Lock
<1> HIDE DEF op
<1>4. QED BY <1>1, <1>2, <1>3, OpMoves

LEMMA EndExact ==
  ASSUME ExactInv, NEW o \in Op, End(o), UNCHANGED <<env, tabs>>
  PROVE  ExactInv'
<1> DEFINE op == [Unused EXCEPT !.pc = "done"]
<1>1. OpFits(op) BY DEF OpFits, Unused, Entries, Nothing
<1>2. ops' = [ops EXCEPT ![o] = op] /\ current' \subseteq current BY DEF End
<1> HIDE DEF op
<1>3. QED BY <1>1, <1>2, OpMoves

LEMMA EnsureExact ==
  ASSUME ExactInv, NEW o \in Op, Ensure(o)
  PROVE  ExactInv'
<1> DEFINE full == Ensured(product, ops[o].copy, o)
<1>1. OpFits(ops[o]) /\ Entries(full) BY EnsuredFits DEF ExactInv, OpsFit, OpFits
<1>2. UNCHANGED tabs BY DEF Ensure
<1>3. CASE Write(full, o) /\ ops' = [ops EXCEPT ![o].pc = "ensured", ![o].copy = full]
  <2> HIDE DEF full
  <2>1. OpsFit' BY <1>1, <1>3 DEF ExactInv, OpsFit, OpFits
  <2>2. Entries(env') /\ \A u \in Tab : u \notin current' BY <1>1, <1>3 DEF Write
  <2>3. QED BY <1>2, <2>1, <2>2, RowWritten DEF ExactInv, TabsFit
<1>4. CASE UNCHANGED <<env, current>> /\ ops' = [ops EXCEPT ![o].pc = "ensured"]
  <2> DEFINE op == [ops[o] EXCEPT !.pc = "ensured"]
  <2>1. OpFits(op) BY <1>1 DEF OpFits
  <2>2. ops' = [ops EXCEPT ![o] = op] BY <1>4
  <2> HIDE DEF op, full
  <2>3. QED BY <1>2, <1>4, <2>1, <2>2, OpMoves
<1>5. QED BY <1>3, <1>4 DEF Ensure

LEMMA NextExact == ExactInv /\ [Next]_vars => ExactInv'
<1> SUFFICES ASSUME ExactInv, [Next]_vars PROVE ExactInv'
  OBVIOUS
<1>1. CASE UNCHANGED <<env, tabs, ops, current>>
  BY <1>1 DEF ExactInv, TabsFit, TabFits, OpsFit
<1>2. ASSUME NEW t \in Tab, Load(t) \/ Edit(t) \/ SaveRead(t) \/ SaveWrite(t) \/ SaveFails(t)
      PROVE  ExactInv'
  BY <1>2, LoadExact, EditExact, SaveReadExact, SaveWriteExact, SaveFailsExact
<1>3. ASSUME NEW o \in Op, Ask(o) \/ Lock(o) \/ Ensure(o) PROVE ExactInv'
  BY <1>3, AskExact, LockExact, EnsureExact
<1>4. ASSUME NEW o \in Op, GiveUp(o) \/ Make(o) \/ StartFails(o) PROVE ExactInv'
  <2>1. End(o) /\ UNCHANGED <<env, tabs>> BY <1>4 DEF GiveUp, Make, StartFails, row
  <2>2. QED BY <2>1, EndExact
<1>5. CASE SaveCredential \/ Dies \/ UNCHANGED vars
  BY <1>1, <1>5 DEF SaveCredential, Dies, vars, row, history
<1>6. QED BY <1>2, <1>3, <1>4, <1>5 DEF Next

\* A save from a tab that still shows the row's own list changes the variables
\* edited in it and no other, whatever is masked, revealed, ticked or removed,
\* and whoever else has a page open or is starting the router.
THEOREM SaveIsExactAlways == Spec => SaveIsExact
<1>1. ASSUME ExactInv, [Next]_vars, NEW t \in Tab,
             tabs[t].pc = "saving", tabs'[t].pc = "closed", t \in current
      PROVE  \A k \in (DOMAIN env \union DOMAIN env') \ tabs[t].edited :
               k \in DOMAIN env \intersect DOMAIN env' /\ env'[k] = env[k]
  <2>1. SaveWrite(t)
    <3>1. DOMAIN tabs = Tab /\ tabs'[t].pc # tabs[t].pc /\ tabs'[t] # tabs[t]
      BY <1>1 DEF ExactInv, TabsFit
    <3>2. ~UNCHANGED tabs BY <3>1
    <3>3. \E u \in Tab : Load(u) \/ Edit(u) \/ SaveRead(u) \/ SaveWrite(u) \/ SaveFails(u)
      BY <1>1, <3>2 DEF Next, vars, SaveCredential, Dies, Ask, Lock, GiveUp, Ensure, Make, StartFails
    <3>4. PICK u \in Tab : Load(u) \/ Edit(u) \/ SaveRead(u) \/ SaveWrite(u) \/ SaveFails(u)
      BY <3>3
    <3>5. u = t
      BY <3>1, <3>4 DEF Load, Edit, Type, Clear, Tick, RemoveRow, Reveal, Shows, SaveRead,
                        SaveWrite, SaveFails
    <3>6. ~SaveFails(t)
      BY <1>1, <3>1 DEF SaveFails, ExactInv, TabsFit, TabFits
    <3>7. QED BY <1>1, <3>4, <3>5, <3>6 DEF Load, Edit, SaveRead
  <2>2. env' = tabs[t].list BY <2>1 DEF SaveWrite, Write
  <2>3. Agree(tabs[t].list, env, tabs[t].edited) BY <1>1 DEF ExactInv, TabsFit, TabFits
  <2>4. QED BY <2>2, <2>3 DEF Agree
<1>2. ExactInv /\ [Next]_vars =>
        [\A t \in Tab : (tabs[t].pc = "saving" /\ tabs'[t].pc = "closed" /\ t \in current) =>
           \A k \in (DOMAIN env \union DOMAIN env') \ tabs[t].edited :
             k \in DOMAIN env \intersect DOMAIN env' /\ env'[k] = env[k]]_vars
  BY <1>1
<1>3. QED BY <1>2, InitExact, NextExact, PTL DEF Spec, SaveIsExact

-----------------------------------------------------------------------------
(* What outlives a container.  While every writer has read what it         *)
(* replaced, a variable of the last container is still in the row unless a *)
(* save affected it: what a start draws anew belongs to a requirement that *)
(* the container's variables met, so that a save must have undone it.      *)

Copies   == DOMAIN ops = Op /\ \A o \in Op : o \in current => ops[o].copy = env
Texts(e) == [k \in DOMAIN e |-> e[k].text]

Kept     == \A k \in DOMAIN made.from \ Affected(touched) :
               k \in DOMAIN env /\ env[k] = made.from[k]
Complete == DOMAIN made.from = {} \/ Lacking(product, made.from) = {}
MadeSo   == DOMAIN made.from = {}
            \/ \E o \in Op : made.env = Env(product, Config, Texts(made.from), Drawn(o, 0))

KeysInv  == /\ product \in Product /\ Copies /\ MadeSo
            /\ ~astray => Kept /\ Complete

\* No requirement is met by a name that another one draws.
LEMMA Apart ==
  ASSUME NEW p \in Product, NEW r \in Requirements(p), NEW s \in Requirements(p),
         r.of \intersect DOMAIN s.draws # {}
  PROVE  r = s
<1>1. CASE p = "litellm"
  <2> DEFINE m == Requirement({"LITELLM_MASTER_KEY"}, FALSE, [LITELLM_MASTER_KEY |-> 1])
             n == Requirement({"LITELLM_SALT_KEY"}, FALSE, [LITELLM_SALT_KEY |-> 2])
  <2>1. r \in {m, n} /\ s \in {m, n} BY <1>1 DEF Requirements, LiteLLMSecrets
  <2>2. /\ m.of = {"LITELLM_MASTER_KEY"} /\ DOMAIN m.draws = {"LITELLM_MASTER_KEY"}
        /\ n.of = {"LITELLM_SALT_KEY"} /\ DOMAIN n.draws = {"LITELLM_SALT_KEY"}
    BY DEF Requirement
  <2> HIDE DEF m, n
  <2>3. QED BY <2>1, <2>2
<1>2. CASE p # "litellm"
  <2>1. p = "omniroute" => r = s BY DEF Requirements, OmniRouteSecrets
  <2>2. p = "9router" => r = s BY DEF Requirements, NineRouterSecrets
  <2>3. p = "freellmapi" => r = s BY DEF Requirements, FreeLLMAPISecrets
  <2>4. p = "new-api" => r = s BY DEF Requirements, NewApiSecrets
  <2>5. p = "portkey" => r = s BY DEF Requirements, PortkeySecrets
  <2>6. p = "bifrost" => r = s BY DEF Requirements, BifrostSecrets
  <2>7. p = "coai" => r = s BY DEF Requirements, CoAISecrets
  <2>8. p = "llmgateway" => r = s BY DEF Requirements, LLMGatewaySecrets
  <2>9. p = "openconnector" => r = s BY DEF Requirements, OpenConnectorSecrets
  <2>10. QED BY <1>2, <2>1, <2>2, <2>3, <2>4, <2>5, <2>6, <2>7, <2>8, <2>9 DEF Product
<1>3. QED BY <1>1, <1>2

\* A container is given the text recorded for a variable, if that is what an
\* earlier one was given for it.
LEMMA GivenAgain ==
  ASSUME NEW p \in Product, NEW config, NEW own, NEW old, NEW k,
         k \in DOMAIN own, k \in DOMAIN old, own[k] = old[k],
         NEW o, NEW o2, Env(p, config, old, Drawn(o, 0))[k] = old[k]
  PROVE  /\ k \in DOMAIN Env(p, config, own, Drawn(o2, 0))
         /\ Env(p, config, own, Drawn(o2, 0))[k] = old[k]
<1>1. ASSUME NEW f, NEW g, NEW x \in DOMAIN f
      PROVE  x \in DOMAIN Over(f, g) /\ Over(f, g)[x] = f[x]
  BY DEF Over
<1>2. ASSUME NEW f, NEW c, NEW d, k \in DOMAIN f
      PROVE  k \in DOMAIN Layers(c, f, d) /\ Layers(c, f, d)[k] = f[k]
  BY <1>1, <1>2 DEF Layers
<1>3. CASE p = "litellm"
  BY <1>1, <1>2, <1>3 DEF Env, LiteLLMEnv
<1>4. CASE p = "freellmapi"
  <2> DEFINE key == "ENCRYPTION_KEY"
             older == Layers(config, old, Defaults({}, Drawn(o, 0)))
             newer == Layers(config, own, Defaults({}, Drawn(o2, 0)))
  <2>1. /\ Env(p, config, old, Drawn(o, 0)) = FreeLLMAPIEnv(config, old, Drawn(o, 0))
        /\ Env(p, config, own, Drawn(o2, 0)) = FreeLLMAPIEnv(config, own, Drawn(o2, 0))
    BY <1>4 DEF Env
  <2>2. /\ k \in DOMAIN older /\ older[k] = old[k]
        /\ k \in DOMAIN newer /\ newer[k] = old[k]
    BY <1>2
  <2> HIDE DEF older, newer
  <2>3. \A f, r : LET h == Over([ENCRYPTION_KEY |-> r], f)
                  IN  /\ h[key] = r
                      /\ \A x \in DOMAIN f : x \in DOMAIN h /\ (x # key => h[x] = f[x])
    BY DEF Over
  <2>4. CASE k # key
    BY <2>1, <2>2, <2>3, <2>4 DEF FreeLLMAPIEnv, newer
  <2>5. CASE k = key
    <3>1. IsLong(Drawn(o, 0)) BY DEF IsLong, Drawn
    <3>2. IsLong(old[key])
      <4>1. CASE IsLong(older[key]) BY <2>2, <2>5, <4>1
      <4>2. CASE ~IsLong(older[key])
        <5>1. Env(p, config, old, Drawn(o, 0)) = Over([ENCRYPTION_KEY |-> Drawn(o, 0)], older)
          BY <2>1, <4>2 DEF FreeLLMAPIEnv, older
        <5>2. QED BY <2>3, <2>5, <3>1, <5>1
      <4>3. QED BY <4>1, <4>2
    <3>3. Env(p, config, own, Drawn(o2, 0)) = newer
      BY <2>1, <2>2, <2>5, <3>2 DEF FreeLLMAPIEnv, newer
    <3>4. QED BY <2>2, <3>3
  <2>6. QED BY <2>4, <2>5
<1>5. CASE p \notin {"litellm", "freellmapi"}
  <2>1. PICK d : Env(p, config, own, Drawn(o2, 0)) = Layers(config, own, d)
    BY <1>5 DEF Product, Env, OmniRouteEnv, NineRouterEnv, NewApiEnv, PortkeyEnv, BifrostEnv,
                CoAIEnv, LLMGatewayEnv, OpenConnectorEnv
  <2>2. QED BY <1>2, <2>1
<1>6. QED BY <1>3, <1>4, <1>5

LEMMA AffectedGrows ==
  ASSUME NEW S, NEW T, S \subseteq T
  PROVE  S \subseteq Affected(S) /\ Affected(S) \subseteq Affected(T)
BY DEF Affected

\* What a start draws over an untouched row is affected by a save, or new.
LEMMA DrawnIsAffected ==
  ASSUME KeysInv, ~astray, NEW o
  PROVE  LET full == Ensured(product, env, o)
         IN  \A k \in DOMAIN made.from \ Affected(touched) :
                k \in DOMAIN full /\ full[k] = made.from[k]
<1> DEFINE missing == Lacking(product, env)
           names == UNION {DOMAIN req.draws : req \in missing}
           number(k) == (CHOOSE req \in missing : k \in DOMAIN req.draws).draws[k]
           drawn == [k \in names |-> [text |-> Drawn(o, number(k)), enc |-> TRUE, secret |-> TRUE]]
<1> SUFFICES ASSUME NEW k \in DOMAIN made.from, k \notin Affected(touched)
             PROVE  k \in DOMAIN Ensured(product, env, o)
                    /\ Ensured(product, env, o)[k] = made.from[k]
  OBVIOUS
<1>1. Kept /\ Lacking(product, made.from) = {} /\ product \in Product
  BY DEF KeysInv, Complete
<1>2. k \notin names
  <2> SUFFICES ASSUME NEW req \in missing, k \in DOMAIN req.draws PROVE FALSE
    OBVIOUS
  <2>1. req \in Requirements(product) /\ ~Met(req, env) /\ Met(req, made.from)
    BY <1>1 DEF Lacking
  <2>2. PICK n \in req.of \intersect DOMAIN made.from :
          \/ made.from[n].enc
          \/ IF req.long THEN IsLong(made.from[n].text) ELSE made.from[n].text # Blank
    BY <2>1 DEF Met
  <2>3. n \in Affected(touched)
    <3>1. ~(n \in DOMAIN env /\ env[n] = made.from[n]) BY <2>1, <2>2 DEF Met
    <3>2. QED BY <1>1, <3>1, <2>2 DEF Kept
  <2>4. req.of \intersect touched # {}
    <3>1. CASE n \in touched BY <3>1, <2>2
    <3>2. CASE n \notin touched
      <4>1. PICK r \in Requirements(product) : r.of \intersect touched # {} /\ n \in DOMAIN r.draws
        BY <2>3, <3>2 DEF Affected
      <4>2. r = req BY <1>1, <2>1, <2>2, <4>1, Apart
      <4>3. QED BY <4>1, <4>2
    <3>3. QED BY <3>1, <3>2
  <2>5. k \in Affected(touched) BY <2>1, <2>4 DEF Affected
  <2>6. QED BY <2>5
<1>3. Ensured(product, env, o) = Over(drawn, env) /\ DOMAIN drawn = names BY DEF Ensured
<1>4. k \in DOMAIN env /\ env[k] = made.from[k] BY <1>1 DEF Kept
<1> HIDE DEF drawn, names
<1>5. QED BY <1>2, <1>3, <1>4 DEF Over

LEMMA InitKeys == Init => KeysInv
BY DEF Init, KeysInv, Copies, MadeSo, Kept, Complete, Nothing

\* Steps that leave the row and the container alone
LEMMA KeysKept ==
  ASSUME KeysInv, UNCHANGED <<product, env, made, touched, astray>>, Copies'
  PROVE  KeysInv'
BY DEF KeysInv, MadeSo, Kept, Complete, Affected

LEMMA SaveWriteKeys ==
  ASSUME KeysInv, NEW t \in Tab, SaveWrite(t)
  PROVE  KeysInv'
<1>1. UNCHANGED <<product, made>> /\ (astray => astray') BY DEF SaveWrite, Write
<1>2. Copies'
  <2>1. DOMAIN ops' = Op BY DEF SaveWrite, KeysInv, Copies
  <2>2. current' = {} BY DEF SaveWrite, Write
  <2>3. QED BY <2>1, <2>2 DEF Copies
<1>3. ASSUME Kept PROVE Kept'
  <2> SUFFICES ASSUME NEW k \in DOMAIN made.from, k \notin Affected(touched)'
               PROVE  k \in DOMAIN env' /\ env'[k] = made.from[k]
    BY <1>1 DEF Kept
  <2> DEFINE changed == {x \in DOMAIN env \union DOMAIN env' :
                           ~(x \in DOMAIN env \intersect DOMAIN env' /\ env[x] = env'[x])}
  <2>1. touched' = touched \union changed BY DEF SaveWrite
  <2>2. Affected(touched)' = Affected(touched') BY <1>1 DEF Affected
  <2> HIDE DEF changed
  <2>3. k \notin Affected(touched) /\ k \notin touched'
    BY <2>1, <2>2, AffectedGrows
  <2>4. k \in DOMAIN env /\ env[k] = made.from[k] BY <1>3, <2>3 DEF Kept
  <2>5. QED BY <2>1, <2>3, <2>4 DEF changed
<1>4. QED BY <1>1, <1>2, <1>3 DEF KeysInv, MadeSo, Complete

LEMMA EnsureKeys ==
  ASSUME KeysInv, ExactInv, NEW o \in Op, Ensure(o)
  PROVE  KeysInv'
<1> DEFINE full == Ensured(product, ops[o].copy, o)
<1>1. UNCHANGED <<product, made, touched>> /\ (astray => astray') BY DEF Ensure, Write
<1>2. CASE Write(full, o) /\ ops' = [ops EXCEPT ![o].pc = "ensured", ![o].copy = full]
  <2>1. Copies'
    <3> HIDE DEF full
    <3>1. current' = {o} /\ env' = full BY <1>2, EnvAssumption DEF Write
    <3>2. OpFits(ops[o]) BY DEF ExactInv, OpsFit
    <3>3. DOMAIN ops' = Op /\ ops'[o].copy = full BY <1>2, <3>2 DEF KeysInv, Copies, OpFits
    <3>4. QED BY <3>1, <3>3 DEF Copies
  <2>2. ASSUME ~astray' PROVE Kept'
    <3>1. ~astray /\ o \in current BY <1>2, <2>2 DEF Write
    <3>2. env' = Ensured(product, env, o) BY <1>2, <3>1 DEF Write, KeysInv, Copies
    <3>3. QED BY <1>1, <3>1, <3>2, DrawnIsAffected DEF Kept, Affected
  <2>3. QED BY <1>1, <2>1, <2>2 DEF KeysInv, MadeSo, Complete
<1>3. CASE UNCHANGED <<env, current>> /\ ops' = [ops EXCEPT ![o].pc = "ensured"]
  <2>1. Copies' BY <1>3 DEF KeysInv, Copies
  <2>2. QED BY <1>1, <1>3, <2>1 DEF KeysInv, MadeSo, Kept, Complete, Affected
<1>4. QED BY <1>2, <1>3 DEF Ensure

LEMMA MakeKeys ==
  ASSUME KeysInv, NEW o \in Op, Make(o)
  PROVE  KeysInv'
<1>1. UNCHANGED <<product, env>> BY DEF Make, row
<1>2. made' = [from |-> ops[o].copy, env |-> Env(product, Config, Texts(ops[o].copy), Drawn(o, 0))]
  BY DEF Make, Texts
<1>3. made'.from = ops[o].copy
      /\ made'.env = Env(product, Config, Texts(ops[o].copy), Drawn(o, 0))
  BY <1>2
<1>4. Copies' BY <1>1 DEF Make, End, KeysInv, Copies
<1>5. MadeSo' BY <1>1, <1>3 DEF MadeSo, Texts
<1>6. ASSUME ~astray' PROVE Kept' /\ Complete'
  <2>1. ops[o].copy = env /\ Lacking(product, ops[o].copy) = {}
    BY <1>6 DEF Make, KeysInv, Copies
  <2>2. QED BY <1>1, <1>3, <2>1 DEF Kept, Complete
<1>7. QED BY <1>1, <1>4, <1>5, <1>6 DEF KeysInv

LEMMA NextKeys == KeysInv /\ ExactInv /\ [Next]_vars => KeysInv'
<1> SUFFICES ASSUME KeysInv, ExactInv, [Next]_vars PROVE KeysInv'
  OBVIOUS
<1>1. CASE UNCHANGED vars
  BY <1>1, KeysKept DEF vars, row, history, KeysInv, Copies
<1>2. ASSUME NEW t \in Tab, Load(t) \/ Edit(t) \/ SaveRead(t) \/ SaveFails(t) PROVE KeysInv'
  <2>1. UNCHANGED <<product, env, made, touched, astray, ops>>
    BY <1>2 DEF Load, Edit, SaveRead, SaveFails, row, history
  <2>2. \A o \in Op : o \in current' => o \in current
    BY <1>2, EnvAssumption DEF Load, Edit, SaveRead, SaveFails, history
  <2>3. Copies' BY <2>1, <2>2 DEF KeysInv, Copies
  <2>4. QED BY <2>1, <2>3, KeysKept
<1>3. ASSUME NEW o \in Op, Ask(o) \/ Lock(o) \/ GiveUp(o) \/ StartFails(o) PROVE KeysInv'
  <2>1. UNCHANGED <<product, env, made, touched, astray>>
    BY <1>3 DEF Ask, Lock, GiveUp, StartFails, row, history
  <2>2. Copies'
    <3>1. CASE Ask(o)
      <4>1. OpFits(ops[o]) BY DEF ExactInv, OpsFit
      <4>2. ops'[o].copy = env /\ DOMAIN ops' = Op /\ \A u \in Op \ {o} : ops'[u] = ops[u]
        BY <3>1, <4>1 DEF Ask, KeysInv, Copies, OpFits
      <4>3. current' = current \union {o} BY <3>1 DEF Ask
      <4>4. QED BY <2>1, <4>2, <4>3 DEF KeysInv, Copies
    <3>2. CASE Lock(o)
      BY <2>1, <3>2 DEF Lock, history, KeysInv, Copies
    <3>3. CASE GiveUp(o) \/ StartFails(o)
      BY <2>1, <3>3 DEF GiveUp, StartFails, End, KeysInv, Copies
    <3>4. QED BY <1>3, <3>1, <3>2, <3>3
  <2>3. QED BY <2>1, <2>2, KeysKept
<1>4. CASE SaveCredential \/ Dies
  <2>1. UNCHANGED <<product, env, made, touched, astray, ops, current>>
    BY <1>4 DEF SaveCredential, Dies, row, history
  <2>2. QED BY <2>1, KeysKept DEF KeysInv, Copies
<1>5. QED BY <1>1, <1>2, <1>3, <1>4, SaveWriteKeys, EnsureKeys, MakeKeys DEF Next

\* A secret or a variable that a container was made with as recorded is given to
\* the next one with the same text, unless a save affected it: while every write
\* of the row is by someone who had read what it replaced, no restart draws a
\* key anew that is recorded, whatever the product and its configuration.
THEOREM KeysOutliveContainersAlways == Spec => KeysOutliveContainers
<1>1. ASSUME KeysInv, [Next]_vars, made' # made, ~astray, ~astray',
             NEW k \in DOMAIN made.from \ Affected(touched), made.env[k] = made.from[k].text
      PROVE  k \in DOMAIN made'.env /\ made'.env[k] = made.env[k]
  <2>1. PICK o \in Op : Make(o)
    BY <1>1 DEF Next, vars, Load, Edit, SaveRead, SaveWrite, SaveFails, SaveCredential, Ask, Lock,
                GiveUp, Ensure, StartFails, Dies
  <2>2. ops[o].copy = env BY <1>1, <2>1 DEF Make, KeysInv, Copies
  <2>3. made' = [from |-> env, env |-> Env(product, Config, Texts(env), Drawn(o, 0))]
    BY <2>1, <2>2 DEF Make, Texts
  <2>4. k \in DOMAIN env /\ env[k] = made.from[k] BY <1>1 DEF KeysInv, Kept
  <2>5. PICK u \in Op : made.env = Env(product, Config, Texts(made.from), Drawn(u, 0))
    BY <1>1 DEF KeysInv, MadeSo
  <2>6. /\ k \in DOMAIN Texts(env) /\ k \in DOMAIN Texts(made.from)
        /\ Texts(env)[k] = Texts(made.from)[k] /\ Texts(made.from)[k] = made.from[k].text
    BY <1>1, <2>4 DEF Texts
  <2>7. product \in Product BY <1>1 DEF KeysInv
  <2>8. /\ k \in DOMAIN Env(product, Config, Texts(env), Drawn(o, 0))
        /\ Env(product, Config, Texts(env), Drawn(o, 0))[k] = Texts(made.from)[k]
    BY <1>1, <2>5, <2>6, <2>7, GivenAgain
  <2>9. QED BY <1>1, <2>3, <2>6, <2>8
<1>2. KeysInv /\ [Next]_vars =>
        [made' # made /\ ~astray /\ ~astray' =>
           \A k \in DOMAIN made.from \ Affected(touched) :
             made.env[k] = made.from[k].text =>
               k \in DOMAIN made'.env /\ made'.env[k] = made.env[k]]_vars
  BY <1>1
<1>3. QED BY <1>2, InitExact, NextExact, InitKeys, NextKeys, PTL DEF Spec, KeysOutliveContainers

-----------------------------------------------------------------------------
(* Types.  What is copied, typed, drawn or built into a container is a     *)
(* text; the shape of what holds it is ExactInv's.                         *)

Worded(e) == \A k \in DOMAIN e : e[k].text \in Text

WordsInv ==
    /\ product \in Product
    /\ Worded(env) /\ Worded(made.from) /\ Entries(made.from)
    /\ \A k \in DOMAIN made.env : made.env[k] \in Text
    /\ \A t \in Tab : Worded(tabs[t].view) /\ Worded(tabs[t].list)
    /\ \A o \in Op : Worded(ops[o].copy)

ControlInv ==
    /\ creds \in BOOLEAN /\ live \in BOOLEAN /\ astray \in BOOLEAN /\ shown \in BOOLEAN
    /\ saves \in 0 .. MaxSaves /\ current \subseteq Tab \union Op
    /\ \A t \in Tab : tabs[t].pc \in {"closed", "open", "saving"}
    /\ \A o \in Op : /\ ops[o].pc \in {"idle", "queued", "ready", "locked", "ensured", "done"}
                     /\ lock = o <=> ops[o].pc \in {"locked", "ensured"}

LEMMA StoredTyped ==
  ASSUME NEW e, Entries(e), Worded(e)
  PROVE  StoredType(e)
<1> SUFFICES ASSUME NEW k \in DOMAIN e
             PROVE  e[k] \in [text : Text, enc : BOOLEAN, secret : BOOLEAN]
  BY DEF StoredType
<1>1. /\ e[k] = [text |-> e[k].text, enc |-> e[k].enc, secret |-> e[k].secret]
      /\ e[k].text \in Text /\ e[k].enc \in BOOLEAN /\ e[k].secret \in BOOLEAN
  BY DEF Entries, IsEntry, Worded
<1>2. QED BY <1>1

LEMMA Words ==
  /\ Blank \in Text /\ Mask \in Text /\ Default \in Text /\ Typed("long", "creator") \in Text
  /\ \A size \in {"short", "long"}, t \in Tab : Typed(size, t) \in Text
  /\ \A o \in Op, n \in 0 .. 2 : Drawn(o, n) \in Text
BY DEF Text, Blank, Mask, Default, Typed, Drawn

LEMMA NumbersTyped ==
  ASSUME NEW p \in Product, NEW r \in Requirements(p), NEW k \in DOMAIN r.draws
  PROVE  r.draws[k] \in 0 .. 2
<1>1. p = "litellm" => r.draws[k] \in 0 .. 2
  <2> SUFFICES ASSUME p = "litellm" PROVE r.draws[k] \in 0 .. 2
    OBVIOUS
  <2>1. \/ r = Requirement({"LITELLM_MASTER_KEY"}, FALSE, [LITELLM_MASTER_KEY |-> 1])
        \/ r = Requirement({"LITELLM_SALT_KEY"}, FALSE, [LITELLM_SALT_KEY |-> 2])
    BY DEF Requirements, LiteLLMSecrets
  <2>2. QED BY <2>1 DEF Requirement
<1>2. p \in {"omniroute", "9router"} => FALSE
  BY DEF Requirements, OmniRouteSecrets, NineRouterSecrets
<1>3. p = "freellmapi" => r.draws[k] \in 0 .. 2
  BY DEF Requirements, FreeLLMAPISecrets, Requirement
<1>4. p = "new-api" => r.draws[k] \in 0 .. 2
  BY DEF Requirements, NewApiSecrets, Requirement
<1>5. p = "portkey" => r.draws[k] \in 0 .. 2
  BY DEF Requirements, PortkeySecrets, Requirement
<1>6. p = "bifrost" => r.draws[k] \in 0 .. 2
  BY DEF Requirements, BifrostSecrets, Requirement
<1>7. p = "coai" => r.draws[k] \in 0 .. 2
  BY DEF Requirements, CoAISecrets, Requirement
<1>8. p = "llmgateway" => r.draws[k] \in 0 .. 2
  BY DEF Requirements, LLMGatewaySecrets, Requirement
<1>9. p = "openconnector" => r.draws[k] \in 0 .. 2
  BY DEF Requirements, OpenConnectorSecrets, Requirement
<1>10. QED BY <1>1, <1>2, <1>3, <1>4, <1>5, <1>6, <1>7, <1>8, <1>9 DEF Product

LEMMA EnsuredWorded ==
  ASSUME NEW p \in Product, NEW e, Worded(e), NEW o \in Op
  PROVE  Worded(Ensured(p, e, o))
<1> DEFINE missing == Lacking(p, e)
           names == UNION {DOMAIN req.draws : req \in missing}
           number(k) == (CHOOSE req \in missing : k \in DOMAIN req.draws).draws[k]
           drawn == [k \in names |-> [text |-> Drawn(o, number(k)), enc |-> TRUE, secret |-> TRUE]]
<1>1. ASSUME NEW k \in names PROVE number(k) \in 0 .. 2
  <2>1. \E req \in missing : k \in DOMAIN req.draws OBVIOUS
  <2> DEFINE req == CHOOSE r \in missing : k \in DOMAIN r.draws
  <2>2. req \in missing /\ k \in DOMAIN req.draws BY <2>1
  <2> HIDE DEF req
  <2>3. req \in Requirements(p) BY <2>2 DEF Lacking
  <2>4. req.draws[k] \in 0 .. 2 BY <2>2, <2>3, NumbersTyped
  <2>5. QED BY <2>4 DEF req
<1> HIDE DEF number
<1>2. Worded(drawn) BY <1>1, Words DEF Worded
<1>3. Ensured(p, e, o) = Over(drawn, e) BY DEF Ensured, number
<1> HIDE DEF drawn
<1>4. ASSUME NEW k \in DOMAIN Over(drawn, e) PROVE Over(drawn, e)[k].text \in Text
  <2>1. \/ k \in DOMAIN drawn /\ Over(drawn, e)[k] = drawn[k]
        \/ k \in DOMAIN e /\ Over(drawn, e)[k] = e[k]
    BY DEF Over
  <2>2. QED BY <1>2, <2>1 DEF Worded
<1>5. QED BY <1>3, <1>4 DEF Worded

\* An environment holds texts of the row, of the configuration and the
\* adapter's own.
LEMMA EnvWorded ==
  ASSUME NEW p \in Product, NEW own, \A k \in DOMAIN own : own[k] \in Text, NEW o \in Op
  PROVE  \A k \in DOMAIN Env(p, Config, own, Drawn(o, 0)) :
            Env(p, Config, own, Drawn(o, 0))[k] \in Text
<1> DEFINE AllText(f) == \A k \in DOMAIN f : f[k] \in Text
           random == Drawn(o, 0)
<1>1. ASSUME NEW f, NEW g, AllText(f), AllText(g) PROVE AllText(Over(f, g))
  BY <1>1 DEF Over
<1>2. random \in Text /\ AllText(Config) /\ AllText(own) BY Words, EnvAssumption
<1>3. /\ AllText([PORT |-> Default]) /\ AllText([DATABASE_URL |-> Default])
      /\ AllText([ENCRYPTION_KEY |-> random])
  BY <1>2, Words
<1> HIDE DEF AllText, random
<1>4. ASSUME NEW names PROVE AllText(Defaults(names, random))
  <2>1. AllText([k \in names |-> random]) BY <1>2 DEF AllText
  <2>2. QED BY <1>1, <1>3, <2>1 DEF Defaults
<1>5. ASSUME NEW d, AllText(d) PROVE AllText(Layers(Config, own, d))
  BY <1>1, <1>2, <1>5 DEF Layers
<1>6. p \in {"omniroute", "9router", "new-api", "portkey", "bifrost", "coai", "llmgateway"}
        => AllText(Env(p, Config, own, random))
  BY <1>4, <1>5 DEF Env, OmniRouteEnv, NineRouterEnv, NewApiEnv, PortkeyEnv, BifrostEnv, CoAIEnv,
                    LLMGatewayEnv
<1>7. p = "openconnector" => AllText(Env(p, Config, own, random))
  BY <1>1, <1>3, <1>4, <1>5 DEF Env, OpenConnectorEnv
<1>8. p = "litellm" => AllText(Env(p, Config, own, random))
  BY <1>1, <1>3, <1>4, <1>5 DEF Env, LiteLLMEnv
<1>9. p = "freellmapi" => AllText(Env(p, Config, own, random))
  BY <1>1, <1>3, <1>4, <1>5 DEF Env, FreeLLMAPIEnv
<1>10. AllText(Env(p, Config, own, random)) BY <1>6, <1>7, <1>8, <1>9 DEF Product
<1>11. QED BY <1>10 DEF AllText, random

LEMMA CleanedWorded ==
  ASSUME NEW view, Worded(view), NEW e, Worded(e), Entries(e)
  PROVE  Worded(Cleaned(view, e))
<1> SUFFICES ASSUME NEW k \in DOMAIN view PROVE Cleaned(view, e)[k].text \in Text
  BY DEF Worded, Cleaned
<1> DEFINE kept == view[k].secret /\ view[k].text \in {Mask, Blank}
<1>1. CASE kept /\ k \in DOMAIN e
  <2>1. Cleaned(view, e)[k] = [e[k] EXCEPT !.secret = TRUE] BY <1>1 DEF Cleaned
  <2>2. Cleaned(view, e)[k].text = e[k].text BY <1>1, <2>1 DEF Entries, IsEntry
  <2>3. QED BY <1>1, <2>2 DEF Worded
<1>2. CASE ~(kept /\ k \in DOMAIN e)
  <2>1. Cleaned(view, e)[k].text \in {Blank, view[k].text} BY <1>2 DEF Cleaned
  <2>2. QED BY <2>1, Words DEF Worded
<1>3. QED BY <1>1, <1>2

LEMMA InitTyped == Init => WordsInv /\ ControlInv
<1> SUFFICES ASSUME Init PROVE WordsInv /\ ControlInv
  OBVIOUS
<1>1. Worded(Nothing) /\ Entries(Nothing) BY DEF Worded, Entries, Nothing
<1>2. Worded(env)
  <2>1. CASE env = Nothing BY <1>1, <2>1
  <2>2. CASE env # Nothing
    <3>1. PICK n \in Names : env = [k \in {n} |-> Secret(Typed("long", "creator"))]
      BY <2>2 DEF Init
    <3>2. QED BY <3>1, Words DEF Worded, Secret
  <2>3. QED BY <2>1, <2>2
<1>3. WordsInv BY <1>1, <1>2 DEF Init, WordsInv, Closed, Unused, Nothing
<1>4. ControlInv
  <2>1. saves \in 0 .. MaxSaves BY EnvAssumption DEF Init
  <2>2. \A t \in Tab : tabs[t].pc = "closed" BY DEF Init, Closed
  <2>3. \A o \in Op : ops[o].pc = "idle" /\ lock # o BY EnvAssumption DEF Init, Unused
  <2>4. QED BY <2>1, <2>2, <2>3 DEF Init, ControlInv
<1>5. QED BY <1>3, <1>4

-----------------------------------------------------------------------------
(* Texts, action by action *)

\* The words of one tab change.
LEMMA TabWords ==
  ASSUME WordsInv, ExactInv, UNCHANGED <<product, env, ops, made>>,
         NEW t \in Tab, NEW tab, tabs' = [tabs EXCEPT ![t] = tab],
         Worded(tab.view), Worded(tab.list)
  PROVE  WordsInv'
BY DEF WordsInv, ExactInv, TabsFit

LEMMA LoadWords ==
  ASSUME WordsInv, ExactInv, NEW t \in Tab, Load(t)
  PROVE  WordsInv'
<1>1. PICK view \in {Masked(env), Nothing} :
        tabs' = [tabs EXCEPT ![t] = [pc |-> "open", view |-> view, edited |-> {}, list |-> Nothing]]
  BY DEF Load, Closed
<1>2. Worded(Nothing) BY DEF Worded, Nothing
<1>3. Worded(Masked(env)) BY Words DEF Worded, Masked, WordsInv
<1> DEFINE tab == [pc |-> "open", view |-> view, edited |-> {}, list |-> Nothing]
<1>4. Worded(tab.view) /\ Worded(tab.list) /\ tabs' = [tabs EXCEPT ![t] = tab]
  BY <1>1, <1>2, <1>3
<1>5. UNCHANGED <<product, env, ops, made>> BY DEF Load, row
<1> HIDE DEF tab
<1>6. QED BY <1>4, <1>5, TabWords

LEMMA EditWords ==
  ASSUME WordsInv, ExactInv, NEW t \in Tab, Edit(t)
  PROVE  WordsInv'
<1> DEFINE view == tabs[t].view
<1>1. TabFits(tabs[t], env, t \in current) /\ Worded(view) /\ Worded(tabs[t].list) /\ Worded(env)
  BY DEF ExactInv, TabsFit, WordsInv
<1>2. UNCHANGED <<product, env, ops, made>> BY DEF Edit, row
<1>3. ASSUME NEW k, NEW new, Worded(new), Shows(t, k, new)
      PROVE  WordsInv'
  <2> DEFINE edited == tabs[t].edited \union {k}
             tab == [pc |-> tabs[t].pc, view |-> new, edited |-> edited, list |-> tabs[t].list]
  <2>1. tabs' = [tabs EXCEPT ![t] = [[tabs[t] EXCEPT !.view = new] EXCEPT !.edited = edited]]
    BY <1>3 DEF Shows, ExactInv, TabsFit
  <2> HIDE DEF edited
  <2>2. [[tabs[t] EXCEPT !.view = new] EXCEPT !.edited = edited] = tab BY <1>1, TabRecord
  <2>3. tabs' = [tabs EXCEPT ![t] = tab] BY <2>1, <2>2
  <2>4. Worded(tab.view) /\ Worded(tab.list) BY <1>1, <1>3
  <2> HIDE DEF tab
  <2>5. QED BY <1>2, <2>3, <2>4, TabWords
<1>4. ASSUME NEW k, NEW text \in Text, NEW secret,
             Shows(t, k, Over([x \in {k} |-> [text |-> text, secret |-> secret]], view))
      PROVE  WordsInv'
  <2>1. Worded(Over([x \in {k} |-> [text |-> text, secret |-> secret]], view))
    BY <1>1, <1>4 DEF Worded, Over
  <2>2. QED BY <1>3, <1>4, <2>1
<1>5. ASSUME NEW k, Type(t, k) PROVE WordsInv'
  <2>1. PICK size \in {"short", "long"}, secret \in BOOLEAN :
          Shows(t, k, Over([x \in {k} |-> [text |-> Typed(size, t), secret |-> secret]], view))
    BY <1>5 DEF Type
  <2>2. Typed(size, t) \in Text BY Words
  <2>3. QED BY <1>4, <2>1, <2>2
<1>6. ASSUME NEW k, Clear(t, k) PROVE WordsInv'
  BY <1>4, <1>6, Words DEF Clear
<1>7. ASSUME NEW k, Tick(t, k) PROVE WordsInv'
  <2> DEFINE new == [view EXCEPT ![k].secret = ~@]
  <2>1. k \in DOMAIN view /\ Shows(t, k, new) BY <1>7 DEF Tick
  <2>2. IsShown(view[k]) BY <1>1, <2>1 DEF TabFits, Listed
  <2>3. new[k].text = view[k].text BY <2>1, <2>2 DEF IsShown
  <2>4. Worded(new) BY <1>1, <2>3 DEF Worded
  <2>5. QED BY <1>3, <2>1, <2>4
<1>8. ASSUME NEW k, RemoveRow(t, k) PROVE WordsInv'
  <2>1. Worded([x \in DOMAIN view \ {k} |-> view[x]]) BY <1>1 DEF Worded
  <2>2. QED BY <1>3, <1>8, <2>1 DEF RemoveRow
<1>9. ASSUME NEW k, Reveal(t, k) PROVE WordsInv'
  <2> DEFINE new == [view EXCEPT ![k].text = env[k].text]
  <2>1. k \in DOMAIN view /\ k \in DOMAIN env /\ Shows(t, k, new) BY <1>9 DEF Reveal
  <2>2. IsShown(view[k]) BY <1>1, <2>1 DEF TabFits, Listed
  <2>3. new[k].text = env[k].text BY <2>1, <2>2 DEF IsShown
  <2>4. Worded(new) BY <1>1, <2>1, <2>3 DEF Worded
  <2>5. QED BY <1>3, <2>1, <2>4
<1>10. QED BY <1>5, <1>6, <1>7, <1>8, <1>9 DEF Edit

\* A save's two halves and its failure
LEMMA SaveWords ==
  ASSUME WordsInv, ExactInv, NEW t \in Tab, SaveRead(t) \/ SaveWrite(t) \/ SaveFails(t)
  PROVE  WordsInv'
<1>1. /\ TabFits(tabs[t], env, t \in current) /\ Entries(env) /\ Worded(env)
      /\ Worded(tabs[t].view) /\ Worded(tabs[t].list)
  BY DEF ExactInv, TabsFit, WordsInv
<1>2. Worded(Nothing) BY DEF Worded, Nothing
<1>3. ASSUME NEW pc, NEW list, Worded(list), UNCHANGED <<product, env, ops, made>>,
             tabs' = [tabs EXCEPT ![t].pc = pc, ![t].list = list]
      PROVE  WordsInv'
  <2> DEFINE tab == [pc |-> pc, view |-> tabs[t].view, edited |-> tabs[t].edited, list |-> list]
  <2>1. [[tabs[t] EXCEPT !.pc = pc] EXCEPT !.list = list] = tab BY <1>1, TabRecord
  <2>2. tabs' = [tabs EXCEPT ![t] = [[tabs[t] EXCEPT !.pc = pc] EXCEPT !.list = list]]
    BY <1>3 DEF ExactInv, TabsFit
  <2>3. tabs' = [tabs EXCEPT ![t] = tab] BY <2>1, <2>2
  <2>4. Worded(tab.view) /\ Worded(tab.list) BY <1>1, <1>3
  <2> HIDE DEF tab
  <2>5. QED BY <1>3, <2>3, <2>4, TabWords
<1>4. CASE SaveRead(t)
  <2>1. Worded(Cleaned(tabs[t].view, env)) BY <1>1, CleanedWorded
  <2>2. QED BY <1>3, <1>4, <2>1 DEF SaveRead, row
<1>5. CASE SaveFails(t)
  BY <1>2, <1>3, <1>5 DEF SaveFails, row
<1>6. CASE SaveWrite(t)
  <2>1. Worded(env') BY <1>1, <1>6 DEF SaveWrite, Write
  <2>2. \A u \in Tab : Worded(tabs'[u].view) /\ Worded(tabs'[u].list)
    BY <1>2, <1>6 DEF SaveWrite, WordsInv, ExactInv, TabsFit, Closed
  <2>3. \A o \in Op : ops'[o].copy = ops[o].copy
    BY <1>6 DEF SaveWrite, ExactInv, OpsFit, OpFits
  <2>4. UNCHANGED <<product, made>> BY <1>6 DEF SaveWrite
  <2>5. QED BY <2>1, <2>2, <2>3, <2>4 DEF WordsInv
<1>7. QED BY <1>4, <1>5, <1>6

\* What an operation copies, draws and builds
LEMMA OpWords ==
  ASSUME WordsInv, ExactInv, NEW o \in Op,
         Ask(o) \/ Lock(o) \/ GiveUp(o) \/ Ensure(o) \/ Make(o) \/ StartFails(o)
  PROVE  WordsInv'
<1>1. OpFits(ops[o]) /\ Worded(ops[o].copy) /\ DOMAIN ops = Op
  BY DEF ExactInv, OpsFit, WordsInv
<1>2. Worded(Nothing) BY DEF Worded, Nothing
<1>3. UNCHANGED <<product, tabs>> BY DEF Ask, Lock, GiveUp, Ensure, Make, StartFails, row
<1>4. CASE Ask(o)
  <2>1. Worded(ops'[o].copy) /\ \A u \in Op \ {o} : ops'[u] = ops[u]
    BY <1>1, <1>4 DEF Ask, OpFits, WordsInv
  <2>2. UNCHANGED <<env, made>> BY <1>4 DEF Ask, row
  <2>3. QED BY <1>3, <2>1, <2>2 DEF WordsInv
<1>5. CASE Lock(o)
  <2>1. \A u \in Op : ops'[u].copy = ops[u].copy BY <1>1, <1>5 DEF Lock, OpFits
  <2>2. UNCHANGED <<env, made>> BY <1>5 DEF Lock, row
  <2>3. QED BY <1>3, <2>1, <2>2 DEF WordsInv
<1>6. CASE GiveUp(o) \/ StartFails(o)
  <2>1. Worded(ops'[o].copy) /\ \A u \in Op \ {o} : ops'[u] = ops[u]
    BY <1>1, <1>2, <1>6 DEF GiveUp, StartFails, End, Unused
  <2>2. UNCHANGED <<env, made>> BY <1>6 DEF GiveUp, StartFails, row
  <2>3. QED BY <1>3, <2>1, <2>2 DEF WordsInv
<1>7. CASE Ensure(o)
  <2> DEFINE full == Ensured(product, ops[o].copy, o)
  <2>1. Worded(full) BY <1>1, EnsuredWorded DEF WordsInv
  <2>2. /\ env' \in {env, full} /\ UNCHANGED made
        /\ ops'[o].copy \in {full, ops[o].copy} /\ \A u \in Op \ {o} : ops'[u] = ops[u]
    BY <1>1, <1>7 DEF Ensure, Write, OpFits
  <2> HIDE DEF full
  <2>3. QED BY <1>1, <1>3, <2>1, <2>2 DEF WordsInv
<1>8. CASE Make(o)
  <2> DEFINE own == Texts(ops[o].copy)
  <2>1. made' = [from |-> ops[o].copy, env |-> Env(product, Config, own, Drawn(o, 0))]
    BY <1>8 DEF Make, Texts
  <2>2. \A k \in DOMAIN own : own[k] \in Text BY <1>1 DEF Texts, Worded
  <2> HIDE DEF own
  <2>3. \A k \in DOMAIN made'.env : made'.env[k] \in Text
    BY <2>1, <2>2, EnvWorded DEF WordsInv
  <2>4. Worded(made'.from) /\ Entries(made'.from) BY <1>1, <2>1 DEF OpFits
  <2>5. Worded(ops'[o].copy) /\ \A u \in Op \ {o} : ops'[u] = ops[u]
    BY <1>1, <1>2, <1>8 DEF Make, End, Unused
  <2>6. UNCHANGED env BY <1>8 DEF Make, row
  <2>7. QED BY <1>3, <2>3, <2>4, <2>5, <2>6 DEF WordsInv
<1>9. QED BY <1>4, <1>5, <1>6, <1>7, <1>8

LEMMA NextWords == WordsInv /\ ExactInv /\ [Next]_vars => WordsInv'
<1> SUFFICES ASSUME WordsInv, ExactInv, [Next]_vars PROVE WordsInv'
  OBVIOUS
<1>1. CASE UNCHANGED vars \/ SaveCredential \/ Dies
  BY <1>1 DEF vars, row, SaveCredential, Dies, WordsInv
<1>2. QED BY <1>1, LoadWords, EditWords, SaveWords, OpWords DEF Next

-----------------------------------------------------------------------------
(* Control, action by action *)

LEMMA NextControl == ControlInv /\ ExactInv /\ [Next]_vars => ControlInv'
<1> SUFFICES ASSUME ControlInv, ExactInv, [Next]_vars PROVE ControlInv'
  OBVIOUS
<1>1. /\ DOMAIN tabs = Tab /\ \A t \in Tab : TabFits(tabs[t], env, t \in current)
      /\ DOMAIN ops = Op /\ \A o \in Op : OpFits(ops[o])
  BY DEF ExactInv, TabsFit, OpsFit
<1>2. CASE UNCHANGED vars \/ SaveCredential \/ Dies
  <2>1. saves' \in 0 .. MaxSaves
    BY <1>2, EnvAssumption DEF vars, history, SaveCredential, Dies, ControlInv
  <2>2. UNCHANGED <<tabs, ops, lock, current, astray, shown>>
    BY <1>2 DEF vars, history, SaveCredential, Dies
  <2>3. creds' \in BOOLEAN /\ live' \in BOOLEAN
    BY <1>2 DEF vars, row, SaveCredential, Dies, ControlInv
  <2>4. QED BY <2>1, <2>2, <2>3 DEF ControlInv
<1>3. ASSUME NEW t \in Tab, Load(t) PROVE ControlInv'
  BY <1>1, <1>3 DEF Load, row, Closed, ControlInv
<1>4. ASSUME NEW t \in Tab, Edit(t) PROVE ControlInv'
  <2>1. \A u \in Tab : tabs'[u].pc = tabs[u].pc
    <3>1. \E k, view : Shows(t, k, view)
      BY <1>4 DEF Edit, Type, Clear, Tick, RemoveRow, Reveal
    <3>2. PICK k, view : tabs' = [tabs EXCEPT ![t].view = view, ![t].edited = @ \union {k}]
      BY <3>1 DEF Shows
    <3>3. QED BY <1>1, <3>2 DEF TabFits
  <2>2. shown' \in BOOLEAN
    BY <1>4 DEF Edit, Type, Clear, Tick, RemoveRow, Reveal, ControlInv
  <2>3. QED BY <1>4, <2>1, <2>2 DEF Edit, row, ControlInv
<1>5. ASSUME NEW t \in Tab, SaveRead(t) PROVE ControlInv'
  <2>1. \A u \in Tab : tabs'[u].pc \in {tabs[u].pc, "saving"}
    BY <1>1, <1>5 DEF SaveRead, TabFits
  <2>2. saves' \in 0 .. MaxSaves BY <1>5, EnvAssumption DEF SaveRead, ControlInv
  <2>3. QED BY <1>5, <2>1, <2>2 DEF SaveRead, row, ControlInv
<1>6. ASSUME NEW t \in Tab, SaveFails(t) PROVE ControlInv'
  <2>1. \A u \in Tab : tabs'[u].pc \in {tabs[u].pc, "open"}
    BY <1>1, <1>6 DEF SaveFails, TabFits
  <2>2. QED BY <1>6, <2>1 DEF SaveFails, row, history, ControlInv
<1>7. ASSUME NEW t \in Tab, SaveWrite(t) PROVE ControlInv'
  <2>1. \A u \in Tab : tabs'[u].pc \in {tabs[u].pc, "closed"}
    BY <1>1, <1>7 DEF SaveWrite, Closed
  <2>2. \A o \in Op : \/ ops'[o].pc = ops[o].pc
                      \/ ops[o].pc = "idle" /\ ops'[o].pc = "queued"
    BY <1>1, <1>7 DEF SaveWrite, OpFits
  <2>3. current' = {} /\ astray' \in BOOLEAN BY <1>7 DEF SaveWrite, Write, ControlInv
  <2>4. QED BY <1>7, <2>1, <2>2, <2>3 DEF SaveWrite, ControlInv
<1>8. ASSUME NEW o \in Op, Ask(o) PROVE ControlInv'
  <2>1. /\ ops[o].pc \in {"idle", "queued"} /\ ops'[o].pc = "ready"
        /\ \A u \in Op \ {o} : ops'[u] = ops[u]
    BY <1>1, <1>8 DEF Ask, OpFits
  <2>2. QED BY <1>8, <2>1 DEF Ask, row, ControlInv
<1>9. ASSUME NEW o \in Op, Lock(o) PROVE ControlInv'
  <2>1. /\ ops[o].pc = "ready" /\ ops'[o].pc = "locked" /\ lock = None /\ lock' = o
        /\ \A u \in Op \ {o} : ops'[u] = ops[u]
    BY <1>1, <1>9 DEF Lock, OpFits
  <2>2. QED BY <1>9, <2>1, EnvAssumption DEF Lock, row, history, ControlInv
<1>10. ASSUME NEW o \in Op, End(o) PROVE
         ops'[o].pc = "done" /\ \A u \in Op \ {o} : ops'[u] = ops[u]
  BY <1>1, <1>10 DEF End, Unused
<1>11. ASSUME NEW o \in Op, GiveUp(o) PROVE ControlInv'
  BY <1>10, <1>11 DEF GiveUp, End, row, ControlInv
<1>12. ASSUME NEW o \in Op, Ensure(o) PROVE ControlInv'
  <2>1. /\ ops[o].pc = "locked" /\ ops'[o].pc = "ensured"
        /\ \A u \in Op \ {o} : ops'[u] = ops[u]
    BY <1>1, <1>12 DEF Ensure, OpFits
  <2>2. current' \subseteq Tab \union Op /\ astray' \in BOOLEAN
    BY <1>12 DEF Ensure, Write, ControlInv
  <2>3. QED BY <1>12, <2>1, <2>2 DEF Ensure, ControlInv
<1>13. ASSUME NEW o \in Op, Make(o) \/ StartFails(o) PROVE ControlInv'
  <2>1. ops[o].pc = "ensured" /\ lock' = None /\ End(o) /\ UNCHANGED <<creds, tabs, saves, shown>>
    BY <1>13 DEF Make, StartFails, row
  <2>2. live' \in BOOLEAN /\ astray' \in BOOLEAN
    BY <1>13 DEF Make, StartFails, ControlInv
  <2>3. current' \subseteq Tab \union Op BY <2>1 DEF End, ControlInv
  <2>4. QED BY <1>10, <2>1, <2>2, <2>3, EnvAssumption DEF ControlInv
<1>14. QED
  BY <1>2, <1>3, <1>4, <1>5, <1>6, <1>7, <1>8, <1>9, <1>11, <1>12, <1>13 DEF Next

PasswordInv == DOMAIN login = Tab /\ \A t \in Tab : login[t] \in Text

LEMMA InitPassword == Init => PasswordInv
  BY Words DEF Init, PasswordInv

LEMMA NextPassword == PasswordInv /\ WordsInv /\ [Next]_vars => PasswordInv'
<1> SUFFICES ASSUME PasswordInv, WordsInv, [Next]_vars PROVE PasswordInv'
  OBVIOUS
<1>1. InitialPassword(env) \in Text BY Words DEF InitialPassword, WordsInv, Worded
<1>2. QED BY <1>1, Words, LoginStep DEF PasswordInv

\* Whatever tabs, operations, limits and configuration of texts: rows, copies and
\* containers hold texts, and the mutex is held by the operation at work.
THEOREM EnvTypeCorrect == Spec => []TypeOK
<1>1. ExactInv /\ WordsInv /\ ControlInv /\ PasswordInv => TypeOK
  <2> SUFFICES ASSUME ExactInv, WordsInv, ControlInv, PasswordInv PROVE TypeOK
    OBVIOUS
  <2>1. Entries(env) /\ \A k \in DOMAIN env : env[k].enc => env[k].secret
    BY DEF ExactInv, Entries, IsEntry
  <2>2. StoredType(env) /\ StoredType(made.from) BY <2>1, StoredTyped DEF WordsInv
  <2>3. \A t \in Tab : StoredType(tabs[t].list)
    BY StoredTyped DEF ExactInv, TabsFit, TabFits, WordsInv
  <2>4. \A o \in Op : StoredType(ops[o].copy)
    BY StoredTyped DEF ExactInv, OpsFit, OpFits, WordsInv
  <2>5. QED BY <2>1, <2>2, <2>3, <2>4 DEF TypeOK, WordsInv, ControlInv, PasswordInv
<1>2. QED BY <1>1, InitExact, NextExact, InitTyped, NextWords, NextControl, InitPassword, NextPassword,
             PTL DEF Spec
================================================================================
