------------------------------ MODULE RouterEnv ------------------------------
(***************************************************************************)
(* The environment variables of one router: what administrators load, edit *)
(* and save on its page, what a start completes with permanent secrets and *)
(* writes back, and what the container is created with.                    *)
(*                                                                         *)
(* The variables are one JSON column, always written whole: by a save from *)
(* the list of a browser tab, and by a start from the copy of the row it   *)
(* was called with.  Nothing compares what is replaced with what was read. *)
(*                                                                         *)
(* Operations are used once.  edited, current, astray, touched and shown   *)
(* are history: the code has no such variables.                            *)
(***************************************************************************)
EXTENDS AdapterCatalogue

CONSTANTS
    Tab,       \* pages of the router open in browsers
    Op,        \* starts and restarts
    None,      \* no operation, no container
    Editable,  \* the names administrators type
    Config,    \* the older map of variables in the router's configuration
    MaxSaves,  \* saves of variables or credentials in a behaviour
    Faults     \* whether the database may fail

Text == [kind : {"blank", "mask", "short", "long", "made"},
         by : Tab \union Op \union {"nobody", "adapter", "creator"}, n : 0 .. 2]

ASSUME EnvAssumption ==
    /\ None \notin Op /\ Tab \intersect Op = {}
    /\ \A k \in DOMAIN Config : Config[k] \in Text
    /\ Faults \in BOOLEAN
    /\ MaxSaves \in Nat

VARIABLES
    product,   \* adapter_type of the router
    env,       \* env_vars of its row
    creds,     \* whether provider credentials are saved for it
    tabs,      \* the list each tab shows, and the save it has under way
    login,     \* the password for the product's own panel that each tab shows
    ops,       \* the operations: where they are and their copy of the row
    lock,      \* the operation that holds the router's mutex
    live,      \* whether its container runs
    made,      \* the variables the last container was made from and its environment
    saves,     \* saves so far
    current,   \* the tabs and operations whose copy is of the variables as they stand
    astray,    \* since the last container, a write failed or replaced variables its
               \* writer had not read, or that container was made of older ones
    touched,   \* names whose variable a save changed since the last container
    shown      \* whether a tab ever revealed a secret

row     == <<product, env, creds>>
history == <<saves, current, astray, touched, shown>>
vars    == <<row, tabs, login, ops, lock, live, made, history>>

-----------------------------------------------------------------------------

Nothing == [k \in {} |-> Blank]

Closed  == [pc |-> "closed", view |-> Nothing, edited |-> {}, list |-> Nothing]
Unused  == [pc |-> "idle", kind |-> "restart", copy |-> Nothing]

\* The names this product's page is edited with
Names == LET own == UNION {req.of \union DOMAIN req.draws : req \in Requirements(product)}
         IN  IF own = {} THEN {"INITIAL_PASSWORD"} ELSE own \intersect Editable

Secret(text) == [text |-> text, enc |-> TRUE, secret |-> TRUE]

Init ==
    /\ product \in Product
    /\ env \in {Nothing} \union {[k \in {n} |-> Secret(Typed("long", "creator"))] : n \in Names}
    /\ creds = FALSE
    /\ tabs = [t \in Tab |-> Closed] /\ login = [t \in Tab |-> Blank]
    /\ ops = [o \in Op |-> Unused]
    /\ lock = None /\ live = FALSE
    /\ made = [from |-> Nothing, env |-> Nothing]
    /\ saves = 0 /\ current = {}
    /\ astray = FALSE /\ touched = {} /\ shown = FALSE

\* maskRouterSecrets
Masked(e) == [k \in DOMAIN e |-> [text |-> IF e[k].secret THEN Mask ELSE e[k].text,
                                  secret |-> e[k].secret]]

\* getInitialPassword: what the product's own panel is entered with, read from
\* the row and decrypted.  Under SETUP_CODE and SETUP_KEY, which it tries next, no
\* product and no page of this model keeps anything.
InitialPassword(e) ==
    LET under(k) == IF k \in DOMAIN e THEN e[k].text ELSE Blank
    IN  CASE under("INITIAL_PASSWORD") # Blank -> under("INITIAL_PASSWORD")
          [] under("INITIAL_PASSWORD") = Blank /\ under("ENCRYPTION_KEY") # Blank -> under("ENCRYPTION_KEY")
          [] OTHER -> IF product = "omniroute" THEN Default ELSE Blank

\* The page loads the masked list and, unasked, the initial password; each request
\* may fail, and leaves an empty list or no password.
Load(t) ==
    /\ tabs[t].pc = "closed" /\ saves < MaxSaves
    /\ \/ /\ tabs' = [tabs EXCEPT ![t] = [Closed EXCEPT !.pc = "open", !.view = Masked(env)]]
          /\ current' = current \union {t}
       \/ /\ Faults
          /\ tabs' = [tabs EXCEPT ![t] = [Closed EXCEPT !.pc = "open"]]
          /\ UNCHANGED current
    /\ \/ login' = [login EXCEPT ![t] = InitialPassword(env)]
       \/ Faults /\ UNCHANGED login
    /\ UNCHANGED <<row, ops, lock, live, made, saves, astray, touched, shown>>

Shows(t, k, view) ==
    tabs' = [tabs EXCEPT ![t].view = view, ![t].edited = @ \union {k}]

\* A variable is typed, with the flag the page derives from its name or the
\* one ticked by hand
Type(t, k) ==
    /\ \E size \in {"short", "long"}, secret \in BOOLEAN :
         Shows(t, k, Over([x \in {k} |-> [text |-> Typed(size, t), secret |-> secret]],
                          tabs[t].view))
    /\ UNCHANGED shown

Clear(t, k) ==
    /\ Shows(t, k, Over([x \in {k} |-> [text |-> Blank, secret |-> TRUE]], tabs[t].view))
    /\ UNCHANGED shown

Tick(t, k) ==
    /\ k \in DOMAIN tabs[t].view
    /\ Shows(t, k, [tabs[t].view EXCEPT ![k].secret = ~@])
    /\ UNCHANGED shown

RemoveRow(t, k) ==
    /\ k \in DOMAIN tabs[t].view
    /\ Shows(t, k, [x \in DOMAIN tabs[t].view \ {k} |-> tabs[t].view[x]])
    /\ UNCHANGED shown

\* revealRouterEnvKey answers with the decrypted value of the row.
Reveal(t, k) ==
    /\ k \in DOMAIN tabs[t].view \intersect DOMAIN env
    /\ tabs[t].view[k].secret /\ tabs[t].view[k].text \in {Mask, Blank}
    /\ Shows(t, k, [tabs[t].view EXCEPT ![k].text = env[k].text])
    /\ shown' = TRUE

\* One edit of an open page: more edits add nothing to what is saved
Edit(t) ==
    /\ tabs[t].pc = "open" /\ tabs[t].edited = {}
    /\ \/ \E k \in Names : Type(t, k) \/ Clear(t, k)
       \/ \E k \in DOMAIN tabs[t].view : Tick(t, k) \/ RemoveRow(t, k) \/ Reveal(t, k)
    /\ UNCHANGED <<row, login, ops, lock, live, made, saves, current, astray, touched>>

\* (mutant) The mask is stored when the page sends it back.
CleanedMask(view, existing) ==
    [k \in DOMAIN view |->
       IF view[k].secret /\ view[k].text = Blank /\ k \in DOMAIN existing
       THEN [existing[k] EXCEPT !.secret = TRUE]
       ELSE [text |-> view[k].text, enc |-> view[k].secret, secret |-> view[k].secret]]

\* (mutant) A mask keeps the stored value with the flag the page sends.
CleanedByText(view, existing) ==
    [k \in DOMAIN view |->
       IF view[k].text \in {Mask, Blank} /\ k \in DOMAIN existing
       THEN [existing[k] EXCEPT !.secret = view[k].secret, !.enc = view[k].secret]
       ELSE [text |-> view[k].text, enc |-> view[k].secret, secret |-> view[k].secret]]

\* The list that is stored for the list of a tab: a masked or empty secret
\* keeps the stored value of its name, whatever that is.
Cleaned(view, existing) ==
    [k \in DOMAIN view |->
       LET kept == view[k].secret /\ view[k].text \in {Mask, Blank}
       IN  IF kept /\ k \in DOMAIN existing
           THEN [existing[k] EXCEPT !.secret = TRUE]
           ELSE [text   |-> IF kept THEN Blank ELSE view[k].text,
                 enc    |-> view[k].secret,
                 secret |-> view[k].secret]]

\* putRouterEnv up to its UPDATE
SaveRead(t) ==
    /\ tabs[t].pc = "open" /\ saves < MaxSaves
    /\ tabs' = [tabs EXCEPT ![t].pc = "saving", ![t].list = Cleaned(tabs[t].view, env)]
    /\ saves' = saves + 1
    /\ UNCHANGED <<row, login, ops, lock, live, made, current, astray, touched, shown>>

\* The row is written by a tab, which then closes, or by an operation
Write(list, writer) ==
    /\ env' = list
    /\ current' = {writer} \ Tab
    /\ astray' = (astray \/ writer \notin current)

\* The UPDATE of putRouterEnv, and the restart it leaves to a goroutine
SaveWrite(t) ==
    /\ tabs[t].pc = "saving"
    /\ Write(tabs[t].list, t)
    /\ touched' = touched \union {k \in DOMAIN env \union DOMAIN env' :
                                   ~(k \in DOMAIN env \intersect DOMAIN env' /\ env[k] = env'[k])}
    /\ tabs' = [tabs EXCEPT ![t] = Closed] /\ login' = [login EXCEPT ![t] = Blank]
    /\ \/ UNCHANGED ops
       \/ \E o \in Op : /\ ops[o].pc = "idle"
                       /\ ops' = [ops EXCEPT ![o].pc = "queued"]
    /\ UNCHANGED <<product, creds, lock, live, made, saves, shown>>

SaveFails(t) ==
    /\ Faults /\ tabs[t].pc = "saving"
    /\ tabs' = [tabs EXCEPT ![t].pc = "open", ![t].list = Nothing]
    /\ UNCHANGED <<row, login, ops, lock, live, made, history>>

\* putCredential and deleteCredential
SaveCredential ==
    /\ saves < MaxSaves
    /\ creds' = ~creds
    /\ saves' = saves + 1
    /\ UNCHANGED <<product, env, tabs, login, ops, lock, live, made, current, astray, touched, shown>>

-----------------------------------------------------------------------------
(* Starts and restarts *)

\* startRouter and restartRouter read the row and call the manager; so does
\* the goroutine a save or applyRouterEnv left behind.
Ask(o) ==
    /\ \/ /\ ops[o].pc = "idle"
          /\ \E kind \in {"start", "restart"} :
               ops' = [ops EXCEPT ![o] = [pc |-> "ready", kind |-> kind, copy |-> env]]
       \/ /\ ops[o].pc = "queued"
          /\ ops' = [ops EXCEPT ![o].pc = "ready", ![o].copy = env]
    /\ current' = current \union {o}
    /\ UNCHANGED <<row, tabs, login, lock, live, made, saves, astray, touched, shown>>

End(o) == /\ ops' = [ops EXCEPT ![o] = [Unused EXCEPT !.pc = "done"]]
          /\ current' = current \ {o}

\* (mutant) The mutex is not looked at.
LockAnyway(o) ==
    /\ ops[o].pc = "ready"
    /\ ~(ops[o].kind = "start" /\ live)
    /\ lock' = o
    /\ live' = FALSE
    /\ ops' = [ops EXCEPT ![o].pc = "locked"]
    /\ UNCHANGED <<row, tabs, login, made, history>>

\* A start gives up when the mutex is taken and leaves a live container alone.
Lock(o) ==
    /\ ops[o].pc = "ready" /\ lock = None
    /\ ~(ops[o].kind = "start" /\ live)
    /\ lock' = o
    /\ live' = FALSE
    /\ ops' = [ops EXCEPT ![o].pc = "locked"]
    /\ UNCHANGED <<row, tabs, login, made, history>>

GiveUp(o) ==
    /\ ops[o].pc = "ready" /\ ops[o].kind = "start"
    /\ lock # None \/ live
    /\ End(o)
    /\ UNCHANGED <<row, tabs, login, lock, live, made, saves, astray, touched, shown>>

\* EnsurePermanentSecrets on the copy, and the write of what it added, which
\* the start goes on without when it fails
Ensure(o) ==
    /\ ops[o].pc = "locked"
    /\ LET copy == ops[o].copy
           full == Ensured(product, copy, o)
       IN  \/ /\ Lacking(product, copy) # {}
              /\ Write(full, o)
              /\ ops' = [ops EXCEPT ![o].pc = "ensured", ![o].copy = full]
           \/ /\ Lacking(product, copy) = {} \/ Faults
              /\ ops' = [ops EXCEPT ![o].pc = "ensured"]
              /\ astray' = (astray \/ Lacking(product, copy) # {})
              /\ UNCHANGED <<env, current>>
    /\ UNCHANGED <<product, creds, tabs, login, lock, live, made, saves, touched, shown>>

\* The container of the copy.  loadCreds decrypts a column its query leaves
\* out, so it fails as soon as there is a credential.
Make(o) ==
    /\ ops[o].pc = "ensured" /\ ~creds
    /\ LET own == [k \in DOMAIN ops[o].copy |-> ops[o].copy[k].text]
       IN  made' = [from |-> ops[o].copy, env |-> Env(product, Config, own, Drawn(o, 0))]
    /\ live' = TRUE
    /\ lock' = None
    /\ End(o)
    /\ astray' = ~(o \in current /\ Lacking(product, ops[o].copy) = {})
    /\ touched' = {}
    /\ UNCHANGED <<row, tabs, login, saves, shown>>

\* loadCreds, Docker or the health probe fails.
StartFails(o) ==
    /\ ops[o].pc = "ensured"
    /\ creds \/ Faults
    /\ lock' = None
    /\ End(o)
    /\ UNCHANGED <<row, tabs, login, live, made, saves, astray, touched, shown>>

Dies ==
    /\ live
    /\ live' = FALSE
    /\ UNCHANGED <<row, tabs, login, ops, lock, made, history>>

Next ==
    \/ \E t \in Tab : Load(t) \/ Edit(t) \/ SaveRead(t) \/ SaveWrite(t) \/ SaveFails(t)
    \/ SaveCredential
    \/ \E o \in Op : Ask(o) \/ Lock(o) \/ GiveUp(o) \/ Ensure(o) \/ Make(o) \/ StartFails(o)
    \/ Dies

Spec == Init /\ [][Next]_vars

-----------------------------------------------------------------------------
(* Properties *)

StoredType(e) == \A k \in DOMAIN e : e[k] \in [text : Text, enc : BOOLEAN, secret : BOOLEAN]

\* Every variable has its type; the mutex is held by the operation at work,
\* and what is stored encrypted is flagged secret.
TypeOK ==
    /\ product \in Product /\ creds \in BOOLEAN
    /\ StoredType(env) /\ StoredType(made.from)
    /\ \A k \in DOMAIN env : env[k].enc => env[k].secret
    /\ \A k \in DOMAIN made.env : made.env[k] \in Text
    /\ \A t \in Tab : /\ tabs[t].pc \in {"closed", "open", "saving"}
                      /\ StoredType(tabs[t].list)
                      /\ login[t] \in Text
    /\ \A o \in Op : /\ ops[o].pc \in {"idle", "queued", "ready", "locked", "ensured", "done"}
                     /\ StoredType(ops[o].copy)
                     /\ (lock = o) = (ops[o].pc \in {"locked", "ensured"})
    /\ live \in BOOLEAN /\ saves \in 0 .. MaxSaves /\ current \subseteq Tab \union Op
    /\ astray \in BOOLEAN /\ shown \in BOOLEAN

\* A text drawn for this name, whichever start drew it
DrawnFor(p, k, text) == \E req \in Requirements(p) : k \in DOMAIN req.draws /\ text.n = req.draws[k]

\* A secret the gateway drew never leaves the encrypted column, not in clear
\* and not in the list of a page, unless somebody asked to see it: whatever flags
\* are ticked and unticked and whoever saves what others completed.  One secret
\* is on the page all the same: a drawn ENCRYPTION_KEY, which getInitialPassword
\* takes for a password, and never another one.
DrawnStaysSealed ==
    ~shown =>
      /\ \A k \in DOMAIN env : env[k].text.kind = "made" => env[k].enc
      /\ \A t \in Tab : /\ \A k \in DOMAIN tabs[t].view : tabs[t].view[k].text.kind # "made"
                        /\ login[t].kind = "made" => DrawnFor(product, "ENCRYPTION_KEY", login[t])

\* The names a save of the given names changes: a requirement they no longer
\* meet has all of its names drawn anew
Affected(names) == names \union
    UNION {DOMAIN req.draws : req \in {r \in Requirements(product) : r.of \intersect names # {}}}

\* A container made from the row as it stands is given the text its
\* predecessor was given for every variable that was recorded then, was given
\* as recorded and that no save since affects, provided that every write since
\* was by someone who had read what it replaced.
KeysOutliveContainers ==
    [][made' # made /\ ~astray /\ ~astray' =>
         \A k \in DOMAIN made.from \ Affected(touched) :
           made.env[k] = made.from[k].text =>
             k \in DOMAIN made'.env /\ made'.env[k] = made.env[k]]_vars

\* A save changes only the variables edited in its tab, when the row is still
\* the one the tab loaded: masked secrets come back as they were stored.
SaveIsExact ==
    [][\A t \in Tab : (tabs[t].pc = "saving" /\ tabs'[t].pc = "closed" /\ t \in current) =>
         \A k \in (DOMAIN env \union DOMAIN env') \ tabs[t].edited :
           k \in DOMAIN env \intersect DOMAIN env' /\ env'[k] = env[k]]_vars

\* adapter.go: Env returns what "to inject into the container from decrypted
\* credentials".  So where nothing fails, a start that has the mutex ends with
\* a container, whatever credentials were saved.
CredentialsAreNoObstacle ==
    [][~Faults => \A o \in Op : ops[o].pc = "ensured" /\ ops'[o].pc = "done" => live']_vars
=============================================================================
