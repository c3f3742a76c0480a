---------------------------- MODULE ModelDiscovery ----------------------------
(***************************************************************************)
(* DiscoverModels: the list of models of one router, replaced by what its  *)
(* product answers or else by what the gateway ships for the product.      *)
(*                                                                         *)
(* A start calls it under the router's mutex, the administrator's buttons  *)
(* without, at the same time as each other.  The list is replaced in one   *)
(* transaction, under READ COMMITTED: its DELETE sees the rows committed   *)
(* before it began and waits for whoever changes one of them, an INSERT    *)
(* waits for whoever holds its model, and PostgreSQL ends one of those     *)
(* that wait in a circle.  A DELETE takes its rows in one step.            *)
(*                                                                         *)
(* deriveModelsFromCreds has no part: loadCreds returns no credential, the *)
(* router having none or the query leaving out the column that holds it.   *)
(* last, over and counter are history.                                     *)
(***************************************************************************)
EXTENDS AdapterCatalogue

CONSTANTS
    Discovery, \* calls of DiscoverModels, each used once
    Nobody,    \* no discovery
    Bodies,    \* what products answer
    Faults     \* whether database calls fail

ASSUME DiscoveryAssumption == Nobody \notin Discovery /\ Faults \in BOOLEAN

\* A body is decoded into a slice.
ASSUME AnswersAreLists ==
    \A p \in Product, body \in Bodies :
      LET list == ParseModels(p, body) IN list \in Seq({list[n] : n \in DOMAIN list})

VARIABLES
    product,   \* adapter_type of the router
    stored,    \* the committed rows: their provider, who wrote it and who inserted the row
    txs,       \* the discoveries
    counts,    \* models_count and providers_count of the router
    last,      \* the discovery that committed last
    over,      \* for each, those that committed since its DELETE began
    counter    \* the discovery that wrote the counts last

history == <<last, over, counter>>
vars    == <<product, stored, txs, counts, history>>

-----------------------------------------------------------------------------

NoRows == [i \in {} |-> ""]
NoTx   == [pc |-> "idle", answer |-> <<>>, queue |-> <<>>, sees |-> {}, gone |-> {}, put |-> NoRows]

\* The identifiers a list of models names
Names(list) == {list[n][1] : n \in DOMAIN list}

\* What a list of models comes to when its entries are stored one by one: of two
\* that name one model the later overwrites the earlier.
ByModel(list) ==
    [i \in Names(list) |->
       list[CHOOSE n \in DOMAIN list :
              list[n][1] = i /\ \A m \in DOMAIN list : list[m][1] = i => m <= n][2]]

\* The counts of the router's row for a list of models, which has the models the
\* product named twice twice; countProviders
Counted(list) == [models |-> Len(list),
                  providers |-> Cardinality({list[n][2] : n \in DOMAIN list})]

\* A router is new, or an earlier discovery had no answer.
Init ==
    /\ product \in Product
    /\ \E list \in {<<>>, Shipped(product)} :
         /\ stored = [i \in Names(list) |->
                        [provider |-> ByModel(list)[i], by |-> Nobody, born |-> Nobody]]
         /\ counts = Counted(list)
    /\ txs = [d \in Discovery |-> NoTx]
    /\ last = Nobody /\ counter = Nobody
    /\ over = [d \in Discovery |-> {}]

\* The answer to a body that one of the paths and tokens obtained, "none"
\* when none did
Answer(body) ==
    LET parsed == IF body.form = "none" THEN <<>> ELSE ParseModels(product, body)
    IN  IF parsed # <<>> THEN parsed ELSE Shipped(product)

\* DiscoverModels up to the transaction
Ask(d) ==
    /\ txs[d].pc = "idle"
    /\ \E body \in Bodies \union {[form |-> "none", entries |-> <<>>]} :
         txs' = [txs EXCEPT ![d] = [NoTx EXCEPT !.pc = "asked",
                                                !.answer = Answer(body), !.queue = Answer(body)]]
    /\ UNCHANGED <<product, stored, counts, history>>

-----------------------------------------------------------------------------
(* UpsertModels *)

\* The models whose row, or whose place, a transaction holds until it ends
Held(d) == txs[d].gone \union DOMAIN txs[d].put

\* The models a statement under way has to get hold of
Wanted(d) ==
    CASE txs[d].pc = "deleting"                             -> {row[1] : row \in txs[d].sees}
      [] txs[d].pc = "inserting" /\ txs[d].queue # <<>> -> {Head(txs[d].queue)[1]}
      [] OTHER                                              -> {}

WaitsFor(d, e) == d # e /\ Wanted(d) \intersect Held(e) # {}
Blocked(d)     == \E e \in Discovery : WaitsFor(d, e)

DeleteStart(d) ==
    /\ txs[d].pc = "asked"
    /\ txs' = [txs EXCEPT ![d].pc = "deleting",
                          ![d].sees = {<<i, stored[i].born>> : i \in DOMAIN stored}]
    /\ over' = [over EXCEPT ![d] = {}]
    /\ UNCHANGED <<product, stored, counts, last, counter>>

\* (mutant) Nothing is deleted.
DeleteNothing(d) ==
    /\ txs[d].pc = "deleting" /\ ~Blocked(d)
    /\ txs' = [txs EXCEPT ![d].pc = "inserting", ![d].sees = {}]
    /\ UNCHANGED <<product, stored, counts, history>>

\* A row that was deleted in the meantime is passed over, and what took its
\* place is not seen.
DeleteEnd(d) ==
    /\ txs[d].pc = "deleting" /\ ~Blocked(d)
    /\ txs' = [txs EXCEPT ![d].pc = "inserting", ![d].sees = {},
                          ![d].gone = {i \in DOMAIN stored : <<i, stored[i].born>> \in txs[d].sees}]
    /\ UNCHANGED <<product, stored, counts, history>>

\* The rows a transaction has put once it has inserted one more model
Upserted(d) ==
    LET model == Head(txs[d].queue)
    IN  Over([i \in {model[1]} |-> model[2]], txs[d].put)

\* (mutant) A model somebody holds is inserted all the same.
InsertOverHeld(d) ==
    /\ txs[d].pc = "inserting" /\ txs[d].queue # <<>>
    /\ txs' = [txs EXCEPT ![d].put = Upserted(d), ![d].queue = Tail(@)]
    /\ UNCHANGED <<product, stored, counts, history>>

\* (mutant) The transaction is committed after its first INSERT.
CommitEarly(d) ==
    /\ txs[d].pc = "inserting" /\ txs[d].put # NoRows
    /\ stored' = Over([i \in DOMAIN txs[d].put |->
                         [provider |-> txs[d].put[i], by |-> d, born |-> d]],
                      [i \in DOMAIN stored \ txs[d].gone |-> stored[i]])
    /\ txs' = [txs EXCEPT ![d].pc = "counting", ![d].gone = {}, ![d].put = NoRows]
    /\ last' = d
    /\ over' = [e \in Discovery |-> IF e # d /\ txs[e].pc \in {"deleting", "inserting"}
                                    THEN over[e] \union {d} ELSE over[e]]
    /\ UNCHANGED <<product, counts, counter>>

\* INSERT ... ON CONFLICT DO UPDATE
Insert(d) ==
    /\ txs[d].pc = "inserting" /\ txs[d].queue # <<>> /\ ~Blocked(d)
    /\ txs' = [txs EXCEPT ![d].put = Upserted(d), ![d].queue = Tail(@)]
    /\ UNCHANGED <<product, stored, counts, history>>

\* The table once d has committed
Committed(d) ==
    LET kept == DOMAIN stored \ txs[d].gone
    IN  [i \in kept \union DOMAIN txs[d].put |->
           IF i \in DOMAIN txs[d].put
           THEN [provider |-> txs[d].put[i], by |-> d,
                 born |-> IF i \in kept THEN stored[i].born ELSE d]
           ELSE stored[i]]

Writing(d) == txs[d].pc \in {"deleting", "inserting"}

Commit(d) ==
    /\ txs[d].pc = "inserting" /\ txs[d].queue = <<>>
    /\ stored' = Committed(d)
    /\ txs' = [txs EXCEPT ![d].pc = "counting", ![d].gone = {}, ![d].put = NoRows]
    /\ last' = d
    /\ over' = [e \in Discovery |-> IF e # d /\ Writing(e) THEN over[e] \union {d} ELSE over[e]]
    /\ UNCHANGED <<product, counts, counter>>

\* Those that wait for each other in a circle
Circle(S) == \A d \in S : /\ \E e \in S : WaitsFor(d, e)
                          /\ \E e \in S : WaitsFor(e, d)

\* The call ends; what it answered is kept for the properties.
Finish(d) == txs' = [txs EXCEPT ![d] = [NoTx EXCEPT !.pc = "done", !.answer = txs[d].answer]]

\* PostgreSQL ends one that is part of a circle.
DeadlockVictim(d) ==
    /\ \E S \in SUBSET Discovery : d \in S /\ Circle(S)
    /\ Finish(d)
    /\ UNCHANGED <<product, stored, counts, history>>

\* (mutant) A failed statement ends the call but not the transaction.
RollbackSkipped(d) ==
    /\ Faults /\ Writing(d)
    /\ txs' = [txs EXCEPT ![d].pc = "done"]
    /\ UNCHANGED <<product, stored, counts, history>>

\* The deferred Rollback: a statement or the commit failed, or the caller's
\* context was cancelled.
Rollback(d) ==
    /\ Faults /\ Writing(d)
    /\ Finish(d)
    /\ UNCHANGED <<product, stored, counts, history>>

\* UpdateRouterCounts, which may fail
Count(d) ==
    /\ txs[d].pc = "counting"
    /\ \/ /\ counts' = Counted(txs[d].answer)
          /\ counter' = d
       \/ /\ Faults
          /\ UNCHANGED <<counts, counter>>
    /\ Finish(d)
    /\ UNCHANGED <<product, stored, last, over>>

Step(d) == Ask(d) \/ DeleteStart(d) \/ DeleteEnd(d) \/ Insert(d) \/ Commit(d) \/ Count(d)

Next == \E d \in Discovery : Step(d) \/ DeadlockVictim(d) \/ Rollback(d)

\* A call goes on, and deadlocks are found after deadlock_timeout.
Fairness == \A d \in Discovery : WF_vars(txs[d].pc # "idle" /\ Step(d)) /\ WF_vars(DeadlockVictim(d))

Spec == Init /\ [][Next]_vars /\ Fairness

-----------------------------------------------------------------------------
(* Properties *)

\* Rows have authors, a transaction puts models of its answer, and no two
\* transactions hold the same model.
TypeOK ==
    /\ product \in Product
    /\ \A i \in DOMAIN stored : {stored[i].by, stored[i].born} \subseteq Discovery \union {Nobody}
    /\ \A d \in Discovery :
         /\ txs[d].pc \in {"idle", "asked", "deleting", "inserting", "counting", "done"}
         /\ DOMAIN txs[d].put \subseteq Names(txs[d].answer)
         /\ \A e \in Discovery \ {d} : Held(d) \intersect Held(e) = {}
    /\ {last, counter} \subseteq Discovery \union {Nobody}
    /\ over \in [Discovery -> SUBSET Discovery]

\* Whatever a product answers and whichever of its answers were overwritten, only
\* a model whose identifier begins with a slash, so that the vendor before the
\* slash is empty, may be stored without a provider.
ProviderNamed == \A i \in DOMAIN stored : stored[i].provider = "" => i.vendor = ""

\* When the discovery that wrote the counts of the router is the one that
\* committed last, and none committed while it replaced the list, the counts are
\* not below those of the list, and they are those of the list if the answer
\* named no model twice (one named twice is counted twice and stored once).
CountsAgree ==
    counter # Nobody /\ counter = last /\ over[last] = {} =>
      LET models    == Cardinality(DOMAIN stored)
          providers == Cardinality({stored[i].provider : i \in DOMAIN stored})
          answer    == txs[last].answer
      IN  /\ counts.models >= models /\ counts.providers >= providers
          /\ (\A m, n \in DOMAIN answer : answer[m][1] = answer[n][1] => m = n) =>
               counts.models = models /\ counts.providers = providers

\* Whoever lists the models sees whole answers: the transaction implements
\* the register, however many discoveries overlap and whichever of them fail.
Register == INSTANCE ModelRegister WITH
    Caller  <- Discovery,
    answers <- {ByModel(Answer(body)) : body \in Bodies \union {[form |-> "none", entries |-> <<>>]}},
    models  <- [i \in DOMAIN stored |-> [provider |-> stored[i].provider, by |-> stored[i].by]],
    open    <- {d \in Discovery : Writing(d)},
    since   <- over

IsRegister == Register!Spec

\* Every discovery ends, those that wait for each other included.
EveryDiscoveryEnds == \A d \in Discovery : []<>(txs[d].pc \in {"idle", "done"})
=============================================================================
