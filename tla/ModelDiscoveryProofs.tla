------------------------- MODULE ModelDiscoveryProofs -------------------------
(***************************************************************************)
(* The transaction of UpsertModels implements ModelRegister, for any       *)
(* number of discoveries and any answers.                                  *)
(*                                                                         *)
(* The invariant says what the statements of a discovery know of a list    *)
(* that others go on changing: each row is one its DELETE saw, or was put  *)
(* by somebody who committed since.                                        *)
(***************************************************************************)
EXTENDS ModelDiscovery, FiniteSetTheorems, TLAPS

-----------------------------------------------------------------------------
(* Lists of models *)

IsList(list) == list \in Seq({list[n] : n \in DOMAIN list})

LEMMA ListDomain ==
  ASSUME NEW list, IsList(list)
  PROVE  Len(list) \in Nat /\ DOMAIN list = 1 .. Len(list)
<1> DEFINE S == {list[n] : n \in DOMAIN list}
<1>1. list \in Seq(S) BY DEF IsList
<1> HIDE DEF S
<1>2. QED BY <1>1

LEMMA HeadAndTail ==
  ASSUME NEW S, NEW q \in Seq(S), q # <<>>
  PROVE  /\ Head(q) = q[1] /\ 1 \in DOMAIN q /\ Tail(q) \in Seq(S)
         /\ Len(q) \in Nat \ {0} /\ Len(Tail(q)) = Len(q) - 1
         /\ DOMAIN q = 1 .. Len(q) /\ DOMAIN Tail(q) = 1 .. Len(q) - 1
         /\ \A n \in DOMAIN Tail(q) : Tail(q)[n] = q[n + 1]
  OBVIOUS

\* Of the entries that name a model one is the last.
LEMMA LastIndex ==
  ASSUME NEW k \in Nat, NEW T, T # {}, T \subseteq 1 .. k
  PROVE  \E n \in T : \A m \in T : m <= n
<1> DEFINE D == {x \in Nat : k - x \in T}
           R == OpToRel(<, Nat)
<1>1. D # {}
  <2>1. PICK n \in T : n \in 1 .. k OBVIOUS
  <2>2. k - n \in Nat /\ k - (k - n) = n BY <2>1
  <2>3. k - n \in D BY <2>1, <2>2
  <2>4. QED BY <2>3
<1>2. IsWellFoundedOn(R, Nat) BY NatLessThanWellFounded
<1>3. D \subseteq Nat OBVIOUS
<1> HIDE DEF D, R
<1>4. PICK x \in D : \A y \in D : ~(<<y, x>> \in R) BY <1>1, <1>2, <1>3, WFMin
<1>5. x \in Nat /\ k - x \in T BY <1>4 DEF D
<1>6. ASSUME NEW m \in T PROVE m <= k - x
  <2>1. m \in 1 .. k OBVIOUS
  <2>2. k - m \in D BY <2>1 DEF D
  <2>3. ~(<<k - m, x>> \in R) BY <1>4, <2>2
  <2>4. ~(k - m < x) BY <1>5, <2>1, <2>3 DEF R, OpToRel
  <2>5. QED BY <1>5, <2>1, <2>4
<1>7. QED BY <1>5, <1>6

\* The last entry of a model gives its provider.
LEMMA LastEntry ==
  ASSUME NEW list, IsList(list), NEW n \in DOMAIN list,
         \A m \in DOMAIN list : list[m][1] = list[n][1] => m <= n
  PROVE  /\ list[n][1] \in DOMAIN ByModel(list)
         /\ ByModel(list)[list[n][1]] = list[n][2]
<1> DEFINE i == list[n][1]
           Last(x) == list[x][1] = i /\ \A m \in DOMAIN list : list[m][1] = i => m <= x
           c == CHOOSE x \in DOMAIN list : Last(x)
<1>1. DOMAIN list \subseteq Nat BY ListDomain
<1>2. Last(n) OBVIOUS
<1>3. \A x \in DOMAIN list : Last(x) => x = n BY <1>1, <1>2
<1>4. c = n BY <1>2, <1>3
<1>5. i \in Names(list) BY DEF Names
<1>6. ByModel(list)[i] = list[c][2] BY <1>5 DEF ByModel
<1>7. QED BY <1>4, <1>5, <1>6 DEF ByModel

\* The provider of a model is that of an entry.
LEMMA ByModelEntry ==
  ASSUME NEW list, IsList(list), NEW i \in Names(list)
  PROVE  \E n \in DOMAIN list : list[n][1] = i /\ list[n][2] = ByModel(list)[i]
<1> DEFINE T == {n \in DOMAIN list : list[n][1] = i}
<1>1. Len(list) \in Nat /\ DOMAIN list = 1 .. Len(list) BY ListDomain
<1>2. T # {} /\ T \subseteq 1 .. Len(list) BY <1>1 DEF Names
<1> HIDE DEF T
<1>3. PICK n \in T : \A m \in T : m <= n BY <1>1, <1>2, LastIndex
<1>4. n \in DOMAIN list /\ list[n][1] = i /\ \A m \in DOMAIN list : list[m][1] = i => m <= n
  BY <1>3 DEF T
<1>5. QED BY <1>4, LastEntry

LEMMA DomainByModel == ASSUME NEW list PROVE DOMAIN ByModel(list) = Names(list)
  BY DEF ByModel

-----------------------------------------------------------------------------
(* Every answer is a list of at least one model. *)

LEMMA ShippedList ==
  ASSUME NEW p \in Product
  PROVE  IsList(Shipped(p)) /\ Shipped(p) # <<>>
<1>1. ASSUME NEW a, NEW b PROVE IsList(<<a, b>>) /\ <<a, b>> # <<>> BY DEF IsList
<1>2. ASSUME NEW a, NEW b, NEW c PROVE IsList(<<a, b, c>>) /\ <<a, b, c>> # <<>> BY DEF IsList
<1>3. ASSUME NEW a, NEW b, NEW c, NEW d PROVE IsList(<<a, b, c, d>>) /\ <<a, b, c, d>> # <<>>
  BY DEF IsList
<1>4. CASE p \in {"omniroute", "litellm", "new-api", "portkey", "freellmapi"}
  BY <1>2, <1>4 DEF Shipped
<1>5. CASE p \in {"bifrost", "coai", "llmgateway", "openconnector"}
  BY <1>3, <1>5 DEF Shipped
<1>6. CASE p = "9router"
  BY <1>1, <1>6 DEF Shipped
<1>7. QED BY <1>4, <1>5, <1>6 DEF Product

Body == Bodies \union {[form |-> "none", entries |-> <<>>]}

LEMMA AnswerSome ==
  ASSUME product \in Product, NEW body \in Body
  PROVE  IsList(Answer(body)) /\ Answer(body) # <<>> /\ Names(Answer(body)) # {}
<1>1. IsList(Shipped(product)) /\ Shipped(product) # <<>> BY ShippedList
<1>2. IsList(Answer(body)) /\ Answer(body) # <<>>
  <2>1. CASE body.form = "none" BY <1>1, <2>1 DEF Answer
  <2>2. CASE body.form # "none"
    <3>1. body \in Bodies BY <2>2 DEF Body
    <3>2. IsList(ParseModels(product, body)) BY <3>1, AnswersAreLists DEF IsList
    <3>3. QED BY <1>1, <2>2, <3>2 DEF Answer
  <2>3. QED BY <2>1, <2>2
<1> DEFINE a == Answer(body)
<1> HIDE DEF a
<1>3. IsList(a) /\ a # <<>> BY <1>2 DEF a
<1>4. DOMAIN a # {}
  <2>1. a \in Seq({a[n] : n \in DOMAIN a}) BY <1>3 DEF IsList
  <2> DEFINE S == {a[n] : n \in DOMAIN a}
  <2> HIDE DEF S
  <2>2. a \in Seq(S) BY <2>1 DEF S
  <2>3. 1 \in DOMAIN a BY <1>3, <2>2, HeadAndTail
  <2>4. QED BY <2>3
<1>5. Names(a) # {} BY <1>4 DEF Names
<1>6. QED BY <1>3, <1>5 DEF a

-----------------------------------------------------------------------------
(* The invariant *)

Fields == {"pc", "answer", "queue", "sees", "gone", "put"}
Points == {"idle", "asked", "deleting", "inserting", "counting", "done"}

Shape ==
    /\ product \in Product
    /\ DOMAIN txs = Discovery
    /\ \A d \in Discovery : DOMAIN txs[d] = Fields /\ txs[d].pc \in Points
    /\ over \in [Discovery -> SUBSET Discovery]

\* What is left to insert is the end of the answer
Rest(queue, list) ==
    /\ queue \in Seq({list[n] : n \in DOMAIN list})
    /\ Len(queue) <= Len(list)
    /\ \A n \in DOMAIN queue : queue[n] = list[Len(list) - Len(queue) + n]

\* What was put is of the answer, and a model that is not to come any more has
\* the provider of its last entry.
Inserted(put, queue, list) ==
    /\ \A i \in DOMAIN put : \E n \in DOMAIN list : list[n][1] = i /\ list[n][2] = put[i]
    /\ \A i \in Names(list) :
         \/ i \in DOMAIN put /\ put[i] = ByModel(list)[i]
         \/ \E n \in DOMAIN queue : queue[n][1] = i

\* What is inserted and what is left to insert make up an answer.
Whole(d) ==
    txs[d].pc \in {"asked", "deleting", "inserting"} =>
      /\ \E body \in Body : txs[d].answer = Answer(body)
      /\ Rest(txs[d].queue, txs[d].answer)
      /\ Inserted(txs[d].put, txs[d].queue, txs[d].answer)

\* A row is one that the DELETE of d sees, or was put by one that has
\* committed since.
Known(d) ==
    /\ txs[d].pc = "deleting" =>
         \A i \in DOMAIN stored : <<i, stored[i].born>> \in txs[d].sees \/ stored[i].by \in over[d]
    /\ txs[d].pc = "inserting" =>
         \A i \in DOMAIN stored \ txs[d].gone : stored[i].by \in over[d]

IInv == Shape /\ \A d \in Discovery : Whole(d) /\ Known(d)

LEMMA InitInv == Init => IInv
<1> SUFFICES ASSUME Init PROVE IInv OBVIOUS
<1>1. txs = [d \in Discovery |-> NoTx] BY DEF Init
<1>2. Shape
  <2>1. ASSUME NEW d \in Discovery PROVE DOMAIN txs[d] = Fields /\ txs[d].pc \in Points
    BY <1>1 DEF NoTx, Fields, Points
  <2>2. product \in Product /\ over \in [Discovery -> SUBSET Discovery] BY DEF Init
  <2>3. DOMAIN txs = Discovery BY <1>1
  <2>4. QED BY <2>1, <2>2, <2>3 DEF Shape
<1>3. ASSUME NEW d \in Discovery PROVE Whole(d) /\ Known(d)
  BY <1>1, <1>3 DEF Whole, Known, NoTx
<1>4. QED BY <1>2, <1>3 DEF IInv

\* What a step leaves alone but for the record of one discovery
OnlyOf(d) ==
    /\ DOMAIN txs' = DOMAIN txs /\ DOMAIN (txs'[d]) = Fields
    /\ \A e \in Discovery \ {d} : txs'[e] = txs[e]

LEMMA ShapeKept ==
  ASSUME Shape, NEW d \in Discovery, OnlyOf(d), txs'[d].pc \in Points,
         product' = product, over' \in [Discovery -> SUBSET Discovery]
  PROVE  Shape'
  BY DEF Shape, OnlyOf

\* Another discovery is no wiser and no less so while the list stands.
LEMMA OthersKept ==
  ASSUME NEW e \in Discovery, Whole(e), Known(e), txs'[e] = txs[e],
         product' = product, stored' = stored, over'[e] = over[e]
  PROVE  Whole(e)' /\ Known(e)'
<1>1. \A body : Answer(body)' = Answer(body) BY DEF Answer
<1>2. Whole(e)' BY <1>1 DEF Whole
<1>3. Known(e)' BY DEF Known
<1>4. QED BY <1>2, <1>3

\* A step of d that touches neither the list nor what others know of it
LEMMA OwnStep ==
  ASSUME IInv, NEW d \in Discovery, OnlyOf(d), txs'[d].pc \in Points,
         product' = product, stored' = stored,
         over' \in [Discovery -> SUBSET Discovery],
         \A e \in Discovery \ {d} : over'[e] = over[e],
         Whole(d)', Known(d)'
  PROVE  IInv'
<1>1. Shape' BY ShapeKept DEF IInv
<1>2. ASSUME NEW e \in Discovery \ {d} PROVE Whole(e)' /\ Known(e)'
  BY <1>2, OthersKept DEF IInv, OnlyOf
<1>3. QED BY <1>1, <1>2 DEF IInv

-----------------------------------------------------------------------------
(* The steps of a discovery *)

\* Before the first INSERT
LEMMA AllToCome ==
  ASSUME NEW list, IsList(list)
  PROVE  Rest(list, list) /\ Inserted(NoRows, list, list)
<1>1. Len(list) \in Nat /\ DOMAIN list = 1 .. Len(list) BY ListDomain
<1>2. Rest(list, list) BY <1>1 DEF Rest, IsList
<1>3. Inserted(NoRows, list, list) BY DEF Inserted, NoRows, Names
<1>4. QED BY <1>2, <1>3

LEMMA AskStep ==
  ASSUME IInv, NEW d \in Discovery, Ask(d)
  PROVE  IInv'
<1>1. PICK body \in Body :
        txs' = [txs EXCEPT ![d] = [NoTx EXCEPT !.pc = "asked",
                                               !.answer = Answer(body), !.queue = Answer(body)]]
  BY DEF Ask, Body
<1>2. /\ OnlyOf(d) /\ txs'[d].pc = "asked" /\ txs'[d].put = NoRows
      /\ txs'[d].answer = Answer(body) /\ txs'[d].queue = Answer(body)
  BY <1>1 DEF NoTx, OnlyOf, IInv, Shape, Fields
<1>3. /\ product' = product /\ stored' = stored /\ over' = over BY DEF Ask, history
<1>4. IsList(Answer(body)) BY AnswerSome DEF IInv, Shape
<1>5. Answer(body)' = Answer(body) BY <1>3 DEF Answer
<1>6. Whole(d)' /\ Known(d)' BY <1>2, <1>4, <1>5, AllToCome DEF Whole, Known
<1>7. QED BY <1>2, <1>3, <1>6, OwnStep DEF IInv, Shape, Points

LEMMA DeleteStartStep ==
  ASSUME IInv, NEW d \in Discovery, DeleteStart(d)
  PROVE  IInv'
<1>1. /\ product' = product /\ stored' = stored /\ txs[d].pc = "asked"
      /\ over' = [over EXCEPT ![d] = {}]
  BY DEF DeleteStart
<1>2. /\ OnlyOf(d) /\ txs'[d].pc = "deleting"
      /\ txs'[d].answer = txs[d].answer /\ txs'[d].queue = txs[d].queue /\ txs'[d].put = txs[d].put
      /\ txs'[d].sees = {<<i, stored[i].born>> : i \in DOMAIN stored}
  BY DEF DeleteStart, OnlyOf, IInv, Shape, Fields
<1>3. \A body : Answer(body)' = Answer(body) BY <1>1 DEF Answer
<1>4. Whole(d)' BY <1>1, <1>2, <1>3 DEF IInv, Whole
<1>5. Known(d)' BY <1>1, <1>2 DEF Known
<1>6. over' \in [Discovery -> SUBSET Discovery] /\ \A e \in Discovery \ {d} : over'[e] = over[e]
  BY <1>1 DEF IInv, Shape
<1>7. QED BY <1>1, <1>2, <1>4, <1>5, <1>6, OwnStep DEF Points

LEMMA DeleteEndStep ==
  ASSUME IInv, NEW d \in Discovery, DeleteEnd(d)
  PROVE  IInv'
<1>1. /\ product' = product /\ stored' = stored /\ txs[d].pc = "deleting" /\ over' = over
  BY DEF DeleteEnd, history
<1>2. /\ OnlyOf(d) /\ txs'[d].pc = "inserting"
      /\ txs'[d].answer = txs[d].answer /\ txs'[d].queue = txs[d].queue /\ txs'[d].put = txs[d].put
      /\ txs'[d].gone = {i \in DOMAIN stored : <<i, stored[i].born>> \in txs[d].sees}
  BY DEF DeleteEnd, OnlyOf, IInv, Shape, Fields
<1>3. \A body : Answer(body)' = Answer(body) BY <1>1 DEF Answer
<1>4. Whole(d)' BY <1>1, <1>2, <1>3 DEF IInv, Whole
<1>5. Known(d)' BY <1>1, <1>2 DEF IInv, Known
<1>6. QED BY <1>1, <1>2, <1>4, <1>5, OwnStep DEF IInv, Shape, Points

LEMMA OverAt ==
  ASSUME NEW i, NEW v, NEW f
  PROVE  /\ DOMAIN Over([x \in {i} |-> v], f) = DOMAIN f \union {i}
         /\ Over([x \in {i} |-> v], f)[i] = v
         /\ \A x \in DOMAIN f \ {i} : Over([y \in {i} |-> v], f)[x] = f[x]
  BY DEF Over

\* One more model is put.
LEMMA OneInserted ==
  ASSUME NEW list, IsList(list), NEW queue, queue # <<>>, NEW put,
         Rest(queue, list), Inserted(put, queue, list)
  PROVE  LET next == Over([i \in {Head(queue)[1]} |-> Head(queue)[2]], put)
         IN  Rest(Tail(queue), list) /\ Inserted(next, Tail(queue), list)
<1> DEFINE S == {list[n] : n \in DOMAIN list}
           e == Head(queue)
           next == Over([i \in {e[1]} |-> e[2]], put)
           k == Len(list) - Len(queue) + 1
<1>1. Len(list) \in Nat /\ DOMAIN list = 1 .. Len(list) BY ListDomain
<1>2. queue \in Seq(S) BY DEF Rest
<1>3. /\ e = queue[1] /\ 1 \in DOMAIN queue /\ Tail(queue) \in Seq(S)
      /\ Len(queue) \in Nat \ {0} /\ Len(Tail(queue)) = Len(queue) - 1
      /\ DOMAIN queue = 1 .. Len(queue) /\ DOMAIN Tail(queue) = 1 .. Len(queue) - 1
      /\ \A n \in DOMAIN Tail(queue) : Tail(queue)[n] = queue[n + 1]
  <2> HIDE DEF S
  <2>1. QED BY <1>2, HeadAndTail
<1>4. /\ Len(queue) <= Len(list)
      /\ \A n \in DOMAIN queue : queue[n] = list[Len(list) - Len(queue) + n]
  BY DEF Rest
<1>5. k \in DOMAIN list /\ e = list[k] BY <1>1, <1>3, <1>4
<1>6. DOMAIN next = DOMAIN put \union {e[1]} /\ next[e[1]] = e[2]
      /\ \A x \in DOMAIN put \ {e[1]} : next[x] = put[x]
  <2> HIDE DEF e
  <2>1. QED BY DEF Over
<1> HIDE DEF S, e, next
<1>7. Rest(Tail(queue), list)
  <2>1. Len(Tail(queue)) <= Len(list) BY <1>1, <1>3, <1>4
  <2>2. ASSUME NEW n \in DOMAIN Tail(queue)
        PROVE  Tail(queue)[n] = list[Len(list) - Len(Tail(queue)) + n]
    <3>1. Tail(queue)[n] = queue[n + 1] /\ n + 1 \in DOMAIN queue BY <1>3
    <3>2. queue[n + 1] = list[Len(list) - Len(queue) + (n + 1)] BY <1>4, <3>1
    <3>3. Len(list) - Len(queue) + (n + 1) = Len(list) - Len(Tail(queue)) + n BY <1>1, <1>3
    <3>4. QED BY <3>1, <3>2, <3>3
  <2>3. QED BY <1>3, <2>1, <2>2 DEF Rest, S
<1>8. ASSUME NEW i \in DOMAIN next
      PROVE  \E n \in DOMAIN list : list[n][1] = i /\ list[n][2] = next[i]
  <2>1. CASE i = e[1] BY <1>5, <1>6, <2>1
  <2>2. CASE i # e[1]
    <3>1. i \in DOMAIN put /\ next[i] = put[i] BY <1>6, <2>2
    <3>2. QED BY <3>1 DEF Inserted
  <2>3. QED BY <2>1, <2>2
<1>9. ASSUME NEW i \in Names(list),
             ~\E n \in DOMAIN Tail(queue) : Tail(queue)[n][1] = i
      PROVE  i \in DOMAIN next /\ next[i] = ByModel(list)[i]
  <2>1. CASE i = e[1]
    <3>1. ASSUME NEW m \in DOMAIN list, list[m][1] = i PROVE m <= k
      <4>1. SUFFICES ASSUME m > k PROVE FALSE BY <1>1, <1>5
      <4>2. m - k \in DOMAIN Tail(queue) BY <1>1, <1>3, <1>4, <1>5, <4>1
      <4>3. Tail(queue)[m - k] = list[Len(list) - Len(Tail(queue)) + (m - k)]
        BY <1>7, <4>2 DEF Rest
      <4>4. Len(list) - Len(Tail(queue)) + (m - k) = m BY <1>1, <1>3
      <4>5. QED BY <1>9, <3>1, <4>2, <4>3, <4>4
    <3>2. ByModel(list)[i] = e[2] BY <1>5, <2>1, <3>1, LastEntry
    <3>3. QED BY <1>6, <2>1, <3>2
  <2>2. CASE i # e[1]
    <3>1. ~\E n \in DOMAIN queue : queue[n][1] = i
      <4>1. ASSUME NEW n \in DOMAIN queue, queue[n][1] = i PROVE FALSE
        <5>1. n # 1 BY <1>3, <2>2, <4>1
        <5>2. n - 1 \in DOMAIN Tail(queue) BY <1>3, <5>1
        <5>3. Tail(queue)[n - 1] = queue[n] BY <1>3, <5>1, <5>2
        <5>4. QED BY <1>9, <4>1, <5>2, <5>3
      <4>2. QED BY <4>1
    <3>2. i \in DOMAIN put /\ put[i] = ByModel(list)[i] BY <3>1 DEF Inserted
    <3>3. QED BY <1>6, <2>2, <3>2
  <2>3. QED BY <2>1, <2>2
<1>10. Inserted(next, Tail(queue), list) BY <1>8, <1>9 DEF Inserted
<1>11. QED BY <1>7, <1>10 DEF next, e

\* What was put once the last model is
LEMMA AllInserted ==
  ASSUME NEW list, NEW put, Inserted(put, <<>>, list)
  PROVE  DOMAIN put = Names(list) /\ \A i \in Names(list) : put[i] = ByModel(list)[i]
<1>1. \A i \in Names(list) : i \in DOMAIN put /\ put[i] = ByModel(list)[i] BY DEF Inserted
<1>2. DOMAIN put \subseteq Names(list) BY DEF Inserted, Names
<1>3. QED BY <1>1, <1>2

LEMMA InsertStep ==
  ASSUME IInv, NEW d \in Discovery, Insert(d)
  PROVE  IInv'
<1>1. /\ product' = product /\ stored' = stored /\ over' = over
      /\ txs[d].pc = "inserting" /\ txs[d].queue # <<>>
  BY DEF Insert, history
<1>2. /\ OnlyOf(d) /\ txs'[d].pc = "inserting"
      /\ txs'[d].answer = txs[d].answer /\ txs'[d].gone = txs[d].gone
      /\ txs'[d].put = Upserted(d)
      /\ txs'[d].queue = Tail(txs[d].queue)
  BY <1>1 DEF Insert, OnlyOf, IInv, Shape, Fields
<1>3. \A body : Answer(body)' = Answer(body) BY <1>1 DEF Answer
<1>4. Whole(d)'
  <2>1. PICK body \in Body : txs[d].answer = Answer(body) BY <1>1 DEF IInv, Whole
  <2>2. IsList(txs[d].answer) BY <2>1, AnswerSome DEF IInv, Shape
  <2>3. Rest(txs[d].queue, txs[d].answer) /\ Inserted(txs[d].put, txs[d].queue, txs[d].answer)
    BY <1>1 DEF IInv, Whole
  <2>4. Rest(Tail(txs[d].queue), txs[d].answer) /\ Inserted(Upserted(d), Tail(txs[d].queue), txs[d].answer)
    BY <1>1, <2>2, <2>3, OneInserted DEF Upserted
  <2>5. txs'[d].answer = Answer(body)' BY <1>2, <1>3, <2>1
  <2>6. QED BY <1>2, <2>4, <2>5 DEF Whole
<1>5. Known(d)' BY <1>1, <1>2 DEF IInv, Known
<1>6. QED BY <1>1, <1>2, <1>4, <1>5, OwnStep DEF IInv, Shape, Points

\* The end of a discovery, whatever became of it
LEMMA FinishStep ==
  ASSUME IInv, NEW d \in Discovery, Finish(d),
         product' = product, stored' = stored, over' = over
  PROVE  IInv' /\ OnlyOf(d) /\ txs'[d].pc = "done"
<1>1. OnlyOf(d) /\ txs'[d].pc = "done" BY DEF Finish, NoTx, OnlyOf, IInv, Shape, Fields
<1>2. Whole(d)' /\ Known(d)' BY <1>1 DEF Whole, Known
<1>3. QED BY <1>1, <1>2, OwnStep DEF IInv, Shape, Points

LEMMA CommitStep ==
  ASSUME IInv, NEW d \in Discovery, Commit(d)
  PROVE  IInv'
<1>1. /\ product' = product /\ stored' = Committed(d) /\ txs[d].pc = "inserting"
      /\ over' = [e \in Discovery |-> IF e # d /\ Writing(e) THEN over[e] \union {d} ELSE over[e]]
  BY DEF Commit
<1>2. OnlyOf(d) /\ txs'[d].pc = "counting" BY DEF Commit, OnlyOf, IInv, Shape, Fields
<1>3. over' \in [Discovery -> SUBSET Discovery] BY <1>1 DEF IInv, Shape
<1>4. Shape' BY <1>1, <1>2, <1>3, ShapeKept DEF IInv, Points
<1>5. Whole(d)' /\ Known(d)' BY <1>2 DEF Whole, Known
<1>6. ASSUME NEW e \in Discovery \ {d} PROVE Whole(e)' /\ Known(e)'
  <2>1. txs'[e] = txs[e] BY <1>2 DEF OnlyOf
  <2>2. \A body : Answer(body)' = Answer(body) BY <1>1 DEF Answer
  <2>3. Whole(e)' BY <2>1, <2>2 DEF IInv, Whole
  <2>4. ASSUME Writing(e), NEW i \in DOMAIN stored'
        PROVE  \/ stored'[i].by \in over'[e]
               \/ i \in DOMAIN stored /\ stored'[i] = stored[i] /\ over[e] \subseteq over'[e]
    BY <1>1, <2>4 DEF Committed
  <2>5. Known(e)'
    BY <2>1, <2>4 DEF IInv, Known, Writing
  <2>6. QED BY <2>3, <2>5
<1>7. QED BY <1>4, <1>5, <1>6 DEF IInv

LEMMA NextInv == IInv /\ [Next]_vars => IInv'
<1> SUFFICES ASSUME IInv, [Next]_vars PROVE IInv' OBVIOUS
<1>1. ASSUME NEW d \in Discovery, Count(d) PROVE IInv'
  BY <1>1, FinishStep DEF Count
<1>2. ASSUME NEW d \in Discovery, DeadlockVictim(d) \/ Rollback(d) PROVE IInv'
  BY <1>2, FinishStep DEF DeadlockVictim, Rollback, history
<1>3. CASE UNCHANGED vars
  <2>1. /\ txs' = txs /\ product' = product /\ stored' = stored /\ over' = over BY <1>3 DEF vars, history
  <2>2. Shape' BY <2>1 DEF IInv, Shape
  <2>3. ASSUME NEW e \in Discovery PROVE Whole(e)' /\ Known(e)'
    BY <2>1, OthersKept DEF IInv
  <2>4. QED BY <2>2, <2>3 DEF IInv
<1>4. QED
  BY <1>1, <1>2, <1>3, AskStep, DeleteStartStep, DeleteEndStep, InsertStep, CommitStep DEF Next, Step

-----------------------------------------------------------------------------
(* The refinement *)

Answers  == {ByModel(Answer(body)) : body \in Body}
Rows     == [i \in DOMAIN stored |-> [provider |-> stored[i].provider, by |-> stored[i].by]]
Writers  == {d \in Discovery : Writing(d)}

LEMMA InitRefines == Init => Register!Init
<1> SUFFICES ASSUME Init PROVE Register!Init OBVIOUS
<1>1. \A i \in DOMAIN stored : stored[i].by \notin Discovery
  BY DiscoveryAssumption DEF Init, NoRows
<1>2. Writers = {} BY DEF Init, Writers, Writing, NoTx
<1>3. over = [d \in Discovery |-> {}] BY DEF Init
<1>4. QED BY <1>1, <1>2, <1>3 DEF Register!Init, Writers

\* What readers see changes only when a transaction begins, commits or is
\* rolled back.
LEMMA Unseen ==
  ASSUME product' = product, stored' = stored, over' = over, Writers' = Writers
  PROVE  UNCHANGED Register!register
<1>1. \A body : Answer(body)' = Answer(body) BY DEF Answer
<1>2. Answers' = Answers BY <1>1 DEF Answers, Body
<1>3. QED BY <1>2 DEF Register!register, Answers, Body, Writers

LEMMA BeginRefines ==
  ASSUME IInv, NEW d \in Discovery, DeleteStart(d)
  PROVE  Register!Begin(d)
<1>1. /\ product' = product /\ stored' = stored /\ txs[d].pc = "asked"
      /\ over' = [over EXCEPT ![d] = {}]
  BY DEF DeleteStart
<1>2. /\ txs'[d].pc = "deleting" /\ \A e \in Discovery \ {d} : txs'[e] = txs[e]
  BY DEF DeleteStart, IInv, Shape, Fields
<1>3. d \notin Writers /\ Writers' = Writers \union {d} BY <1>1, <1>2 DEF Writers, Writing
<1>4. \A body : Answer(body)' = Answer(body) BY <1>1 DEF Answer
<1>5. Answers' = Answers BY <1>4 DEF Answers, Body
<1>6. QED BY <1>1, <1>3, <1>5 DEF Register!Begin, Answers, Body, Writers

LEMMA GiveUpRefines ==
  ASSUME IInv, NEW d \in Discovery, Writing(d), Finish(d),
         product' = product, stored' = stored, over' = over
  PROVE  Register!GiveUp(d)
<1>1. OnlyOf(d) /\ txs'[d].pc = "done" BY FinishStep
<1>2. d \in Writers /\ Writers' = Writers \ {d} BY <1>1 DEF Writers, Writing, OnlyOf
<1>3. \A body : Answer(body)' = Answer(body) BY DEF Answer
<1>4. Answers' = Answers BY <1>3 DEF Answers, Body
<1>5. QED BY <1>2, <1>4 DEF Register!GiveUp, Answers, Body, Writers

LEMMA CommitRefines ==
  ASSUME IInv, NEW d \in Discovery, Commit(d)
  PROVE  Register!ComeIn(d)
<1> DEFINE a == ByModel(txs[d].answer)
           kept == DOMAIN stored \ txs[d].gone
<1>1. /\ product' = product /\ stored' = Committed(d) /\ txs[d].pc = "inserting" /\ txs[d].queue = <<>>
      /\ over' = [e \in Discovery |-> IF e # d /\ Writing(e) THEN over[e] \union {d} ELSE over[e]]
  BY DEF Commit
<1>2. OnlyOf(d) /\ txs'[d].pc = "counting" BY DEF Commit, OnlyOf, IInv, Shape, Fields
<1>3. d \in Writers /\ Writers' = Writers \ {d} BY <1>1, <1>2 DEF Writers, Writing, OnlyOf
<1>4. over' = [e \in Discovery |-> IF e \in Writers' THEN over[e] \union {d} ELSE over[e]]
  BY <1>1, <1>3 DEF Writers
<1>5. /\ a \in Answers /\ DOMAIN a # {}
      /\ DOMAIN txs[d].put = DOMAIN a /\ \A i \in DOMAIN a : txs[d].put[i] = a[i]
  <2>1. PICK body \in Body : txs[d].answer = Answer(body) BY <1>1 DEF IInv, Whole
  <2>2. Names(txs[d].answer) # {} BY <2>1, AnswerSome DEF IInv, Shape
  <2>3. Inserted(txs[d].put, <<>>, txs[d].answer) BY <1>1 DEF IInv, Whole
  <2>4. /\ DOMAIN txs[d].put = Names(txs[d].answer)
        /\ \A i \in Names(txs[d].answer) : txs[d].put[i] = ByModel(txs[d].answer)[i]
    BY <2>3, AllInserted
  <2>5. QED BY <2>1, <2>2, <2>4, DomainByModel DEF Answers
<1>7. \A i \in kept : stored[i].by \in over[d] BY <1>1 DEF IInv, Known
<1>8. Rows' = [i \in DOMAIN a \union kept |->
                   IF i \in DOMAIN a THEN [provider |-> a[i], by |-> d] ELSE Rows[i]]
  <2>1. DOMAIN stored' = DOMAIN a \union kept BY <1>1, <1>5 DEF Committed
  <2>2. ASSUME NEW i \in DOMAIN a
        PROVE  stored'[i].provider = a[i] /\ stored'[i].by = d
    BY <1>1, <1>5, <2>2 DEF Committed
  <2>3. ASSUME NEW i \in kept, i \notin DOMAIN a
        PROVE  stored'[i] = stored[i]
    BY <1>1, <1>5, <2>3 DEF Committed
  <2> HIDE DEF a
  <2>4. QED BY <2>1, <2>2, <2>3 DEF Rows
<1>9. \A body : Answer(body)' = Answer(body) BY <1>1 DEF Answer
<1>10. Answers' = Answers BY <1>9 DEF Answers, Body
<1>11. \A i \in kept : Rows[i].by \in over[d] BY <1>7 DEF Rows
<1>12. kept \in SUBSET DOMAIN Rows BY DEF Rows
<1>13. Rows' = Register!Merged(d, a, kept) BY <1>8 DEF Register!Merged, Rows
<1>14. QED
  <2> HIDE DEF a, kept
  <2>1. /\ \E b \in Answers, k \in SUBSET DOMAIN Rows :
             /\ DOMAIN b # {}
             /\ \A i \in k : Rows[i].by \in over[d]
             /\ Rows' = Register!Merged(d, b, k)
        /\ Writers' = Writers \ {d} /\ d \in Writers
        /\ over' = [e \in Discovery |-> IF e \in Writers' THEN over[e] \union {d} ELSE over[e]]
        /\ Answers' = Answers
    BY <1>3, <1>4, <1>5, <1>10, <1>11, <1>12, <1>13
  <2>2. QED BY <2>1 DEF Register!ComeIn, Answers, Body, Rows, Writers

LEMMA NextRefines == IInv /\ [Next]_vars => [Register!Next]_(Register!register)
<1> SUFFICES ASSUME IInv, [Next]_vars PROVE [Register!Next]_(Register!register) OBVIOUS
<1>1. ASSUME NEW d \in Discovery, Ask(d) PROVE UNCHANGED Register!register
  <2>1. /\ product' = product /\ stored' = stored /\ over' = over /\ txs[d].pc = "idle"
        /\ txs'[d].pc = "asked" /\ \A e \in Discovery \ {d} : txs'[e] = txs[e]
    BY <1>1 DEF Ask, history, NoTx, IInv, Shape, Fields
  <2>2. Writers' = Writers BY <2>1 DEF Writers, Writing
  <2>3. QED BY <2>1, <2>2, Unseen
<1>2. ASSUME NEW d \in Discovery, DeleteEnd(d) \/ Insert(d) PROVE UNCHANGED Register!register
  <2>1. /\ product' = product /\ stored' = stored /\ over' = over /\ txs[d].pc \in {"deleting", "inserting"}
        /\ txs'[d].pc = "inserting" /\ \A e \in Discovery \ {d} : txs'[e] = txs[e]
    BY <1>2 DEF DeleteEnd, Insert, history, IInv, Shape, Fields
  <2>2. Writers' = Writers BY <2>1 DEF Writers, Writing
  <2>3. QED BY <2>1, <2>2, Unseen
<1>3. ASSUME NEW d \in Discovery, Count(d) PROVE UNCHANGED Register!register
  <2>1. /\ product' = product /\ stored' = stored /\ over' = over /\ txs[d].pc = "counting" /\ Finish(d)
    BY <1>3 DEF Count
  <2>2. OnlyOf(d) /\ txs'[d].pc = "done" BY <2>1, FinishStep
  <2>3. Writers' = Writers BY <2>1, <2>2 DEF Writers, Writing, OnlyOf
  <2>4. QED BY <2>1, <2>3, Unseen
<1>4. ASSUME NEW d \in Discovery, DeadlockVictim(d) PROVE Register!GiveUp(d)
  <2>1. PICK S \in SUBSET Discovery : d \in S /\ Circle(S) BY <1>4 DEF DeadlockVictim
  <2>2. PICK e \in S : WaitsFor(d, e) BY <2>1 DEF Circle
  <2>3. Wanted(d) # {} BY <2>2 DEF WaitsFor
  <2>4. Writing(d) BY <2>3 DEF Wanted, Writing
  <2>5. QED BY <1>4, <2>4, GiveUpRefines DEF DeadlockVictim, history
<1>5. ASSUME NEW d \in Discovery, Rollback(d) PROVE Register!GiveUp(d)
  BY <1>5, GiveUpRefines DEF Rollback, history
<1>6. CASE UNCHANGED vars
  <2>1. product' = product /\ stored' = stored /\ over' = over /\ txs' = txs BY <1>6 DEF vars, history
  <2>2. Writers' = Writers BY <2>1 DEF Writers, Writing
  <2>3. QED BY <2>1, <2>2, Unseen
<1>7. ASSUME NEW d \in Discovery, Step(d) PROVE [Register!Next]_(Register!register)
  BY <1>7, <1>1, <1>2, <1>3, BeginRefines, CommitRefines DEF Step, Register!Next
<1>8. QED BY <1>4, <1>5, <1>6, <1>7 DEF Next, Register!Next

-----------------------------------------------------------------------------

\* Whoever reads a router's models sees whole answers, whatever number of
\* starts, checks and administrators have them discovered at once and whichever
\* of the transactions fail: UpsertModels implements ModelRegister.
THEOREM DiscoveryIsRegister == Spec => IsRegister
<1>1. Init => IInv BY InitInv
<1>2. IInv /\ [Next]_vars => IInv' BY NextInv
<1>3. Init => Register!Init BY InitRefines
<1>4. IInv /\ [Next]_vars => [Register!Next]_(Register!register) BY NextRefines
<1>5. QED BY <1>1, <1>2, <1>3, <1>4, PTL DEF Spec, IsRegister, Register!Spec

-----------------------------------------------------------------------------
(* Every answer names providers, but for identifiers that begin with a slash *)

Sound(m) == m[2] = "" => m[1].vendor = ""

LEMMA SoundPair ==
  ASSUME NEW i, NEW v, v = "" => i.vendor = ""
  PROVE  Sound(<<i, v>>)
  BY DEF Sound

\* What an entry falls back on when it names no owner
LEMMA NamedSound ==
  ASSUME NEW e, NEW fallback, fallback # ""
  PROVE  /\ Named(e, fallback) = "" => e.id.vendor = ""
         /\ ListedBy(e, fallback) # ""
         /\ First(e.owner, fallback) # "" /\ First(e.provider, fallback) # ""
  BY DEF Named, ListedBy, First

LEMMA NothingIn == DOMAIN <<>> = {}
  OBVIOUS

LEMMA CommonSound ==
  ASSUME NEW body, NEW fallback, fallback # "", NEW n \in DOMAIN ParseCommon(body, fallback)
  PROVE  Sound(ParseCommon(body, fallback)[n])
<1> DEFINE e == body.entries
<1>1. CASE body.form = "object"
  <2>1. ParseCommon(body, fallback) = [x \in DOMAIN e |-> <<e[x].id, Named(e[x], fallback)>>]
    BY <1>1 DEF ParseCommon
  <2>2. ParseCommon(body, fallback)[n] = <<e[n].id, Named(e[n], fallback)>> BY <2>1
  <2>3. QED BY <2>2, NamedSound, SoundPair
<1>2. CASE body.form = "list"
  <2>1. ParseCommon(body, fallback) = [x \in DOMAIN e |-> <<e[x].id, ListedBy(e[x], fallback)>>]
    BY <1>2 DEF ParseCommon
  <2>2. ParseCommon(body, fallback)[n] = <<e[n].id, ListedBy(e[n], fallback)>> BY <2>1
  <2>3. QED BY <2>2, NamedSound, SoundPair
<1>3. CASE body.form \notin {"object", "list"}
  <2>1. ParseCommon(body, fallback) = <<>> BY <1>3 DEF ParseCommon
  <2>2. QED BY <2>1, NothingIn
<1>4. QED BY <1>1, <1>2, <1>3

LEMMA ObjectSound ==
  ASSUME NEW body, NEW fallback, fallback # "", NEW n \in DOMAIN ParseObject(body, fallback)
  PROVE  Sound(ParseObject(body, fallback)[n])
<1> DEFINE e == body.entries
<1>1. CASE body.form = "object"
  <2>1. ParseObject(body, fallback) = [x \in DOMAIN e |-> <<e[x].id, First(e[x].owner, fallback)>>]
    BY <1>1 DEF ParseObject
  <2>2. ParseObject(body, fallback)[n] = <<e[n].id, First(e[n].owner, fallback)>> BY <2>1
  <2>3. QED BY <2>2, NamedSound, SoundPair
<1>2. CASE body.form # "object"
  <2>1. ParseObject(body, fallback) = <<>> BY <1>2 DEF ParseObject
  <2>2. QED BY <2>1, NothingIn
<1>3. QED BY <1>1, <1>2

LEMMA ParsedSound ==
  ASSUME NEW p \in Product, NEW body, NEW n \in DOMAIN ParseModels(p, body)
  PROVE  Sound(ParseModels(p, body)[n])
<1> DEFINE e == body.entries
<1>1. \A x : inferLiteLLMProvider(x) = "" => x.vendor = "" BY DEF inferLiteLLMProvider
<1>2. CASE p \in {"omniroute", "9router"}
  BY <1>2, ObjectSound DEF ParseModels, OmniRouteModels, NineRouterModels
<1>3. CASE p \in {"new-api", "portkey", "bifrost", "coai", "llmgateway"}
  BY <1>3, CommonSound
     DEF ParseModels, NewApiModels, PortkeyModels, BifrostModels, CoAIModels, LLMGatewayModels
<1>4. CASE p = "openconnector"
  <2>1. CASE body.form = "list"
    <3>1. ParseModels(p, body) = [x \in DOMAIN e |-> <<NamedId(e[x]), ListedBy(e[x], "openconnector")>>]
      BY <1>4, <2>1 DEF ParseModels, OpenConnectorModels
    <3>2. ParseModels(p, body)[n] = <<NamedId(e[n]), ListedBy(e[n], "openconnector")>> BY <3>1
    <3>3. QED BY <3>2, NamedSound, SoundPair
  <2>2. CASE body.form # "list"
    BY <1>4, <2>2, CommonSound DEF ParseModels, OpenConnectorModels
  <2>3. QED BY <2>1, <2>2
<1>5. CASE p = "freellmapi"
  <2>1. CASE body.form = "list"
    <3>1. ParseModels(p, body) = [x \in DOMAIN e |-> <<e[x].id, First(e[x].provider, "freellmapi")>>]
      BY <1>5, <2>1 DEF ParseModels, FreeLLMAPIModels
    <3>2. ParseModels(p, body)[n] = <<e[n].id, First(e[n].provider, "freellmapi")>> BY <3>1
    <3>3. QED BY <3>2, NamedSound, SoundPair
  <2>2. CASE body.form # "list"
    BY <1>5, <2>2, CommonSound DEF ParseModels, FreeLLMAPIModels
  <2>3. QED BY <2>1, <2>2
<1>6. CASE p = "litellm"
  <2> DEFINE named(x) == IF x.owner \in {"", "system", "openai"}
                         THEN inferLiteLLMProvider(x.id) ELSE x.owner
             k == SelectSeq(e, LAMBDA x : NamedId(x) # NoId)
  <2>1. CASE body.form = "object"
    <3>1. ParseModels(p, body) = [x \in DOMAIN e |-> <<e[x].id, named(e[x])>>]
      BY <1>6, <2>1 DEF ParseModels, LiteLLMModels
    <3>2. ParseModels(p, body)[n] = <<e[n].id, named(e[n])>> BY <3>1
    <3>3. named(e[n]) = "" => e[n].id.vendor = "" BY <1>1
    <3>4. QED BY <3>2, <3>3, SoundPair
  <2>2. CASE body.form = "list"
    <3>1. ParseModels(p, body)
            = [x \in DOMAIN k |-> <<NamedId(k[x]), inferLiteLLMProvider(NamedId(k[x]))>>]
      BY <1>6, <2>2 DEF ParseModels, LiteLLMModels
    <3> HIDE DEF k
    <3>2. ParseModels(p, body)[n] = <<NamedId(k[n]), inferLiteLLMProvider(NamedId(k[n]))>> BY <3>1
    <3>3. QED BY <1>1, <3>2, SoundPair
  <2>3. CASE body.form \notin {"object", "list"}
    <3>1. ParseModels(p, body) = <<>> BY <1>6, <2>3 DEF ParseModels, LiteLLMModels
    <3>2. QED BY <3>1, NothingIn
  <2>4. QED BY <2>1, <2>2, <2>3
<1>7. QED BY <1>2, <1>3, <1>4, <1>5, <1>6 DEF Product

LEMMA SoundTuple ==
  ASSUME NEW a, NEW b, NEW c, NEW d, Sound(a), Sound(b), Sound(c), Sound(d)
  PROVE  /\ \A n \in DOMAIN <<a, b>> : Sound(<<a, b>>[n])
         /\ \A n \in DOMAIN <<a, b, c>> : Sound(<<a, b, c>>[n])
         /\ \A n \in DOMAIN <<a, b, c, d>> : Sound(<<a, b, c, d>>[n])
  OBVIOUS

LEMMA ShippedSound ==
  ASSUME NEW p \in Product
  PROVE  \A n \in DOMAIN Shipped(p) : Sound(Shipped(p)[n])
<1> DEFINE a == <<gpt4o, "openai">>
           b == <<sonnet, "anthropic">>
           c == <<deepseek, "deepseek">>
           f == <<flash, "gemini">>
           g == <<pro, "gemini">>
           free(r)   == <<Id(NoVendor, "free", r), "freellmapi">>
           routed(r) == <<Id("9router", "", r), "9router">>
           tool(r)   == <<Id(NoVendor, "tool", r), "openconnector">>
<1>1. Sound(a) /\ Sound(b) /\ Sound(c) /\ Sound(f) /\ Sound(g) BY SoundPair
<1>2. \A r : Sound(free(r)) /\ Sound(routed(r)) /\ Sound(tool(r)) BY SoundPair
<1>3. \/ Shipped(p) = <<a, b, f>>
      \/ Shipped(p) = <<a, b, c>>
      \/ Shipped(p) = <<a, b, c, g>>
      \/ Shipped(p) = <<free("gpt-4o"), free("claude-3.5"), free("deepseek-v3")>>
      \/ Shipped(p) = <<routed("auto"), routed("fast")>>
      \/ Shipped(p) = <<a, b, tool("mcp-tool-connector"), tool("saas-action-runner")>>
  BY DEF Shipped, Product
<1> HIDE DEF a, b, c, f, g, free, routed, tool
<1>4. QED BY <1>1, <1>2, <1>3, SoundTuple

LEMMA AnswerSound ==
  ASSUME product \in Product, NEW body, NEW n \in DOMAIN Answer(body)
  PROVE  Sound(Answer(body)[n])
<1>1. \/ Answer(body) = ParseModels(product, body)
      \/ Answer(body) = Shipped(product)
  BY DEF Answer
<1>2. QED BY <1>1, ParsedSound, ShippedSound

-----------------------------------------------------------------------------
(* Locks, authors and counts.  A transaction holds models only while it    *)
(* inserts, and nobody else holds them.  Until another discovery commits,  *)
(* the list is the answer of the last one, if it began after all that      *)
(* committed before it.                                                    *)

Locks ==
    /\ \A d \in Discovery : txs[d].pc # "inserting" => txs[d].put = NoRows /\ txs[d].gone = {}
    /\ \A d, e \in Discovery : d # e => Held(d) \intersect Held(e) = {}

Authored == \A i \in DOMAIN stored :
    {stored[i].by, stored[i].born} \subseteq Discovery \union {Nobody}

\* The rows are those of a list.
RowsOf(rows, list) ==
    /\ IsList(list) /\ DOMAIN rows = Names(list)
    /\ \A i \in DOMAIN rows : \E n \in DOMAIN list : list[n][1] = i /\ list[n][2] = rows[i].provider

IsAnswer(d) == RowsOf(stored, txs[d].answer)

CountInv ==
    /\ {last, counter} \subseteq Discovery \union {Nobody}
    /\ last # Nobody => txs[last].pc \in {"counting", "done"}
    /\ counter # Nobody => txs[counter].pc = "done"
    /\ last # Nobody /\ over[last] = {} /\ txs[last].pc = "counting" => IsAnswer(last)
    /\ CountsAgree

ListInv == IInv /\ Locks /\ Authored /\ ProviderNamed /\ CountInv

LEMMA InitList == Init => ListInv
<1> SUFFICES ASSUME Init PROVE ListInv OBVIOUS
<1>1. IInv BY InitInv
<1>2. txs = [d \in Discovery |-> NoTx] /\ last = Nobody /\ counter = Nobody BY DEF Init
<1>3. Locks BY <1>2 DEF Locks, Held, NoTx, NoRows
<1>4. PICK list \in {<<>>, Shipped(product)} :
        stored = [i \in Names(list) |->
                    [provider |-> ByModel(list)[i], by |-> Nobody, born |-> Nobody]]
  BY DEF Init
<1>5. Authored BY <1>4 DEF Authored
<1>6. ProviderNamed
  <2>1. product \in Product BY <1>1 DEF IInv, Shape
  <2>2. ASSUME NEW i \in Names(list), list = Shipped(product)
        PROVE  ByModel(list)[i] = "" => i.vendor = ""
    <3>1. IsList(list) BY <2>1, <2>2, ShippedList
    <3>2. PICK n \in DOMAIN list : list[n][1] = i /\ list[n][2] = ByModel(list)[i]
      BY <3>1, ByModelEntry
    <3>3. Sound(list[n]) BY <2>1, <2>2, ShippedSound
    <3>4. QED BY <3>2, <3>3 DEF Sound
  <2>3. ASSUME NEW i \in DOMAIN stored
        PROVE  stored[i].provider = "" => i.vendor = ""
    <3>1. i \in Names(list) /\ stored[i].provider = ByModel(list)[i] BY <1>4
    <3>2. list = Shipped(product) BY <1>4, <3>1 DEF Names
    <3>3. QED BY <2>2, <3>1, <3>2
  <2>4. QED BY <2>3 DEF ProviderNamed
<1>7. CountInv BY <1>2 DEF CountInv, CountsAgree
<1>8. QED BY <1>1, <1>3, <1>5, <1>6, <1>7 DEF ListInv

\* A step of d that touches neither the list nor the counts
LEMMA QuietStep ==
  ASSUME ListInv, NEW d \in Discovery, OnlyOf(d), IInv',
         UNCHANGED <<stored, counts, last, counter>>,
         \A e \in Discovery \ {d} : over'[e] = over[e],
         txs[d].pc \in {"idle", "asked", "deleting", "inserting"},
         txs'[d].pc # "inserting" => txs'[d].put = NoRows /\ txs'[d].gone = {},
         \A e \in Discovery \ {d} : Held(d)' \intersect Held(e) = {}
  PROVE  ListInv'
<1>1. \A e \in Discovery \ {d} : txs'[e] = txs[e] /\ Held(e)' = Held(e) BY DEF OnlyOf, Held
<1>2. Locks' BY <1>1 DEF ListInv, Locks
<1>3. Authored' /\ ProviderNamed' BY DEF ListInv, Authored, ProviderNamed
<1>4. last # d /\ counter # d
  BY DiscoveryAssumption DEF ListInv, CountInv
<1>5. last \in (Discovery \ {d}) \union {Nobody} /\ counter \in (Discovery \ {d}) \union {Nobody}
  BY <1>4 DEF ListInv, CountInv
<1>6. /\ last # Nobody => txs'[last] = txs[last] /\ over'[last] = over[last]
      /\ counter # Nobody => txs'[counter] = txs[counter]
  BY <1>1, <1>5
<1>7. CountsAgree' BY <1>6 DEF ListInv, CountInv, CountsAgree
<1>8. CountInv' BY <1>6, <1>7 DEF ListInv, CountInv, IsAnswer
<1>9. QED BY <1>2, <1>3, <1>8 DEF ListInv

LEMMA AskList ==
  ASSUME ListInv, NEW d \in Discovery, Ask(d), IInv'
  PROVE  ListInv'
<1>1. PICK a : txs' = [txs EXCEPT ![d] = [NoTx EXCEPT !.pc = "asked", !.answer = a, !.queue = a]]
  BY DEF Ask
<1>2. /\ OnlyOf(d) /\ txs'[d].pc = "asked" /\ txs'[d].put = NoRows /\ txs'[d].gone = {}
      /\ txs[d].pc = "idle"
  BY <1>1 DEF Ask, NoTx, OnlyOf, ListInv, IInv, Shape, Fields
<1>3. Held(d)' = {} BY <1>2 DEF Held, NoRows
<1>4. UNCHANGED <<stored, counts, last, counter, over>> BY DEF Ask, history
<1>5. QED BY <1>2, <1>3, <1>4, QuietStep

LEMMA DeleteStartList ==
  ASSUME ListInv, NEW d \in Discovery, DeleteStart(d), IInv'
  PROVE  ListInv'
<1>1. /\ OnlyOf(d) /\ txs'[d].pc = "deleting" /\ txs[d].pc = "asked"
      /\ txs'[d].put = txs[d].put /\ txs'[d].gone = txs[d].gone
  BY DEF DeleteStart, OnlyOf, ListInv, IInv, Shape, Fields
<1>2. txs[d].put = NoRows /\ txs[d].gone = {} BY <1>1 DEF ListInv, Locks
<1>3. Held(d)' = {} BY <1>1, <1>2 DEF Held, NoRows
<1>4. UNCHANGED <<stored, counts, last, counter>> /\ \A e \in Discovery \ {d} : over'[e] = over[e]
  BY DEF DeleteStart, ListInv, IInv, Shape
<1>5. QED BY <1>1, <1>2, <1>3, <1>4, QuietStep

LEMMA DeleteEndList ==
  ASSUME ListInv, NEW d \in Discovery, DeleteEnd(d), IInv'
  PROVE  ListInv'
<1>1. /\ OnlyOf(d) /\ txs'[d].pc = "inserting" /\ txs[d].pc = "deleting" /\ ~Blocked(d)
      /\ txs'[d].put = txs[d].put
      /\ txs'[d].gone = {i \in DOMAIN stored : <<i, stored[i].born>> \in txs[d].sees}
  BY DEF DeleteEnd, OnlyOf, ListInv, IInv, Shape, Fields
<1>2. txs[d].put = NoRows BY <1>1 DEF ListInv, Locks
<1>3. Wanted(d) = {row[1] : row \in txs[d].sees} BY <1>1 DEF Wanted
<1>4. Held(d)' \subseteq Wanted(d)
  <2>1. ASSUME NEW i \in txs'[d].gone PROVE i \in Wanted(d)
    <3>1. <<i, stored[i].born>> \in txs[d].sees /\ <<i, stored[i].born>>[1] = i BY <1>1, <2>1
    <3>2. QED BY <1>3, <3>1
  <2>2. QED BY <1>1, <1>2, <2>1 DEF Held, NoRows
<1>5. \A e \in Discovery \ {d} : Held(d)' \intersect Held(e) = {}
  BY <1>1, <1>4 DEF Blocked, WaitsFor
<1>6. UNCHANGED <<stored, counts, last, counter, over>> BY DEF DeleteEnd, history
<1>7. QED BY <1>1, <1>5, <1>6, QuietStep

LEMMA InsertList ==
  ASSUME ListInv, NEW d \in Discovery, Insert(d), IInv'
  PROVE  ListInv'
<1>1. /\ txs[d].pc = "inserting" /\ ~Blocked(d) /\ txs[d].queue # <<>> BY DEF Insert
<1>2. /\ OnlyOf(d) /\ txs'[d].pc = "inserting" /\ txs'[d].gone = txs[d].gone
      /\ txs'[d].put = Upserted(d)
  BY <1>1 DEF Insert, OnlyOf, ListInv, IInv, Shape, Fields
<1>3. Wanted(d) = {Head(txs[d].queue)[1]} BY <1>1 DEF Wanted
<1>4. Held(d)' = Held(d) \union Wanted(d)
  <2>1. DOMAIN Upserted(d) = DOMAIN txs[d].put \union {Head(txs[d].queue)[1]}
    BY DEF Upserted, Over
  <2>2. QED BY <1>2, <1>3, <2>1 DEF Held
<1>5. \A e \in Discovery \ {d} : Held(d)' \intersect Held(e) = {}
  BY <1>1, <1>4 DEF Blocked, WaitsFor, ListInv, Locks
<1>6. UNCHANGED <<stored, counts, last, counter, over>> BY DEF Insert, history
<1>7. QED BY <1>1, <1>2, <1>5, <1>6, QuietStep

\* A transaction that ends without a commit
LEMMA GiveUpList ==
  ASSUME ListInv, NEW d \in Discovery, Writing(d), Finish(d), IInv',
         UNCHANGED <<stored, counts, last, counter, over>>
  PROVE  ListInv'
<1>1. OnlyOf(d) /\ txs'[d].pc = "done" /\ txs'[d].put = NoRows /\ txs'[d].gone = {}
  BY DEF Finish, NoTx, OnlyOf, ListInv, IInv, Shape, Fields
<1>2. Held(d)' = {} BY <1>1 DEF Held, NoRows
<1>3. QED BY <1>1, <1>2, QuietStep DEF Writing

LEMMA UpToCounted ==
  ASSUME NEW k \in Nat
  PROVE  IsFiniteSet(1 .. k) /\ Cardinality(1 .. k) = k
  BY FS_Interval

\* The counts of a list are those of its rows, but for what it names twice.
LEMMA CountsOfList ==
  ASSUME NEW list, NEW rows, RowsOf(rows, list),
         NEW P, P = {rows[i].provider : i \in DOMAIN rows}
  PROVE  /\ Counted(list).models >= Cardinality(DOMAIN rows) /\ Counted(list).providers >= Cardinality(P)
         /\ (\A m, n \in DOMAIN list : list[m][1] = list[n][1] => m = n) =>
              Counted(list).models = Cardinality(DOMAIN rows) /\ Counted(list).providers = Cardinality(P)
<1> DEFINE Q == {list[n][2] : n \in DOMAIN list}
           f == [n \in DOMAIN list |-> list[n][1]]
           g == [n \in DOMAIN list |-> list[n][2]]
<1>1. Len(list) \in Nat /\ DOMAIN list = 1 .. Len(list) BY ListDomain DEF RowsOf
<1>2. /\ DOMAIN rows = Names(list)
      /\ \A i \in DOMAIN rows : \E n \in DOMAIN list : list[n][1] = i /\ list[n][2] = rows[i].provider
  BY DEF RowsOf
<1>3. Counted(list).models = Len(list) /\ Counted(list).providers = Cardinality(Q)
  <2>1. Counted(list) = [models |-> Len(list), providers |-> Cardinality(Q)] BY DEF Counted
  <2> HIDE DEF Q
  <2>2. QED BY <2>1
<1>4. IsFiniteSet(DOMAIN list) /\ Cardinality(DOMAIN list) = Len(list)
  <2>1. IsFiniteSet(1 .. Len(list)) /\ Cardinality(1 .. Len(list)) = Len(list) BY <1>1, UpToCounted
  <2>2. QED BY <1>1, <2>1
<1>5. f \in Surjection(DOMAIN list, Names(list)) BY DEF Surjection, Names
<1>6. g \in Surjection(DOMAIN list, Q) BY DEF Surjection
<1>7. /\ IsFiniteSet(Names(list)) /\ Cardinality(Names(list)) \in Nat
      /\ Cardinality(Names(list)) <= Len(list)
      /\ Cardinality(Names(list)) = Len(list) <=> f \in Injection(DOMAIN list, Names(list))
  <2> HIDE DEF f
  <2>1. QED BY <1>4, <1>5, FS_Surjection, FS_CardinalityType
<1>8. IsFiniteSet(Q)
  <2> HIDE DEF g, Q
  <2>1. QED BY <1>4, <1>6, FS_Surjection
<1>9. P \subseteq Q BY <1>2
<1>10. Cardinality(P) \in Nat /\ Cardinality(Q) \in Nat /\ Cardinality(P) <= Cardinality(Q)
  <2> HIDE DEF Q
  <2>1. QED BY <1>8, <1>9, FS_Subset, FS_CardinalityType
<1>11. ASSUME \A m, n \in DOMAIN list : list[m][1] = list[n][1] => m = n
       PROVE  Len(list) = Cardinality(DOMAIN rows) /\ Q = P
  <2>1. f \in Injection(DOMAIN list, Names(list))
    <3>1. f \in [DOMAIN list -> Names(list)] BY DEF Names
    <3>2. \A m, n \in DOMAIN list : f[m] = f[n] => m = n BY <1>11
    <3> HIDE DEF f
    <3>3. QED BY <3>1, <3>2 DEF Injection, IsInjective
  <2>2. ASSUME NEW n \in DOMAIN list PROVE list[n][2] \in P
    <3>1. list[n][1] \in DOMAIN rows BY <1>2 DEF Names
    <3>2. PICK m \in DOMAIN list : list[m][1] = list[n][1] /\ list[m][2] = rows[list[n][1]].provider
      BY <1>2, <3>1
    <3>3. m = n BY <1>11, <3>2
    <3>4. QED BY <3>1, <3>2, <3>3
  <2>3. Q \subseteq P
    <3>1. QED BY <2>2
  <2> HIDE DEF f, Q
  <2>4. QED BY <1>2, <1>7, <1>9, <2>1, <2>3
<1>12. Cardinality(DOMAIN rows) = Cardinality(Names(list)) BY <1>2
<1> HIDE DEF Q, f
<1>13. QED BY <1>1, <1>3, <1>7, <1>10, <1>11, <1>12

LEMMA RowsOfPut ==
  ASSUME NEW list, IsList(list), NEW put, DOMAIN put = Names(list),
         \A i \in DOMAIN put : \E n \in DOMAIN list : list[n][1] = i /\ list[n][2] = put[i],
         NEW rows, DOMAIN rows = DOMAIN put, \A i \in DOMAIN rows : rows[i].provider = put[i]
  PROVE  RowsOf(rows, list)
<1>1. ASSUME NEW i \in DOMAIN rows
      PROVE  \E n \in DOMAIN list : list[n][1] = i /\ list[n][2] = rows[i].provider
  <2>1. i \in DOMAIN put /\ rows[i].provider = put[i] OBVIOUS
  <2>2. QED BY <2>1
<1>2. QED BY <1>1 DEF RowsOf

LEMMA CommitList ==
  ASSUME ListInv, NEW d \in Discovery, Commit(d), IInv'
  PROVE  ListInv'
<1> DEFINE a == txs[d].answer
           put == txs[d].put
           kept == DOMAIN stored \ txs[d].gone
<1>1. /\ product' = product /\ stored' = Committed(d) /\ txs[d].pc = "inserting" /\ txs[d].queue = <<>>
      /\ last' = d /\ counter' = counter /\ counts' = counts
      /\ over' = [e \in Discovery |-> IF e # d /\ Writing(e) THEN over[e] \union {d} ELSE over[e]]
  BY DEF Commit
<1>2. /\ OnlyOf(d) /\ txs'[d].pc = "counting" /\ txs'[d].put = NoRows /\ txs'[d].gone = {}
      /\ txs'[d].answer = a
  BY DEF Commit, OnlyOf, ListInv, IInv, Shape, Fields
<1>3. \A e \in Discovery \ {d} : txs'[e] = txs[e] /\ Held(e)' = Held(e) BY <1>2 DEF OnlyOf, Held
<1>4. Locks'
  <2>1. Held(d)' = {} BY <1>2 DEF Held, NoRows
  <2>2. QED BY <1>2, <1>3, <2>1 DEF ListInv, Locks
<1>5. PICK body \in Body : a = Answer(body) BY <1>1 DEF ListInv, IInv, Whole
<1>6. product \in Product BY DEF ListInv, IInv, Shape
<1>7. /\ IsList(a) /\ DOMAIN put = Names(a)
      /\ \A i \in DOMAIN put : \E n \in DOMAIN a : a[n][1] = i /\ a[n][2] = put[i]
      /\ \A i \in DOMAIN put : put[i] = "" => i.vendor = ""
  <2>1. Inserted(put, <<>>, a) BY <1>1 DEF ListInv, IInv, Whole
  <2>2. \A n \in DOMAIN a : Sound(a[n]) BY <1>5, <1>6, AnswerSound
  <2>3. IsList(a) BY <1>5, <1>6, AnswerSome
  <2> HIDE DEF a, put
  <2>4. DOMAIN put = Names(a) BY <2>1, AllInserted
  <2>5. \A i \in DOMAIN put : \E n \in DOMAIN a : a[n][1] = i /\ a[n][2] = put[i]
    BY <2>1 DEF Inserted
  <2>6. QED BY <2>2, <2>3, <2>4, <2>5 DEF Sound
<1>8. DOMAIN stored' = DOMAIN put \union kept BY <1>1 DEF Committed
<1>9. ASSUME NEW i \in DOMAIN put
      PROVE  /\ stored'[i].provider = put[i] /\ stored'[i].by = d
             /\ stored'[i].born = d \/ (i \in kept /\ stored'[i].born = stored[i].born)
  BY <1>1, <1>9 DEF Committed
<1>10. ASSUME NEW i \in kept, i \notin DOMAIN put
       PROVE  stored'[i] = stored[i]
  BY <1>1, <1>10 DEF Committed
<1> HIDE DEF a, put
<1>11. Authored' BY <1>8, <1>9, <1>10 DEF ListInv, Authored
<1>12. ProviderNamed' BY <1>7, <1>8, <1>9, <1>10 DEF ListInv, ProviderNamed
<1>13. over'[d] = {} => IsAnswer(d)'
  <2> SUFFICES ASSUME over'[d] = {} PROVE IsAnswer(d)' OBVIOUS
  <2>1. over[d] = {} BY <1>1
  <2>2. kept = {} BY <1>1, <2>1 DEF ListInv, IInv, Known
  <2>3. DOMAIN stored' = DOMAIN put BY <1>8, <2>2
  <2>4. \A i \in DOMAIN stored' : stored'[i].provider = put[i] BY <1>9, <2>3
  <2> DEFINE rows == stored'
  <2> HIDE DEF rows
  <2>5. DOMAIN rows = DOMAIN put /\ \A i \in DOMAIN rows : rows[i].provider = put[i] BY <2>3, <2>4 DEF rows
  <2>6. RowsOf(rows, a) BY <1>7, <2>5, RowsOfPut
  <2>7. QED BY <1>2, <2>6 DEF IsAnswer, rows
<1>14. d # Nobody /\ counter # d
  BY <1>1, DiscoveryAssumption DEF ListInv, CountInv
<1>15. counter # Nobody => txs'[counter].pc = "done"
  BY <1>3, <1>14 DEF ListInv, CountInv
<1>16. {last', counter'} \subseteq Discovery \union {Nobody} BY <1>1 DEF ListInv, CountInv
<1>17. CountsAgree' BY <1>1, <1>14 DEF CountsAgree
<1>18. CountInv' BY <1>1, <1>2, <1>13, <1>15, <1>16, <1>17 DEF CountInv
<1>19. QED BY <1>4, <1>11, <1>12, <1>18 DEF ListInv

LEMMA CountList ==
  ASSUME ListInv, NEW d \in Discovery, Count(d), IInv'
  PROVE  ListInv'
<1>1. /\ OnlyOf(d) /\ txs'[d].pc = "done" /\ txs'[d].put = NoRows /\ txs'[d].gone = {}
      /\ txs'[d].answer = txs[d].answer
      /\ txs[d].pc = "counting" /\ UNCHANGED <<stored, last, over>>
  BY DEF Count, Finish, NoTx, OnlyOf, ListInv, IInv, Shape, Fields
<1>2. \A e \in Discovery \ {d} : txs'[e] = txs[e] /\ Held(e)' = Held(e) BY <1>1 DEF OnlyOf, Held
<1>3. Locks'
  <2>1. Held(d)' = {} BY <1>1 DEF Held, NoRows
  <2>2. QED BY <1>1, <1>2, <2>1 DEF ListInv, Locks
<1>4. Authored' /\ ProviderNamed' BY <1>1 DEF ListInv, Authored, ProviderNamed
<1>5. \/ counts' = Counted(txs[d].answer) /\ counter' = d
      \/ UNCHANGED <<counts, counter>>
  BY DEF Count
<1>6. last # Nobody => txs'[last].pc \in {"counting", "done"}
  BY <1>1, <1>2 DEF ListInv, CountInv
<1>7. last # Nobody /\ over[last] = {} /\ txs'[last].pc = "counting" => IsAnswer(last)'
  <2> SUFFICES ASSUME last # Nobody, over[last] = {}, txs'[last].pc = "counting" PROVE IsAnswer(last)'
    OBVIOUS
  <2>1. last \in Discovery \ {d} BY <1>1 DEF ListInv, CountInv
  <2>2. txs'[last] = txs[last] BY <1>2, <2>1
  <2>3. QED BY <1>1, <2>2 DEF ListInv, CountInv, IsAnswer
<1>8. counter' # Nobody => txs'[counter'].pc = "done" /\ counter' \in Discovery
  BY <1>1, <1>2, <1>5 DEF ListInv, CountInv
<1>9. CountsAgree'
  <2> SUFFICES ASSUME counter' # Nobody, counter' = last, over[last] = {}
               PROVE  LET models    == Cardinality(DOMAIN stored)
                          providers == Cardinality({stored[i].provider : i \in DOMAIN stored})
                          answer    == txs'[last].answer
                      IN  /\ counts'.models >= models /\ counts'.providers >= providers
                          /\ (\A m, n \in DOMAIN answer : answer[m][1] = answer[n][1] => m = n) =>
                               counts'.models = models /\ counts'.providers = providers
    BY <1>1 DEF CountsAgree
  <2>1. CASE counts' = Counted(txs[d].answer) /\ counter' = d
    <3>1. last = d /\ IsAnswer(d) BY <1>1, <2>1, DiscoveryAssumption DEF ListInv, CountInv
    <3>2. txs'[last].answer = txs[d].answer /\ RowsOf(stored, txs[d].answer)
      BY <1>1, <3>1 DEF IsAnswer
    <3> DEFINE list == txs[d].answer
               P == {stored[i].provider : i \in DOMAIN stored}
    <3>3. P = {stored[i].provider : i \in DOMAIN stored} OBVIOUS
    <3> HIDE DEF P
    <3>4. /\ Counted(list).models >= Cardinality(DOMAIN stored) /\ Counted(list).providers >= Cardinality(P)
          /\ (\A m, n \in DOMAIN list : list[m][1] = list[n][1] => m = n) =>
               Counted(list).models = Cardinality(DOMAIN stored) /\ Counted(list).providers = Cardinality(P)
      BY <3>2, <3>3, CountsOfList
    <3>5. QED BY <2>1, <3>2, <3>4 DEF P
  <2>2. CASE UNCHANGED <<counts, counter>>
    <3>1. last \in Discovery \ {d} BY <1>1, <2>2 DEF ListInv, CountInv
    <3>2. txs'[last] = txs[last] BY <1>2, <3>1
    <3>3. QED BY <2>2, <3>2 DEF ListInv, CountInv, CountsAgree
  <2>3. QED BY <1>5, <2>1, <2>2
<1>10. {last', counter'} \subseteq Discovery \union {Nobody} BY <1>1, <1>5 DEF ListInv, CountInv
<1>11. CountInv' BY <1>1, <1>6, <1>7, <1>8, <1>9, <1>10 DEF CountInv
<1>12. QED BY <1>3, <1>4, <1>11 DEF ListInv

LEMMA NextList == ListInv /\ [Next]_vars => ListInv'
<1> SUFFICES ASSUME ListInv, [Next]_vars PROVE ListInv' OBVIOUS
<1>1. IInv' BY NextInv DEF ListInv
<1>2. CASE UNCHANGED vars
  <2>1. UNCHANGED <<txs, stored, counts, last, over, counter>> BY <1>2 DEF vars, history
  <2>2. Locks' BY <2>1 DEF ListInv, Locks, Held
  <2>3. Authored' /\ ProviderNamed' BY <2>1 DEF ListInv, Authored, ProviderNamed
  <2>4. CountInv' BY <2>1 DEF ListInv, CountInv, CountsAgree, IsAnswer
  <2>5. QED BY <1>1, <2>2, <2>3, <2>4 DEF ListInv
<1>3. ASSUME NEW d \in Discovery, DeadlockVictim(d) PROVE ListInv'
  <2>1. PICK S \in SUBSET Discovery : d \in S /\ Circle(S) BY <1>3 DEF DeadlockVictim
  <2>2. PICK e \in S : WaitsFor(d, e) BY <2>1 DEF Circle
  <2>3. Wanted(d) # {} BY <2>2 DEF WaitsFor
  <2>4. Writing(d) BY <2>3 DEF Wanted, Writing
  <2>5. QED BY <1>1, <1>3, <2>4, GiveUpList DEF DeadlockVictim, history
<1>4. ASSUME NEW d \in Discovery, Rollback(d) PROVE ListInv'
  BY <1>1, <1>4, GiveUpList DEF Rollback, history
<1>5. ASSUME NEW d \in Discovery, Step(d) PROVE ListInv'
  BY <1>1, <1>5, AskList, DeleteStartList, DeleteEndList, InsertList, CommitList, CountList DEF Step
<1>6. QED BY <1>2, <1>3, <1>4, <1>5 DEF Next

-----------------------------------------------------------------------------

\* Rows have authors, transactions only hold what nobody else holds, and what
\* they inserted is of their answer.
THEOREM DiscoveryTypeCorrect == Spec => []TypeOK
<1>1. ASSUME ListInv PROVE TypeOK
  <2>1. ASSUME NEW d \in Discovery
        PROVE  /\ txs[d].pc \in {"idle", "asked", "deleting", "inserting", "counting", "done"}
               /\ DOMAIN txs[d].put \subseteq Names(txs[d].answer)
               /\ \A e \in Discovery \ {d} : Held(d) \intersect Held(e) = {}
    <3>1. DOMAIN txs[d].put \subseteq Names(txs[d].answer)
      <4>1. CASE txs[d].pc = "inserting"
        BY <1>1, <4>1 DEF ListInv, IInv, Whole, Inserted, Names
      <4>2. CASE txs[d].pc # "inserting"
        BY <1>1, <4>2 DEF ListInv, Locks, NoRows
      <4>3. QED BY <4>1, <4>2
    <3>2. QED BY <1>1, <3>1 DEF ListInv, Locks, IInv, Shape, Points
  <2>2. QED BY <1>1, <2>1 DEF TypeOK, ListInv, IInv, Shape, Authored, CountInv
<1>2. QED BY <1>1, InitList, NextList, PTL DEF Spec

\* A model without a provider has an identifier that begins with a slash,
\* whatever the product and whatever it answers.
THEOREM ProviderAlwaysNamed == Spec => []ProviderNamed
<1>1. ListInv => ProviderNamed BY DEF ListInv
<1>2. QED BY <1>1, InitList, NextList, PTL DEF Spec

\* Counts that were written by the discovery that committed last, while it wrote
\* alone, are not below those of the list, and are those of the list when the
\* product named no model twice.
THEOREM CountsAgreeAlways == Spec => []CountsAgree
<1>1. ListInv => CountsAgree BY DEF ListInv, CountInv
<1>2. QED BY <1>1, InitList, NextList, PTL DEF Spec
=============================================================================
