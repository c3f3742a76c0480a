-------------------------- MODULE VirtualKeysProofs --------------------------
(***************************************************************************)
(* Theorems about VirtualKeys, for any number of keys and requests, any    *)
(* limits and any lifetimes: type correctness, the bound on how long a     *)
(* revoked key is accepted, and the bound on what the limit lets through.  *)
(***************************************************************************)
EXTENDS VirtualKeys, WellFoundedInduction, TLAPS

-----------------------------------------------------------------------------
(* Type correctness *)

\* A move of a request keeps the requests well formed.
LEMMA GotoType ==
    ASSUME RequestType, NEW q \in Request, NEW l \in Points, Goto(q, l),
           l # "idle" => key[q] \in Key
    PROVE  RequestType'
  BY DEF RequestType, Goto, Points

\* So does the end of a successful authentication.
LEMMA AuthenticatedType ==
    ASSUME RequestType, NEW q \in Request, ~At(q, "idle"), Authenticated(q)
    PROVE  RequestType'
  <1>1. key[q] \in Key
    BY DEF RequestType, At
  <1> QED BY <1>1, GotoType DEF Authenticated, Points

\* A request under way presents a key.
LEMMA Presented ==
    ASSUME TypeOK, NEW q \in Request, NEW l \in Points, l # "idle", At(q, l)
    PROVE  key[q] \in Key
  BY DEF TypeOK, RequestType, At

LEMMA InitType == Init => TypeOK
  BY KeysAssumption DEF Init, TypeOK, AdminType, RedisType, RequestType,
     HistoryType, Points

LEMMA AdministrationType ==
    ASSUME TypeOK, NEW k \in Key, Administration(k)
    PROVE  TypeOK'
  <1>1. AdminType'
    BY DEF Administration, CreateKey, RevokeKey, DeleteKey, TypeOK, AdminType
  <1>2. UNCHANGED <<redis, requests, history>>
    BY DEF Administration, CreateKey, RevokeKey, DeleteKey
  <1> QED BY <1>1, <1>2 DEF TypeOK, RedisType, RequestType, HistoryType, redis,
          requests, history

LEMMA ArriveType ==
    ASSUME TypeOK, NEW q \in Request, NEW k \in Key, Arrive(q, k)
    PROVE  TypeOK'
  BY DEF Arrive, TypeOK, AdminType, RedisType, RequestType, HistoryType,
     admin, redis, history, Points

\* The counter stays a counter.
LEMMA IncrRateType ==
    ASSUME TypeOK, NEW k \in Key, IncrRate(k)
    PROVE  rate' \in [Key -> [n : Nat, left : 0 .. Window]]
  <1>1. rate[k] \in [n : Nat, left : 0 .. Window] /\ Rpm[k] \in Nat
    BY KeysAssumption DEF TypeOK, RedisType
  <1>2. rate'[k] \in [n : Nat, left : 0 .. Window]
    BY <1>1, KeysAssumption DEF IncrRate, TypeOK, RedisType
  <1> QED BY <1>2 DEF IncrRate, TypeOK, RedisType

LEMMA CheckType ==
    ASSUME TypeOK, NEW q \in Request, Check(q)
    PROVE  TypeOK'
  <1>1. CASE Lookup(q)
    <2>1. key[q] \in Key
      BY <1>1, Presented DEF Lookup, Points
    <2>2. RequestType'
      BY <1>1, <2>1, GotoType, AuthenticatedType DEF Lookup, TypeOK, Points, At
    <2> QED BY <1>1, <2>2 DEF Lookup, TypeOK, AdminType, RedisType, HistoryType,
            admin, redis, history
  <1>2. CASE Select(q)
    <2>1. key[q] \in Key
      BY <1>2, Presented DEF Select, Points
    <2>2. RequestType'
      BY <1>2, <2>1, GotoType DEF Select, TypeOK, Points
    <2> QED BY <1>2, <2>2 DEF Select, TypeOK, AdminType, RedisType, HistoryType,
            admin, redis, history
  <1>3. CASE Warm(q)
    <2>1. key[q] \in Key
      BY <1>3, Presented DEF Warm, Points
    <2>2. RequestType'
      BY <1>3, AuthenticatedType DEF Warm, TypeOK, At
    <2>3. RedisType'
      BY <1>3, <2>1, KeysAssumption DEF Warm, TypeOK, RedisType
    <2> QED BY <1>3, <2>2, <2>3 DEF Warm, TypeOK, AdminType, HistoryType,
            admin, history
  <1>4. CASE CheckRate(q)
    <2>1. key[q] \in Key
      BY <1>4, Presented DEF CheckRate, Points
    <2>2. RequestType'
      BY <1>4, <2>1, GotoType DEF CheckRate, TypeOK, Points
    <2>3. RedisType'
      BY <1>4, <2>1, IncrRateType DEF CheckRate, TypeOK, RedisType
    <2>4. HistoryType'
      <3>1. log[key[q]] \in [0 .. Window - 1 -> Nat] /\ 0 \in 0 .. Window - 1
        BY <2>1, KeysAssumption DEF TypeOK, HistoryType
      <3>2. log[key[q]][0] + 1 \in Nat
        <4>1. \A S, T : \A f \in [S -> T], x \in S : f[x] \in T
          OBVIOUS
        <4>2. log[key[q]][0] \in Nat
          BY <3>1, <4>1, Zenon
        <4> QED BY <4>2
      <3>3. log' = log \/ log' = [log EXCEPT ![key[q]][0] = log[key[q]][0] + 1]
        BY <1>4, <2>1 DEF CheckRate, TypeOK, HistoryType
      <3>4. \A S, T : \A f \in [S -> T], x \in S, y \in T : [f EXCEPT ![x] = y] \in [S -> T]
        OBVIOUS
      <3>5. [log[key[q]] EXCEPT ![0] = log[key[q]][0] + 1] \in [0 .. Window - 1 -> Nat]
        BY <3>1, <3>2, <3>4, Zenon
      <3>6. log' \in [Key -> [0 .. Window - 1 -> Nat]]
        BY <2>1, <3>3, <3>5 DEF TypeOK, HistoryType
      <3> QED BY <1>4, <3>6 DEF CheckRate, TypeOK, HistoryType
    <2> QED BY <1>4, <2>2, <2>3, <2>4 DEF CheckRate, TypeOK, AdminType, admin
  <1>5. CASE CheckBudget(q)
    <2>1. key[q] \in Key
      BY <1>5, Presented DEF CheckBudget, Points
    <2>2. RequestType'
      BY <1>5, <2>1, GotoType DEF CheckBudget, TypeOK, Points
    <2> QED BY <1>5, <2>2 DEF CheckBudget, TypeOK, AdminType, RedisType,
            HistoryType, admin, redis, history
  <1> QED BY <1>1, <1>2, <1>3, <1>4, <1>5 DEF Check

LEMMA RecordUsageType ==
    ASSUME TypeOK, NEW q \in Request, RecordUsage(q)
    PROVE  TypeOK'
  <1>1. key[q] \in Key
    BY Presented DEF RecordUsage, Points
  <1>2. RequestType'
    BY GotoType DEF RecordUsage, TypeOK, Points
  <1>3. AdminType'
    BY <1>1, KeysAssumption DEF RecordUsage, TypeOK, AdminType, CostCents
  <1> QED BY <1>2, <1>3 DEF RecordUsage, TypeOK, RedisType, HistoryType, redis,
          history

LEMMA TickType == TypeOK /\ Tick => TypeOK'
  <1> SUFFICES ASSUME TypeOK, Tick PROVE TypeOK'
    OBVIOUS
  <1>1. RedisType'
    BY KeysAssumption DEF Tick, TypeOK, RedisType
  <1>2. since' \in [Key -> 0 .. CacheTtl]
    BY KeysAssumption DEF Tick, TypeOK, HistoryType, Younger
  <1>3. ASSUME NEW k \in Key PROVE Shifted(k) \in [0 .. Window - 1 -> Nat]
    BY KeysAssumption DEF TypeOK, HistoryType, Shifted
  <1>4. HistoryType'
    BY <1>2, <1>3 DEF Tick, HistoryType
  <1> QED BY <1>1, <1>4 DEF Tick, TypeOK, AdminType, RequestType, admin, requests

LEMMA StutterType == TypeOK /\ UNCHANGED vars => TypeOK'
  BY DEF TypeOK, AdminType, RedisType, RequestType, HistoryType, vars, admin,
     redis, requests, history

\* Every variable keeps its type and every request under way presents a key, for
\* any keys, requests, limits and lifetimes.
THEOREM KeysTypeCorrect == Spec => []TypeOK
  <1>1. TypeOK /\ [Next]_vars => TypeOK'
    BY AdministrationType, ArriveType, CheckType, RecordUsageType, TickType,
       StutterType DEF Next
  <1> QED BY <1>1, InitType, PTL DEF Spec

-----------------------------------------------------------------------------
(* Revocation: the entry and the time since the key was current share one  *)
(* lifetime, and a key that is current has no such time behind it          *)

AgeInv == \A k \in Key : /\ cached[k] + since[k] <= CacheTtl
                         /\ Current(k) => since[k] = 0

\* A key becomes current in no other way than by being created.
LEMMA CurrentStays ==
    ASSUME TypeOK, NEW k \in Key, [Next]_vars, Current(k)'
    PROVE  Current(k)
  <1> USE DEF Current, At
  <1>1. ASSUME NEW j \in Key, Administration(j) PROVE Current(k)
    BY <1>1 DEF Administration, CreateKey, RevokeKey, DeleteKey, requests,
       TypeOK, AdminType
  <1>2. ASSUME NEW q \in Request, NEW j \in Key, Arrive(q, j) PROVE Current(k)
    BY <1>2 DEF Arrive, admin, TypeOK, RequestType
  <1>3. ASSUME NEW q \in Request, Check(q) PROVE Current(k)
    BY <1>3 DEF Check, Lookup, Select, Warm, CheckRate, CheckBudget,
       Authenticated, Goto, admin, TypeOK, RequestType
  <1>4. ASSUME NEW q \in Request, RecordUsage(q) PROVE Current(k)
    BY <1>4 DEF RecordUsage, Goto, TypeOK, RequestType
  <1>5. CASE Tick
    BY <1>5 DEF Tick, admin, requests
  <1>6. CASE UNCHANGED vars
    BY <1>6 DEF vars, admin, requests
  <1> QED BY <1>1, <1>2, <1>3, <1>4, <1>5, <1>6 DEF Next

\* Nothing but Tick and Warm changes an entry or its age.
LEMMA AgeStep ==
    ASSUME TypeOK, AgeInv, [Next]_vars
    PROVE  AgeInv'
  <1>1. CASE Tick
    <2> SUFFICES ASSUME NEW k \in Key
                 PROVE  cached'[k] + since'[k] <= CacheTtl /\ (Current(k)' => since'[k] = 0)
      BY DEF AgeInv
    <2>1. since'[k] = Younger(k) /\ cached'[k] = IF cached[k] > 0 THEN cached[k] - 1 ELSE 0
      BY <1>1 DEF Tick
    <2>2. cached[k] \in 0 .. CacheTtl /\ since[k] \in 0 .. CacheTtl
      BY DEF TypeOK, RedisType, HistoryType
    <2>3. cached'[k] + since'[k] <= CacheTtl
      BY <2>1, <2>2, KeysAssumption DEF AgeInv, Younger
    <2> QED BY <2>1, <2>3, CurrentStays DEF Younger
  <1>2. ASSUME NEW q \in Request, Warm(q) PROVE AgeInv'
    <2>1. key[q] \in Key /\ since[key[q]] = 0
      BY <1>2, Presented DEF Warm, Points, AgeInv, Current
    <2>2. ASSUME NEW k \in Key PROVE cached'[k] + since'[k] <= CacheTtl
      <3>1. cached'[k] = cached[k] \/ (k = key[q] /\ cached'[k] = CacheTtl)
        BY <1>2, <2>1 DEF Warm, TypeOK, RedisType
      <3> QED BY <1>2, <2>1, <3>1, KeysAssumption DEF Warm, AgeInv, history
    <2> QED BY <1>2, <2>2, CurrentStays DEF AgeInv, Warm, history
  <1>3. CASE UNCHANGED <<cached, since>>
    BY <1>3, CurrentStays DEF AgeInv
  <1>4. ASSUME NEW k \in Key, Administration(k) PROVE UNCHANGED <<cached, since>>
    BY <1>4 DEF Administration, CreateKey, RevokeKey, DeleteKey, redis, history
  <1>5. ASSUME NEW q \in Request, NEW k \in Key, Arrive(q, k)
        PROVE  UNCHANGED <<cached, since>>
    BY <1>5 DEF Arrive, redis, history
  <1>6. ASSUME NEW q \in Request, Check(q), ~Warm(q) PROVE UNCHANGED <<cached, since>>
    BY <1>6 DEF Check, Lookup, Select, CheckRate, CheckBudget, redis, history
  <1>7. ASSUME NEW q \in Request, RecordUsage(q) PROVE UNCHANGED <<cached, since>>
    BY <1>7 DEF RecordUsage, redis, history
  <1>8. CASE UNCHANGED vars
    BY <1>3, <1>8 DEF vars, redis, history
  <1> QED BY <1>1, <1>2, <1>3, <1>4, <1>5, <1>6, <1>7, <1>8 DEF Next

LEMMA AgeInit == Init => AgeInv
  BY KeysAssumption DEF Init, AgeInv

\* A key that was last active, or last held by a request about to cache it, a
\* whole lifetime ago has no cache entry, however many hits it had meanwhile.
THEOREM RevokedExpiresHolds == Spec => []RevokedExpires
  <1>1. TypeOK /\ AgeInv => RevokedExpires
    BY KeysAssumption DEF TypeOK, RedisType, HistoryType, AgeInv, RevokedExpires
  <1>2. TypeOK /\ AgeInv /\ [Next]_vars => AgeInv'
    BY AgeStep
  <1> QED BY <1>1, <1>2, AgeInit, KeysTypeCorrect, PTL DEF Spec

-----------------------------------------------------------------------------
(* Sums.  The library's induction takes a predicate, which the provers do  *)
(* not instantiate; a set of numbers they do, and that every set of        *)
(* numbers has a smallest one is a theorem about sets (WFMin).             *)

\* A set with 0, and with the successor of each number it has, has them all.
LEMMA SetInduction ==
    ASSUME NEW S, 0 \in S, \A n \in Nat : n \in S => n + 1 \in S
    PROVE  \A n \in Nat : n \in S
  <1> DEFINE T == {n \in Nat : n \notin S}
             R == OpToRel(<, Nat)
  <1>1. SUFFICES ASSUME T # {} PROVE FALSE
    OBVIOUS
  <1>2. IsWellFoundedOn(R, Nat)
    BY NatLessThanWellFounded
  <1>3. T \subseteq Nat
    OBVIOUS
  <1> HIDE DEF T, R
  <1>4. PICK x \in T : \A y \in T : ~(<<y, x>> \in R)
    BY <1>1, <1>2, <1>3, WFMin
  <1>5. x \in Nat /\ x \notin S /\ x # 0
    BY <1>4 DEF T
  <1>6. x - 1 \in T
    BY <1>5 DEF T
  <1>7. <<x - 1, x>> \in R
    BY <1>5 DEF R, OpToRel
  <1> QED BY <1>4, <1>6, <1>7

\* g holds the sums of f up to n.
Sums(g, f, n) == g[0] = 0 /\ \A i \in 1 .. n : g[i] = g[i - 1] + f[i - 1]

LEMMA SumsExist ==
    ASSUME NEW f
    PROVE  \A n \in Nat : \E g : Sums(g, f, n)
  <1> DEFINE S == {n \in Nat : \E g : Sums(g, f, n)}
  <1>1. 0 \in S
    <2>1. Sums([i \in {0} |-> 0], f, 0)
      BY DEF Sums
    <2> QED BY <2>1
  <1>2. ASSUME NEW n \in Nat, n \in S PROVE n + 1 \in S
    <2>1. PICK g : Sums(g, f, n)
      BY <1>2
    <2> DEFINE h == [i \in 0 .. n + 1 |-> IF i = n + 1 THEN g[n] + f[n] ELSE g[i]]
    <2>2. Sums(h, f, n + 1)
      BY <2>1 DEF Sums
    <2> QED BY <2>2
  <1> HIDE DEF S
  <1>3. \A n \in Nat : n \in S
    BY <1>1, <1>2, SetInduction
  <1> QED BY <1>3 DEF S

LEMMA SumsAgree ==
    ASSUME NEW f, NEW n \in Nat, NEW m \in Nat, NEW g, NEW h,
           Sums(g, f, n), Sums(h, f, m)
    PROVE  \A i \in Nat : i <= n /\ i <= m => g[i] = h[i]
  <1> DEFINE S == {i \in Nat : i <= n /\ i <= m => g[i] = h[i]}
  <1>1. 0 \in S
    BY DEF Sums
  <1>2. ASSUME NEW i \in Nat, i \in S PROVE i + 1 \in S
    BY <1>2 DEF Sums
  <1> HIDE DEF S
  <1>3. \A i \in Nat : i \in S
    BY <1>1, <1>2, SetInduction
  <1> QED BY <1>3 DEF S

\* The recursive definition has the value it describes.
LEMMA SumEquation ==
    ASSUME NEW f
    PROVE  /\ SumUpTo(f, 0) = 0
           /\ \A n \in Nat : SumUpTo(f, n + 1) = SumUpTo(f, n) + f[n]
  <1> DEFINE Of(n) == CHOOSE g : Sums(g, f, n)
             G == [n \in Nat |-> Of(n)[n]]
             Eq(g) == g = [i \in Nat |-> IF i = 0 THEN 0 ELSE g[i - 1] + f[i - 1]]
             sum == CHOOSE g : Eq(g)
  <1>1. ASSUME NEW n \in Nat PROVE Sums(Of(n), f, n)
    BY SumsExist
  <1>2. G[0] = 0
    BY <1>1 DEF Sums
  <1>3. ASSUME NEW i \in Nat \ {0} PROVE G[i] = G[i - 1] + f[i - 1]
    <2>1. Sums(Of(i), f, i) /\ Sums(Of(i - 1), f, i - 1)
      BY <1>1
    <2> HIDE DEF Of
    <2>2. Of(i)[i - 1] = Of(i - 1)[i - 1]
      BY <2>1, SumsAgree
    <2>3. Of(i)[i] = Of(i)[i - 1] + f[i - 1]
      BY <2>1 DEF Sums
    <2> QED BY <2>2, <2>3
  <1> HIDE DEF Of
  <1>4. Eq(G)
    BY <1>2, <1>3
  <1>5. Eq(sum)
    <2> HIDE DEF Eq, G
    <2> QED BY <1>4
  <1>6. SumUpTo(f, 0) = sum[0] /\ \A n \in Nat : SumUpTo(f, n) = sum[n]
    BY DEF SumUpTo
  <1> HIDE DEF sum
  <1>7. sum[0] = 0 /\ \A n \in Nat : sum[n + 1] = sum[n] + f[n]
    BY <1>5
  <1> QED BY <1>6, <1>7

\* A sum of naturals is one, and grows with its length.
LEMMA SumGrows ==
    ASSUME NEW w \in Nat, NEW f \in [0 .. w - 1 -> Nat]
    PROVE  /\ \A n \in 0 .. w : SumUpTo(f, n) \in Nat
           /\ \A n, m \in 0 .. w : n <= m => SumUpTo(f, n) <= SumUpTo(f, m)
  <1> DEFINE S == {m \in Nat : m <= w =>
                     \A n \in 0 .. m : /\ SumUpTo(f, n) \in Nat
                                       /\ SumUpTo(f, n) <= SumUpTo(f, m)}
  <1>1. 0 \in S
    BY SumEquation
  <1>2. ASSUME NEW m \in Nat, m \in S PROVE m + 1 \in S
    <2> SUFFICES ASSUME m + 1 <= w
                 PROVE  \A n \in 0 .. m + 1 : /\ SumUpTo(f, n) \in Nat
                                              /\ SumUpTo(f, n) <= SumUpTo(f, m + 1)
      OBVIOUS
    <2>1. \A n \in 0 .. m : SumUpTo(f, n) \in Nat /\ SumUpTo(f, n) <= SumUpTo(f, m)
      BY <1>2
    <2>2. f[m] \in Nat /\ SumUpTo(f, m) \in Nat
      BY <2>1
    <2>3. SumUpTo(f, m + 1) = SumUpTo(f, m) + f[m]
      BY SumEquation
    <2>4. SumUpTo(f, m + 1) \in Nat /\ SumUpTo(f, m) <= SumUpTo(f, m + 1)
      BY <2>2, <2>3
    <2>5. ASSUME NEW n \in 0 .. m PROVE SumUpTo(f, n) <= SumUpTo(f, m + 1)
      BY <2>1, <2>2, <2>4
    <2> QED BY <2>1, <2>4, <2>5
  <1> HIDE DEF S
  <1>3. \A m \in Nat : m \in S
    BY <1>1, <1>2, SetInduction
  <1> QED BY <1>3 DEF S

\* One more request now is one more in every sum.
LEMMA SumOneMore ==
    ASSUME NEW w \in Nat \ {0}, NEW f \in [0 .. w - 1 -> Nat]
    PROVE  \A n \in 1 .. w : SumUpTo([f EXCEPT ![0] = @ + 1], n) = SumUpTo(f, n) + 1
  <1> DEFINE g == [f EXCEPT ![0] = @ + 1]
             S == {n \in Nat : n \in 1 .. w => SumUpTo(g, n) = SumUpTo(f, n) + 1}
  <1>0. g[0] = f[0] + 1 /\ \A i \in 1 .. w - 1 : g[i] = f[i]
    OBVIOUS
  <1>1. 0 \in S
    OBVIOUS
  <1>2. ASSUME NEW n \in Nat, n \in S PROVE n + 1 \in S
    <2> SUFFICES ASSUME n < w PROVE SumUpTo(g, n + 1) = SumUpTo(f, n + 1) + 1
      OBVIOUS
    <2> HIDE DEF g
    <2>1. SumUpTo(g, n + 1) = SumUpTo(g, n) + g[n] /\ SumUpTo(f, n + 1) = SumUpTo(f, n) + f[n]
      BY SumEquation
    <2>2. f[n] \in Nat /\ SumUpTo(f, n) \in Nat
      BY SumGrows
    <2>3. CASE n = 0
      <3>1. SumUpTo(g, n) = 0 /\ SumUpTo(f, n) = 0
        BY <2>3, SumEquation
      <3> QED BY <1>0, <2>1, <2>2, <2>3, <3>1
    <2>4. CASE n # 0
      <3>1. SumUpTo(g, n) = SumUpTo(f, n) + 1 /\ g[n] = f[n]
        BY <1>0, <1>2, <2>4
      <3> QED BY <2>1, <2>2, <3>1
    <2> QED BY <2>3, <2>4
  <1> HIDE DEF S
  <1>3. \A n \in Nat : n \in S
    BY <1>1, <1>2, SetInduction
  <1> HIDE DEF g
  <1>4. \A n \in 1 .. w : SumUpTo(g, n) = SumUpTo(f, n) + 1
    BY <1>3 DEF S
  <1> QED BY <1>4 DEF g

\* A tick later, what was summed lies one tick further back.
LEMMA SumShifted ==
    ASSUME NEW w \in Nat \ {0}, NEW f \in [0 .. w - 1 -> Nat]
    PROVE  \A n \in 0 .. w - 1 :
             SumUpTo([i \in 0 .. w - 1 |-> IF i = 0 THEN 0 ELSE f[i - 1]], n + 1) = SumUpTo(f, n)
  <1> DEFINE g == [i \in 0 .. w - 1 |-> IF i = 0 THEN 0 ELSE f[i - 1]]
             S == {n \in Nat : n < w => SumUpTo(g, n + 1) = SumUpTo(f, n)}
  <1>0. g[0] = 0 /\ \A n \in Nat : n + 1 < w => g[n + 1] = f[n]
    OBVIOUS
  <1> HIDE DEF g
  <1>1. 0 \in S
    <2>1. SumUpTo(g, 0) = 0 /\ SumUpTo(f, 0) = 0
      BY SumEquation
    <2>2. SumUpTo(g, 0 + 1) = SumUpTo(g, 0) + g[0]
      BY SumEquation
    <2>3. SumUpTo(g, 0 + 1) = SumUpTo(f, 0)
      BY <1>0, <2>1, <2>2
    <2> QED BY <2>3
  <1>2. ASSUME NEW n \in Nat, n \in S PROVE n + 1 \in S
    <2>1. SumUpTo(g, (n + 1) + 1) = SumUpTo(g, n + 1) + g[n + 1]
      <3>1. n + 1 \in Nat
        OBVIOUS
      <3> QED BY <3>1, SumEquation
    <2>2. SumUpTo(f, n + 1) = SumUpTo(f, n) + f[n]
      BY SumEquation
    <2> QED BY <1>0, <1>2, <2>1, <2>2
  <1> HIDE DEF S
  <1>3. \A n \in Nat : n \in S
    BY <1>1, <1>2, SetInduction
  <1> QED BY <1>3 DEF S, g

-----------------------------------------------------------------------------
(* The rate limit.  A counter that lives started Window - left ticks ago:  *)
(* what it let through since then is at most what it counted and at most   *)
(* the limit, and what lies further back, but less than a window, belongs  *)
(* to the one counter before it.                                           *)

\* The ticks on which a counter r that lives has counted.
Open(r) == Window - r.left + 1

\* What counter r, limit l and history f of a key have to do with each other.
Kept(r, l, f) ==
    /\ r.n = 0 => f[0] = 0 /\ SumUpTo(f, Window) <= l
    /\ r.n > 0 => /\ r.left > 0
                  /\ SumUpTo(f, Open(r)) <= r.n
                  /\ SumUpTo(f, Open(r)) <= l
                  /\ SumUpTo(f, Window) - SumUpTo(f, Open(r)) <= l

LimitInv == \A k \in Key : Rpm[k] > 0 => Kept(rate[k], Rpm[k], log[k])

Counter == [n : Nat, left : 0 .. Window]
History == [0 .. Window - 1 -> Nat]

\* A counter that lives covers one tick or more, and all the window at the end.
LEMMA OpenRange ==
    ASSUME NEW r \in Counter, r.left > 0
    PROVE  Open(r) \in 1 .. Window
  BY KeysAssumption DEF Counter, Open

\* The two parts of the window: each is a number, and no more than the whole.
LEMMA Parts ==
    ASSUME NEW f \in History, NEW n \in 0 .. Window
    PROVE  /\ SumUpTo(f, n) \in Nat
           /\ SumUpTo(f, Window) \in Nat
           /\ SumUpTo(f, n) <= SumUpTo(f, Window)
  <1>1. Window \in Nat /\ Window \in 0 .. Window
    BY KeysAssumption
  <1>2. n <= Window
    BY <1>1
  <1>3. f \in [0 .. Window - 1 -> Nat]
    BY DEF History
  <1> QED BY <1>1, <1>2, <1>3, SumGrows

\* The first tick alone.
LEMMA FirstPart == ASSUME NEW f \in History PROVE SumUpTo(f, 1) = f[0] /\ f[0] \in Nat
  <1>1. SumUpTo(f, 0) = 0 /\ SumUpTo(f, 0 + 1) = SumUpTo(f, 0) + f[0]
    <2>1. 0 \in Nat
      OBVIOUS
    <2> QED BY <2>1, SumEquation
  <1>2. f[0] \in Nat
    BY KeysAssumption DEF History
  <1> QED BY <1>1, <1>2

\* What the script leaves of a counter.
Incremented(r, l) == [n    |-> IF r.n > l THEN r.n ELSE r.n + 1,
                      left |-> IF r.n = 0 THEN Window ELSE r.left]

\* A request that is let through: the counter was below the limit.
LEMMA KeptAdmitting ==
    ASSUME NEW r \in Counter, NEW l \in Nat, NEW f \in History, Kept(r, l, f), r.n < l
    PROVE  Kept(Incremented(r, l), l, [f EXCEPT ![0] = @ + 1])
  <1> DEFINE g == [f EXCEPT ![0] = @ + 1]
             s == Incremented(r, l)
  <1> SUFFICES Kept(s, l, g)
    OBVIOUS
  <1>1. \A n \in 1 .. Window : SumUpTo(g, n) = SumUpTo(f, n) + 1
    BY SumOneMore, KeysAssumption DEF History
  <1> HIDE DEF g
  <1>2. s.n = r.n + 1 /\ s.n > 0 /\ s.left = IF r.n = 0 THEN Window ELSE r.left
    BY DEF Incremented, Counter
  <1>3. s \in Counter
    BY KeysAssumption DEF Incremented, Counter
  <1> HIDE DEF s
  <1>4. r.n \in Nat
    BY DEF Counter
  <1>5. Window \in 1 .. Window
    BY KeysAssumption
  <1>6. CASE r.n = 0
    <2>1. Open(s) = 1 /\ 1 \in 1 .. Window /\ s.left > 0
      BY <1>2, <1>6, KeysAssumption DEF Open
    <2>2. SumUpTo(f, 1) = 0 /\ SumUpTo(f, Window) <= l
      BY <1>6, FirstPart DEF Kept
    <2>3. SumUpTo(f, Window) \in Nat
      BY <1>5, Parts, KeysAssumption
    <2>4. SumUpTo(g, 1) = 1 /\ SumUpTo(g, Window) = SumUpTo(f, Window) + 1
      BY <1>1, <1>5, <2>1, <2>2
    <2> QED BY <1>2, <1>4, <1>6, <2>1, <2>2, <2>3, <2>4 DEF Kept
  <1>7. CASE r.n > 0
    <2>1. r.left > 0 /\ s.left > 0 /\ Open(s) = Open(r) /\ Open(r) \in 1 .. Window
      BY <1>2, <1>4, <1>7, OpenRange DEF Kept, Open
    <2>2. /\ SumUpTo(f, Open(r)) <= r.n
          /\ SumUpTo(f, Window) - SumUpTo(f, Open(r)) <= l
      BY <1>7 DEF Kept
    <2>3. SumUpTo(f, Window) \in Nat /\ SumUpTo(f, Open(r)) \in Nat
      BY <2>1, Parts
    <2>4. SumUpTo(g, Open(s)) = SumUpTo(f, Open(r)) + 1
          /\ SumUpTo(g, Window) = SumUpTo(f, Window) + 1
      BY <1>1, <1>5, <2>1
    <2> QED BY <1>2, <1>4, <2>1, <2>2, <2>3, <2>4 DEF Kept
  <1> QED BY <1>4, <1>6, <1>7

\* A request that is refused counts, and opens a window if there is none.
LEMMA KeptRefusing ==
    ASSUME NEW r \in Counter, NEW l \in Nat, NEW f \in History, Kept(r, l, f)
    PROVE  Kept(Incremented(r, l), l, f)
  <1> DEFINE s == Incremented(r, l)
  <1> SUFFICES Kept(s, l, f)
    OBVIOUS
  <1>1. /\ s.n > 0 /\ s.n \in Nat /\ r.n \in Nat /\ r.n <= s.n
        /\ s.left = IF r.n = 0 THEN Window ELSE r.left
    BY DEF Incremented, Counter
  <1> HIDE DEF s
  <1>2. CASE r.n = 0
    <2>1. Open(s) = 1 /\ 1 \in 0 .. Window /\ s.left > 0
      BY <1>1, <1>2, KeysAssumption DEF Open
    <2>2. SumUpTo(f, 1) = 0 /\ SumUpTo(f, Window) <= l
      BY <1>2, FirstPart DEF Kept
    <2>3. SumUpTo(f, Window) \in Nat
      BY <2>1, Parts
    <2> QED BY <1>1, <2>1, <2>2, <2>3 DEF Kept
  <1>3. CASE r.n > 0
    <2>1. r.left > 0 /\ s.left > 0 /\ Open(s) = Open(r) /\ Open(r) \in 0 .. Window
      BY <1>1, <1>3, OpenRange DEF Kept, Open
    <2>2. SumUpTo(f, Open(r)) \in Nat
      BY <2>1, Parts
    <2> QED BY <1>1, <1>3, <2>1, <2>2 DEF Kept
  <1> QED BY <1>1, <1>2, <1>3

\* A tick on, the counter covers one tick more, or is dropped; then what it let
\* through is all there is in the window.
LEMMA KeptTicking ==
    ASSUME NEW r \in Counter, NEW l \in Nat, NEW f \in History, Kept(r, l, f),
           NEW s, s = IF r.left <= 1 THEN [n |-> 0, left |-> 0] ELSE [r EXCEPT !.left = @ - 1]
    PROVE  Kept(s, l, [i \in 0 .. Window - 1 |-> IF i = 0 THEN 0 ELSE f[i - 1]])
  <1> DEFINE g == [i \in 0 .. Window - 1 |-> IF i = 0 THEN 0 ELSE f[i - 1]]
  <1> SUFFICES Kept(s, l, g)
    OBVIOUS
  <1>1. \A n \in 0 .. Window - 1 : SumUpTo(g, n + 1) = SumUpTo(f, n)
    BY SumShifted, KeysAssumption DEF History
  <1>2. g[0] = 0
    BY KeysAssumption
  <1> HIDE DEF g
  <1>3. \A n \in 1 .. Window : SumUpTo(g, n) = SumUpTo(f, n - 1)
    <2> SUFFICES ASSUME NEW n \in 1 .. Window PROVE SumUpTo(g, n) = SumUpTo(f, n - 1)
      OBVIOUS
    <2>1. n - 1 \in 0 .. Window - 1 /\ (n - 1) + 1 = n
      BY KeysAssumption
    <2>2. SumUpTo(g, (n - 1) + 1) = SumUpTo(f, n - 1)
      BY <1>1, <2>1, Zenon
    <2> QED BY <2>1, <2>2
  <1>4. SumUpTo(g, Window) = SumUpTo(f, Window - 1) /\ SumUpTo(f, Window - 1) \in Nat
        /\ SumUpTo(f, Window - 1) <= SumUpTo(f, Window) /\ SumUpTo(f, Window) \in Nat
    <2>1. Window \in 1 .. Window /\ Window - 1 \in 0 .. Window
      BY KeysAssumption
    <2> QED BY <1>3, <2>1, Parts
  <1>5. r.n \in Nat /\ r.left \in Nat /\ r.left <= Window
    BY KeysAssumption DEF Counter
  <1>6. CASE r.left <= 1
    <2>1. s.n = 0
      BY <1>6
    <2>2. SumUpTo(f, Window) <= l
      <3>1. CASE r.n = 0
        BY <3>1 DEF Kept
      <3>2. CASE r.n > 0
        <4>1. Open(r) = Window
          BY <1>5, <1>6, <3>2, KeysAssumption DEF Kept, Open
        <4> QED BY <3>2, <4>1 DEF Kept
      <3> QED BY <1>5, <3>1, <3>2
    <2> QED BY <1>2, <1>4, <2>1, <2>2 DEF Kept
  <1>7. CASE r.left > 1
    <2>1. s.n = r.n /\ s.left = r.left - 1 /\ s.left > 0
      BY <1>5, <1>7 DEF Counter
    <2>2. CASE r.n = 0
      BY <1>2, <1>4, <2>1, <2>2 DEF Kept
    <2>3. CASE r.n > 0
      <3>1. Open(s) = Open(r) + 1 /\ Open(r) \in 0 .. Window /\ Open(s) \in 1 .. Window
            /\ Open(s) - 1 = Open(r)
        BY <1>5, <1>7, <2>1, KeysAssumption DEF Open
      <3>2. SumUpTo(g, Open(s)) = SumUpTo(f, Open(r))
        BY <1>3, <3>1
      <3>3. SumUpTo(f, Open(r)) \in Nat
        BY <3>1, Parts
      <3> QED BY <1>4, <2>1, <2>3, <3>2, <3>3 DEF Kept
    <2> QED BY <1>5, <2>2, <2>3
  <1> QED BY <1>5, <1>6, <1>7

LEMMA LimitInit == Init => LimitInv
  <1> SUFFICES ASSUME Init, NEW k \in Key, Rpm[k] > 0
               PROVE  Kept(rate[k], Rpm[k], log[k])
    BY DEF LimitInv
  <1> DEFINE f == [i \in 0 .. Window - 1 |-> 0]
  <1>1. rate[k].n = 0 /\ log[k] = f /\ log[k][0] = 0
    BY KeysAssumption DEF Init
  <1>2. f \in [0 .. Window - 1 -> Nat] /\ \A i \in 0 .. Window - 1 : f[i] = 0
    OBVIOUS
  <1> HIDE DEF f
  <1>3. SumUpTo(f, Window) = 0
    <2> DEFINE S == {n \in Nat : n <= Window => SumUpTo(f, n) = 0}
    <2>1. 0 \in S
      BY SumEquation
    <2>2. ASSUME NEW n \in Nat, n \in S PROVE n + 1 \in S
      <3>1. SumUpTo(f, n + 1) = SumUpTo(f, n) + f[n]
        BY SumEquation
      <3> QED BY <1>2, <2>2, <3>1, KeysAssumption
    <2> HIDE DEF S
    <2>3. \A n \in Nat : n \in S
      BY <2>1, <2>2, SetInduction
    <2> QED BY <2>3, KeysAssumption DEF S
  <1> QED BY <1>1, <1>3, KeysAssumption DEF Kept

\* Nothing but the script and time changes a counter or what it let through.
LEMMA LimitStep ==
    ASSUME TypeOK, LimitInv, [Next]_vars
    PROVE  LimitInv'
  <1>0. ASSUME NEW k \in Key PROVE rate[k] \in Counter /\ log[k] \in History /\ Rpm[k] \in Nat
    BY KeysAssumption DEF TypeOK, RedisType, HistoryType, Counter, History
  <1>1. ASSUME NEW q \in Request, CheckRate(q) PROVE LimitInv'
    <2> DEFINE j == key[q]
    <2>1. j \in Key
      BY <1>1, Presented DEF CheckRate, Points
    <2> HIDE DEF j
    <2>2. \/ UNCHANGED <<rate, log>>
          \/ /\ Rpm[j] > 0 /\ rate[j].n < Rpm[j]
             /\ IncrRate(j)
             /\ log' = [log EXCEPT ![j][0] = @ + 1]
          \/ IncrRate(j) /\ UNCHANGED log
      BY <1>1 DEF CheckRate, j
    <2>3. ASSUME IncrRate(j)
          PROVE  rate' = [rate EXCEPT ![j] = Incremented(rate[j], Rpm[j])]
      BY <2>1, <2>3 DEF IncrRate, Incremented, TypeOK, RedisType
    <2> SUFFICES ASSUME NEW k \in Key, Rpm[k] > 0
                 PROVE  Kept(rate'[k], Rpm[k], log'[k])
      BY DEF LimitInv, Kept, Open
    <2>4. Kept(rate[k], Rpm[k], log[k])
      BY DEF LimitInv
    <2>5. CASE UNCHANGED <<rate, log>>
      BY <2>4, <2>5
    <2>6. CASE rate[j].n < Rpm[j] /\ IncrRate(j) /\ log' = [log EXCEPT ![j][0] = @ + 1]
      <3>1. k = j => rate'[k] = Incremented(rate[k], Rpm[k])
                     /\ log'[k] = [log[k] EXCEPT ![0] = @ + 1]
        BY <2>1, <2>3, <2>6 DEF TypeOK, RedisType, HistoryType
      <3>2. k # j => rate'[k] = rate[k] /\ log'[k] = log[k]
        BY <2>3, <2>6 DEF TypeOK, RedisType, HistoryType
      <3> QED BY <1>0, <2>4, <2>6, <3>1, <3>2, KeptAdmitting
    <2>7. CASE IncrRate(j) /\ UNCHANGED log
      <3>1. rate'[k] = IF k = j THEN Incremented(rate[k], Rpm[k]) ELSE rate[k]
        BY <2>1, <2>3, <2>7 DEF TypeOK, RedisType
      <3> QED BY <1>0, <2>4, <2>7, <3>1, KeptRefusing
    <2> QED BY <2>2, <2>5, <2>6, <2>7
  <1>2. CASE Tick
    <2> SUFFICES ASSUME NEW k \in Key, Rpm[k] > 0
                 PROVE  Kept(rate'[k], Rpm[k], log'[k])
      BY DEF LimitInv, Kept, Open
    <2>1. /\ rate'[k] = IF rate[k].left <= 1 THEN [n |-> 0, left |-> 0]
                        ELSE [rate[k] EXCEPT !.left = @ - 1]
          /\ log'[k] = [i \in 0 .. Window - 1 |-> IF i = 0 THEN 0 ELSE log[k][i - 1]]
      BY <1>2 DEF Tick, Shifted
    <2>2. Kept(rate[k], Rpm[k], log[k])
      BY DEF LimitInv
    <2> QED BY <1>0, <2>1, <2>2, KeptTicking
  <1>3. CASE UNCHANGED <<rate, log>>
    BY <1>3 DEF LimitInv, Kept, Open
  <1>4. ASSUME NEW k \in Key, Administration(k) PROVE UNCHANGED <<rate, log>>
    BY <1>4 DEF Administration, CreateKey, RevokeKey, DeleteKey, redis, history
  <1>5. ASSUME NEW q \in Request, NEW k \in Key, Arrive(q, k) PROVE UNCHANGED <<rate, log>>
    BY <1>5 DEF Arrive, redis, history
  <1>6. ASSUME NEW q \in Request, Check(q), ~CheckRate(q) PROVE UNCHANGED <<rate, log>>
    BY <1>6 DEF Check, Lookup, Select, Warm, CheckBudget, redis, history
  <1>7. ASSUME NEW q \in Request, RecordUsage(q) PROVE UNCHANGED <<rate, log>>
    BY <1>7 DEF RecordUsage, redis, history
  <1>8. CASE UNCHANGED vars
    BY <1>3, <1>8 DEF vars, redis, history
  <1> QED BY <1>1, <1>2, <1>3, <1>4, <1>5, <1>6, <1>7, <1>8 DEF Next

\* In any window of the limit at most twice the limit is let through, for any
\* limit and any length of the window, however requests, refusals, expiries and
\* lost replies interleave.
THEOREM RateBoundedHolds == Spec => []RateBounded
  <1>1. TypeOK /\ LimitInv => RateBounded
    <2> SUFFICES ASSUME TypeOK, LimitInv, NEW k \in Key, Rpm[k] > 0
                 PROVE  Recent(k) <= 2 * Rpm[k]
      BY DEF RateBounded
    <2>1. rate[k] \in Counter /\ log[k] \in History /\ Rpm[k] \in Nat
      BY KeysAssumption DEF TypeOK, RedisType, HistoryType, Counter, History
    <2>2. Kept(rate[k], Rpm[k], log[k])
      BY DEF LimitInv
    <2>3. SumUpTo(log[k], Window) \in Nat
      BY <2>1, Parts, KeysAssumption
    <2>4. CASE rate[k].n = 0
      BY <2>1, <2>2, <2>3, <2>4 DEF Recent, Kept
    <2>5. CASE rate[k].n > 0
      <3>1. Open(rate[k]) \in 0 .. Window
        BY <2>1, <2>2, <2>5, OpenRange DEF Kept
      <3>2. SumUpTo(log[k], Open(rate[k])) \in Nat
        BY <2>1, <3>1, Parts
      <3> QED BY <2>1, <2>2, <2>3, <2>5, <3>2 DEF Recent, Kept
    <2> QED BY <2>1, <2>4, <2>5 DEF Counter
  <1>2. TypeOK /\ LimitInv /\ [Next]_vars => LimitInv'
    BY LimitStep
  <1> QED BY <1>1, <1>2, LimitInit, KeysTypeCorrect, PTL DEF Spec

=============================================================================
