------------------------- MODULE RouterConsoleProofs -------------------------
(***************************************************************************)
(* Theorems about RouterConsole, for a channel of any length and any number*)
(* of operations, health checks and broken connections: type correctness,  *)
(* and that what ends a page's wait is on its way.                         *)
(***************************************************************************)
EXTENDS RouterConsole, SequenceTheorems, TLAPS

-----------------------------------------------------------------------------
(* What is left to do is a sequence of steps that announces every write,   *)
(* but for an untold one at its end.                                       *)

Step == {W(state) : state \in State} \union {U("running"), R("on"), R("off")} \union {E(event) : event \in Event}

\* Some later step of the script is this one.
Later(script, i, step) == \E j \in DOMAIN script : j > i /\ script[j] = step

\* Every write of the row is followed by the event that tells of it, an untold one
\* by the event that tells of the failure or by nothing.
Announced(script) ==
    /\ \A i \in DOMAIN script, state \in State : script[i] = W(state) => Later(script, i, E(state))
    /\ \A i \in DOMAIN script :
         script[i] = U("running") => i = Len(script) \/ Later(script, i, E("failed"))

Script == {script \in Seq(Step) : Announced(script)}

\* Writes, changes of the table and events are told apart, and so are two
\* events.
LEMMA StepsDiffer ==
    /\ \A x, y : W(x) # E(y) /\ W(x) # R(y) /\ R(x) # E(y)
    /\ \A x, y : U(x) # E(y) /\ U(x) # R(y) /\ U(x) # W(y)
    /\ \A x, y : (E(x) = E(y) => x = y) /\ (W(x) = W(y) => x = y) /\ (R(x) = R(y) => x = y)
    /\ \A x : W(x)[1] = "write" /\ W(x)[2] = x
    /\ \A x : U(x)[1] = "untold" /\ U(x)[2] = x
    /\ \A x : R(x)[1] = "route" /\ R(x)[2] = x
    /\ \A x : E(x)[1] = "emit" /\ E(x)[2] = x
  BY DEF W, R, E, U

LEMMA StepIn ==
    /\ \A state \in State : W(state) \in Step /\ E(state) \in Step
    /\ R("on") \in Step /\ R("off") \in Step
    /\ E("starting") \in Step /\ E("stopping") \in Step
    /\ E("models") \in Step /\ U("running") \in Step
  BY DEF Step, Event, Shown

LEMMA EmptyScript == <<>> \in Script
  BY EmptySeq DEF Script, Announced

\* A later step of either part is one of the whole.
LEMMA ConcatLater ==
    ASSUME NEW s \in Seq(Step), NEW t \in Seq(Step), NEW step
    PROVE  /\ s \o t \in Seq(Step) /\ DOMAIN (s \o t) = 1..(Len(s) + Len(t)) /\ Len(s \o t) = Len(s) + Len(t)
           /\ Len(s) \in Nat /\ Len(t) \in Nat /\ DOMAIN s = 1..Len(s) /\ DOMAIN t = 1..Len(t)
           /\ \A i \in 1..(Len(s) + Len(t)) : (s \o t)[i] = IF i <= Len(s) THEN s[i] ELSE t[i - Len(s)]
           /\ \A i : Later(s, i, step) => Later(s \o t, i, step)
           /\ \A i \in 1..(Len(s) + Len(t)), k \in DOMAIN t :
                k > i - Len(s) /\ t[k] = step => Later(s \o t, i, step)
  <1>1. /\ s \o t \in Seq(Step) /\ Len(s \o t) = Len(s) + Len(t) /\ DOMAIN (s \o t) = 1..(Len(s) + Len(t))
        /\ Len(s) \in Nat /\ Len(t) \in Nat /\ DOMAIN s = 1..Len(s) /\ DOMAIN t = 1..Len(t)
    BY LenProperties
  <1>2. \A i \in 1..(Len(s) + Len(t)) : (s \o t)[i] = IF i <= Len(s) THEN s[i] ELSE t[i - Len(s)]
    OBVIOUS
  <1>3. ASSUME NEW i, NEW j \in DOMAIN s, j > i, s[j] = step
        PROVE  Later(s \o t, i, step)
    <2>1. j \in DOMAIN (s \o t) /\ (s \o t)[j] = step
      BY <1>1, <1>2, <1>3
    <2> QED BY <1>3, <2>1 DEF Later
  <1>4. ASSUME NEW i \in 1..(Len(s) + Len(t)), NEW k \in DOMAIN t, k > i - Len(s), t[k] = step
        PROVE  Later(s \o t, i, step)
    <2>1. k + Len(s) \in 1..(Len(s) + Len(t)) /\ ~(k + Len(s) <= Len(s)) /\ (k + Len(s)) - Len(s) = k
      BY <1>1
    <2>2. (s \o t)[k + Len(s)] = step /\ k + Len(s) > i
      BY <1>1, <1>2, <1>4, <2>1
    <2> QED BY <1>1, <2>1, <2>2 DEF Later
  <1> QED BY <1>1, <1>2, <1>3, <1>4 DEF Later

\* Scripts one after the other are a script, when the first ends with no untold
\* write or the second tells of a failure.
LEMMA ConcatScript ==
    ASSUME NEW s \in Script, NEW t \in Script,
           (\A i \in DOMAIN s : s[i] # U("running")) \/ (\E k \in DOMAIN t : t[k] = E("failed"))
    PROVE  s \o t \in Script
  <1>1. s \in Seq(Step) /\ t \in Seq(Step) /\ Announced(s) /\ Announced(t)
    BY DEF Script
  <1>2. ASSUME NEW i \in DOMAIN (s \o t), i > Len(s)
        PROVE  /\ i - Len(s) \in DOMAIN t /\ (s \o t)[i] = t[i - Len(s)]
               /\ \A step : Later(t, i - Len(s), step) => Later(s \o t, i, step)
    <2>1. i - Len(s) \in DOMAIN t /\ (s \o t)[i] = t[i - Len(s)]
      BY <1>1, <1>2, ConcatLater
    <2>2. ASSUME NEW step, Later(t, i - Len(s), step) PROVE Later(s \o t, i, step)
      <3>1. PICK k \in DOMAIN t : k > i - Len(s) /\ t[k] = step BY <2>2 DEF Later
      <3>2. i \in 1..(Len(s) + Len(t)) BY <1>1, ConcatLater
      <3> QED BY <1>1, <3>1, <3>2, ConcatLater
    <2> QED BY <2>1, <2>2
  <1>3. ASSUME NEW i \in DOMAIN (s \o t), i <= Len(s)
        PROVE  i \in DOMAIN s /\ (s \o t)[i] = s[i]
    BY <1>1, <1>3, ConcatLater
  <1>4. ASSUME NEW i \in DOMAIN (s \o t), NEW x \in State, (s \o t)[i] = W(x)
        PROVE  Later(s \o t, i, E(x))
    <2>1. CASE i <= Len(s)
      <3>1. Later(s, i, E(x)) BY <1>1, <1>3, <1>4, <2>1 DEF Announced
      <3> QED BY <1>1, <3>1, ConcatLater
    <2>2. CASE i > Len(s)
      <3>1. Later(t, i - Len(s), E(x)) BY <1>1, <1>2, <1>4, <2>2 DEF Announced
      <3> QED BY <1>2, <2>2, <3>1
    <2> QED BY <1>1, <2>1, <2>2, ConcatLater
  <1>5. ASSUME NEW i \in DOMAIN (s \o t), (s \o t)[i] = U("running")
        PROVE  i = Len(s \o t) \/ Later(s \o t, i, E("failed"))
    <2>1. CASE i <= Len(s)
      <3>1. i \in DOMAIN s /\ s[i] = U("running") BY <1>3, <1>5, <2>1
      <3>2. PICK k \in DOMAIN t : t[k] = E("failed") BY <3>1
      <3>3. k > i - Len(s) BY <1>1, <2>1, <3>1, ConcatLater
      <3> QED BY <1>1, <3>2, <3>3, ConcatLater
    <2>2. CASE i > Len(s)
      <3>1. i - Len(s) = Len(t) \/ Later(t, i - Len(s), E("failed"))
        BY <1>1, <1>2, <1>5, <2>2 DEF Announced
      <3>2. i - Len(s) = Len(t) => i = Len(s \o t) BY <1>1, ConcatLater
      <3> QED BY <1>2, <2>2, <3>1, <3>2
    <2> QED BY <1>1, <2>1, <2>2, ConcatLater
  <1> QED BY <1>1, <1>4, <1>5, ConcatLater DEF Script, Announced

\* Steps that write nothing are a script.
LEMMA NoWrite ==
    ASSUME NEW s \in Seq(Step), \A i \in DOMAIN s : s[i] # U("running") /\ \A x \in State : s[i] # W(x)
    PROVE  s \in Script
  BY DEF Script, Announced

\* So is one write among others that write nothing, with its event after it.
LEMMA OneWrite ==
    ASSUME NEW s \in Seq(Step), NEW n \in DOMAIN s, NEW x \in State, s[n] = W(x), Later(s, n, E(x)),
           \A i \in DOMAIN s \ {n} : s[i] # U("running") /\ \A y \in State : s[i] # W(y)
    PROVE  s \in Script
  <1>1. s[n] # U("running") /\ \A y \in State : s[n] = W(y) => y = x
    BY StepsDiffer
  <1> QED BY <1>1 DEF Script, Announced

\* A short script with its write in one place
LEMMA ShortScripts ==
    ASSUME NEW a \in Step, NEW b \in Step, NEW x \in State,
           \A e \in {a, b} : e # U("running") /\ \A y \in State : e # W(y)
    PROVE  /\ <<a>> \in Script /\ <<a, b>> \in Script
           /\ <<W(x), E(x)>> \in Script /\ <<a, W(x), E(x)>> \in Script /\ <<W(x), b, E(x)>> \in Script
           /\ <<a, W(x), b, E(x)>> \in Script
           /\ <<a, U("running")>> \in Script
  <1>1. W(x) \in Step /\ E(x) \in Step /\ U("running") \in Step
    BY StepIn
  <1>2. E(x) # U("running") /\ \A y \in State : E(x) # W(y) /\ U("running") # W(y)
    BY StepsDiffer
  <1>3. <<a>> \in Script /\ <<a, b>> \in Script
    <2> DEFINE one == <<a>>
               two == <<a, b>>
    <2>1. one \in Seq(Step) /\ \A i \in DOMAIN one : one[i] = a OBVIOUS
    <2>2. two \in Seq(Step) /\ DOMAIN two = 1..2 /\ two[1] = a /\ two[2] = b OBVIOUS
    <2>3. \A i \in DOMAIN two : two[i] \in {a, b} BY <2>2
    <2> HIDE DEF one, two
    <2>4. one \in Script BY <2>1, NoWrite
    <2>5. two \in Script BY <2>2, <2>3, NoWrite
    <2> QED BY <2>4, <2>5 DEF one, two
  <1>4. <<W(x), E(x)>> \in Script
    <2> DEFINE s == <<W(x), E(x)>>
    <2>1. s \in Seq(Step) /\ DOMAIN s = 1..2 /\ s[1] = W(x) /\ s[2] = E(x) BY <1>1
    <2> HIDE DEF s
    <2>2. Later(s, 1, E(x)) BY <2>1 DEF Later
    <2>3. s \in Script BY <1>2, <2>1, <2>2, OneWrite
    <2> QED BY <2>3 DEF s
  <1>5. <<a, W(x), E(x)>> \in Script
    <2> DEFINE s == <<a, W(x), E(x)>>
    <2>1. s \in Seq(Step) /\ DOMAIN s = 1..3 /\ s[1] = a /\ s[2] = W(x) /\ s[3] = E(x) BY <1>1
    <2> HIDE DEF s
    <2>2. Later(s, 2, E(x)) BY <2>1 DEF Later
    <2>3. s \in Script BY <1>2, <2>1, <2>2, OneWrite
    <2> QED BY <2>3 DEF s
  <1>6. <<W(x), b, E(x)>> \in Script
    <2> DEFINE s == <<W(x), b, E(x)>>
    <2>1. s \in Seq(Step) /\ DOMAIN s = 1..3 /\ s[1] = W(x) /\ s[2] = b /\ s[3] = E(x) BY <1>1
    <2> HIDE DEF s
    <2>2. Later(s, 1, E(x)) BY <2>1 DEF Later
    <2>3. s \in Script BY <1>2, <2>1, <2>2, OneWrite
    <2> QED BY <2>3 DEF s
  <1>7. <<a, W(x), b, E(x)>> \in Script
    <2> DEFINE s == <<a, W(x), b, E(x)>>
    <2>1. s \in Seq(Step) /\ DOMAIN s = 1..4 /\ s[1] = a /\ s[2] = W(x) /\ s[3] = b /\ s[4] = E(x) BY <1>1
    <2> HIDE DEF s
    <2>2. Later(s, 2, E(x)) BY <2>1 DEF Later
    <2>3. s \in Script BY <1>2, <2>1, <2>2, OneWrite
    <2> QED BY <2>3 DEF s
  <1>8. <<a, U("running")>> \in Script
    <2> DEFINE s == <<a, U("running")>>
    <2>1. s \in Seq(Step) /\ DOMAIN s = 1..2 /\ Len(s) = 2 /\ s[1] = a /\ s[2] = U("running") BY <1>1
    <2> HIDE DEF s
    <2>2. s \in Script BY <1>2, <2>1 DEF Script, Announced
    <2> QED BY <2>2 DEF s
  <1> QED BY <1>3, <1>4, <1>5, <1>6, <1>7, <1>8

Failing == <<W("failed"), E("failed")>>

LEMMA AnnouncedScripts ==
    /\ Stopping \subseteq Script /\ Starting \subseteq Script
    /\ Checks \subseteq Script /\ Reloads \subseteq Script /\ Discoveries \subseteq Script
    /\ Failing \in Script /\ <<W("running"), R("on"), E("running")>> \in Script
  <1>1. "running" \in State /\ "stopped" \in State /\ "failed" \in State /\ "unhealthy" \in State
    BY DEF State
  <1> DEFINE quiet(e) == e \in Step /\ e # U("running") /\ \A y \in State : e # W(y)
  <1>2. /\ quiet(R("on")) /\ quiet(R("off")) /\ quiet(E("starting")) /\ quiet(E("stopping"))
        /\ quiet(E("running")) /\ quiet(E("models"))
    BY <1>1, StepIn, StepsDiffer
  <1>3. ASSUME NEW a, NEW b, NEW x \in State, quiet(a), quiet(b)
        PROVE  /\ <<a>> \in Script /\ <<a, b>> \in Script
               /\ <<W(x), E(x)>> \in Script /\ <<a, W(x), E(x)>> \in Script /\ <<W(x), b, E(x)>> \in Script
               /\ <<a, W(x), b, E(x)>> \in Script
               /\ <<a, U("running")>> \in Script
    BY <1>3, ShortScripts
  <1> HIDE DEF quiet
  <1>4. Stopping \subseteq Script BY <1>1, <1>2, <1>3 DEF Stopping
  <1>5. Starting \subseteq Script
    <2>1. <<E("starting"), W("running"), R("on"), E("running")>> \in Script BY <1>1, <1>2, <1>3
    <2>2. <<E("starting"), U("running")>> \in Script BY <1>1, <1>2, <1>3
    <2>3. <<E("starting"), W("unhealthy"), E("unhealthy")>> \in Script BY <1>1, <1>2, <1>3
    <2>4. <<E("starting")>> \in Script /\ <<W("failed"), E("failed")>> \in Script BY <1>1, <1>2, <1>3
    <2> QED BY <2>1, <2>2, <2>3, <2>4 DEF Starting
  <1>6. Checks \subseteq Script
    <2>1. <<R("on")>> \in Script /\ <<R("on"), W("running"), E("running")>> \in Script BY <1>1, <1>2, <1>3
    <2>2. <<R("on"), E("running")>> \in Script /\ <<R("off"), E("running")>> \in Script BY <1>1, <1>2, <1>3
    <2>3. <<W("unhealthy"), R("off"), E("unhealthy")>> \in Script BY <1>1, <1>2, <1>3
    <2>4. <<W("stopped"), R("off"), E("stopped")>> \in Script BY <1>1, <1>2, <1>3
    <2> QED BY <2>1, <2>2, <2>3, <2>4 DEF Checks
  <1>7. Reloads \subseteq Script BY <1>1, <1>2, <1>3 DEF Reloads
  <1>8. Discoveries \subseteq Script BY <1>1, <1>2, <1>3, EmptyScript DEF Discoveries
  <1>9. Failing \in Script /\ <<W("running"), R("on"), E("running")>> \in Script
    BY <1>1, <1>2, <1>3 DEF Failing
  <1> QED BY <1>4, <1>5, <1>6, <1>7, <1>8, <1>9

LEMMA ScriptsAnnounced ==
    ASSUME NEW kind \in Kind
    PROVE  Scripts(kind) \subseteq Script
  <1>1. CASE kind = "start"
    <2> DEFINE found == <<W("running"), R("on"), E("running")>>
               tried == {IF Succeeds(s) THEN s ELSE s \o Failing : s \in Starting}
    <2>1. Scripts(kind) = tried \union {found}
      BY <1>1 DEF Scripts, Failing
    <2>2. Failing \in Script /\ found \in Script
      BY AnnouncedScripts
    <2>3. \E k \in DOMAIN Failing : Failing[k] = E("failed")
      <3>1. DOMAIN Failing = 1..2 /\ Failing[2] = E("failed") BY DEF Failing
      <3> QED BY <3>1
    <2> HIDE DEF found
    <2>4. \A s \in Starting : (IF Succeeds(s) THEN s ELSE s \o Failing) \in Script
      BY <2>2, <2>3, AnnouncedScripts, ConcatScript
    <2>5. tried \subseteq Script
      BY <2>4
    <2> HIDE DEF tried
    <2> QED BY <2>1, <2>2, <2>5, Zenon
  <1>2. CASE kind = "stop"
    BY <1>2, AnnouncedScripts DEF Scripts
  <1>3. CASE kind = "restart"
    <2>1. Scripts(kind) = {s \o t : s \in Stopping, t \in Starting}
      BY <1>3 DEF Scripts
    <2>2. ASSUME NEW s \in Stopping, NEW i \in DOMAIN s PROVE s[i] # U("running")
      <3>1. CASE s = <<E("stopping")>>
        <4>1. DOMAIN s = 1..1 /\ s[1] = E("stopping") BY <3>1
        <4> QED BY <4>1, StepsDiffer
      <3>2. CASE s = <<E("stopping"), W("stopped"), R("off"), E("stopped")>>
        <4>1. /\ DOMAIN s = 1..4 /\ s[1] = E("stopping") /\ s[2] = W("stopped")
              /\ s[3] = R("off") /\ s[4] = E("stopped")
          BY <3>2
        <4> QED BY <4>1, StepsDiffer
      <3> QED BY <3>1, <3>2 DEF Stopping
    <2>3. \A s \in Stopping, t \in Starting : s \o t \in Script
      BY <2>2, AnnouncedScripts, ConcatScript
    <2> SUFFICES ASSUME NEW script \in Scripts(kind) PROVE script \in Script
      OBVIOUS
    <2>4. PICK s \in Stopping, t \in Starting : script = s \o t
      BY <2>1
    <2> QED BY <2>3, <2>4, Zenon
  <1> QED BY <1>1, <1>2, <1>3 DEF Kind

-----------------------------------------------------------------------------
(* One step of a script *)

\* An event of the script ends the wait.
Tells(script, busy) == \E i \in DOMAIN script, state \in Ends(busy) : script[i] = E(state)

LEMMA NothingTold ==
    ASSUME NEW busy, NEW script, script = <<>>
    PROVE  ~Tells(script, busy)
  <1>1. DOMAIN script = {}
    BY EmptySeq
  <1> QED BY <1>1, Zenon DEF Tells

LEMMA TailScript ==
    ASSUME NEW s \in Script, s # <<>>
    PROVE  /\ Head(s) \in Step /\ Tail(s) \in Script
           /\ \A x \in State : Head(s) = W(x) => \E i \in DOMAIN Tail(s) : Tail(s)[i] = E(x)
           /\ Head(s) = U("running") => Tail(s) = <<>> \/ \E i \in DOMAIN Tail(s) : Tail(s)[i] = E("failed")
           /\ \A i \in DOMAIN s : s[i] = Head(s) \/ \E j \in DOMAIN Tail(s) : Tail(s)[j] = s[i]
  <1>1. s \in Seq(Step) /\ Announced(s)
    BY DEF Script
  <1>2. /\ Head(s) \in Step /\ Head(s) = s[1] /\ Tail(s) \in Seq(Step)
        /\ Len(s) \in Nat /\ Len(s) > 0 /\ DOMAIN s = 1..Len(s)
        /\ DOMAIN Tail(s) = 1..(Len(s) - 1)
        /\ \A i \in 1..(Len(s) - 1) : Tail(s)[i] = s[i + 1]
    BY <1>1, HeadTailProperties, LenProperties, ElementOfSeq
  <1>3. ASSUME NEW i \in DOMAIN s, i > 1
        PROVE  i - 1 \in DOMAIN Tail(s) /\ Tail(s)[i - 1] = s[i]
    BY <1>2, <1>3
  <1>4. ASSUME NEW x \in State, Head(s) = W(x)
        PROVE  \E i \in DOMAIN Tail(s) : Tail(s)[i] = E(x)
    <2>1. 1 \in DOMAIN s /\ s[1] = W(x)
      BY <1>2, <1>4
    <2>2. PICK j \in DOMAIN s : j > 1 /\ s[j] = E(x)
      BY <1>1, <2>1 DEF Announced, Later
    <2> QED BY <1>3, <2>2
  <1>5. ASSUME NEW i \in DOMAIN Tail(s), NEW step, Later(s, i + 1, step)
        PROVE  Later(Tail(s), i, step)
    <2>1. PICK j \in DOMAIN s : j > i + 1 /\ s[j] = step
      BY <1>5 DEF Later
    <2>2. j > 1 /\ j - 1 > i
      BY <1>2, <2>1
    <2> QED BY <1>3, <2>1, <2>2 DEF Later
  <1>7. ASSUME NEW i \in DOMAIN Tail(s), NEW x \in State, Tail(s)[i] = W(x)
        PROVE  Later(Tail(s), i, E(x))
    <2>1. i + 1 \in DOMAIN s /\ s[i + 1] = W(x)
      BY <1>2, <1>7
    <2> QED BY <1>1, <1>5, <2>1 DEF Announced
  <1>8. ASSUME NEW i \in DOMAIN Tail(s), Tail(s)[i] = U("running")
        PROVE  i = Len(Tail(s)) \/ Later(Tail(s), i, E("failed"))
    <2>1. i + 1 \in DOMAIN s /\ s[i + 1] = U("running")
      BY <1>2, <1>8
    <2>2. i + 1 = Len(s) \/ Later(s, i + 1, E("failed"))
      BY <1>1, <2>1 DEF Announced
    <2>3. i + 1 = Len(s) => i = Len(Tail(s))
      BY <1>1, <1>2, HeadTailProperties
    <2> QED BY <1>5, <2>2, <2>3
  <1>9. ASSUME Head(s) = U("running")
        PROVE  Tail(s) = <<>> \/ \E i \in DOMAIN Tail(s) : Tail(s)[i] = E("failed")
    <2>1. 1 \in DOMAIN s /\ s[1] = U("running")
      BY <1>2, <1>9
    <2>2. 1 = Len(s) \/ Later(s, 1, E("failed"))
      BY <1>1, <2>1 DEF Announced
    <2>3. CASE 1 = Len(s)
      <3>1. Len(Tail(s)) = 0 BY <1>1, <2>3, HeadTailProperties
      <3> QED BY <1>2, <3>1, EmptySeq
    <2>4. CASE Later(s, 1, E("failed"))
      BY <1>3, <2>4 DEF Later
    <2> QED BY <2>2, <2>3, <2>4
  <1>6. \A i \in DOMAIN s : s[i] = Head(s) \/ \E j \in DOMAIN Tail(s) : Tail(s)[j] = s[i]
    <2> SUFFICES ASSUME NEW i \in DOMAIN s, i # 1
                 PROVE  \E j \in DOMAIN Tail(s) : Tail(s)[j] = s[i]
      BY <1>2
    <2>1. i > 1
      BY <1>2
    <2> QED BY <1>3, <2>1
  <1>10. Tail(s) \in Script
    BY <1>2, <1>7, <1>8 DEF Script, Announced
  <1> QED BY <1>2, <1>4, <1>6, <1>9, <1>10

-----------------------------------------------------------------------------
(* The inductive invariant *)

StateType ==
    /\ row \in State /\ routed \in BOOLEAN
    /\ asked \in Kind \union {""}
    /\ page \in [shown : Shown, busy : Busy, answer : State \union {""}]
    /\ fresh \in BOOLEAN /\ missed \in BOOLEAN

Holds == IF socket = "none" THEN 0 ELSE IF socket = "found" THEN 1 ELSE Cap + 1

ChannelType ==
    /\ socket \in {"none", "found", "live"}
    /\ chan \in Seq(Event) /\ Len(chan) <= Holds

\* What is left of every operation and check tells of what it writes.
ScriptInv == doing \in [Worker -> Script]

\* The history is of a wait.
HistoryInv == fresh => Waiting

TypeInv == StateType /\ ChannelType /\ ScriptInv

\* What ends the wait is in the channel, or still to be announced, or there is
\* no connection.
InChannel == \E i \in DOMAIN chan : chan[i] \in Ends(page.busy)
ToBeTold  == \E w \in Worker : Tells(doing[w], page.busy)
Coming    == socket = "none" \/ InChannel \/ ToBeTold
ComingInv == fresh /\ ~missed /\ row \in Ends(page.busy) => Coming

IInv == TypeInv /\ HistoryInv /\ ComingInv

LEMMA EndsType ==
    ASSUME NEW busy
    PROVE  /\ Ends(busy) \subseteq State /\ (busy = "" => Ends(busy) = {})
           /\ "running" \in Ends(busy) => "failed" \in Ends(busy)
  BY DEF Ends, State

LEMMA SeenType == StateType => Seen \in State
  BY DEF StateType, Seen, State

LEMMA InitIInv == Init => IInv
  <1> SUFFICES ASSUME Init PROVE IInv
    OBVIOUS
  <1>1. StateType /\ HistoryInv /\ ComingInv
    BY DEF Init, StateType, HistoryInv, ComingInv, State, Shown, Kind, Busy
  <1>2. ChannelType
    <2>1. chan = <<>> /\ socket = "none"
      BY DEF Init
    <2>2. <<>> \in Seq(Event) /\ Len(<<>>) = 0
      BY EmptySeq
    <2> QED BY <2>1, <2>2 DEF ChannelType, Holds
  <1>3. ScriptInv
    BY EmptyScript DEF Init, ScriptInv
  <1> QED BY <1>1, <1>2, <1>3 DEF IInv, TypeInv

LEMMA IInvGives == IInv => TypeOK /\ EndIsOnItsWay
  <1> SUFFICES ASSUME IInv PROVE TypeOK /\ EndIsOnItsWay
    OBVIOUS
  <1>1. TypeOK
    BY DEF IInv, TypeInv, StateType, ChannelType, TypeOK, Holds
  <1>2. EndIsOnItsWay
    BY DEF IInv, ComingInv, Coming, InChannel, ToBeTold, Tells, EndIsOnItsWay
  <1> QED BY <1>1, <1>2

-----------------------------------------------------------------------------
(* Operations and checks *)

\* An operation or a check begins: nothing else changes that matters here.
LEMMA BeginIInv ==
    ASSUME IInv, NEW w \in Worker, doing[w] = <<>>, NEW script \in Script,
           doing' = [doing EXCEPT ![w] = script],
           UNCHANGED <<observed, page, line, history>>, asked' \in {"", asked}
    PROVE  IInv'
  <1>1. TypeInv'
    BY DEF IInv, TypeInv, StateType, ChannelType, ScriptInv, Holds, observed, line, history
  <1>2. HistoryInv'
    BY DEF IInv, HistoryInv, Waiting, history
  <1>3. ToBeTold => ToBeTold'
    <2> SUFFICES ASSUME NEW v \in Worker, Tells(doing[v], page.busy) PROVE ToBeTold'
      BY DEF ToBeTold
    <2>1. v # w
      BY NothingTold
    <2>2. doing'[v] = doing[v] /\ page' = page
      BY <2>1 DEF IInv, TypeInv, ScriptInv
    <2> QED BY <2>2 DEF ToBeTold
  <1>4. ComingInv'
    BY <1>3 DEF IInv, ComingInv, Coming, InChannel, observed, line, history
  <1> QED BY <1>1, <1>2, <1>4 DEF IInv

LEMMA OtherIInv == IInv /\ Other => IInv'
  <1> SUFFICES ASSUME IInv, NEW kind \in Kind, Free, Begin(kind), UNCHANGED <<observed, asked, page, line, history>>
               PROVE  IInv'
    BY DEF Other
  <1>1. PICK script \in Script : doing' = [doing EXCEPT ![Operation] = script]
    BY ScriptsAnnounced DEF Begin
  <1> QED BY <1>1, BeginIInv DEF Free, Worker

LEMMA TakeIInv == IInv /\ Take => IInv'
  <1> SUFFICES ASSUME IInv, Take PROVE IInv'
    OBVIOUS
  <1>1. asked \in Kind /\ asked' = "" /\ UNCHANGED <<observed, page, line, history>>
    BY DEF Take, IInv, TypeInv, StateType
  <1>2. CASE Free /\ Begin(asked)
    <2>1. PICK script \in Script : doing' = [doing EXCEPT ![Operation] = script]
      BY <1>1, <1>2, ScriptsAnnounced DEF Begin
    <2> QED BY <1>1, <1>2, <2>1, BeginIInv DEF Free, Worker
  <1>3. CASE UNCHANGED doing
    BY <1>1, <1>3 DEF IInv, TypeInv, StateType, ChannelType, ScriptInv, HistoryInv, ComingInv, Coming,
                      InChannel, ToBeTold, Holds, Waiting, observed, line, history
  <1> QED BY <1>2, <1>3 DEF Take

LEMMA CheckIInv == ASSUME IInv, NEW c \in Checker, Check(c) PROVE IInv'
  <1>1. PICK script \in Checks \union Reloads \union Discoveries : doing' = [doing EXCEPT ![c] = script]
    BY DEF Check
  <1>2. script \in Script
    BY AnnouncedScripts
  <1> QED BY <1>1, <1>2, BeginIInv DEF Check, Worker

\* What an operation or a check has still to tell, but for the step it takes.
LEMMA StillTold ==
    ASSUME ScriptInv, NEW w \in Worker, doing[w] # <<>>, doing' = [doing EXCEPT ![w] = Tail(@)],
           page' = page, ToBeTold, \A state \in Ends(page.busy) : Head(doing[w]) # E(state)
    PROVE  ToBeTold'
  <1>1. PICK v \in Worker : Tells(doing[v], page.busy)
    BY DEF ToBeTold
  <1>2. CASE v # w
    <2>1. doing'[v] = doing[v]
      BY <1>2 DEF ScriptInv
    <2> QED BY <1>1, <2>1 DEF ToBeTold
  <1>3. CASE v = w
    <2>1. doing[w] \in Script /\ doing'[w] = Tail(doing[w])
      BY DEF ScriptInv
    <2>2. PICK i \in DOMAIN doing[w], state \in Ends(page.busy) : doing[w][i] = E(state)
      BY <1>1, <1>3 DEF Tells
    <2>3. PICK j \in DOMAIN doing'[w] : doing'[w][j] = E(state)
      BY <2>1, <2>2, TailScript
    <2>4. Tells(doing'[w], page'.busy)
      BY <2>3 DEF Tells
    <2> QED BY <2>4 DEF ToBeTold
  <1> QED BY <1>2, <1>3

\* A step is a write of a state, a change of the table or an event.
LEMMA StepIs ==
    ASSUME NEW e \in Step
    PROVE  /\ e[1] = "write" => \E x \in State : e = W(x) /\ e[2] = x
           /\ e[1] = "untold" => e = U("running") /\ e[2] = "running"
           /\ e[1] = "route" => \A x : e # E(x)
           /\ e[1] = "emit" => \E x \in Event : e = E(x) /\ e[2] = x
  <1>1. CASE \E x \in State : e = W(x)
    BY <1>1, StepsDiffer
  <1>2. CASE e = R("on") \/ e = R("off")
    BY <1>2, StepsDiffer
  <1>3. CASE \E x \in Event : e = E(x)
    BY <1>3, StepsDiffer
  <1>4. CASE e = U("running")
    BY <1>4, StepsDiffer
  <1> QED BY <1>1, <1>2, <1>3, <1>4 DEF Step

LEMMA DoIInv == ASSUME IInv, NEW w \in Worker, Do(w) PROVE IInv'
  <1> DEFINE e == Head(doing[w])
  <1>1. /\ doing[w] # <<>> /\ doing[w] \in Script /\ doing' = [doing EXCEPT ![w] = Tail(@)]
        /\ Perform(e, Tail(doing[w])) /\ UNCHANGED <<asked, page, socket, left>>
    BY DEF Do, IInv, TypeInv, ScriptInv
  <1>2. /\ e \in Step /\ Tail(doing[w]) \in Script /\ doing'[w] = Tail(doing[w])
        /\ \A x \in State : e = W(x) => \E i \in DOMAIN Tail(doing[w]) : Tail(doing[w])[i] = E(x)
        /\ e = U("running") =>
             Tail(doing[w]) = <<>> \/ \E i \in DOMAIN Tail(doing[w]) : Tail(doing[w])[i] = E("failed")
    BY <1>1, TailScript DEF IInv, TypeInv, ScriptInv
  <1>3. ScriptInv'
    BY <1>1, <1>2 DEF IInv, TypeInv, ScriptInv
  <1>4. (\A state \in Ends(page.busy) : e # E(state)) /\ ToBeTold => ToBeTold'
    BY <1>1, StillTold DEF IInv, TypeInv
  <1> HIDE DEF e
  <1>5. CASE e[1] = "write" /\ row' = e[2] /\ fresh' = (fresh \/ Waiting) /\ UNCHANGED <<routed, chan, missed>>
    <2>1. PICK x \in State : e = W(x) /\ row' = x
      BY <1>2, <1>5, StepIs
    <2>2. StateType' /\ ChannelType'
      BY <1>1, <1>5, <2>1 DEF IInv, TypeInv, StateType, ChannelType, Holds, Waiting
    <2>3. HistoryInv'
      BY <1>1, <1>5 DEF IInv, HistoryInv, Waiting
    <2>4. ASSUME x \in Ends(page.busy) PROVE ToBeTold'
      <3>1. \E i \in DOMAIN doing'[w] : doing'[w][i] = E(x)
        BY <1>2, <2>1
      <3>2. Tells(doing'[w], page'.busy)
        BY <1>1, <2>4, <3>1 DEF Tells
      <3> QED BY <3>2 DEF ToBeTold
    <2>5. ComingInv'
      BY <1>1, <2>1, <2>4 DEF ComingInv, Coming
    <2> QED BY <1>3, <2>2, <2>3, <2>5 DEF IInv, TypeInv
  <1>6. CASE e[1] = "route" /\ routed' = (e[2] = "on") /\ UNCHANGED <<row, chan, history>>
    <2>1. StateType' /\ ChannelType' /\ HistoryInv'
      BY <1>1, <1>6 DEF IInv, TypeInv, StateType, ChannelType, HistoryInv, Holds, Waiting, history
    <2>2. ToBeTold => ToBeTold'
      BY <1>2, <1>4, <1>6, StepIs
    <2>3. ComingInv'
      BY <1>1, <1>6, <2>2 DEF IInv, ComingInv, Coming, InChannel, history
    <2> QED BY <1>3, <2>1, <2>3 DEF IInv, TypeInv
  <1>7. CASE e[1] = "emit" /\ Broadcast(e[2]) /\ UNCHANGED <<observed, fresh>>
    <2>1. PICK x \in Event : e = E(x) /\ Broadcast(x)
      BY <1>2, <1>7, StepIs
    <2>2. chan \in Seq(Event) /\ Len(chan) <= Holds /\ Cap \in Nat
      BY ConsoleAssumption DEF IInv, TypeInv, ChannelType
    <2>3. CASE socket = "live" /\ Len(chan) <= Cap /\ chan' = Append(chan, x) /\ UNCHANGED missed
      <3>1. /\ chan' \in Seq(Event) /\ Len(chan') = Len(chan) + 1 /\ Len(chan) \in Nat
            /\ DOMAIN chan = 1..Len(chan) /\ DOMAIN chan' = 1..(Len(chan) + 1)
            /\ chan'[Len(chan) + 1] = x /\ \A i \in 1..Len(chan) : chan'[i] = chan[i]
        BY <2>2, <2>3, AppendProperties, LenProperties
      <3>2. StateType' /\ HistoryInv'
        BY <1>1, <1>7, <2>3 DEF IInv, TypeInv, StateType, HistoryInv, Waiting, observed
      <3>3. ChannelType'
        <4>1. socket' = "live" /\ Len(chan') <= Cap + 1
          BY <1>1, <2>2, <2>3, <3>1
        <4> QED BY <3>1, <4>1 DEF ChannelType, Holds
      <3>4. InChannel => InChannel'
        BY <1>1, <3>1 DEF InChannel
      <3>5. x \in Ends(page.busy) => InChannel'
        BY <1>1, <3>1 DEF InChannel
      <3>6. x \notin Ends(page.busy) /\ ToBeTold => ToBeTold'
        BY <1>4, <2>1, StepsDiffer
      <3>7. ComingInv'
        BY <1>1, <1>7, <2>3, <3>4, <3>5, <3>6 DEF IInv, ComingInv, Coming, observed
      <3> QED BY <1>3, <3>2, <3>3, <3>7 DEF IInv, TypeInv
    <2>4. CASE missed' = (missed \/ (Waiting /\ socket # "none")) /\ UNCHANGED chan
      <3>1. StateType' /\ ChannelType' /\ HistoryInv'
        BY <1>1, <1>7, <2>4 DEF IInv, TypeInv, StateType, ChannelType, HistoryInv, Holds, Waiting, observed
      <3>2. ComingInv'
        BY <1>1, <1>7, <2>4 DEF IInv, HistoryInv, ComingInv, Coming
      <3> QED BY <1>3, <3>1, <3>2 DEF IInv, TypeInv
    <2> QED BY <2>1, <2>3, <2>4 DEF Broadcast
  <1>8. CASE /\ e[1] = "untold" /\ row' = e[2] /\ fresh' = (fresh \/ Waiting)
             /\ missed' = (missed \/ (Waiting /\ Tail(doing[w]) = <<>>)) /\ UNCHANGED <<routed, chan>>
    <2>1. e = U("running") /\ row' = "running"
      BY <1>2, <1>8, StepIs
    <2>2. StateType' /\ ChannelType'
      BY <1>1, <1>8, <2>1 DEF IInv, TypeInv, StateType, State, ChannelType, Holds, Waiting
    <2>3. HistoryInv'
      BY <1>1, <1>8 DEF IInv, HistoryInv, Waiting
    <2>4. ASSUME fresh', ~missed', "running" \in Ends(page.busy) PROVE ToBeTold'
      <3>1. Tail(doing[w]) # <<>>
        BY <1>8, <2>4 DEF IInv, HistoryInv
      <3>2. \E i \in DOMAIN doing'[w] : doing'[w][i] = E("failed")
        BY <1>2, <2>1, <3>1
      <3>3. "failed" \in Ends(page'.busy)
        BY <1>1, <2>4, EndsType
      <3>4. Tells(doing'[w], page'.busy)
        BY <3>2, <3>3 DEF Tells
      <3> QED BY <3>4 DEF ToBeTold
    <2>5. ComingInv'
      BY <1>1, <2>1, <2>4 DEF ComingInv, Coming
    <2> QED BY <1>3, <2>2, <2>3, <2>5 DEF IInv, TypeInv
  <1> QED BY <1>1, <1>5, <1>6, <1>7, <1>8 DEF Perform

-----------------------------------------------------------------------------
(* The connection and the page *)

LEMMA OpenIInv == IInv /\ Open => IInv'
  <1> SUFFICES ASSUME IInv, Open PROVE IInv'
    OBVIOUS
  <1>1. /\ socket' = "found" /\ chan' = <<Seen>>
        /\ missed' = (missed \/ (fresh /\ row \in Ends(page.busy) /\ Seen \notin Ends(page.busy)))
        /\ UNCHANGED <<row, routed, doing, asked, page, fresh>>
    BY DEF Open, observed
  <1>2. Seen \in Event
    BY SeenType DEF IInv, TypeInv, Shown, Event
  <1>3. chan' \in Seq(Event) /\ Len(chan') = 1 /\ 1 \in DOMAIN chan' /\ chan'[1] = Seen
    BY <1>1, <1>2
  <1>4. TypeInv'
    <2>1. missed' \in BOOLEAN
      BY <1>1 DEF IInv, TypeInv, StateType
    <2>2. StateType'
      BY <1>1, <2>1 DEF IInv, TypeInv, StateType
    <2>3. ChannelType'
      BY <1>1, <1>3 DEF ChannelType, Holds
    <2>4. ScriptInv'
      BY <1>1 DEF IInv, TypeInv, ScriptInv
    <2> QED BY <2>2, <2>3, <2>4 DEF TypeInv
  <1>5. HistoryInv'
    BY <1>1 DEF IInv, HistoryInv, Waiting
  <1>6. Seen \in Ends(page.busy) => InChannel'
    BY <1>1, <1>3 DEF InChannel
  <1>7. ComingInv'
    BY <1>1, <1>6 DEF ComingInv, Coming
  <1> QED BY <1>4, <1>5, <1>7 DEF IInv

LEMMA RegisterIInv == IInv /\ Register => IInv'
  <1> SUFFICES ASSUME IInv, Register PROVE IInv'
    OBVIOUS
  <1>1. socket = "found" /\ socket' = "live" /\ UNCHANGED <<row, routed, doing, asked, page, chan, fresh, missed>>
    BY DEF Register, observed, history
  <1>2. TypeInv'
    <2>1. StateType' /\ ScriptInv'
      BY <1>1 DEF IInv, TypeInv, StateType, ScriptInv
    <2>2. chan \in Seq(Event) /\ Len(chan) <= 1 /\ Cap \in Nat \ {0}
      BY <1>1, ConsoleAssumption DEF IInv, TypeInv, ChannelType, Holds
    <2>3. Len(chan) <= Cap + 1
      BY <2>2, LenProperties
    <2>4. ChannelType'
      BY <1>1, <2>2, <2>3 DEF ChannelType, Holds
    <2> QED BY <2>1, <2>4 DEF TypeInv
  <1>3. HistoryInv' /\ ComingInv'
    BY <1>1 DEF IInv, HistoryInv, Waiting, ComingInv, Coming, InChannel, ToBeTold
  <1> QED BY <1>2, <1>3 DEF IInv

LEMMA BreakIInv == IInv /\ Break => IInv'
  <1> SUFFICES ASSUME IInv, Break PROVE IInv'
    OBVIOUS
  <1>1. socket' = "none" /\ chan' = <<>> /\ UNCHANGED <<row, routed, doing, asked, page, fresh, missed>>
    BY DEF Break, observed, history
  <1>2. chan' \in Seq(Event) /\ Len(chan') = 0
    BY <1>1, EmptySeq
  <1>3. TypeInv'
    <2>1. StateType' /\ ScriptInv'
      BY <1>1 DEF IInv, TypeInv, StateType, ScriptInv
    <2>2. ChannelType'
      BY <1>1, <1>2 DEF ChannelType, Holds
    <2> QED BY <2>1, <2>2 DEF TypeInv
  <1>4. HistoryInv' /\ ComingInv'
    BY <1>1 DEF IInv, HistoryInv, Waiting, ComingInv, Coming
  <1> QED BY <1>3, <1>4 DEF IInv

\* A page that does not wait has nothing to wait for.
LEMMA IdleIInv ==
    ASSUME IInv, StateType', ~fresh', UNCHANGED <<doing, line>>
    PROVE  IInv'
  <1>1. TypeInv'
    BY DEF IInv, TypeInv, ChannelType, ScriptInv, Holds, line
  <1> QED BY <1>1 DEF IInv, HistoryInv, ComingInv

LEMMA ClickIInv == IInv /\ Click => IInv'
  <1> SUFFICES ASSUME IInv, NEW kind \in Kind, Clickable(kind), asked' = kind,
                      page' = [page EXCEPT !.busy = kind,
                                           !.shown = IF kind = "stop" THEN "stopping" ELSE "starting"],
                      UNCHANGED <<observed, doing, line, history>>
               PROVE  IInv'
    BY DEF Click
  <1>1. ~fresh'
    BY DEF IInv, HistoryInv, Waiting, Clickable, history
  <1>2. StateType'
    BY DEF IInv, TypeInv, StateType, Shown, Busy, observed, history
  <1> QED BY <1>1, <1>2, IdleIInv

\* A discovery is a wait that no state of the row ends.
LEMMA DiscoverIInv == IInv /\ Discover => IInv'
  <1> SUFFICES ASSUME IInv, NEW c \in Checker, NEW script \in Discoveries,
                      doing' = [doing EXCEPT ![c] = script], page.busy = "",
                      page' = [page EXCEPT !.busy = "discover"], UNCHANGED <<observed, asked, line, history>>
               PROVE  IInv'
    BY DEF Discover
  <1>1. ~fresh'
    BY DEF IInv, HistoryInv, Waiting, history
  <1>2. StateType'
    BY DEF IInv, TypeInv, StateType, Busy, observed, history
  <1>3. ScriptInv'
    BY AnnouncedScripts DEF IInv, TypeInv, ScriptInv
  <1>4. ChannelType'
    BY DEF IInv, TypeInv, ChannelType, Holds, line
  <1> QED BY <1>1, <1>2, <1>3, <1>4 DEF IInv, TypeInv, HistoryInv, ComingInv

LEMMA DiscoverFailsIInv == IInv /\ DiscoverFails => IInv'
  <1> SUFFICES ASSUME IInv, DiscoverFails PROVE IInv'
    OBVIOUS
  <1>1. page' = [page EXCEPT !.busy = ""] /\ Waits /\ UNCHANGED <<observed, doing, asked, line>>
    BY DEF DiscoverFails
  <1>2. page'.busy = ""
    BY <1>1 DEF IInv, TypeInv, StateType
  <1>3. ~fresh' /\ ~missed'
    BY <1>1, <1>2 DEF Waits
  <1>4. StateType'
    <2>1. page' \in [shown : Shown, busy : Busy, answer : State \union {""}]
      BY <1>1 DEF IInv, TypeInv, StateType, Busy
    <2>2. fresh' \in BOOLEAN /\ missed' \in BOOLEAN
      BY <1>1 DEF Waits
    <2> QED BY <1>1, <2>1, <2>2 DEF IInv, TypeInv, StateType, observed
  <1> QED BY <1>1, <1>3, <1>4, IdleIInv

LEMMA FailIInv == IInv /\ Fail => IInv'
  <1> SUFFICES ASSUME IInv, Fail PROVE IInv'
    OBVIOUS
  <1>1. /\ page' = [page EXCEPT !.busy = "", !.shown = IF asked = "start" THEN "stopped" ELSE @]
        /\ asked' \in {"", asked} /\ Waits /\ UNCHANGED <<observed, doing, line>>
    BY DEF Fail
  <1>2. page'.busy = ""
    BY <1>1 DEF IInv, TypeInv, StateType
  <1>3. ~fresh' /\ ~missed'
    BY <1>1, <1>2 DEF Waits
  <1>4. StateType'
    <2>1. "stopped" \in Shown
      BY DEF Shown, State
    <2>2. page' \in [shown : Shown, busy : Busy, answer : State \union {""}]
      BY <1>1, <2>1 DEF IInv, TypeInv, StateType, Busy
    <2>3. asked' \in Kind \union {""} /\ row' \in State /\ routed' \in BOOLEAN
      BY <1>1 DEF IInv, TypeInv, StateType, observed
    <2>4. fresh' \in BOOLEAN /\ missed' \in BOOLEAN
      BY <1>1 DEF Waits
    <2> QED BY <2>2, <2>3, <2>4 DEF StateType
  <1> QED BY <1>1, <1>3, <1>4, IdleIInv

LEMMA DeliverIInv == IInv /\ Deliver => IInv'
  <1> SUFFICES ASSUME IInv, Deliver PROVE IInv'
    OBVIOUS
  <1> DEFINE state == Head(chan)
  <1>1. /\ socket = "live" /\ chan # <<>> /\ chan' = Tail(chan) /\ Waits
        /\ page' = IF state = "models" THEN [page EXCEPT !.busy = IF @ = "discover" THEN "" ELSE @]
                   ELSE [page EXCEPT !.shown = state, !.busy = IF state \in Ends(@) THEN "" ELSE @]
        /\ UNCHANGED <<observed, doing, asked, socket>>
    BY DEF Deliver
  <1>2. chan \in Seq(Event) /\ Len(chan) <= Cap + 1 /\ Cap \in Nat
    BY <1>1, ConsoleAssumption DEF IInv, TypeInv, ChannelType, Holds
  <1>3. /\ state \in Event /\ state = chan[1] /\ chan' \in Seq(Event) /\ Len(chan) \in Nat /\ Len(chan) > 0
        /\ Len(chan') = Len(chan) - 1 /\ DOMAIN chan = 1..Len(chan) /\ DOMAIN chan' = 1..(Len(chan) - 1)
        /\ \A i \in 1..(Len(chan) - 1) : chan'[i] = chan[i + 1]
    <2>1. chan # <<>> /\ chan' = Tail(chan) BY <1>1
    <2>2. Len(chan) \in Nat /\ DOMAIN chan = 1..Len(chan) /\ Len(chan) > 0
      BY <1>2, <2>1, LenProperties, EmptySeq
    <2>3. state = chan[1] /\ state \in Event
      BY <1>2, <2>1, <2>2, HeadTailProperties, ElementOfSeq
    <2>4. chan' \in Seq(Event) /\ Len(chan') = Len(chan) - 1
      BY <1>2, <2>1, <2>2, HeadTailProperties
    <2>5. DOMAIN chan' = 1..(Len(chan) - 1)
      BY <2>4, LenProperties
    <2>6. \A i \in 1..(Len(chan) - 1) : chan'[i] = chan[i + 1]
      BY <1>2, <2>1, <2>2, HeadTailProperties
    <2> QED BY <2>2, <2>3, <2>4, <2>5, <2>6
  <1> HIDE DEF state
  <1>4. ChannelType'
    <2>1. socket' = "live"
      BY <1>1
    <2>2. Len(chan') <= Cap + 1
      BY <1>2, <1>3
    <2> QED BY <1>3, <2>1, <2>2 DEF ChannelType, Holds
  <1>5. ScriptInv'
    BY <1>1 DEF IInv, TypeInv, ScriptInv
  <1>6. fresh' = (fresh /\ page'.busy # "") /\ missed' = (missed /\ page'.busy # "")
    BY <1>1 DEF Waits
  <1>7. StateType'
    <2>1. page' \in [shown : Shown, busy : Busy, answer : State \union {""}]
      <3>1. CASE state = "models" BY <1>1, <3>1 DEF IInv, TypeInv, StateType, Busy
      <3>2. CASE state # "models" BY <1>1, <1>3, <3>2 DEF IInv, TypeInv, StateType, Busy, Event
      <3> QED BY <3>1, <3>2
    <2> QED BY <1>1, <1>6, <2>1 DEF IInv, TypeInv, StateType, observed
  <1>8. HistoryInv'
    BY <1>6 DEF HistoryInv, Waiting
  <1>9. ComingInv'
    <2>1. CASE page'.busy = ""
      BY <1>6, <2>1 DEF ComingInv
    <2>2. CASE page'.busy # ""
      <3>1. page'.busy = page.busy /\ state \notin Ends(page.busy)
        <4>1. CASE state = "models"
          BY <1>1, <2>2, <4>1, EndsType DEF IInv, TypeInv, StateType, State
        <4>2. CASE state # "models"
          BY <1>1, <2>2, <4>2 DEF IInv, TypeInv, StateType
        <4> QED BY <4>1, <4>2
      <3>2. InChannel => InChannel'
        <4> SUFFICES ASSUME NEW i \in DOMAIN chan, chan[i] \in Ends(page.busy) PROVE InChannel'
          BY DEF InChannel
        <4>1. i # 1
          BY <1>3, <3>1
        <4>2. i - 1 \in DOMAIN chan' /\ chan'[i - 1] = chan[i]
          BY <1>3, <4>1
        <4> QED BY <3>1, <4>2 DEF InChannel
      <3>3. ToBeTold => ToBeTold'
        BY <1>1, <3>1 DEF ToBeTold
      <3>4. row' = row
        BY <1>1 DEF observed
      <3> QED BY <1>1, <1>6, <2>2, <3>1, <3>2, <3>3, <3>4 DEF IInv, ComingInv, Coming
    <2> QED BY <2>1, <2>2
  <1> QED BY <1>4, <1>5, <1>7, <1>8, <1>9 DEF IInv, TypeInv

\* The poll leaves the wait alone.
LEMMA PollIInv ==
    ASSUME IInv, StateType', page'.busy = page.busy, UNCHANGED <<observed, doing, line, history>>
    PROVE  IInv'
  BY DEF IInv, TypeInv, ChannelType, ScriptInv, HistoryInv, ComingInv, Coming, InChannel, ToBeTold, Holds,
         Waiting, observed, line, history

LEMMA FetchIInv == IInv /\ Fetch => IInv'
  <1> SUFFICES ASSUME IInv, Fetch PROVE IInv'
    OBVIOUS
  <1>1. page' = [page EXCEPT !.answer = Seen] /\ UNCHANGED <<observed, doing, asked, line, history>>
    BY DEF Fetch
  <1>2. StateType' /\ page'.busy = page.busy
    BY <1>1, SeenType DEF IInv, TypeInv, StateType, observed, history
  <1> QED BY <1>1, <1>2, PollIInv

LEMMA ApplyIInv == IInv /\ Apply => IInv'
  <1> SUFFICES ASSUME IInv, Apply PROVE IInv'
    OBVIOUS
  <1>1. /\ page.answer # "" /\ page' = [page EXCEPT !.answer = "", !.shown = IF page.busy = "" THEN page.answer ELSE @]
        /\ UNCHANGED <<observed, doing, asked, line, history>>
    BY DEF Apply
  <1>2. StateType' /\ page'.busy = page.busy
    BY <1>1 DEF IInv, TypeInv, StateType, Shown, observed, history
  <1> QED BY <1>1, <1>2, PollIInv

-----------------------------------------------------------------------------
(* The theorems *)

LEMMA StutterIInv == IInv /\ UNCHANGED vars => IInv'
  <1> SUFFICES ASSUME IInv, UNCHANGED vars PROVE IInv'
    OBVIOUS
  <1>1. UNCHANGED <<observed, doing, asked, page, line, history>>
    BY DEF vars
  <1>2. StateType'
    BY <1>1 DEF IInv, TypeInv, StateType, observed, history
  <1> QED BY <1>1, <1>2, PollIInv

LEMMA NextIInv == IInv /\ [Next]_vars => IInv'
  BY OtherIInv, TakeIInv, CheckIInv, DoIInv, OpenIInv, RegisterIInv, BreakIInv, ClickIInv, FailIInv,
     DiscoverIInv, DiscoverFailsIInv, DeliverIInv, FetchIInv, ApplyIInv, StutterIInv DEF Next

LEMMA SpecIInv == Spec => []IInv
  BY InitIInv, NextIInv, PTL DEF Spec

\* The channel of a page never holds more than its limit and the snapshot, and
\* nothing is sent to a client that is not registered.
THEOREM ConsoleTypeCorrect == Spec => []TypeOK
  BY SpecIInv, IInvGives, PTL

\* While a page waits for what has happened, what ends the wait is in its
\* channel, still to be announced, or in the snapshot of its next connection,
\* unless the history says that it was lost, or that a restart ended with a row
\* that says running, a route that was not set, and no event.
THEOREM EndIsOnItsWayHolds == Spec => []EndIsOnItsWay
  BY SpecIInv, IInvGives, PTL

=============================================================================
