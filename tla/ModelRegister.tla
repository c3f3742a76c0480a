---------------------------- MODULE ModelRegister ----------------------------
(***************************************************************************)
(* What a router's list of models promises to whoever reads it: it changes *)
(* only by a whole answer coming in, which replaces everything but the     *)
(* rows of answers that came in while it was being written.                *)
(***************************************************************************)
EXTENDS Naturals, FiniteSets

CONSTANT Caller     \* the discoveries

VARIABLES answers,  \* what one may answer: functions from models to providers
          models,   \* the list: the provider of a model, and whose answer named it
          open,     \* the callers that are writing
          since     \* for each of them, those that came in since it began

register == <<answers, models, open, since>>

\* The list may hold the answers of earlier callers.
Init ==
    /\ \A i \in DOMAIN models : models[i].by \notin Caller
    /\ open = {}
    /\ since = [d \in Caller |-> {}]

Begin(d) ==
    /\ d \notin open
    /\ open' = open \union {d}
    /\ since' = [since EXCEPT ![d] = {}]
    /\ UNCHANGED <<answers, models>>

\* The list that answer a of d leaves: its own rows and some of those put
\* since it began.
Merged(d, a, kept) ==
    [i \in DOMAIN a \union kept |->
       IF i \in DOMAIN a THEN [provider |-> a[i], by |-> d] ELSE models[i]]

ComeIn(d) ==
    /\ d \in open
    /\ \E a \in answers, kept \in SUBSET DOMAIN models :
         /\ DOMAIN a # {}
         /\ \A i \in kept : models[i].by \in since[d]
         /\ models' = Merged(d, a, kept)
    /\ open' = open \ {d}
    /\ since' = [e \in Caller |-> IF e \in open' THEN since[e] \union {d} ELSE since[e]]
    /\ UNCHANGED answers

GiveUp(d) ==
    /\ d \in open
    /\ open' = open \ {d}
    /\ UNCHANGED <<answers, models, since>>

Next == \E d \in Caller : Begin(d) \/ ComeIn(d) \/ GiveUp(d)

Spec == Init /\ [][Next]_register
=============================================================================
