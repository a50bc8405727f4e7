---- MODULE AtLeastOnce ----
(***************************************************************************)
(* What the queue promises of each message and subscriber, without tables, *)
(* processes, leases or time: an accepted item is tried again until its    *)
(* handler has succeeded or it has used up its attempts, and what is       *)
(* settled stays settled.                                                  *)
(***************************************************************************)
EXTENDS Integers

CONSTANTS
    Items,        \* a message for one subscriber
    Unaddressed,  \* the items recorded for nobody
    MaxAttempts

VARIABLES
    state,    \* "none", "queued", "done" or "dead"
    tries,    \* attempts begun
    effects   \* attempts whose handler succeeded

vars == <<state, tries, effects>>

Init ==
    /\ state = [i \in Items |-> "none"]
    /\ tries = [i \in Items |-> 0]
    /\ effects = [i \in Items |-> 0]

Accept(i) ==
    /\ state[i] = "none"
    /\ state' = [state EXCEPT ![i] = IF i \in Unaddressed THEN "done" ELSE "queued"]
    /\ UNCHANGED <<tries, effects>>

\* Several items may be taken up together.
Try(S) ==
    /\ S # {} /\ \A i \in S : state[i] = "queued"
    /\ tries' = [i \in Items |-> IF i \in S THEN tries[i] + 1 ELSE tries[i]]
    /\ UNCHANGED <<state, effects>>

Succeed(i) ==
    /\ state[i] = "queued" /\ effects[i] < tries[i]
    /\ effects' = [effects EXCEPT ![i] = @ + 1]
    /\ UNCHANGED <<state, tries>>

Acknowledge(i) ==
    /\ state[i] = "queued" /\ effects[i] > 0
    /\ state' = [state EXCEPT ![i] = "done"]
    /\ UNCHANGED <<tries, effects>>

GiveUp(i) ==
    /\ state[i] = "queued" /\ tries[i] >= MaxAttempts
    /\ state' = [state EXCEPT ![i] = "dead"]
    /\ UNCHANGED <<tries, effects>>

Next ==
    \/ \E S \in SUBSET Items : Try(S)
    \/ \E i \in Items : Accept(i) \/ Succeed(i) \/ Acknowledge(i) \/ GiveUp(i)

Spec == Init /\ [][Next]_vars
====
