---- MODULE MCQueue ----
(* Instances of Queue for TLC. *)
EXTENDS QueueRefinement, TLC

CONSTANTS m1, m2, m3

\* One message with one subscriber.
OneSubscriber == m1 :> 1
\* Two messages with one subscriber each.
TwoMessages == m1 :> 1 @@ m2 :> 1
\* A message with two subscribers.
TwoSubscribers == m1 :> 2
\* A message nobody subscribes to, a malformed one, and one with a subscriber.
OneOfEach == m1 :> 1 @@ m2 :> 0 @@ m3 :> 1

WorkerSymmetry == Permutations(Workers)
====
