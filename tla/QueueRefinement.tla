---- MODULE QueueRefinement ----
(***************************************************************************)
(* The queue implements AtLeastOnce as long as the lease covers a batch.   *)
(* Pending and running are the same to the abstract view, and pruning a    *)
(* handled row hides nothing that was promised.                            *)
(***************************************************************************)
EXTENDS Queue

View(s) ==
    CASE s = "absent"                 -> "none"
      [] s \in {"pending", "running"} -> "queued"
      [] s \in {"done", "pruned"}     -> "done"
      [] s = "failed"                 -> "dead"

AbstractState == [r \in Rows |-> View(status[r])]

Ledger == INSTANCE AtLeastOnce WITH
    Items <- Rows, Unaddressed <- {r \in Rows : ~HasSubscriber(r)},
    state <- AbstractState, tries <- attempts, effects <- handled

\* Every step of publishers and subscriber processes is a step of the ledger
\* of promises or changes nothing it can see.
ImplementsAtLeastOnce == Ledger!Spec
====
