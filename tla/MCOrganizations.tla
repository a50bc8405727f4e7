---- MODULE MCOrganizations ----
(* Instances of Organizations for TLC. *)
EXTENDS Organizations, TLC

CONSTANTS r0, eve

\* eve has a link in her mailbox.
OneLink == r0 :> eve

\* The admins of the start are alike, and so are the requests still to come.
Symmetry == Permutations(Requests \ {r0}) \cup Permutations(Admins)

\* What nothing reads of a request that is over is left out of the state's identity.
Remembered(r) ==
    IF pc[r] # "done" \/ call[r].op \in {"accept", "register", "found"} THEN call[r]
    ELSE [NoCall EXCEPT !.op = call[r].op]
Relevant == <<rows, pc, [r \in Requests |-> Remembered(r)], saw, failed, together, entered>>
====
