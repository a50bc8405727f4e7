---- MODULE MCAccounts ----
(* Instances of Accounts for TLC. *)
EXTENDS Accounts, TLC

CONSTANTS kit, e2, e3, google, github, g1, h1, f1, f2

\* kit came through google and has no password.
Registered == kit :> e2
Provided == g1 :> google @@ h1 :> github
Kits == g1 :> kit

\* google vouches for kit's address; github says of the other profile that it
\* has a new address, which it has verified or has not.
Said == g1 :> {[email |-> e2, verified |-> TRUE]}
     @@ h1 :> {[email |-> e3, verified |-> TRUE], [email |-> e3, verified |-> FALSE]}

\* Two sign-ins at github are under way, one of them begun in kit's session.
UnderWay == f1 :> [provider |-> github, link |-> kit] @@ f2 :> [provider |-> github, link |-> "none"]

Symmetry == Permutations(Requests \ {f1, f2})

\* What no step and no property reads again is left out of the state's identity: of
\* a request that is over, and of the history.
Remembered(r) ==
    IF pc[r] # "done" \/ call[r].op \in {"callback", "verify", "reset", "unlink"} THEN call[r]
    ELSE [NoCall EXCEPT !.op = call[r].op]
Known(r) == IF pc[r] # "done" \/ call[r].op = "callback" THEN saw[r] ELSE Nothing
Races == {pair \in together : \E op \in {"callback", "unlink"} : \A r \in pair : call[r].op = op}
Ended(r) == IF call[r].op = "reset" THEN before[r] ELSE {}
Relevant == <<rows, pc, [r \in Requests |-> <<Remembered(r), Known(r), Ended(r)>>], session, failed, Races>>
====
