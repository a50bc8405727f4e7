---- MODULE MCBilling ----
(* Instances of Billing for TLC. *)
EXTENDS Billing, TLC

CONSTANTS c1, c2, session, subscription, invoice, charge, e1, e2, e3, e4

\* The customer, a subscription in two versions, and its invoice.
Kinds1 == session :> "customer" @@ subscription :> "subscription" @@ invoice :> "keyless"
Pays1  == session :> session @@ subscription :> subscription @@ invoice :> subscription
About1 == [e \in Events |-> IF e = e1 THEN session ELSE IF e = e4 THEN invoice ELSE subscription]
Place1 == [e \in Events |-> IF e = e3 THEN 2 ELSE 1]
Payer1 == [e \in Events |-> c1]

\* The customer, a subscription, and its charge that is declined and then succeeds.
Kinds2 == session :> "customer" @@ subscription :> "subscription" @@ charge :> "keyed"
Pays2  == session :> session @@ subscription :> subscription @@ charge :> subscription
About2 == [e \in Events |-> IF e = e1 THEN session ELSE IF e = e2 THEN subscription ELSE charge]
Place2 == [e \in Events |-> IF e = e4 THEN 2 ELSE 1]
Payer2 == Payer1

HandlerSymmetry == Permutations(Handlers)
====
