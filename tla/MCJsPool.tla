---- MODULE MCJsPool ----
(* Instances of JsPool for TLC. *)
EXTENDS JsPool, TLC

CallSymmetry == Permutations(Calls)
====
