---- MODULE MCAgents ----
(* Instances of Agents for TLC. *)
EXTENDS Agents, TLC

Message(role, call) == [role |-> role, call |-> call]

\* A question, a call of a tool and its result.
Asked == <<Message("user", 0), Message("call", 2), Message("result", 2)>>

Symmetry == Permutations(Turns)

\* What a turn that is not running remembers is never looked at again.
Relevant ==
    <<shared, setting, pc, phase, faults, late, result,
      [t \in {u \in Turns : Running(u)} |-> <<saw[t], base[t], sent[t], tools[t], after[t]>>]>>
====
