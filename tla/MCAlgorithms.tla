---- MODULE MCAlgorithms ----
(***************************************************************************)
(* The pure algorithms over every input of a small range. Each initial     *)
(* state picks an algorithm and an input, each step makes the input grow:  *)
(* one more attempt, one more message, one more rule.                      *)
(***************************************************************************)
EXTENDS RetryBackoff, Summaries, Access

CONSTANTS MaxBackoff, LastAttempt,      \* of a delay
          MaxMessages, MaxRules

ASSUME BoundsAssumption == {MaxBackoff, LastAttempt, MaxMessages, MaxRules} \subseteq Nat

VARIABLES topic,                        \* the algorithm: "delay", "history" or "access"
          backoff, attempt,
          history, summarized, pending,
          caller, resource, rules

delay == <<backoff, attempt>>
conversation == <<history, summarized, pending>>
access == <<caller, resource, rules>>
vars == <<topic, delay, conversation, access>>

\* Two organisations, one of a class; u is the caller, v somebody else.
Classes == [o |-> "school", p |-> "none"]
Members == [o |-> {"v"}, p |-> {}]
SchoolAdmins == [level |-> "role", role |-> "admin", class |-> "school"]
Nobody == [known |-> FALSE, user |-> "u", roles |-> <<>>, header |-> None, lock |-> None, borrowed |-> FALSE]

Held == {{}, {"kid"}, {"admin"}, {"kid", "admin"}}
Callers ==
    {Nobody} \cup
    {[Nobody EXCEPT !.known = TRUE, !.roles = roles, !.header = header] :
        roles \in UNION {[S -> Held] : S \in SUBSET Orgs}, header \in Orgs \cup {None}} \cup
    {[Nobody EXCEPT !.known = TRUE, !.roles = roles, !.header = "p", !.lock = "o", !.borrowed = TRUE] :
        roles \in [{"o"} -> Held]}

Resources == {[kind |-> "scoped", owned |-> TRUE], [kind |-> "scoped", owned |-> FALSE],
              [kind |-> "organization", owned |-> FALSE], [kind |-> "user", owned |-> FALSE],
              [kind |-> "global", owned |-> TRUE]}

Policies == [level : {"public", "authenticated", "member", "owner"}, role : {None}, class : {None, "school"}]
            \cup [level : {"role"}, role : {"kid"}, class : {None, "school"}]
            \cup [level : {"private"}, role : {None}, class : {None}]
Rules == [policy : Policies, effect : {"allow", "own", "deny"}]

TableRows == [id : Orgs \cup {"u", "v", "r"}, org : Orgs, owner : {"u", "v"}]

\* A call is named; a result may have lost its call to the summary.
Messages == [role : {"user"}, call : {0}, size : {1, 2}] \cup [role : {"call", "result"}, call : {1, 2}, size : {1}]
MayFollow(m) ==
    m.role # "user" => \A i \in DOMAIN history : history[i].call = m.call => m.role = "result" /\ history[i].role = "call"

Init ==
    /\ topic \in {"delay", "history", "access"}
    /\ backoff \in IF topic = "delay" THEN 0 .. MaxBackoff ELSE {0}
    /\ attempt = 0
    /\ history = <<>>
    /\ summarized \in IF topic = "history" THEN BOOLEAN ELSE {FALSE}
    /\ pending \in IF topic = "history" THEN {<<>>, <<[role |-> "user", call |-> 0, size |-> 2]>>} ELSE {<<>>}
    /\ caller \in IF topic = "access" THEN Callers ELSE {Nobody}
    /\ resource \in IF topic = "access" THEN Resources ELSE {[kind |-> "user", owned |-> FALSE]}
    /\ rules = <<>>

NextAttempt ==
    /\ topic = "delay" /\ attempt < LastAttempt
    /\ attempt' = attempt + 1
    /\ UNCHANGED <<topic, backoff, conversation, access>>

NextMessage ==
    /\ topic = "history" /\ Len(history) < MaxMessages
    /\ \E m \in Messages : MayFollow(m) /\ history' = Append(history, m)
    /\ UNCHANGED <<topic, delay, summarized, pending, access>>

NextRule ==
    /\ topic = "access" /\ Len(rules) < MaxRules
    /\ \E rule \in Rules : rules' = Append(rules, rule)
    /\ UNCHANGED <<topic, delay, conversation, caller, resource>>

Next == NextAttempt \/ NextMessage \/ NextRule
Spec == Init /\ [][Next]_vars

----------------------------------------------------------------------------
AtMost(n) == IF n > MaxDelay THEN MaxDelay ELSE n

\* "Attempt n waits retry_backoff_secs * 2^(n-1)", up to the cap: the delay
\* doubles from one attempt to the next and never falls back, whatever the
\* width of the integers.
DelayDoublesToTheCap ==
    topic = "delay" =>
        /\ attempt <= 1 => RetryDelay(backoff, attempt) = AtMost(backoff)
        /\ attempt > 1 =>
            RetryDelay(backoff, attempt) = AtMost(2 * RetryDelay(backoff, attempt - 1))

Retained == TailFrom(history, PrefixLength(history, summarized, pending))

\* A refresh leaves a tail that fits with the question about to be asked, or at
\* most one message, and folds something in whenever that is needed. A tail that
\* was cut off never starts with the result of a call that was summarised away.
TailIsUsable ==
    topic = "history" =>
        /\ NeedsRefresh(Retained \o pending) => Len(Retained) <= 1
        /\ NeedsRefresh(history \o pending) /\ Len(history) > 1 => Retained # history
        /\ Retained \notin {history, <<>>} => Head(Retained).role # "result"

----------------------------------------------------------------------------
Reaches(set) == LET answer == Scope(set, caller, resource) IN {row \in TableRows : Admits(answer, row)}

\* Whatever the rules say, a query on a table of an organisation reaches rows of
\* the one the caller selected and belongs to, and of no other.
TenantKept ==
    topic = "access" /\ resource.kind = "scoped" /\ ~IsGlobalAdmin(caller) =>
        \A row \in Reaches(rules) : row.org = ActiveOrg(caller) /\ Belongs(caller, row.org)

LastRule == rules'[Len(rules')]

\* One more yes takes nothing away: who matched a clause keeps the rows it gave
\* (on `organization`, where a clause may match and give no rows, this fails).
OneMoreYes ==
    [][topic = "access" /\ resource.kind # "organization" /\ rules # <<>> /\ LastRule.effect # "deny"
          /\ ~(Len(rules) = 1 /\ rules[1].policy.level = "private")
        => Reaches(rules) \subseteq Reaches(rules')]_vars

\* A denial of a role shuts out those who were given it, whatever else they
\* match, and changes nothing for anybody else, admins of the organisation
\* included; a deployment's administrator is past both. (On `organization` the
\* class of a denial is not looked at, and this fails.)
DenialIsForHolders ==
    [][topic = "access" /\ resource.kind # "organization" /\ rules # <<>> /\ LastRule.effect = "deny" /\ LastRule.policy.level = "role"
          /\ ~(Len(rules) = 1 /\ rules[1].policy.level = "private") /\ ~IsGlobalAdmin(caller)
        => IF Inside(caller) /\ LastRule.policy.role \in caller.roles[ActiveOrg(caller)]
              /\ InClass(ActiveOrg(caller), LastRule.policy.class)
           THEN Reaches(rules') = {}
           ELSE Reaches(rules') = Reaches(rules)]_vars
====
