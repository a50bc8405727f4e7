---- MODULE AlgorithmsProofs ----
(***************************************************************************)
(* The properties of the pure algorithms, for every width of the integers, *)
(* cap, trigger, set of organisations and length of the input: what        *)
(* MCAlgorithms checks, with no bound on what it enumerates.               *)
(***************************************************************************)
EXTENDS MCAlgorithms, SummariesProofs

----------------------------------------------------------------------------
(* RetryBackoff                                                            *)

LEMMA Shifts ==
    /\ MaxUInt \in Nat /\ MaxDelay <= MaxUInt
    /\ \A n \in Nat : ShiftedOne(n) \in Nat /\ ShiftedOne(n) >= 1
    /\ ShiftedOne(0) = 1
    /\ \A n \in Nat : \/ ShiftedOne(n + 1) = 2 * ShiftedOne(n)
                      \/ ShiftedOne(n + 1) = MaxUInt /\ 2 * ShiftedOne(n) >= MaxUInt
<1>1. Width \in Nat /\ Width >= 1 /\ MaxDelay \in Nat /\ MaxDelay < 2^Width
  BY WidthAssumption
<1>2. \A n \in 0 .. Width : 2^n \in Nat /\ 2^n >= 1
  BY WidthAssumption
<1>3. 2^0 = 1 /\ \A n \in 1 .. Width : 2^n = 2 * 2^(n - 1)
  BY WidthAssumption
<1>4. MaxUInt \in Nat /\ MaxUInt = 2^Width - 1 /\ MaxUInt >= 1
  <2>1. 2^Width = 2 * 2^(Width - 1) /\ 2^(Width - 1) >= 1 /\ 2^(Width - 1) \in Nat
    BY <1>1, <1>2, <1>3
  <2> QED BY <2>1 DEF MaxUInt
<1>5. MaxDelay <= MaxUInt
  BY <1>1, <1>2, <1>4
<1>6. ASSUME NEW n \in Nat PROVE ShiftedOne(n) \in Nat /\ ShiftedOne(n) >= 1
  BY <1>1, <1>2, <1>4 DEF ShiftedOne
<1>7. ShiftedOne(0) = 1
  BY <1>1, <1>3 DEF ShiftedOne
<1>8. ASSUME NEW n \in Nat
      PROVE  \/ ShiftedOne(n + 1) = 2 * ShiftedOne(n)
             \/ ShiftedOne(n + 1) = MaxUInt /\ 2 * ShiftedOne(n) >= MaxUInt
  <2>1. CASE n + 1 < Width
    <3>1. 2^(n + 1) = 2 * 2^((n + 1) - 1) /\ (n + 1) - 1 = n /\ n < Width
      BY <1>1, <1>3, <2>1
    <3> QED BY <2>1, <3>1 DEF ShiftedOne
  <2>2. CASE n + 1 = Width
    <3>1. 2^Width = 2 * 2^(Width - 1) /\ Width - 1 = n /\ n < Width
      BY <1>1, <1>3, <2>2
    <3>2. 2 * ShiftedOne(n) = 2^Width /\ ShiftedOne(n + 1) = MaxUInt
      BY <1>1, <2>2, <3>1 DEF ShiftedOne
    <3> QED BY <1>1, <1>2, <1>4, <3>2
  <2>3. CASE n >= Width
    <3>1. ShiftedOne(n) = MaxUInt /\ ShiftedOne(n + 1) = MaxUInt
      BY <1>1, <2>3 DEF ShiftedOne
    <3> QED BY <1>4, <3>1
  <2> QED BY <1>1, <2>1, <2>2, <2>3
<1> QED BY <1>4, <1>5, <1>6, <1>7, <1>8

LEMMA CappedProduct ==
    ASSUME NEW a \in Nat, NEW b \in Nat
    PROVE  AtMost(SaturatingMul(a, b)) = AtMost(a * b)
<1>1. a * b \in Nat /\ MaxUInt \in Nat /\ MaxDelay \in Nat /\ MaxDelay <= MaxUInt
  <2>1. a * b \in Nat
    OBVIOUS
  <2> QED BY <2>1, Shifts, WidthAssumption
<1> DEFINE ab == a * b
<1> HIDE DEF ab
<1> QED BY <1>1 DEF SaturatingMul, AtMost, ab

\* QueuesConfig::retry_delay_secs: the delay doubles from one attempt to the next
\* up to the cap; shift and product saturate where the doubling would overflow.
LEMMA DelayDoubles ==
    ASSUME NEW b \in Nat, NEW n \in Nat
    PROVE  /\ n <= 1 => RetryDelay(b, n) = AtMost(b)
           /\ n > 1 => RetryDelay(b, n) = AtMost(2 * RetryDelay(b, n - 1))
<1> DEFINE shift(k) == IF k = 0 THEN 0 ELSE k - 1
<1>1. \A k \in Nat : RetryDelay(b, k) = AtMost(ShiftedOne(shift(k)) * b)
  <2> TAKE k \in Nat
  <2>1. RetryDelay(b, k) = AtMost(SaturatingMul(ShiftedOne(shift(k)), b))
    BY DEF RetryDelay, AtMost
  <2>2. ShiftedOne(shift(k)) \in Nat
    BY Shifts
  <2> QED BY <2>1, <2>2, CappedProduct
<1>2. ASSUME n <= 1 PROVE RetryDelay(b, n) = AtMost(b)
  <2>1. shift(n) = 0 /\ ShiftedOne(0) = 1 /\ 1 * b = b
    BY <1>2, Shifts
  <2> QED BY <1>1, <2>1
<1>3. ASSUME n > 1 PROVE RetryDelay(b, n) = AtMost(2 * RetryDelay(b, n - 1))
  <2> DEFINE k == n - 2
             x == ShiftedOne(k)
             y == ShiftedOne(k + 1)
  <2>1. k \in Nat /\ shift(n) = k + 1 /\ n - 1 \in Nat /\ shift(n - 1) = k
    BY <1>3
  <2>2. RetryDelay(b, n) = AtMost(y * b) /\ RetryDelay(b, n - 1) = AtMost(x * b)
    BY <1>1, <2>1
  <2>3. x \in Nat /\ y \in Nat /\ x >= 1 /\ y >= 1 /\ MaxDelay <= MaxUInt /\ MaxUInt \in Nat
    BY <2>1, Shifts
  <2>4. y = 2 * x \/ (y = MaxUInt /\ 2 * x >= MaxUInt)
    BY <2>1, Shifts
  <2> HIDE DEF x, y
  <2>5. MaxDelay \in Nat
    BY WidthAssumption
  <2> DEFINE xb == x * b
             yb == y * b
  <2>6. xb \in Nat /\ yb \in Nat
    BY <2>3
  <2>7. yb = 2 * xb \/ (yb >= MaxDelay /\ 2 * xb >= MaxDelay) \/ (yb = 0 /\ xb = 0)
    <3>1. CASE y = 2 * x
      <4>1. (2 * x) * b = 2 * (x * b)
        BY <2>3
      <4> QED BY <3>1, <4>1
    <3>2. CASE b = 0
      BY <2>3, <3>2
    <3>3. CASE b >= 1 /\ y = MaxUInt /\ 2 * x >= MaxUInt
      <4>1. yb >= y /\ xb >= x
        BY <2>3, <3>3
      <4> HIDE DEF xb, yb
      <4> QED BY <2>3, <2>5, <2>6, <3>3, <4>1
    <3> QED BY <2>4, <3>1, <3>2, <3>3
  <2> HIDE DEF xb, yb
  <2>8. AtMost(yb) = AtMost(2 * AtMost(xb))
    BY <2>5, <2>6, <2>7 DEF AtMost
  <2> QED BY <2>2, <2>8 DEF xb, yb
<1> QED BY <1>2, <1>3

DelayTyped == backoff \in Nat /\ attempt \in Nat

\* "Attempt n waits retry_backoff_secs * 2^(n-1)" up to the cap, for every delay
\* a deployment may configure and every attempt.
THEOREM DelaysDouble == Spec => []DelayDoublesToTheCap
<1>1. Init => DelayTyped
  BY BoundsAssumption DEF Init, DelayTyped
<1>2. DelayTyped /\ [Next]_vars => DelayTyped'
  BY DEF DelayTyped, Next, NextAttempt, NextMessage, NextRule, vars, delay
<1>3. DelayTyped => DelayDoublesToTheCap
  BY DelayDoubles DEF DelayTyped, DelayDoublesToTheCap
<1> QED BY <1>1, <1>2, <1>3, PTL DEF Spec

----------------------------------------------------------------------------
(* Summaries                                                               *)

AnyMessage == [role : {"user", "call", "result"}, call : {0, 1, 2}, size : {1, 2}]

HistoryTyped == history \in Seq(AnyMessage) /\ pending \in Seq(AnyMessage) /\ summarized \in BOOLEAN

LEMMA MessagesTyped == Messages \subseteq AnyMessage /\ \A m \in AnyMessage : m.size \in Nat
BY DEF Messages, AnyMessage

LEMMA UsableTail == HistoryTyped => TailIsUsable
<1> SUFFICES ASSUME HistoryTyped, topic = "history" PROVE TailIsUsable
  BY DEF TailIsUsable
<1> DEFINE p == PrefixLength(history, summarized, pending)
           n == Len(history)
<1>1. n \in Nat /\ history \in Seq(AnyMessage) /\ pending \in Seq(AnyMessage) /\ summarized \in BOOLEAN
  BY DEF HistoryTyped
<1>2. CASE history = <<>>
  <2>1. Retained = <<>> /\ Len(history) = 0
    <3>1. SubSeq(history, 1, 0) = <<>>
      BY <1>2
    <3> QED BY <1>2, <3>1 DEF Retained, PrefixLength, TailFrom
  <2> QED BY <2>1, <1>2 DEF TailIsUsable
<1>3. CASE history # <<>>
  <2>1. /\ p \in 0 .. n
        /\ p # 0 => p = n \/ history[p + 1].role # "result"
        /\ p = n \/ SplitSuffices(history, pending, p)
    BY <1>1, <1>3, MessagesTyped, PrefixIs
  <2>2. /\ Retained \in Seq(AnyMessage) /\ Len(Retained) = n - p
        /\ \A i \in 1 .. n - p : Retained[i] = history[i + p]
    BY <1>1, <2>1, TailIs DEF Retained
  <2>3. Retained = TailFrom(history, p)
    BY DEF Retained
  <2> HIDE DEF p
  <2>4. p = n => Len(Retained) = 0
    BY <1>1, <2>2
  <2>5. NeedsRefresh(Retained \o pending) => Len(Retained) <= 1
    BY <2>1, <2>2, <2>3, <2>4 DEF SplitSuffices
  <2>6. NeedsRefresh(history \o pending) /\ Len(history) > 1 => Retained # history
    <3> SUFFICES ASSUME NeedsRefresh(history \o pending), n > 1, Retained = history PROVE FALSE
      OBVIOUS
    <3> QED BY <1>1, <2>1, <2>2, <2>5
  <2>7. ASSUME Retained \notin {history, <<>>} PROVE Head(Retained).role # "result"
    <3>1. p # 0
      <4> SUFFICES ASSUME p = 0 PROVE Retained = history
        BY <2>7
      <4> QED BY <1>1, <2>2
    <3>2. p # n
      BY <2>2, <2>4, <2>7
    <3>3. Head(Retained) = history[p + 1]
      <4>1. 1 \in 1 .. n - p
        BY <1>1, <2>1, <3>2
      <4> HIDE DEF n
      <4>2. Head(Retained) = Retained[1]
        BY <2>2, <2>7
      <4> QED BY <1>1, <2>1, <2>2, <4>1, <4>2
    <3> QED BY <2>1, <3>1, <3>2, <3>3
  <2> QED BY <2>5, <2>6, <2>7 DEF TailIsUsable
<1> QED BY <1>2, <1>3

\* A refresh leaves a tail that fits with the question about to be asked or one
\* message, makes progress whenever it is needed, and never starts a tail it cut
\* with an orphaned result: for every trigger, number of messages kept and
\* conversation (apiplant-ai/src/summary.rs prefix_message_count).
THEOREM TailsAreUsable == Spec => []TailIsUsable
<1>1. Init => HistoryTyped
  <2> SUFFICES ASSUME Init PROVE HistoryTyped
    OBVIOUS
  <2>1. <<[role |-> "user", call |-> 0, size |-> 2]>> \in Seq(AnyMessage) /\ <<>> \in Seq(AnyMessage)
    <3>1. [role |-> "user", call |-> 0, size |-> 2] \in AnyMessage
      BY DEF AnyMessage
    <3> QED BY <3>1
  <2> QED BY <2>1 DEF Init, HistoryTyped
<1>2. HistoryTyped /\ [Next]_vars => HistoryTyped'
  <2> SUFFICES ASSUME HistoryTyped, [Next]_vars PROVE HistoryTyped'
    OBVIOUS
  <2>1. CASE NextMessage
    <3>1. PICK m \in Messages : history' = Append(history, m)
      BY <2>1 DEF NextMessage
    <3>2. history' \in Seq(AnyMessage)
      BY <3>1, MessagesTyped DEF HistoryTyped
    <3> QED BY <2>1, <3>2 DEF NextMessage, HistoryTyped
  <2>2. CASE UNCHANGED conversation
    BY <2>2 DEF conversation, HistoryTyped
  <2> QED BY <2>1, <2>2 DEF Next, NextAttempt, NextRule, vars
<1> QED BY <1>1, <1>2, UsableTail, PTL DEF Spec

----------------------------------------------------------------------------
(* Access                                                                  *)

RulesOver(P) == Seq([policy : P, effect : {"allow", "own", "deny"}])

\* Among the clauses that say yes exactly one comes before the others.
LEMMA FirstIs ==
    ASSUME NEW P, NEW set \in RulesOver(P), NEW S \in SUBSET Yes(set), S # {}
    PROVE  /\ First(set, S) \in S
           /\ \A j \in S \ {First(set, S)} : Precedes(set, First(set, S), j)
           /\ \A i \in S : (\A j \in S \ {i} : Precedes(set, i, j)) => i = First(set, S)
<1> DEFINE Allow == {i \in S : set[i].effect = "allow"}
           Leads(i) == \A j \in S \ {i} : Precedes(set, i, j)
<1>1. S \subseteq Nat /\ \A i \in S : set[i].effect \in {"allow", "own"}
  <2>1. DOMAIN set = 1 .. Len(set) /\ Len(set) \in Nat
    BY DEF RulesOver
  <2> HIDE DEF Allow, Leads
  <2>2. \A i \in 1 .. Len(set) : set[i] \in [policy : P, effect : {"allow", "own", "deny"}]
    <3> DEFINE R == [policy : P, effect : {"allow", "own", "deny"}]
    <3> HIDE DEF R
    <3>1. set \in Seq(R)
      BY DEF R, RulesOver
    <3>2. \A i \in 1 .. Len(set) : set[i] \in R
      BY <3>1
    <3> QED BY <3>2 DEF R
  <2> QED BY <2>1, <2>2 DEF Yes
<1>2. \E i \in S : Leads(i)
  <2>1. CASE Allow # {}
    <3>1. PICK i \in Allow : \A j \in Allow : i <= j
      <4>1. Allow \in SUBSET Nat
        BY <1>1
      <4> HIDE DEF Allow
      <4> QED BY <2>1, <4>1, LeastOf
    <3>2. \A j \in S \ {i} : Precedes(set, i, j)
      BY <1>1, <3>1 DEF Precedes
    <3> QED BY <3>1, <3>2
  <2>2. CASE Allow = {}
    <3>1. PICK i \in S : \A j \in S : i <= j
      BY <1>1, LeastOf
    <3> QED BY <1>1, <2>2, <3>1 DEF Precedes
  <2> QED BY <2>1, <2>2
<1>3. ASSUME NEW i \in S, NEW k \in S, Leads(i), Leads(k) PROVE i = k
  BY <1>1, <1>3 DEF Precedes
<1>4. First(set, S) = CHOOSE i \in S : Leads(i)
  BY DEF First
<1> HIDE DEF Leads
<1>5. First(set, S) \in S /\ Leads(First(set, S))
  BY <1>2, <1>4
<1>6. \A i \in S : Leads(i) => i = First(set, S)
  BY <1>3, <1>5
<1> QED BY <1>5, <1>6 DEF Leads

\* One policy that lets a caller at a table of an organisation lets them at the
\* rows of the one they selected and belong to.
LEMMA PolicyKeepsTenant ==
    ASSUME NEW p, NEW c, NEW r, r.kind = "scoped", AuthorizePolicy(p, c, r).ok
    PROVE  Inside(c) /\ ThisOrg(c) \subseteq AuthorizePolicy(p, c, r).filters
<1>1. AuthorizePolicy(p, c, r) = AuthorizeOrgScoped(p, c, r)
  BY DEF AuthorizePolicy
<1>2. \A why : ~Refused(why).ok
  BY DEF Refused
<1>3. Inside(c) /\ AuthorizeOrgScoped(p, c, r) \in {Granted(OwnRowsOfOrg(c, r)), Granted(ThisOrg(c))}
  BY <1>1, <1>2 DEF AuthorizeOrgScoped
<1>4. \A F : Granted(F).filters = F
  BY DEF Granted
<1> QED BY <1>1, <1>3, <1>4 DEF OwnRowsOfOrg

\* Whatever clause answers, and whichever filters it adds, a query on a table of
\* an organisation carries the filter of the organisation (crud.rs select, scope).
LEMMA QueryKeepsTenant ==
    ASSUME NEW P, NEW set \in RulesOver(P), NEW c, NEW r,
           r.kind = "scoped", ~IsGlobalAdmin(c), Scope(set, c, r).ok
    PROVE  Inside(c) /\ ThisOrg(c) \subseteq Scope(set, c, r).filters
<1> DEFINE Match(i) == AuthorizePolicy(set[i].policy, c, r)
           matching == {i \in Yes(set) : Match(i).ok}
           first == First(set, matching)
           Narrow(i) == IF set[i].effect = "own" THEN OwnerNarrowing(c, r) ELSE {}
           answer == Select(set, c, r).answer
<1>1. Scope(set, c, r) = answer
  BY DEF Scope
<1>2. \A why : ~Refused(why).ok
  BY DEF Refused
<1>3. ~Forbidden(c).ok
  BY <1>2 DEF Forbidden
<1>4. matching # {} /\ answer = Granted(Match(first).filters \cup Narrow(first))
  <2>1. CASE matching # {}
    BY <1>1, <1>2, <1>3, <2>1 DEF Select
  <2>2. CASE matching = {}
    <3>1. Yes(set) # {} => First(set, Yes(set)) \in Yes(set)
      BY FirstIs
    <3>2. Yes(set) # {} => ~Match(First(set, Yes(set))).ok
      BY <2>2, <3>1
    <3> QED BY <1>1, <1>2, <1>3, <2>2, <3>2 DEF Select
  <2> QED BY <2>1, <2>2
<1>5. first \in matching
  BY <1>4, FirstIs
<1>6. Inside(c) /\ ThisOrg(c) \subseteq Match(first).filters
  BY <1>5, PolicyKeepsTenant
<1>7. answer.filters = Match(first).filters \cup Narrow(first)
  <2>1. \A F : Granted(F).filters = F
    BY DEF Granted
  <2> DEFINE F == Match(first).filters \cup Narrow(first)
  <2>2. answer = Granted(F)
    BY <1>4
  <2> HIDE DEF F, answer
  <2>3. answer.filters = F
    BY ONLY <2>1, <2>2
  <2> QED BY <2>3 DEF F
<1> QED BY <1>1, <1>6, <1>7

\* Whatever the rules say, a query on a table of an organisation reaches rows of
\* the one the caller selected and belongs to, and of no other, unless the caller
\* administers the deployment.
THEOREM TenantIsKept ==
    ASSUME NEW P, NEW set \in RulesOver(P), NEW c, NEW r, NEW row,
           r.kind = "scoped", ~IsGlobalAdmin(c), Admits(Scope(set, c, r), row)
    PROVE  row.org = ActiveOrg(c) /\ Belongs(c, row.org)
<1>1. Inside(c) /\ ThisOrg(c) \subseteq Scope(set, c, r).filters
  BY QueryKeepsTenant DEF Admits
<1>2. Is("org", ActiveOrg(c)) \in Scope(set, c, r).filters
  BY <1>1 DEF ThisOrg
<1>3. row["org"] \in {ActiveOrg(c)}
  BY <1>2 DEF Admits, Is
<1> QED BY <1>1, <1>3 DEF Inside

\* A borrowed session is never the deployment's administrator: it stays in the
\* organisation it is locked to, whatever header it sends (state.rs
\* is_global_admin, resolve_active_org).
THEOREM BorrowedStaysLocked ==
    ASSUME NEW P, NEW set \in RulesOver(P), NEW c, NEW r, NEW row,
           r.kind = "scoped", c.borrowed, c.lock # None, Admits(Scope(set, c, r), row)
    PROVE  row.org = c.lock
<1>1. ~IsGlobalAdmin(c)
  BY DEF IsGlobalAdmin
<1>2. row.org = ActiveOrg(c) /\ Belongs(c, row.org)
  BY <1>1, TenantIsKept
<1> QED BY <1>2 DEF ActiveOrg, Belongs

RulesTyped == rules \in RulesOver(Policies)

LEMMA RulesStay == (Init => RulesTyped) /\ (RulesTyped /\ [Next]_vars => RulesTyped')
<1>1. Init => RulesTyped
  BY DEF Init, RulesOver, RulesTyped
<1>2. RulesTyped /\ [Next]_vars => RulesTyped'
  <2> SUFFICES ASSUME RulesTyped, [Next]_vars PROVE RulesTyped'
    OBVIOUS
  <2>1. CASE NextRule
    <3>1. PICK rule \in Rules : rules' = Append(rules, rule)
      BY <2>1 DEF NextRule
    <3> QED BY <3>1 DEF RulesTyped, RulesOver, Rules
  <2>2. CASE UNCHANGED access
    BY <2>2 DEF access, RulesTyped
  <2> QED BY <2>1, <2>2 DEF Next, NextAttempt, NextMessage, vars
<1> QED BY <1>1, <1>2

\* TenantIsKept, for every input MCAlgorithms reaches and the longer ones too.
THEOREM TenantsAreKept == Spec => []TenantKept
<1>1. RulesTyped => TenantKept
  <2> SUFFICES ASSUME RulesTyped, resource.kind = "scoped", ~IsGlobalAdmin(caller),
                      NEW row \in Reaches(rules)
               PROVE  row.org = ActiveOrg(caller) /\ Belongs(caller, row.org)
    BY DEF TenantKept
  <2>1. Admits(Scope(rules, caller, resource), row)
    BY DEF Reaches
  <2>2. \A P : \A set \in RulesOver(P) : \A c, r, one :
            r.kind = "scoped" /\ ~IsGlobalAdmin(c) /\ Admits(Scope(set, c, r), one)
                => one.org = ActiveOrg(c) /\ Belongs(c, one.org)
    BY TenantIsKept
  <2> QED BY <2>1, <2>2 DEF RulesTyped
<1> QED BY <1>1, RulesStay, PTL DEF Spec

----------------------------------------------------------------------------
(* Access: one more rule                                                   *)

Denied(set, c, r) == \E i \in DOMAIN set : set[i].effect = "deny" /\ Denies(set[i].policy, c, r)
Matching(set, c, r) == {i \in Yes(set) : AuthorizePolicy(set[i].policy, c, r).ok}
Withheld(set) == Len(set) = 1 /\ set[1].policy.level = "private"

\* What the clause that answers gives.
FiltersOf(rule, c, r) ==
    AuthorizePolicy(rule.policy, c, r).filters \cup (IF rule.effect = "own" THEN OwnerNarrowing(c, r) ELSE {})
Clause(rule, c, r) == [rule |-> rule, answer |-> Granted(FiltersOf(rule, c, r))]

\* A denial refuses, else the first clause that matches answers.
LEMMA SelectIs ==
    ASSUME NEW P, NEW set \in RulesOver(P), NEW c, NEW r, ~Withheld(set), ~IsGlobalAdmin(c)
    PROVE  /\ Denied(set, c, r) \/ Matching(set, c, r) = {} => ~Scope(set, c, r).ok
           /\ ~Denied(set, c, r) /\ Matching(set, c, r) # {}
                => Select(set, c, r) = Clause(set[First(set, Matching(set, c, r))], c, r)
<1> DEFINE matching == Matching(set, c, r)
           first == First(set, matching)
           answer == Select(set, c, r).answer
<1>1. \A why : ~Refused(why).ok
  BY DEF Refused
<1>2. ~Forbidden(c).ok
  BY <1>1 DEF Forbidden
<1>3. ~answer.ok => ~Scope(set, c, r).ok
  BY DEF Scope
<1>4. Denied(set, c, r) => ~answer.ok
  BY <1>2 DEF Select, Denied, Withheld
<1>5. ASSUME ~Denied(set, c, r), matching = {} PROVE ~answer.ok
  <2>1. CASE Yes(set) = {}
    BY <1>2, <1>5, <2>1 DEF Select, Denied, Withheld, Matching
  <2>2. CASE Yes(set) # {}
    <3> DEFINE any == First(set, Yes(set))
    <3>1. any \in Yes(set)
      BY <2>2, FirstIs
    <3>2. ~AuthorizePolicy(set[any].policy, c, r).ok
      BY <1>5, <3>1 DEF Matching
    <3>3. answer = AuthorizePolicy(set[any].policy, c, r)
      BY <1>5, <2>2 DEF Select, Denied, Withheld, Matching
    <3> QED BY <3>2, <3>3
  <2> QED BY <2>1, <2>2
<1>6. ASSUME ~Denied(set, c, r), matching # {}
      PROVE  Select(set, c, r) = Clause(set[first], c, r)
  BY <1>6 DEF Select, Denied, Withheld, Matching, Clause, FiltersOf
<1> QED BY <1>3, <1>4, <1>5, <1>6

LEMMA AppendedRules ==
    ASSUME NEW P, NEW set \in RulesOver(P), set # <<>>,
           NEW rule \in [policy : P, effect : {"allow", "own", "deny"}]
    PROVE  LET more == Append(set, rule)
               n    == Len(set) + 1
           IN /\ more \in RulesOver(P) /\ ~Withheld(more)
              /\ n \in Nat /\ n \notin DOMAIN set /\ \A i \in DOMAIN set : i < n
              /\ DOMAIN more = DOMAIN set \cup {n}
              /\ more[n] = rule /\ \A i \in DOMAIN set : more[i] = set[i]
<1> DEFINE R == [policy : P, effect : {"allow", "own", "deny"}]
           more == Append(set, rule)
<1> HIDE DEF R
<1>1. set \in Seq(R) /\ rule \in R
  BY DEF R, RulesOver
<1>2. more \in Seq(R) /\ Len(more) = Len(set) + 1 /\ Len(set) \in Nat /\ Len(set) # 0
  BY <1>1
<1>3. DOMAIN set = 1 .. Len(set) /\ DOMAIN more = 1 .. Len(set) + 1
  BY <1>1, <1>2
<1>4. more[Len(set) + 1] = rule /\ \A i \in 1 .. Len(set) : more[i] = set[i]
  BY <1>1, <1>2
<1> HIDE DEF more
<1> QED BY <1>2, <1>3, <1>4 DEF RulesOver, R, Withheld, more

LEMMA AppendedClauses ==
    ASSUME NEW P, NEW set \in RulesOver(P), set # <<>>, NEW c, NEW r,
           NEW rule \in [policy : P, effect : {"allow", "own", "deny"}]
    PROVE  LET more == Append(set, rule)
               n    == Len(set) + 1
           IN /\ Yes(more) = Yes(set) \cup (IF rule.effect # "deny" THEN {n} ELSE {})
              /\ Matching(more, c, r) = Matching(set, c, r)
                    \cup {i \in {n} : rule.effect # "deny" /\ AuthorizePolicy(rule.policy, c, r).ok}
              /\ Denied(more, c, r) <=> Denied(set, c, r) \/ (rule.effect = "deny" /\ Denies(rule.policy, c, r))
<1> DEFINE more == Append(set, rule)
           n == Len(set) + 1
<1>1. /\ DOMAIN more = DOMAIN set \cup {n} /\ n \notin DOMAIN set
      /\ more[n] = rule /\ \A i \in DOMAIN set : more[i] = set[i]
  BY AppendedRules
<1> HIDE DEF more, n
<1>2. Yes(more) = Yes(set) \cup (IF rule.effect # "deny" THEN {n} ELSE {})
  BY <1>1 DEF Yes
<1>3. Matching(more, c, r) = Matching(set, c, r)
          \cup {i \in {n} : rule.effect # "deny" /\ AuthorizePolicy(rule.policy, c, r).ok}
  <2>1. \A i \in Yes(set) : i \in DOMAIN set
    BY DEF Yes
  <2> QED BY <1>1, <1>2, <2>1 DEF Matching
<1>4. Denied(more, c, r) <=> Denied(set, c, r) \/ (rule.effect = "deny" /\ Denies(rule.policy, c, r))
  BY <1>1 DEF Denied
<1> QED BY <1>2, <1>3, <1>4 DEF more, n

\* Of the clauses there were the same one comes first.
LEMMA FirstOfMore ==
    ASSUME NEW P, NEW set \in RulesOver(P), set # <<>>, NEW S \in SUBSET Yes(set), S # {},
           NEW rule \in [policy : P, effect : {"allow", "own", "deny"}]
    PROVE  First(Append(set, rule), S) = First(set, S)
<1> DEFINE more == Append(set, rule)
           f == First(set, S)
<1>1. more \in RulesOver(P) /\ \A i \in DOMAIN set : more[i] = set[i]
  BY AppendedRules
<1>2. S \in SUBSET Yes(more) /\ \A i \in S : i \in DOMAIN set
  BY AppendedClauses DEF Yes
<1>3. f \in S /\ \A j \in S \ {f} : Precedes(set, f, j)
  BY FirstIs
<1> HIDE DEF more, f
<1>4. \A j \in S \ {f} : Precedes(more, f, j)
  BY <1>1, <1>2, <1>3 DEF Precedes
<1>5. f = First(more, S)
  BY <1>1, <1>2, <1>3, <1>4, FirstIs
<1> QED BY <1>5 DEF more, f

\* A clause more comes first only before clauses for one's own rows.
LEMMA FirstGrows ==
    ASSUME NEW P, NEW set \in RulesOver(P), set # <<>>, NEW S \in SUBSET Yes(set), S # {},
           NEW rule \in [policy : P, effect : {"allow", "own"}]
    PROVE  LET first == First(Append(set, rule), S \cup {Len(set) + 1}) IN
           \/ first = First(set, S)
           \/ first = Len(set) + 1 /\ rule.effect = "allow" /\ set[First(set, S)].effect = "own"
<1> DEFINE more == Append(set, rule)
           n == Len(set) + 1
           f == First(set, S)
           T == S \cup {n}
<1>0. rule \in [policy : P, effect : {"allow", "own", "deny"}] /\ rule.effect # "deny"
  OBVIOUS
<1>1. /\ more \in RulesOver(P) /\ n \in Nat /\ n \notin DOMAIN set /\ \A i \in DOMAIN set : i < n
      /\ more[n] = rule /\ \A i \in DOMAIN set : more[i] = set[i]
  BY <1>0, AppendedRules
<1>2. T \in SUBSET Yes(more) /\ \A i \in S : i \in DOMAIN set
  <2>1. Yes(more) = Yes(set) \cup {n}
    BY <1>0, AppendedClauses
  <2> HIDE DEF more, n
  <2>2. \A i \in Yes(set) : i \in DOMAIN set
    BY DEF Yes
  <2> QED BY <2>1, <2>2
<1>3. f \in S /\ \A j \in S \ {f} : Precedes(set, f, j)
  BY FirstIs
<1>4. \A i \in S : set[i].effect \in {"allow", "own"}
  <2> DEFINE R == [policy : P, effect : {"allow", "own", "deny"}]
  <2>1. DOMAIN set = 1 .. Len(set) /\ \A i \in 1 .. Len(set) : set[i] \in R
    <3> HIDE DEF R
    <3>1. set \in Seq(R)
      BY DEF RulesOver, R
    <3> QED BY <3>1
  <2> QED BY <2>1 DEF Yes
<1> DEFINE first == First(more, T)
           Goal == first = f \/ (first = n /\ rule.effect = "allow" /\ set[f].effect = "own")
<1> SUFFICES Goal
  OBVIOUS
<1> HIDE DEF more, n, f
<1>5. CASE Precedes(more, f, n)
  <2>1. \A j \in T \ {f} : Precedes(more, f, j)
    BY <1>1, <1>2, <1>3, <1>5 DEF Precedes
  <2>2. f = First(more, T)
    <3>1. f \in T
      BY <1>3
    <3> HIDE DEF T
    <3> QED BY <1>1, <1>2, <2>1, <3>1, FirstIs
  <2> QED BY <2>2
<1>6. CASE ~Precedes(more, f, n)
  <2>1. set[f].effect = "own" /\ rule.effect = "allow"
    BY <1>1, <1>2, <1>3, <1>4, <1>6 DEF Precedes
  <2>2. \A j \in T \ {n} : Precedes(more, n, j)
    BY <1>1, <1>2, <1>3, <1>4, <2>1 DEF Precedes
  <2>3. n = First(more, T)
    <3>1. n \in T
      OBVIOUS
    <3> HIDE DEF T
    <3> QED BY <1>1, <1>2, <2>2, <3>1, FirstIs
  <2> QED BY <2>1, <2>3
<1> QED BY <1>5, <1>6

\* What one policy that matches gives (crud.rs authorize).
LEMMA ScopedFilters ==
    ASSUME NEW p, NEW c, NEW r, r.kind = "scoped", AuthorizePolicy(p, c, r).ok
    PROVE  /\ Inside(c) /\ c.known
           /\ AuthorizePolicy(p, c, r).filters =
                IF p.level = "owner" /\ ~HasRole(c, ActiveOrg(c), Admin) THEN OwnRowsOfOrg(c, r) ELSE ThisOrg(c)
<1>1. AuthorizePolicy(p, c, r) = AuthorizeOrgScoped(p, c, r)
  BY DEF AuthorizePolicy
<1>2. (\A why : ~Refused(why).ok) /\ \A F : Granted(F).filters = F
  BY DEF Refused, Granted
<1>3. Inside(c) => c.known
  BY DEF Inside, Belongs
<1>4. /\ Inside(c)
      /\ AuthorizeOrgScoped(p, c, r) =
            IF p.level = "owner" /\ ~HasRole(c, ActiveOrg(c), Admin)
            THEN Granted(OwnRowsOfOrg(c, r)) ELSE Granted(ThisOrg(c))
  BY <1>1, <1>2 DEF AuthorizeOrgScoped
<1> QED BY <1>1, <1>2, <1>3, <1>4

LEMMA GlobalFilters ==
    ASSUME NEW p, NEW c, NEW r, r.kind \notin {"scoped", "organization"}, AuthorizePolicy(p, c, r).ok
    PROVE  /\ p.level # "public" => c.known
           /\ AuthorizePolicy(p, c, r).filters = IF p.level = "owner" THEN OwnRows(c, r) ELSE {}
<1>1. AuthorizePolicy(p, c, r) = AuthorizeGlobal(p, c, r)
  BY DEF AuthorizePolicy
<1>2. (\A why : ~Refused(why).ok) /\ ~Forbidden(c).ok /\ \A F : Granted(F).filters = F
  BY DEF Refused, Granted, Forbidden
<1>3. p.level # "public" => c.known
  BY <1>1, <1>2 DEF AuthorizeGlobal
<1>4. AuthorizeGlobal(p, c, r) = IF p.level = "owner" THEN Granted(OwnRows(c, r)) ELSE Granted({})
  BY <1>1, <1>2 DEF AuthorizeGlobal
<1> QED BY <1>1, <1>2, <1>3, <1>4

IsAdminInside(c) == Inside(c) /\ HasRole(c, ActiveOrg(c), Admin)

Widened(F, c, r) ==
    {f \in F : ~(f.exact /\ f.column = OwnerColumn(r))} \cup {OneOf(OwnerColumn(r), UsersOf(c, ActiveOrg(c)))}

ScopeBy(rule, c, r) ==
    LET F     == FiltersOf(rule, c, r)
        level == IF rule.effect = "own" THEN "owner" ELSE rule.policy.level
    IN  IF r.kind = "scoped" THEN Granted(F)
        ELSE IF level = "owner" /\ IsAdminInside(c) THEN Granted(Widened(F, c, r))
        ELSE IF level = "member" /\ r.kind = "user" THEN Granted(F \cup {OneOf("id", CoMembers(c))})
        ELSE Granted(F)

\* How the clause that answers becomes the scope of the query (crud.rs scope).
LEMMA ScopeOfClause ==
    ASSUME NEW set, NEW c, NEW r, NEW rule, Select(set, c, r) = Clause(rule, c, r)
    PROVE  Scope(set, c, r) = ScopeBy(rule, c, r)
<1> DEFINE F == FiltersOf(rule, c, r)
           selected == Select(set, c, r)
<1>1. selected.rule = rule /\ selected.answer = Granted(F)
  BY DEF Clause
<1>2. Granted(F).ok /\ Granted(F).filters = F
  BY DEF Granted
<1> HIDE DEF selected, F
<1>3. selected.answer.ok /\ selected.answer.filters = F
  BY <1>1, <1>2
<1> QED BY <1>1, <1>3 DEF Scope, selected, F, ScopeBy, Widened, IsAdminInside

\* A clause for everybody's rows gives at least what a clause for one's own gave.
LEMMA OwnIsNarrower ==
    ASSUME NEW c, NEW r, NEW own, NEW allow, NEW before, NEW after, NEW row,
           r.kind # "organization", r.kind = "user" => ~r.owned,
           own.effect = "own", AuthorizePolicy(own.policy, c, r).ok,
           allow.effect = "allow", AuthorizePolicy(allow.policy, c, r).ok,
           Select(before, c, r) = Clause(own, c, r), Select(after, c, r) = Clause(allow, c, r),
           Admits(Scope(before, c, r), row)
    PROVE  Admits(Scope(after, c, r), row)
<1> DEFINE F == FiltersOf(own, c, r)
           G == FiltersOf(allow, c, r)
<1>1. \A H : Admits(Granted(H), row) <=> \A f \in H : row[f.column] \in f.values
  BY DEF Admits, Granted
<1>2. CASE r.kind = "scoped"
  <2>1. Scope(before, c, r) = Granted(F) /\ Scope(after, c, r) = Granted(G)
    BY <1>2, ScopeOfClause DEF ScopeBy
  <2>2. G \subseteq F
    <3> DEFINE narrow == ~HasRole(c, ActiveOrg(c), Admin)
    <3>1. c.known /\ Inside(c) /\ F = AuthorizePolicy(own.policy, c, r).filters \cup (IF narrow THEN OwnRows(c, r) ELSE {})
      BY <1>2, ScopedFilters DEF FiltersOf, OwnerNarrowing
    <3>2. AuthorizePolicy(own.policy, c, r).filters \in {OwnRowsOfOrg(c, r), ThisOrg(c)}
      BY <1>2, ScopedFilters
    <3>3. G = IF allow.policy.level = "owner" /\ narrow THEN OwnRowsOfOrg(c, r) ELSE ThisOrg(c)
      BY <1>2, ScopedFilters DEF FiltersOf
    <3> HIDE DEF F, G, narrow
    <3>4. OwnRowsOfOrg(c, r) = ThisOrg(c) \cup OwnRows(c, r)
      BY DEF OwnRowsOfOrg
    <3> QED BY <3>1, <3>2, <3>3, <3>4
  <2> HIDE DEF F, G
  <2> QED BY <1>1, <2>1, <2>2
<1>3. CASE r.kind # "scoped"
  <2>1. F = IF c.known THEN OwnRows(c, r) ELSE {}
    BY <1>3, GlobalFilters DEF FiltersOf, OwnerNarrowing
  <2>2. G = IF allow.policy.level = "owner" THEN OwnRows(c, r) ELSE {}
    BY <1>3, GlobalFilters DEF FiltersOf
  <2>3. allow.policy.level # "public" => c.known
    BY <1>3, GlobalFilters
  <2> HIDE DEF F, G
  <2>4. Scope(before, c, r) = IF IsAdminInside(c) THEN Granted(Widened(F, c, r)) ELSE Granted(F)
    <3>1. Scope(before, c, r) = ScopeBy(own, c, r)
      BY ScopeOfClause
    <3>2. ScopeBy(own, c, r) = IF IsAdminInside(c) THEN Granted(Widened(F, c, r)) ELSE Granted(F)
      BY <1>3 DEF ScopeBy, F
    <3> QED BY <3>1, <3>2
  <2>5. Scope(after, c, r) =
            IF allow.policy.level = "owner" /\ IsAdminInside(c) THEN Granted(Widened(G, c, r))
            ELSE IF allow.policy.level = "member" /\ r.kind = "user" THEN Granted(G \cup {OneOf("id", CoMembers(c))})
            ELSE Granted(G)
    <3>1. Scope(after, c, r) = ScopeBy(allow, c, r)
      BY ScopeOfClause
    <3> QED BY <1>3, <3>1 DEF ScopeBy, G
  <2>6. CASE allow.policy.level = "owner"
    <3>1. Scope(after, c, r) = Scope(before, c, r)
      BY <2>1, <2>2, <2>3, <2>4, <2>5, <2>6
    <3> QED BY <3>1
  <2>7. CASE allow.policy.level = "member" /\ r.kind = "user"
    <3>1. c.known /\ G = {} /\ OwnerColumn(r) = "id" /\ OwnRows(c, r) = {Is("id", c.user)}
      BY <2>2, <2>3, <2>7 DEF OwnerColumn, OwnRows
    <3>2. row["id"] \in CoMembers(c)
      <4>1. CASE IsAdminInside(c)
        <5>1. OneOf("id", UsersOf(c, ActiveOrg(c))) \in Widened(F, c, r)
          BY <3>1 DEF Widened
        <5>2. row["id"] \in UsersOf(c, ActiveOrg(c))
          BY <1>1, <2>4, <4>1, <5>1 DEF OneOf
        <5>3. ActiveOrg(c) \in DOMAIN c.roles
          BY <4>1 DEF IsAdminInside, Inside, Belongs
        <5> QED BY <5>2, <5>3 DEF CoMembers
      <4>2. CASE ~IsAdminInside(c)
        <5>1. Is("id", c.user) \in F
          BY <2>1, <3>1
        <5>2. row["id"] = c.user
          BY <1>1, <2>4, <4>2, <5>1 DEF Is
        <5> QED BY <5>2 DEF CoMembers
      <4> QED BY <4>1, <4>2
    <3>3. OneOf("id", CoMembers(c)).column = "id" /\ OneOf("id", CoMembers(c)).values = CoMembers(c)
      BY DEF OneOf
    <3>4. Scope(after, c, r) = Granted({OneOf("id", CoMembers(c))})
      BY <2>5, <2>7, <3>1
    <3> QED BY <1>1, <3>2, <3>3, <3>4
  <2>8. CASE allow.policy.level # "owner" /\ ~(allow.policy.level = "member" /\ r.kind = "user")
    <3>1. Scope(after, c, r) = Granted({})
      BY <2>2, <2>5, <2>8
    <3> QED BY <1>1, <3>1
  <2> QED BY <2>6, <2>7, <2>8
<1> QED BY <1>2, <1>3

LEMMA OneMoreYesWidens ==
    ASSUME NEW P, NEW set \in RulesOver(P), set # <<>>, ~Withheld(set),
           NEW rule \in [policy : P, effect : {"allow", "own"}],
           NEW c, NEW r, r.kind # "organization", r.kind = "user" => ~r.owned,
           NEW row, Admits(Scope(set, c, r), row)
    PROVE  Admits(Scope(Append(set, rule), c, r), row)
<1> DEFINE more == Append(set, rule)
           n == Len(set) + 1
           old == Matching(set, c, r)
           new == Matching(more, c, r)
           f == First(set, old)
<1>1. rule \in [policy : P, effect : {"allow", "own", "deny"}] /\ rule.effect # "deny"
  OBVIOUS
<1>2. /\ more \in RulesOver(P) /\ ~Withheld(more)
      /\ more[n] = rule /\ \A i \in DOMAIN set : more[i] = set[i]
  BY <1>1, AppendedRules
<1>3. /\ new = old \cup {i \in {n} : AuthorizePolicy(rule.policy, c, r).ok}
      /\ Denied(more, c, r) <=> Denied(set, c, r)
  BY <1>1, AppendedClauses
<1>4. CASE IsGlobalAdmin(c)
  <2>1. Select(set, c, r) = Select(more, c, r)
    BY <1>2, <1>4 DEF Select, Withheld
  <2>2. Scope(set, c, r) = Scope(more, c, r)
    BY <2>1 DEF Scope
  <2> QED BY <2>2
<1>5. CASE ~IsGlobalAdmin(c)
  <2>1. ~Denied(set, c, r) /\ old # {}
    BY <1>5, SelectIs DEF Admits
  <2>2. Select(set, c, r) = Clause(set[f], c, r)
    BY <1>5, <2>1, SelectIs
  <2> DEFINE g == First(more, new)
  <2>3. Select(more, c, r) = Clause(more[g], c, r)
    <3>1. new # {} /\ ~Denied(more, c, r)
      BY <1>3, <2>1
    <3> HIDE DEF new, more
    <3> QED BY <1>2, <1>5, <3>1, SelectIs DEF new
  <2>4. old \in SUBSET Yes(set) /\ \A i \in old : i \in DOMAIN set /\ AuthorizePolicy(set[i].policy, c, r).ok
    BY DEF Matching, Yes
  <2>5. f \in old
    BY <2>1, <2>4, FirstIs
  <2>6. CASE g = f
    <3>1. Select(more, c, r) = Select(set, c, r)
      BY <1>2, <2>2, <2>3, <2>4, <2>5, <2>6
    <3>2. Scope(set, c, r) = Scope(more, c, r)
      BY <3>1 DEF Scope
    <3> QED BY <3>2
  <2>7. CASE g # f
    <3>1. AuthorizePolicy(rule.policy, c, r).ok /\ new = old \cup {n}
      <4>1. CASE ~AuthorizePolicy(rule.policy, c, r).ok
        <5>1. new = old
          BY <1>3, <4>1
        <5>2. First(more, old) = f
          BY <1>1, <2>1, <2>4, FirstOfMore
        <5> QED BY <2>7, <5>1, <5>2
      <4> QED BY <1>3, <4>1
    <3>2. g = n /\ rule.effect = "allow" /\ set[f].effect = "own"
      <4>1. \/ First(more, old \cup {n}) = f
            \/ First(more, old \cup {n}) = n /\ rule.effect = "allow" /\ set[f].effect = "own"
        BY <2>1, <2>4, FirstGrows
      <4> QED BY <2>7, <3>1, <4>1
    <3>3. Select(more, c, r) = Clause(rule, c, r)
      BY <1>2, <2>3, <3>2
    <3>4. AuthorizePolicy(set[f].policy, c, r).ok
      BY <2>4, <2>5
    <3> HIDE DEF more, f, g
    <3> DEFINE own == set[f]
    <3> HIDE DEF own
    <3>5. own.effect = "own" /\ AuthorizePolicy(own.policy, c, r).ok /\ Select(set, c, r) = Clause(own, c, r)
      BY <2>2, <3>2, <3>4 DEF own
    <3>6. Admits(Scope(more, c, r), row)
      BY <3>1, <3>2, <3>3, <3>5, OwnIsNarrower
    <3> QED BY <3>6 DEF more
  <2> QED BY <2>6, <2>7
<1> QED BY <1>4, <1>5

\* The hypotheses of a step that adds a rule.
AccessTyped == RulesTyped /\ (resource.kind = "user" => ~resource.owned)

LEMMA AccessStays == (Init => AccessTyped) /\ (AccessTyped /\ [Next]_vars => AccessTyped')
<1>1. Init => (resource.kind = "user" => ~resource.owned)
  BY DEF Init, Resources
<1>2. [Next]_vars => UNCHANGED resource
  BY DEF Next, NextAttempt, NextMessage, NextRule, access, vars
<1> QED BY <1>1, <1>2, RulesStay DEF AccessTyped

LEMMA AddedRule ==
    ASSUME RulesTyped, [Next]_vars
    PROVE  \/ rules' = rules
           \/ \E rule \in Rules : rules' = Append(rules, rule) /\ LastRule = rule
<1>1. CASE NextRule
  <2>1. PICK rule \in Rules : rules' = Append(rules, rule)
    BY <1>1 DEF NextRule
  <2>2. Append(rules, rule)[Len(Append(rules, rule))] = rule
    BY DEF RulesTyped, RulesOver
  <2> QED BY <2>1, <2>2 DEF LastRule
<1>2. CASE rules' = rules
  BY <1>2
<1> QED BY <1>1, <1>2 DEF Next, NextAttempt, NextMessage, vars, access

\* A clause more takes no row away from anybody, whatever the rules, callers,
\* organisations and the back office are: also where a clause for everybody's rows
\* comes before one for one's own that answered so far (crud.rs select, scope).
THEOREM YesTakesNothing == Spec => OneMoreYes
<1> DEFINE Widens ==
        topic = "access" /\ resource.kind # "organization" /\ rules # <<>> /\ LastRule.effect # "deny"
          /\ ~(Len(rules) = 1 /\ rules[1].policy.level = "private")
            => Reaches(rules) \subseteq Reaches(rules')
<1>1. AccessTyped /\ [Next]_vars => [Widens]_vars
  <2> SUFFICES ASSUME AccessTyped, [Next]_vars, resource.kind # "organization", rules # <<>>,
                      LastRule.effect # "deny", ~Withheld(rules), NEW row \in Reaches(rules)
               PROVE  row \in Reaches(rules')
    BY DEF Withheld
  <2>1. CASE rules' = rules
    BY <2>1
  <2>2. CASE \E rule \in Rules : rules' = Append(rules, rule) /\ LastRule = rule
    <3>1. PICK rule \in Rules : rules' = Append(rules, rule) /\ LastRule = rule
      BY <2>2
    <3>2. rule \in [policy : Policies, effect : {"allow", "own"}]
      BY <3>1 DEF Rules
    <3>3. row \in TableRows /\ Admits(Scope(rules, caller, resource), row)
      BY DEF Reaches
    <3>4. Admits(Scope(Append(rules, rule), caller, resource), row)
      BY <3>2, <3>3, OneMoreYesWidens DEF AccessTyped, RulesTyped
    <3> QED BY <3>1, <3>3, <3>4 DEF Reaches
  <2> QED BY <2>1, <2>2, AddedRule DEF AccessTyped
<1>2. Spec => [][Widens]_vars
  BY <1>1, AccessStays, PTL DEF Spec
<1> QED BY <1>2 DEF OneMoreYes

\* Whom the denial of a role is about (crud.rs denies).
LEMMA RoleDenied ==
    ASSUME NEW p, NEW c, NEW r, p.level = "role", r.kind # "organization"
    PROVE  Denies(p, c, r) <=> /\ Inside(c) /\ p.role \in c.roles[ActiveOrg(c)]
                               /\ InClass(ActiveOrg(c), p.class)
<1>1. (\A why : ~Refused(why).ok) /\ ~Forbidden(c).ok /\ \A F : Granted(F).ok
  BY DEF Refused, Granted, Forbidden
<1>2. Inside(c) => c.known
  BY DEF Inside, Belongs
<1>3. AuthorizePolicy(p, c, r).ok
        <=> Inside(c) /\ InClass(ActiveOrg(c), p.class) /\ HasRole(c, ActiveOrg(c), p.role)
  <2>1. CASE r.kind = "scoped"
    BY <1>1, <1>2, <2>1 DEF AuthorizePolicy, AuthorizeOrgScoped
  <2>2. CASE r.kind # "scoped"
    <3>1. ClassSelected(p, c)
      BY DEF ClassSelected
    <3> QED BY <1>1, <1>2, <2>2, <3>1 DEF AuthorizePolicy, AuthorizeGlobal
  <2> QED BY <2>1, <2>2
<1> QED BY <1>3 DEF Denies, HasRole

LEMMA OneMoreDenial ==
    ASSUME NEW P, NEW set \in RulesOver(P), set # <<>>, ~Withheld(set),
           NEW rule \in [policy : P, effect : {"deny"}], NEW c, NEW r, ~IsGlobalAdmin(c)
    PROVE  /\ Denies(rule.policy, c, r) => ~Scope(Append(set, rule), c, r).ok
           /\ ~Denies(rule.policy, c, r) =>
                \/ Scope(Append(set, rule), c, r) = Scope(set, c, r)
                \/ ~Scope(Append(set, rule), c, r).ok /\ ~Scope(set, c, r).ok
<1> DEFINE more == Append(set, rule)
           old == Matching(set, c, r)
           f == First(set, old)
<1>1. rule \in [policy : P, effect : {"allow", "own", "deny"}] /\ rule.effect = "deny"
  OBVIOUS
<1>2. more \in RulesOver(P) /\ ~Withheld(more) /\ \A i \in DOMAIN set : more[i] = set[i]
  BY <1>1, AppendedRules
<1>3. /\ Matching(more, c, r) = old
      /\ Denied(more, c, r) <=> Denied(set, c, r) \/ Denies(rule.policy, c, r)
  <2>1. Matching(more, c, r) =
          old \cup {i \in {Len(set) + 1} : rule.effect # "deny" /\ AuthorizePolicy(rule.policy, c, r).ok}
    BY <1>1, AppendedClauses
  <2>2. Denied(more, c, r) <=> Denied(set, c, r) \/ (rule.effect = "deny" /\ Denies(rule.policy, c, r))
    BY <1>1, AppendedClauses
  <2> HIDE DEF more, old
  <2> QED BY <1>1, <2>1, <2>2
<1>4. old \in SUBSET Yes(set) /\ \A i \in old : i \in DOMAIN set
  BY DEF Matching, Yes
<1>5. Denied(more, c, r) \/ old = {} => ~Scope(more, c, r).ok
  <2> HIDE DEF more, old
  <2> QED BY <1>2, <1>3, SelectIs
<1>6. Denied(set, c, r) \/ old = {} => ~Scope(set, c, r).ok
  BY SelectIs
<1>7. ASSUME ~Denied(more, c, r), old # {} PROVE Scope(more, c, r) = Scope(set, c, r)
  <2>1. Select(set, c, r) = Clause(set[f], c, r)
    BY <1>3, <1>7, SelectIs
  <2>2. First(more, old) = f /\ f \in old
    BY <1>1, <1>4, <1>7, FirstOfMore, FirstIs
  <2>3. Select(more, c, r) = Clause(more[First(more, old)], c, r)
    <3> HIDE DEF more, old
    <3> QED BY <1>2, <1>3, <1>7, SelectIs
  <2>4. Select(more, c, r) = Select(set, c, r)
    BY <1>2, <1>4, <2>1, <2>2, <2>3
  <2> QED BY <2>4 DEF Scope
<1> QED BY <1>3, <1>5, <1>6, <1>7

\* A denial of a role shuts out who was given it in the organisation they stand
\* in, whatever else they match, and moves nobody else's rows.
THEOREM DenialsAreExact == Spec => DenialIsForHolders
<1> DEFINE Holds == /\ Inside(caller) /\ LastRule.policy.role \in caller.roles[ActiveOrg(caller)]
                    /\ InClass(ActiveOrg(caller), LastRule.policy.class)
           Exact ==
        topic = "access" /\ resource.kind # "organization" /\ rules # <<>> /\ LastRule.effect = "deny" /\ LastRule.policy.level = "role"
          /\ ~(Len(rules) = 1 /\ rules[1].policy.level = "private") /\ ~IsGlobalAdmin(caller)
            => IF Inside(caller) /\ LastRule.policy.role \in caller.roles[ActiveOrg(caller)]
                  /\ InClass(ActiveOrg(caller), LastRule.policy.class)
               THEN Reaches(rules') = {}
               ELSE Reaches(rules') = Reaches(rules)
<1>1. AccessTyped /\ [Next]_vars => [Exact]_vars
  <2> SUFFICES ASSUME AccessTyped, [Next]_vars, ~UNCHANGED vars, resource.kind # "organization", rules # <<>>, topic = "access",
                      LastRule.effect = "deny", LastRule.policy.level = "role", ~Withheld(rules),
                      ~IsGlobalAdmin(caller)
               PROVE  IF Holds THEN Reaches(rules') = {} ELSE Reaches(rules') = Reaches(rules)
    BY DEF Withheld
  <2>1. NextRule
    <3>1. ~NextAttempt /\ ~NextMessage
      BY DEF NextAttempt, NextMessage
    <3> QED BY <3>1 DEF Next
  <2>2. PICK rule \in Rules : rules' = Append(rules, rule) /\ LastRule = rule
    <3>1. PICK rule \in Rules : rules' = Append(rules, rule)
      BY <2>1 DEF NextRule
    <3>2. Append(rules, rule)[Len(Append(rules, rule))] = rule
      BY DEF AccessTyped, RulesTyped, RulesOver
    <3> QED BY <3>1, <3>2 DEF LastRule
  <2>3. rule \in [policy : Policies, effect : {"deny"}]
    BY <2>2 DEF Rules
  <2>4. Denies(rule.policy, caller, resource) <=> Holds
    BY <2>2, RoleDenied
  <2> HIDE DEF Holds
  <2>5. CASE Holds
    <3>1. ~Scope(rules', caller, resource).ok
      BY <2>2, <2>3, <2>4, <2>5, OneMoreDenial DEF AccessTyped, RulesTyped
    <3> QED BY <2>5, <3>1 DEF Reaches, Admits
  <2>6. CASE ~Holds
    <3>1. \/ Scope(rules', caller, resource) = Scope(rules, caller, resource)
          \/ ~Scope(rules', caller, resource).ok /\ ~Scope(rules, caller, resource).ok
      BY <2>2, <2>3, <2>4, <2>6, OneMoreDenial DEF AccessTyped, RulesTyped
    <3> QED BY <2>6, <3>1 DEF Reaches, Admits
  <2> QED BY <2>5, <2>6
<1>2. Spec => [][Exact]_vars
  BY <1>1, AccessStays, PTL DEF Spec
<1> QED BY <1>2 DEF DenialIsForHolders
====
