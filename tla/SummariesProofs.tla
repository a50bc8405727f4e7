---- MODULE SummariesProofs ----
(***************************************************************************)
(* What the operators of Summaries return, for every conversation, trigger *)
(* and number of messages kept: the recursive function and the choices of  *)
(* a least split are shown to have values before anything is said of them. *)
(***************************************************************************)
EXTENDS Summaries, Integers, WellFoundedInduction, TLAPS

\* A set of naturals has a least member.
LEMMA LeastOf ==
    ASSUME NEW T \in SUBSET Nat, T # {}
    PROVE  \E x \in T : \A y \in T : x <= y
<1> DEFINE R == OpToRel(<, Nat)
<1>1. IsWellFoundedOn(R, Nat)
  BY NatLessThanWellFounded
<1>2. R = {ss \in Nat \X Nat : ss[1] < ss[2]}
  BY DEF OpToRel
<1> HIDE DEF R
<1>3. \E x \in T : \A y \in T : <<y, x>> \notin R
  BY <1>1, WFMin
<1>4. PICK x \in T : \A y \in T : <<y, x>> \notin R
  BY <1>3
<1>5. \A y \in T : x <= y
  <2> TAKE y \in T
  <2>1. ~(y < x)
    BY <1>2, <1>4
  <2> QED BY <2>1
<1> QED BY <1>5

\* Induction over the naturals, as a fact about sets.
LEMMA AllNaturals ==
    ASSUME NEW T, 0 \in T, \A n \in Nat : n \in T => n + 1 \in T
    PROVE  \A n \in Nat : n \in T
<1> SUFFICES ASSUME Nat \ T # {} PROVE FALSE
  OBVIOUS
<1>1. PICK n \in Nat \ T : \A m \in Nat \ T : n <= m
  BY LeastOf
<1>2. n \in Nat /\ n # 0 /\ n - 1 \in Nat /\ (n - 1) + 1 = n
  BY <1>1
<1>3. n - 1 \in T
  BY <1>1, <1>2
<1> QED BY <1>1, <1>2, <1>3

\* The lengths of the transcripts of the first i messages, for every i.
Adds(messages, f, i) == IF i = 0 THEN 0 ELSE f[i - 1] + messages[i].size
Lengths(messages, f, n) == f = [i \in 0 .. n |-> Adds(messages, f, i)]

LEMMA LengthsExist ==
    ASSUME NEW n \in Nat, NEW messages, \A i \in 1 .. n : messages[i].size \in Nat
    PROVE  \E f : Lengths(messages, f, n)
<1> DEFINE Bad == {m \in 0 .. n : ~\E f : Lengths(messages, f, m)}
<1>1. ASSUME Bad # {} PROVE FALSE
  <2>1. PICK m \in Bad : \A k \in Bad : m <= k
    <3>1. Bad \in SUBSET Nat
      OBVIOUS
    <3> HIDE DEF Bad
    <3> QED BY <1>1, <3>1, LeastOf
  <2>2. m \in 0 .. n /\ ~\E f : Lengths(messages, f, m)
    BY <2>1
  <2>3. m # 0
    <3>1. Lengths(messages, [i \in 0 .. 0 |-> 0], 0)
      BY DEF Lengths, Adds
    <3> QED BY <2>2, <3>1
  <2>4. PICK f : Lengths(messages, f, m - 1)
    <3>1. m - 1 \in 0 .. n /\ m - 1 \notin Bad
      <4>1. m - 1 \in 0 .. n
        BY <2>2, <2>3
      <4>2. m - 1 \notin Bad
        <5> HIDE DEF Bad
        <5> QED BY <2>1, <2>2
      <4> QED BY <4>1, <4>2
    <3> QED BY <3>1
  <2> DEFINE h == [i \in 0 .. m |-> IF i = m THEN f[m - 1] + messages[m].size ELSE f[i]]
  <2>5. \A i \in 0 .. m : h[i] = Adds(messages, h, i)
    <3>1. m \in 1 .. n /\ \A i \in 0 .. m - 1 : f[i] = Adds(messages, f, i)
      BY <2>2, <2>3, <2>4 DEF Lengths
    <3> TAKE i \in 0 .. m
    <3>2. CASE i = 0
      BY <3>1, <3>2 DEF Adds
    <3>3. CASE i = m
      BY <3>1, <3>3 DEF Adds
    <3>4. CASE i \in 1 .. m - 1
      <4>1. h[i] = f[i] /\ h[i - 1] = f[i - 1] /\ f[i] = Adds(messages, f, i)
        BY <3>1, <3>4
      <4> QED BY <3>4, <4>1 DEF Adds
    <3> QED BY <3>1, <3>2, <3>3, <3>4
  <2>6. Lengths(messages, h, m)
    BY <2>5 DEF Lengths
  <2> QED BY <2>2, <2>6
<1>2. n \notin Bad
  BY <1>1
<1> QED BY <1>2

\* TranscriptLength is the last of them, and they are naturals that never fall.
LEMMA LengthOf ==
    ASSUME NEW M, \A m \in M : m.size \in Nat, NEW messages \in Seq(M)
    PROVE  \E f \in [0 .. Len(messages) -> Nat] :
              /\ TranscriptLength(messages) = f[Len(messages)]
              /\ f[0] = 0 /\ \A i \in 1 .. Len(messages) : f[i] = f[i - 1] + messages[i].size
<1> DEFINE n == Len(messages)
           upTo[i \in 0 .. n] == IF i = 0 THEN 0 ELSE upTo[i - 1] + messages[i].size
<1>1. n \in Nat /\ \A i \in 1 .. n : messages[i].size \in Nat
  OBVIOUS
<1>2. \E f : f = [i \in 0 .. n |-> IF i = 0 THEN 0 ELSE f[i - 1] + messages[i].size]
  <2>1. \E f : Lengths(messages, f, n)
    <3> HIDE DEF n
    <3> QED BY <1>1, LengthsExist
  <2> QED BY <2>1 DEF Lengths, Adds
<1>3. upTo = [i \in 0 .. n |-> IF i = 0 THEN 0 ELSE upTo[i - 1] + messages[i].size]
  BY <1>2
<1>4. TranscriptLength(messages) = upTo[n]
  BY DEF TranscriptLength
<1> HIDE DEF upTo, n
<1>5. DOMAIN upTo = 0 .. n /\ upTo[0] = 0 /\ \A i \in 1 .. n : upTo[i] = upTo[i - 1] + messages[i].size
  BY <1>1, <1>3
<1>6. \A i \in 0 .. n : upTo[i] \in Nat
  <2> DEFINE Bad == {i \in 0 .. n : upTo[i] \notin Nat}
  <2>1. Bad \in SUBSET Nat
    BY <1>1
  <2> SUFFICES ASSUME Bad # {} PROVE FALSE
    OBVIOUS
  <2>2. PICK i \in Bad : \A k \in Bad : i <= k
    <3> HIDE DEF Bad
    <3> QED BY <2>1, LeastOf
  <2>3. i # 0
    BY <1>5, <2>2
  <2>4. i - 1 \in 0 .. n /\ i \in 1 .. n /\ i - 1 < i
    BY <1>1, <2>2, <2>3
  <2>5. upTo[i - 1] \in Nat
    BY <2>2, <2>4
  <2>6. messages[i].size \in Nat
    BY <1>1, <2>4
  <2>7. upTo[i] \in Nat
    BY <1>5, <2>4, <2>5, <2>6
  <2> QED BY <2>2, <2>7
<1>7. upTo \in [0 .. n -> Nat]
  BY <1>3, <1>6
<1> QED BY <1>4, <1>5, <1>7 DEF n

\* Leaving out the oldest messages never makes a transcript longer.
LEMMA DroppingShortens ==
    ASSUME NEW M, \A m \in M : m.size \in Nat, NEW a \in Seq(M), NEW b \in Seq(M), NEW k \in Nat,
           Len(a) = Len(b) + k, \A i \in 1 .. Len(b) : b[i] = a[i + k]
    PROVE  TranscriptLength(b) <= TranscriptLength(a)
<1>1. PICK f \in [0 .. Len(a) -> Nat] :
              /\ TranscriptLength(a) = f[Len(a)]
              /\ f[0] = 0 /\ \A i \in 1 .. Len(a) : f[i] = f[i - 1] + a[i].size
  BY LengthOf
<1>2. PICK g \in [0 .. Len(b) -> Nat] :
              /\ TranscriptLength(b) = g[Len(b)]
              /\ g[0] = 0 /\ \A i \in 1 .. Len(b) : g[i] = g[i - 1] + b[i].size
  BY LengthOf
<1>3. \A i \in 0 .. Len(b) : g[i] <= f[i + k]
  <2> DEFINE Bad == {i \in 0 .. Len(b) : ~(g[i] <= f[i + k])}
  <2>1. Bad \in SUBSET Nat
    OBVIOUS
  <2> SUFFICES ASSUME Bad # {} PROVE FALSE
    OBVIOUS
  <2>2. PICK i \in Bad : \A j \in Bad : i <= j
    <3> HIDE DEF Bad
    <3> QED BY <2>1, LeastOf
  <2>3. i # 0
    <3>1. 0 + k \in 0 .. Len(a)
      OBVIOUS
    <3>2. g[0] <= f[0 + k]
      BY <1>1, <1>2, <3>1
    <3> QED BY <2>2, <3>2
  <2>4. i \in 1 .. Len(b) /\ i - 1 \in 0 .. Len(b) /\ i - 1 < i /\ i + k \in 1 .. Len(a) /\ i - 1 + k = (i + k) - 1
    BY <2>2, <2>3
  <2>5. g[i - 1] <= f[(i + k) - 1]
    BY <2>2, <2>4
  <2>6. g[i] = g[i - 1] + b[i].size /\ f[i + k] = f[(i + k) - 1] + b[i].size
    BY <1>1, <1>2, <2>4
  <2>7. b[i].size \in Nat /\ g[i - 1] \in Nat /\ f[(i + k) - 1] \in Nat
    <3>1. (i + k) - 1 \in 0 .. Len(a)
      BY <2>4
    <3>2. b[i] \in M
      BY <2>4
    <3> QED BY <1>1, <1>2, <2>4, <3>1, <3>2
  <2>8. g[i] <= f[i + k]
    BY <2>5, <2>6, <2>7
  <2> QED BY <2>2, <2>8
<1>4. g[Len(b)] <= f[Len(a)]
  BY <1>3
<1> QED BY <1>1, <1>2, <1>4

----------------------------------------------------------------------------
LEMMA TailIs ==
    ASSUME NEW M, NEW messages \in Seq(M), NEW s \in 0 .. Len(messages)
    PROVE  /\ TailFrom(messages, s) \in Seq(M)
           /\ Len(TailFrom(messages, s)) = Len(messages) - s
           /\ \A i \in 1 .. Len(messages) - s : TailFrom(messages, s)[i] = messages[i + s]
<1> DEFINE n == Len(messages)
<1>1. n \in Nat /\ s \in 0 .. n
  OBVIOUS
<1>2. TailFrom(messages, s) = SubSeq(messages, s + 1, n)
  BY DEF TailFrom
<1>3. SubSeq(messages, s + 1, n) \in Seq(M)
  OBVIOUS
<1>4. Len(SubSeq(messages, s + 1, n)) = n - s
  BY <1>1
<1>5. \A i \in 1 .. n - s : SubSeq(messages, s + 1, n)[i] = messages[i + s]
  BY <1>1
<1> QED BY <1>2, <1>3, <1>4, <1>5

\* The results of tool calls move to the prefix, and nothing else does.
LEMMA SafeSplitIs ==
    ASSUME NEW M, NEW messages \in Seq(M), NEW split \in 0 .. Len(messages)
    PROVE  LET s == SafeSplit(messages, split) IN
           /\ s \in split .. Len(messages)
           /\ split = 0 => s = 0
           /\ split # 0 => s = Len(messages) \/ messages[s + 1].role # "result"
           /\ \A i \in split + 1 .. s : messages[i].role = "result"
<1> DEFINE Ends(s) == s = Len(messages) \/ messages[s + 1].role # "result"
           Safe(s) == Ends(s) /\ \A i \in split + 1 .. s : messages[i].role = "result"
           T == {s \in split .. Len(messages) : Ends(s)}
<1>1. T \in SUBSET Nat /\ Len(messages) \in T
  OBVIOUS
<1>2. PICK s \in T : \A y \in T : s <= y
  <2> HIDE DEF T
  <2> QED BY <1>1, LeastOf
<1>3. Safe(s)
  <2> SUFFICES ASSUME NEW i \in split + 1 .. s PROVE messages[i].role = "result"
    BY <1>2
  <2>1. i - 1 \in split .. Len(messages) /\ i - 1 < s
    BY <1>2
  <2>2. ~Ends(i - 1)
    <3>1. i - 1 \in T => s <= i - 1
      <4> HIDE DEF T
      <4> QED BY <1>2
    <3>2. i - 1 \notin T
      BY <1>2, <2>1, <3>1
    <3> HIDE DEF Ends
    <3> QED BY <2>1, <3>2
  <2>3. (i - 1) + 1 = i
    OBVIOUS
  <2> QED BY <2>2, <2>3
<1>4. s \in split .. Len(messages)
  BY <1>2
<1>5. CASE split = 0
  BY <1>5 DEF SafeSplit
<1>6. CASE split # 0
  <2>1. SafeSplit(messages, split) = CHOOSE x \in split .. Len(messages) : Safe(x)
    BY <1>6 DEF SafeSplit
  <2> HIDE DEF Safe
  <2>2. SafeSplit(messages, split) \in split .. Len(messages) /\ Safe(SafeSplit(messages, split))
    BY <1>3, <1>4, <2>1
  <2> QED BY <1>6, <2>2 DEF Safe
<1> QED BY <1>5, <1>6

\* Where a split is found: the first place whose tail fits.
LEMMA SplitIs ==
    ASSUME NEW recent, recent # <<>>, NEW M, recent \in Seq(M), NEW pending, NEW summarized \in BOOLEAN
    PROVE  LET first == FirstSplit(recent, summarized)
           IN /\ first \in 0 .. Len(recent)
              /\ \E split \in first .. Len(recent) :
                    /\ PrefixLength(recent, summarized, pending) = SafeSplit(recent, split)
                    /\ SplitSuffices(recent, pending, split)
                    /\ \A i \in first .. split - 1 : ~SplitSuffices(recent, pending, i)
<1> DEFINE n == Len(recent)
           first == FirstSplit(recent, summarized)
           Stops(s) == s = n \/ SplitSuffices(recent, pending, s)
           Chosen(s) == Stops(s) /\ \A i \in first .. s - 1 : ~SplitSuffices(recent, pending, i)
           T == {s \in first .. n : Stops(s)}
           split == CHOOSE s \in first .. n : Chosen(s)
<1>1. n \in Nat
  OBVIOUS
<1>2. first \in 0 .. n
  BY <1>1, SummariesAssumption DEF FirstSplit
<1>3. PrefixLength(recent, summarized, pending) = SafeSplit(recent, split)
  BY DEF PrefixLength
<1> HIDE DEF first
<1>4. split \in first .. n /\ Chosen(split)
  <2>1. T \in SUBSET Nat /\ n \in T
    BY <1>1, <1>2
  <2>2. PICK s \in T : \A y \in T : s <= y
    <3> HIDE DEF T
    <3> QED BY <2>1, LeastOf
  <2>3. s \in first .. n /\ Stops(s)
    BY <2>2
  <2>4. \A i \in first .. s - 1 : ~SplitSuffices(recent, pending, i)
    <3> TAKE i \in first .. s - 1
    <3>1. i \in first .. n /\ i < s
      BY <1>1, <1>2, <2>3
    <3>2. i \notin T
      BY <1>1, <1>2, <2>2, <2>3, <3>1
    <3> QED BY <3>1, <3>2
  <2>5. Chosen(s)
    BY <2>3, <2>4
  <2> HIDE DEF Chosen
  <2>6. split \in first .. n /\ Chosen(split)
    BY <2>3, <2>5
  <2> QED BY <2>6
<1> HIDE DEF split
<1>5. SplitSuffices(recent, pending, split)
  <2>1. SplitSuffices(recent, pending, n)
    BY <1>1 DEF SplitSuffices
  <2> QED BY <1>4, <2>1
<1> QED BY <1>2, <1>3, <1>4, <1>5 DEF n, first

\* The prefix a refresh summarises: at least the first split that is tried, and
\* such that the rest fits with what is about to be added or is one message.
LEMMA PrefixIs ==
    ASSUME NEW M, \A m \in M : m.size \in Nat,
           NEW recent \in Seq(M), recent # <<>>, NEW pending \in Seq(M), NEW summarized \in BOOLEAN
    PROVE  LET first == FirstSplit(recent, summarized)
               p     == PrefixLength(recent, summarized, pending)
           IN /\ first \in 0 .. Len(recent) /\ p \in first .. Len(recent)
              /\ p # 0 => p = Len(recent) \/ recent[p + 1].role # "result"
              /\ p = Len(recent) \/ SplitSuffices(recent, pending, p)
<1> DEFINE n == Len(recent)
           first == FirstSplit(recent, summarized)
           p == PrefixLength(recent, summarized, pending)
<1>1. n \in Nat
  OBVIOUS
<1>4. PICK split \in first .. n :
         /\ p = SafeSplit(recent, split)
         /\ SplitSuffices(recent, pending, split)
  BY SplitIs
<1>2. first \in 0 .. n
  BY SplitIs
<1>3. p = SafeSplit(recent, split)
  BY <1>4
<1> HIDE DEF first, p
<1>5. split \in 0 .. n
  BY <1>1, <1>2, <1>4
<1>6. /\ p \in split .. n
      /\ split = 0 => p = 0
      /\ split # 0 => p = n \/ recent[p + 1].role # "result"
  BY <1>3, <1>5, SafeSplitIs
<1>7. p = n \/ SplitSuffices(recent, pending, p)
  <2> SUFFICES ASSUME p # n PROVE SplitSuffices(recent, pending, p)
    OBVIOUS
  <2>1. split # n /\ p \in 0 .. n
    BY <1>5, <1>6
  <2>2. SplitSuffices(recent, pending, split)
    BY <1>4, <2>1
  <2>3. CASE n - split <= 1
    <3>1. n - p <= 1
      BY <1>1, <1>5, <1>6, <2>3
    <3> QED BY <3>1 DEF SplitSuffices
  <2>4. CASE ~NeedsRefresh(TailFrom(recent, split) \o pending)
    <3> DEFINE a == TailFrom(recent, split) \o pending
               b == TailFrom(recent, p) \o pending
    <3>1. TranscriptLength(b) <= TranscriptLength(a)
      <4> DEFINE ta == TailFrom(recent, split)
                 tb == TailFrom(recent, p)
                 k == p - split
      <4>1. /\ ta \in Seq(M) /\ Len(ta) = n - split
            /\ \A i \in 1 .. n - split : ta[i] = recent[i + split]
        BY <1>5, TailIs
      <4>2. /\ tb \in Seq(M) /\ Len(tb) = n - p
            /\ \A i \in 1 .. n - p : tb[i] = recent[i + p]
        BY <2>1, TailIs
      <4>3. k \in Nat /\ n - split = (n - p) + k
        BY <1>1, <1>5, <1>6
      <4>4. \A i \in 1 .. n - p : tb[i] = ta[i + k]
        <5> TAKE i \in 1 .. n - p
        <5>1. i + k \in 1 .. n - split /\ (i + k) + split = i + p
          BY <1>1, <1>5, <1>6
        <5> QED BY <4>1, <4>2, <5>1
      <4> HIDE DEF ta, tb, k
      <4>5. ta \o pending \in Seq(M) /\ tb \o pending \in Seq(M)
        BY <4>1, <4>2
      <4>6. /\ Len(ta \o pending) = (n - split) + Len(pending)
            /\ Len(tb \o pending) = (n - p) + Len(pending)
        <5>1. \A x, y \in Seq(M) : Len(x \o y) = Len(x) + Len(y)
          OBVIOUS
        <5> QED BY <4>1, <4>2, <5>1
      <4>7. Len(pending) \in Nat /\ Len(ta \o pending) = Len(tb \o pending) + k
        <5>1. Len(pending) \in Nat /\ p \in 0 .. n
          BY <1>5, <2>1
        <5>2. \A x, y, z : x \in Nat /\ y \in Nat /\ z \in Nat => (x + y) + z = (x + z) + y
          OBVIOUS
        <5>3. n - p \in Nat
          BY <1>1, <5>1
        <5>4. (n - split) + Len(pending) = ((n - p) + Len(pending)) + k
          BY ONLY <4>3, <5>1, <5>2, <5>3
        <5> QED BY <4>6, <5>1, <5>4
      <4>8. \A i \in 1 .. Len(tb \o pending) : (tb \o pending)[i] = (ta \o pending)[i + k]
        <5> TAKE i \in 1 .. Len(tb \o pending)
        <5>1. CASE i \in 1 .. n - p
          <6>1. (tb \o pending)[i] = tb[i]
            BY <4>2, <5>1
          <6>2. i + k \in 1 .. n - split
            BY <1>1, <1>5, <2>1, <4>3, <5>1
          <6>3. (ta \o pending)[i + k] = ta[i + k]
            BY <4>1, <6>2
          <6> QED BY <4>4, <5>1, <6>1, <6>3
        <5>2. CASE i \in (n - p) + 1 .. (n - p) + Len(pending)
          <6>1. (tb \o pending)[i] = pending[i - (n - p)]
            BY <1>1, <2>1, <4>2, <5>2
          <6>2. i + k \in (n - split) + 1 .. (n - split) + Len(pending)
            BY <1>1, <1>5, <2>1, <4>3, <4>7, <5>2
          <6>3. (ta \o pending)[i + k] = pending[(i + k) - (n - split)]
            BY <1>1, <1>5, <4>1, <6>2
          <6>4. (i + k) - (n - split) = i - (n - p)
            BY <1>1, <1>5, <2>1, <4>3, <5>2
          <6> QED BY <6>1, <6>3, <6>4
        <5>3. n - p \in Nat /\ i \in 1 .. (n - p) + Len(pending)
          BY <1>1, <2>1, <4>6, <4>7
        <5>4. \A m, l \in Nat : \A j \in 1 .. m + l : j \in 1 .. m \/ j \in m + 1 .. m + l
          OBVIOUS
        <5>5. i \in 1 .. n - p \/ i \in (n - p) + 1 .. (n - p) + Len(pending)
          BY ONLY <4>7, <5>3, <5>4
        <5> QED BY ONLY <5>1, <5>2, <5>5
      <4> HIDE DEF n
      <4>9. TranscriptLength(tb \o pending) <= TranscriptLength(ta \o pending)
        BY <4>3, <4>5, <4>7, <4>8, DroppingShortens
      <4> QED BY <4>9 DEF ta, tb
    <3>2. a # <<>>
      <4>1. TailFrom(recent, split) \in Seq(M) /\ Len(TailFrom(recent, split)) = n - split
        BY <1>5, TailIs
      <4>2. n - split > 0
        BY <1>1, <1>5, <2>1
      <4>3. TailFrom(recent, split) # <<>>
        BY <4>1, <4>2
      <4> QED BY <4>1, <4>3
    <3>3. ~(TranscriptLength(a) >= Trigger)
      BY <2>4, <3>2 DEF NeedsRefresh
    <3>4. TranscriptLength(a) \in Nat /\ TranscriptLength(b) \in Nat
      <4>1. a \in Seq(M) /\ b \in Seq(M)
        <5>1. TailFrom(recent, split) \in Seq(M) /\ TailFrom(recent, p) \in Seq(M)
          BY <1>5, <2>1, TailIs
        <5> QED BY <5>1
      <4> HIDE DEF a, b
      <4>2. \A messages \in Seq(M) : TranscriptLength(messages) \in Nat
        <5> TAKE messages \in Seq(M)
        <5>1. PICK f \in [0 .. Len(messages) -> Nat] : TranscriptLength(messages) = f[Len(messages)]
          BY LengthOf
        <5>2. Len(messages) \in 0 .. Len(messages)
          OBVIOUS
        <5> QED BY <5>1, <5>2
      <4> QED BY <4>1, <4>2
    <3>5. ~(TranscriptLength(b) >= Trigger)
      BY <3>1, <3>3, <3>4, SummariesAssumption
    <3> QED BY <3>5 DEF NeedsRefresh, SplitSuffices
  <2> QED BY <2>2, <2>3, <2>4 DEF SplitSuffices
<1> HIDE DEF n
<1>8. p \in first .. n
  BY <1>1, <1>2, <1>4, <1>6
<1>9. p # 0 => p = n \/ recent[p + 1].role # "result"
  BY <1>6
<1> QED BY <1>2, <1>7, <1>8, <1>9 DEF n, first, p

-----------------------------------------------------------------------------
(* The members of a set in order.                                          *)

\* The members of places up to i in order, for every i.
Ordered(places, f, i) ==
    IF i = 0 THEN <<>> ELSE IF i \in places THEN Append(f[i - 1], i) ELSE f[i - 1]
Orders(places, f, n) == f = [i \in 0 .. n |-> Ordered(places, f, i)]

LEMMA OrdersExist ==
    ASSUME NEW places
    PROVE  \A n \in Nat : \E f : Orders(places, f, n)
<1> DEFINE T == {n \in Nat : \E f : Orders(places, f, n)}
<1>1. 0 \in T
  <2>1. Orders(places, [i \in 0 .. 0 |-> <<>>], 0)
    BY DEF Orders, Ordered
  <2> QED BY <2>1
<1>2. ASSUME NEW n \in Nat, n \in T
      PROVE  n + 1 \in T
  <2>1. PICK f : Orders(places, f, n)
    BY <1>2
  <2> DEFINE last == IF n + 1 \in places THEN Append(f[n], n + 1) ELSE f[n]
             h == [i \in 0 .. n + 1 |-> IF i = n + 1 THEN last ELSE f[i]]
  <2>0. /\ \A i \in 0 .. n : h[i] = f[i]
        /\ h[n + 1] = last
        /\ h = [i \in 0 .. n + 1 |-> h[i]]
    OBVIOUS
  <2> HIDE DEF h
  <2>2. \A i \in 0 .. n + 1 : h[i] = Ordered(places, h, i)
    <3> TAKE i \in 0 .. n + 1
    <3>1. i <= n => f[i] = Ordered(places, f, i)
      BY <2>1 DEF Orders
    <3>2. CASE i = 0
      BY <2>0, <3>1, <3>2 DEF Ordered
    <3>3. CASE i = n + 1
      <4>1. i # 0 /\ i - 1 = n /\ h[n] = f[n]
        <5>1. n \in 0 .. n
          OBVIOUS
        <5> HIDE DEF last
        <5> QED BY ONLY <2>0, <3>3, <5>1, n \in Nat
      <4>2. Ordered(places, h, i) = IF i \in places THEN Append(h[i - 1], i) ELSE h[i - 1]
        BY <4>1 DEF Ordered
      <4> QED BY <2>0, <3>3, <4>1, <4>2
    <3>4. CASE i # 0 /\ i # n + 1
      <4>1. i \in 0 .. n /\ i - 1 \in 0 .. n
        BY <3>4
      <4>2. h[i] = f[i] /\ h[i - 1] = f[i - 1]
        BY <2>0, <4>1
      <4> QED BY <3>1, <3>4, <4>1, <4>2 DEF Ordered
    <3> QED BY <3>2, <3>3, <3>4
  <2>3. Orders(places, h, n + 1)
    BY <2>0, <2>2 DEF Orders
  <2> QED BY <2>3
<1> HIDE DEF T
<1>3. \A n \in Nat : n \in T
  BY <1>1, <1>2, AllNaturals
<1> QED BY <1>3 DEF T

LEMMA OrdersAgree ==
    ASSUME NEW places, NEW n \in Nat, NEW m \in Nat, n <= m, NEW f, NEW g, Orders(places, f, n), Orders(places, g, m)
    PROVE  \A i \in 0 .. n : f[i] = g[i]
<1> DEFINE T == {i \in Nat : i > n \/ f[i] = g[i]}
<1>1. 0 \in T
  BY DEF Orders, Ordered
<1>2. ASSUME NEW i \in Nat, i \in T
      PROVE  i + 1 \in T
  <2>1. CASE i + 1 <= n
    <3>0. i + 1 \in 0 .. n /\ i + 1 \in 0 .. m /\ (i + 1) - 1 = i /\ i + 1 # 0
      BY <2>1
    <3>1. f[i + 1] = Ordered(places, f, i + 1)
      BY <3>0 DEF Orders
    <3>2. g[i + 1] = Ordered(places, g, i + 1)
      BY <3>0 DEF Orders
    <3>3. f[i] = g[i]
      BY <1>2, <2>1
    <3> QED BY <3>0, <3>1, <3>2, <3>3 DEF Ordered
  <2> QED BY <2>1
<1> HIDE DEF T
<1>3. \A i \in Nat : i \in T
  BY <1>1, <1>2, AllNaturals
<1> QED BY <1>3 DEF T

LEMMA InOrderOf ==
    ASSUME NEW places, NEW n \in Nat, NEW f, Orders(places, f, n)
    PROVE  InOrder(places, n) = f[n]
<1> DEFINE upTo[i \in 0 .. n] == IF i = 0 THEN <<>> ELSE IF i \in places THEN Append(upTo[i - 1], i) ELSE upTo[i - 1]
<1>1. \E h : h = [i \in 0 .. n |-> IF i = 0 THEN <<>> ELSE IF i \in places THEN Append(h[i - 1], i) ELSE h[i - 1]]
  <2>1. \E h : Orders(places, h, n)
    OBVIOUS
  <2> QED BY <2>1 DEF Orders, Ordered
<1>2. upTo = [i \in 0 .. n |-> IF i = 0 THEN <<>> ELSE IF i \in places THEN Append(upTo[i - 1], i) ELSE upTo[i - 1]]
  BY <1>1
<1>3. InOrder(places, n) = upTo[n]
  BY DEF InOrder
<1> HIDE DEF upTo
<1>4. Orders(places, upTo, n)
  BY <1>2 DEF Orders, Ordered
<1>5. upTo[n] = f[n]
  BY <1>4, OrdersAgree
<1> QED BY <1>3, <1>5

LEMMA InOrderSteps ==
    ASSUME NEW places
    PROVE  /\ InOrder(places, 0) = <<>>
           /\ \A n \in Nat : InOrder(places, n + 1) =
                 IF n + 1 \in places THEN Append(InOrder(places, n), n + 1) ELSE InOrder(places, n)
<1>1. InOrder(places, 0) = <<>>
  <2>1. PICK f : Orders(places, f, 0)
    BY OrdersExist
  <2> QED BY <2>1, InOrderOf DEF Orders, Ordered
<1>2. ASSUME NEW n \in Nat
      PROVE  InOrder(places, n + 1) =
                 IF n + 1 \in places THEN Append(InOrder(places, n), n + 1) ELSE InOrder(places, n)
  <2>1. PICK g : Orders(places, g, n + 1)
    BY OrdersExist
  <2>2. PICK f : Orders(places, f, n)
    BY OrdersExist
  <2>3. InOrder(places, n) = f[n] /\ InOrder(places, n + 1) = g[n + 1]
    BY <2>1, <2>2, InOrderOf
  <2>4. f[n] = g[n]
    BY <2>1, <2>2, OrdersAgree
  <2>5. g[n + 1] = Ordered(places, g, n + 1)
    BY <2>1 DEF Orders
  <2> QED BY <2>3, <2>4, <2>5 DEF Ordered
<1> QED BY <1>1, <1>2

\* InOrder lists its members once each, rising.
Rising(s) == \A a, b \in 1 .. Len(s) : a < b => s[a] < s[b]

Lists(s, places, n) ==
    /\ s \in Seq(Nat) /\ Rising(s) /\ Len(s) <= n
    /\ \A m \in 1 .. Len(s) : s[m] \in places /\ s[m] \in 1 .. n
    /\ \A i \in 1 .. n : i \in places => \E m \in 1 .. Len(s) : s[m] = i

LEMMA InOrderIs ==
    ASSUME NEW places
    PROVE  \A n \in Nat : Lists(InOrder(places, n), places, n)
<1> DEFINE T == {n \in Nat : Lists(InOrder(places, n), places, n)}
<1>1. 0 \in T
  <2>1. InOrder(places, 0) = <<>>
    BY InOrderSteps
  <2>2. Lists(<<>>, places, 0)
    BY DEF Lists, Rising
  <2> QED BY <2>1, <2>2
<1>2. ASSUME NEW n \in Nat, n \in T
      PROVE  n + 1 \in T
  <2> DEFINE s == InOrder(places, n)
             t == InOrder(places, n + 1)
  <2>1. Lists(s, places, n) /\ t = IF n + 1 \in places THEN Append(s, n + 1) ELSE s
    BY <1>2, InOrderSteps
  <2> HIDE DEF s, t
  <2>2. CASE n + 1 \notin places
    BY <2>1, <2>2 DEF Lists, t
  <2>3. CASE n + 1 \in places
    <3>1. /\ t \in Seq(Nat) /\ Len(t) = Len(s) + 1 /\ t[Len(s) + 1] = n + 1 /\ Len(s) \in Nat
          /\ \A m \in 1 .. Len(s) : t[m] = s[m]
      BY <2>1, <2>3 DEF Lists
    <3>2. Rising(t)
      BY <2>1, <3>1 DEF Lists, Rising
    <3>3. \A m \in 1 .. Len(t) : t[m] \in places /\ t[m] \in 1 .. n + 1
      <4> TAKE m \in 1 .. Len(t)
      <4>1. CASE m = Len(s) + 1
        BY <2>3, <3>1, <4>1
      <4>2. CASE m \in 1 .. Len(s)
        BY <2>1, <3>1, <4>2 DEF Lists
      <4> QED BY <3>1, <4>1, <4>2
    <3>4. \A i \in 1 .. n + 1 : i \in places => \E m \in 1 .. Len(t) : t[m] = i
      <4> TAKE i \in 1 .. n + 1
      <4>1. CASE i = n + 1
        BY <3>1, <4>1
      <4>2. CASE i \in 1 .. n
        BY <2>1, <3>1, <4>2 DEF Lists
      <4> QED BY <4>1, <4>2
    <3>5. Len(t) <= n + 1
      BY <2>1, <3>1 DEF Lists
    <3>6. Lists(t, places, n + 1)
      BY <3>1, <3>2, <3>3, <3>4, <3>5 DEF Lists
    <3> QED BY <3>6 DEF t
  <2> QED BY <2>2, <2>3
<1> HIDE DEF T
<1>3. \A n \in Nat : n \in T
  BY <1>1, <1>2, AllNaturals
<1> QED BY <1>3 DEF T

LEMMA InOrderSame ==
    ASSUME NEW places, NEW others, NEW n \in Nat, \A i \in 1 .. n : i \in places <=> i \in others
    PROVE  InOrder(others, n) = InOrder(places, n)
<1> DEFINE T == {i \in Nat : i > n \/ InOrder(others, i) = InOrder(places, i)}
<1>1. 0 \in T
  BY InOrderSteps
<1>2. ASSUME NEW i \in Nat, i \in T
      PROVE  i + 1 \in T
  <2>1. /\ InOrder(places, i + 1) =
              IF i + 1 \in places THEN Append(InOrder(places, i), i + 1) ELSE InOrder(places, i)
        /\ InOrder(others, i + 1) =
              IF i + 1 \in others THEN Append(InOrder(others, i), i + 1) ELSE InOrder(others, i)
    BY InOrderSteps
  <2>2. CASE i + 1 <= n
    <3>1. InOrder(others, i) = InOrder(places, i) /\ i + 1 \in 1 .. n
      BY <1>2, <2>2
    <3> QED BY <2>1, <3>1
  <2> QED BY <2>2
<1> HIDE DEF T
<1>3. \A i \in Nat : i \in T
  BY <1>1, <1>2, AllNaturals
<1> QED BY <1>3 DEF T

\* One more member moves the later ones by a place.
Inserted(s, t, p, i) ==
    /\ p \in 1 .. Len(s) + 1 /\ Len(t) = Len(s) + 1 /\ t[p] = i
    /\ \A m \in 1 .. p - 1 : t[m] = s[m]
    /\ \A m \in p .. Len(s) : t[m + 1] = s[m]

LEMMA InsertedGrows ==
    ASSUME NEW s \in Seq(Nat), NEW t \in Seq(Nat), NEW p, NEW i, NEW k, Inserted(s, t, p, i)
    PROVE  Inserted(Append(s, k), Append(t, k), p, i)
<1>1. /\ Len(Append(s, k)) = Len(s) + 1 /\ Append(s, k)[Len(s) + 1] = k
      /\ \A m \in 1 .. Len(s) : Append(s, k)[m] = s[m]
  OBVIOUS
<1>2. /\ Len(Append(t, k)) = Len(t) + 1 /\ Append(t, k)[Len(t) + 1] = k
      /\ \A m \in 1 .. Len(t) : Append(t, k)[m] = t[m]
  OBVIOUS
<1> DEFINE u == Append(s, k)
           v == Append(t, k)
<1>3. p \in 1 .. Len(s) + 1 /\ Len(t) = Len(s) + 1 /\ Len(s) \in Nat
  BY DEF Inserted
<1> HIDE DEF u, v
<1>4. v[p] = i /\ \A m \in 1 .. p - 1 : v[m] = u[m]
  BY <1>1, <1>2, <1>3 DEF Inserted, u, v
<1>5. \A m \in p .. Len(u) : v[m + 1] = u[m]
  <2> TAKE m \in p .. Len(u)
  <2>1. CASE m = Len(s) + 1
    BY <1>1, <1>2, <1>3, <2>1 DEF u, v
  <2>2. CASE m \in p .. Len(s)
    BY <1>1, <1>2, <1>3, <2>2 DEF Inserted, u, v
  <2> QED BY <1>1, <1>3, <2>1, <2>2 DEF u
<1>6. Inserted(u, v, p, i)
  BY <1>1, <1>2, <1>3, <1>4, <1>5 DEF Inserted, u, v
<1> QED BY <1>6 DEF u, v

\* The places of some later member, if the new one is not the last.
InsertedAt(s, t, i, places, k) ==
    \E p : Inserted(s, t, p, i) /\ (p <= Len(s) => \E l \in i + 1 .. k : l \in places)

LEMMA InOrderInsert ==
    ASSUME NEW places, NEW n \in Nat, NEW i \in 1 .. n, i \notin places
    PROVE  InsertedAt(InOrder(places, n), InOrder(places \cup {i}, n), i, places, n)
<1> DEFINE others == places \cup {i}
           T == {k \in Nat : k < i \/ InsertedAt(InOrder(places, k), InOrder(others, k), i, places, k)}
<1>0. i \in Nat /\ i # 0
  OBVIOUS
<1>1. 0 \in T
  BY <1>0
<1>2. ASSUME NEW k \in Nat, k \in T
      PROVE  k + 1 \in T
  <2> DEFINE s == InOrder(places, k)
             t == InOrder(others, k)
             u == InOrder(places, k + 1)
             v == InOrder(others, k + 1)
  <2>0. s \in Seq(Nat) /\ t \in Seq(Nat)
    BY InOrderIs DEF Lists
  <2>1. /\ u = IF k + 1 \in places THEN Append(s, k + 1) ELSE s
        /\ v = IF k + 1 \in others THEN Append(t, k + 1) ELSE t
    BY InOrderSteps
  <2>2. k + 1 = i => t = s
    BY InOrderSame
  <2>3. k + 1 > i => InsertedAt(s, t, i, places, k)
    BY <1>2
  <2>4. (k + 1 \in others <=> k + 1 \in places \/ k + 1 = i)
    OBVIOUS
  <2> HIDE DEF others
  <2> SUFFICES ASSUME k + 1 >= i PROVE InsertedAt(u, v, i, places, k + 1)
    BY <1>0
  <2> HIDE DEF s, t, u, v
  <2>5. CASE k + 1 = i
    <3>1. u = s /\ v = Append(s, i)
      BY <2>1, <2>2, <2>4, <2>5
    <3>2. Inserted(s, Append(s, i), Len(s) + 1, i) /\ ~(Len(s) + 1 <= Len(s))
      BY <2>0 DEF Inserted
    <3> QED BY <3>1, <3>2 DEF InsertedAt
  <2>6. CASE k + 1 > i
    <3>1. PICK p : Inserted(s, t, p, i) /\ (p <= Len(s) => \E l \in i + 1 .. k : l \in places)
      BY <2>3, <2>6 DEF InsertedAt
    <3>2. CASE k + 1 \in places
      <4>1. Inserted(u, v, p, i)
        BY <2>0, <2>1, <2>4, <3>1, <3>2, InsertedGrows
      <4>2. \E l \in i + 1 .. k + 1 : l \in places
        BY <1>0, <2>6, <3>2
      <4> QED BY <4>1, <4>2 DEF InsertedAt
    <3>3. CASE k + 1 \notin places
      <4>1. u = s /\ v = t
        BY <2>1, <2>4, <2>6, <3>3
      <4>2. p <= Len(s) => \E l \in i + 1 .. k + 1 : l \in places
        BY <3>1
      <4> QED BY <3>1, <4>1, <4>2 DEF InsertedAt
    <3> QED BY <3>2, <3>3
  <2> QED BY <1>0, <2>5, <2>6
<1> HIDE DEF T
<1>3. n \in T
  BY <1>1, <1>2, AllNaturals
<1> QED BY <1>3 DEF T

-----------------------------------------------------------------------------
(* Messages that differ in nothing a split looks at.                       *)

LEMMA SameLength ==
    ASSUME NEW M, \A m \in M : m.size \in Nat, NEW a \in Seq(M), NEW b \in Seq(M),
           Len(a) = Len(b), \A i \in 1 .. Len(a) : b[i].size = a[i].size
    PROVE  TranscriptLength(b) = TranscriptLength(a)
<1>1. PICK f \in [0 .. Len(a) -> Nat] :
              /\ TranscriptLength(a) = f[Len(a)]
              /\ f[0] = 0 /\ \A i \in 1 .. Len(a) : f[i] = f[i - 1] + a[i].size
  BY LengthOf
<1>2. PICK g \in [0 .. Len(b) -> Nat] :
              /\ TranscriptLength(b) = g[Len(b)]
              /\ g[0] = 0 /\ \A i \in 1 .. Len(b) : g[i] = g[i - 1] + b[i].size
  BY LengthOf
<1> DEFINE n == Len(a)
           T == {i \in Nat : i > n \/ g[i] = f[i]}
<1>3. n \in Nat /\ n = Len(b)
  OBVIOUS
<1> HIDE DEF n
<1>4. 0 \in T
  BY <1>1, <1>2
<1>5. ASSUME NEW i \in Nat, i \in T
      PROVE  i + 1 \in T
  <2>1. CASE i + 1 <= n
    <3>1. i + 1 \in 1 .. n /\ (i + 1) - 1 = i
      BY <1>3, <1>5, <2>1
    <3>9. g[i] = f[i]
      <4>1. ~(i > n)
        BY <1>3, <1>5, <2>1
      <4> QED BY <1>5, <4>1
    <3>2. f[i + 1] = f[i] + a[i + 1].size
      BY <1>1, <3>1 DEF n
    <3>3. g[i + 1] = g[i] + b[i + 1].size
      BY <1>2, <1>3, <3>1 DEF n
    <3>4. b[i + 1].size = a[i + 1].size
      BY <3>1 DEF n
    <3>5. g[i + 1] = f[i + 1]
      BY <3>2, <3>3, <3>4, <3>9
    <3> QED BY <1>5, <3>5
  <2> QED BY <1>3, <1>5, <2>1
<1> HIDE DEF T
<1>6. n \in T
  BY <1>3, <1>4, <1>5, AllNaturals
<1> QED BY <1>1, <1>2, <1>3, <1>6 DEF T, n

\* When there is nothing to fold.
LEMMA PrefixZero ==
    ASSUME NEW M, \A m \in M : m.size \in Nat,
           NEW recent \in Seq(M), recent # <<>>, NEW pending \in Seq(M), NEW summarized \in BOOLEAN
    PROVE  PrefixLength(recent, summarized, pending) = 0
              <=> FirstSplit(recent, summarized) = 0 /\ SplitSuffices(recent, pending, 0)
<1> DEFINE first == FirstSplit(recent, summarized)
<1>1. first \in 0 .. Len(recent)
  BY SplitIs
<1>2. PICK split \in first .. Len(recent) :
         /\ PrefixLength(recent, summarized, pending) = SafeSplit(recent, split)
         /\ SplitSuffices(recent, pending, split)
         /\ \A i \in first .. split - 1 : ~SplitSuffices(recent, pending, i)
  BY SplitIs
<1> HIDE DEF first
<1>3. split \in 0 .. Len(recent)
  BY <1>1, <1>2
<1>4. /\ SafeSplit(recent, split) \in split .. Len(recent)
      /\ split = 0 => SafeSplit(recent, split) = 0
  BY <1>3, SafeSplitIs
<1>5. SafeSplit(recent, split) = 0 => split = 0
  BY <1>3, <1>4
<1>6. first = 0 /\ SplitSuffices(recent, pending, 0) => split = 0
  <2> SUFFICES ASSUME first = 0, SplitSuffices(recent, pending, 0), split # 0
               PROVE  FALSE
    OBVIOUS
  <2>1. 0 \in first .. split - 1
    BY <1>3
  <2> QED BY <1>2, <2>1
<1>7. split = 0 => first = 0
  BY <1>1, <1>2
<1> QED BY <1>2, <1>4, <1>5, <1>6, <1>7 DEF first

LEMMA ZeroAgrees ==
    ASSUME NEW M, \A m \in M : m.size \in Nat,
           NEW a \in Seq(M), NEW b \in Seq(M), NEW pending \in Seq(M), NEW summarized \in BOOLEAN,
           Len(a) = Len(b), \A i \in 1 .. Len(a) : b[i].size = a[i].size
    PROVE  PrefixLength(a, summarized, pending) = 0 <=> PrefixLength(b, summarized, pending) = 0
<1> DEFINE n == Len(a)
           ta == TailFrom(a, 0)
           tb == TailFrom(b, 0)
<1>1. n \in Nat /\ Len(b) = n /\ (a = <<>> <=> n = 0) /\ (b = <<>> <=> n = 0)
  OBVIOUS
<1>2. CASE n = 0
  BY <1>1, <1>2 DEF PrefixLength
<1>3. CASE n # 0
  <2>1. FirstSplit(a, summarized) = FirstSplit(b, summarized)
    BY <1>1 DEF FirstSplit
  <2>2. /\ ta \in Seq(M) /\ Len(ta) = n /\ \A i \in 1 .. n : ta[i] = a[i]
        /\ tb \in Seq(M) /\ Len(tb) = n /\ \A i \in 1 .. n : tb[i] = b[i]
    <3>1. 0 \in 0 .. Len(a) /\ 0 \in 0 .. Len(b) /\ n - 0 = n /\ \A i \in 1 .. n : i + 0 = i
      BY <1>1
    <3>2. /\ ta \in Seq(M) /\ Len(ta) = n - 0 /\ \A i \in 1 .. n - 0 : ta[i] = a[i + 0]
      BY <3>1, TailIs
    <3>3. /\ tb \in Seq(M) /\ Len(tb) = Len(b) - 0 /\ \A i \in 1 .. Len(b) - 0 : tb[i] = b[i + 0]
      BY <3>1, TailIs
    <3> HIDE DEF ta, tb, n
    <3> QED BY <1>1, <3>1, <3>2, <3>3
  <2> HIDE DEF ta, tb
  <2> DEFINE x == ta \o pending
             y == tb \o pending
             k == Len(pending)
  <2>3. /\ k \in Nat /\ x \in Seq(M) /\ y \in Seq(M) /\ Len(x) = n + k /\ Len(y) = n + k
        /\ \A i \in 1 .. n + k : x[i] = IF i <= n THEN ta[i] ELSE pending[i - n]
        /\ \A i \in 1 .. n + k : y[i] = IF i <= n THEN tb[i] ELSE pending[i - n]
    <3>1. \A p, q \in Seq(M) : /\ p \o q \in Seq(M) /\ Len(p \o q) = Len(p) + Len(q)
                               /\ \A i \in 1 .. Len(p) + Len(q) : (p \o q)[i] = IF i <= Len(p) THEN p[i] ELSE q[i - Len(p)]
      OBVIOUS
    <3>2. k \in Nat
      OBVIOUS
    <3> HIDE DEF n
    <3>3. /\ ta \o pending \in Seq(M) /\ Len(ta \o pending) = n + Len(pending)
          /\ \A i \in 1 .. n + Len(pending) : (ta \o pending)[i] = IF i <= n THEN ta[i] ELSE pending[i - n]
      BY <2>2, <3>1
    <3>4. /\ tb \o pending \in Seq(M) /\ Len(tb \o pending) = n + Len(pending)
          /\ \A i \in 1 .. n + Len(pending) : (tb \o pending)[i] = IF i <= n THEN tb[i] ELSE pending[i - n]
      <4>1. tb \in Seq(M) /\ Len(tb) = n
        BY <2>2
      <4> QED BY ONLY <3>1, <4>1, pending \in Seq(M)
    <3> HIDE DEF x, y
    <3>5. x = ta \o pending /\ y = tb \o pending
      BY DEF x, y
    <3>6. \A i \in 1 .. n + k : x[i] = IF i <= n THEN ta[i] ELSE pending[i - n]
      BY ONLY <3>3, <3>5 DEF k
    <3>7. \A i \in 1 .. n + k : y[i] = IF i <= n THEN tb[i] ELSE pending[i - n]
      BY ONLY <3>4, <3>5 DEF k
    <3>8. x \in Seq(M) /\ y \in Seq(M) /\ Len(x) = n + k /\ Len(y) = n + k
      BY ONLY <3>3, <3>4, <3>5 DEF k
    <3> QED BY ONLY <3>2, <3>6, <3>7, <3>8
  <2> HIDE DEF x, y, k, n
  <2>4. \A i \in 1 .. Len(x) : y[i].size = x[i].size
    <3> TAKE i \in 1 .. Len(x)
    <3>1. CASE i <= n
      <4>1. i \in 1 .. n /\ x[i] = ta[i] /\ y[i] = tb[i]
        BY <1>1, <2>3, <3>1
      <4> QED BY <2>2, <4>1 DEF n
    <3>2. CASE ~(i <= n)
      BY <2>3, <3>2
    <3> QED BY <3>1, <3>2
  <2>5. TranscriptLength(y) = TranscriptLength(x)
    BY <2>3, <2>4, SameLength
  <2>6. x # <<>> /\ y # <<>>
    BY <1>1, <1>3, <2>3
  <2>7. NeedsRefresh(x) <=> NeedsRefresh(y)
    BY <2>5, <2>6 DEF NeedsRefresh
  <2>8. SplitSuffices(a, pending, 0) <=> SplitSuffices(b, pending, 0)
    BY <1>1, <2>7 DEF SplitSuffices, x, y, ta, tb, n
  <2> QED BY <1>1, <1>3, <2>1, <2>8, PrefixZero
<1> QED BY <1>2, <1>3

====
