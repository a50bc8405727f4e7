---- MODULE AgentsProofs ----
(***************************************************************************)
(* The turns of a conversation, for every number of turns, every sequence  *)
(* of messages stored before and every bound: types, refreshes that        *)
(* shorten, answers stored when a turn is done, requests with every call   *)
(* answered, and a summary that counts what it tells.                      *)
(*                                                                         *)
(* The inductive invariant says where a turn may stand with its row and    *)
(* its tools, that what it knows names messages there are, and that at     *)
(* most one row of a turn is not seen yet, the one it is about to commit.  *)
(* Each of the other results adds what its own argument needs: that a row  *)
(* which was folded can still be folded when the summary is saved; that a  *)
(* question comes before its answer; that the calls of a round which have  *)
(* no result yet are the open ones; and that whatever a turn knows of the  *)
(* thread fits what can be seen, apart from messages seen late.            *)
(***************************************************************************)
EXTENDS Agents, SummariesProofs

MessageRow == [role: Roles, call: Nat, size: Nat, by: Turns \cup {"past"}, shown: BOOLEAN]
Calls == [left: Nat, round: 0 .. MaxRounds, open: Seq(Nat)]
Thread == [exists: BOOLEAN, count: Nat, told: SUBSET Nat]

\* Where a turn will stand once its row is committed.
Stage(t) == IF pc[t] = "commit" THEN after[t] ELSE pc[t]

\* The answer is what separates the two phases, and a row is stored for a turn
\* that goes on.
StandsRight(t) ==
    /\ pc[t] \in {"ensure", "question", "model", "call", "invoke"} => phase[t] = "before"
    /\ pc[t] = "answer" => phase[t] = "after"
    /\ pc[t] = "commit" => IF phase[t] = "before" THEN after[t] \in {"model", "call", "invoke"}
                                                  ELSE after[t] = "row"
    /\ Stage(t) = "call" => tools[t].left # 0
    /\ Stage(t) = "invoke" => tools[t].open # <<>>

\* What is known of a thread names messages there are, in order.
Names(k, n) ==
    /\ k.count + Len(k.tail) <= n /\ k.told \subseteq 1 .. n
    /\ Rising(k.tail) /\ \A m \in 1 .. Len(k.tail) : k.tail[m] \in 1 .. n

\* The rows of a turn are seen, but for the one it is about to commit. (A turn
\* that ended may leave one.)
Unseen(t, i) == i \in DOMAIN log /\ log[i].by = t /\ ~log[i].shown

SeesItsRows(t) ==
    /\ pc[t] \notin {"commit", "done"} => \A i \in DOMAIN log : ~Unseen(t, i)
    /\ pc[t] = "commit" => \E i \in DOMAIN log : Unseen(t, i) /\ \A j \in DOMAIN log : Unseen(t, j) => j = i

Sound(t) == StandsRight(t) /\ Names(saw[t], Len(log)) /\ Names(base[t], Len(log)) /\ SeesItsRows(t)

LogTyped ==
    /\ log \in Seq(MessageRow) /\ thread \in Thread /\ thread.count <= Len(log) /\ thread.told \subseteq DOMAIN log
    /\ late \subseteq DOMAIN log /\ usesTools \in BOOLEAN /\ owns \subseteq Turns
PlaceTyped ==
    /\ pc \in [Turns -> Steps] /\ phase \in [Turns -> {"before", "after"}] /\ after \in [Turns -> Steps]
    /\ result \in [Turns -> {"none", "answered", "empty", "failed", "abandoned"}]
MindTyped ==
    /\ saw \in [Turns -> Known] /\ base \in [Turns -> Known]
    /\ sent \in [Turns -> Seq(Nat)] /\ tools \in [Turns -> Calls]
Typed == LogTyped /\ PlaceTyped /\ MindTyped

AgentsInv == Typed /\ \A t \in Turns : Sound(t)

\* What a turn is about to save still folds something.
FoldsSome(t) == pc[t] = "save" => Prefix(t) # 0

\* A question of the turn, and one with an answer after it.
QuestionAt(t, q) == q \in DOMAIN log /\ log[q].by = t /\ log[q].role = "user"
AnswerAt(t, a) ==
    /\ a \in DOMAIN log /\ log[a].by = t /\ log[a].role = "assistant"
    /\ \E q \in DOMAIN log : q < a /\ QuestionAt(t, q)

\* The question is stored before the model is asked, the answer before the turn
\* goes on.
Stores(t) ==
    /\ pc[t] \in {"model", "call", "invoke", "commit"} \/ phase[t] = "after" =>
          \E q \in DOMAIN log : QuestionAt(t, q)
    /\ result[t] = "answered" => phase[t] = "after"
    /\ pc[t] = "commit" /\ phase[t] = "after" => \E a \in DOMAIN log : AnswerAt(t, a) /\ Unseen(t, a)
    /\ result[t] = "answered" /\ pc[t] \notin {"answer", "commit"} /\ thread.exists =>
          \E a \in DOMAIN log : AnswerAt(t, a) /\ log[a].shown

\* A call is named by its place, and a result comes after its call.
CallsAreNamed(rows) ==
    \A i \in DOMAIN rows :
       /\ rows[i].role = "call" => rows[i].call = i
       /\ rows[i].role = "result" => rows[i].call \in 1 .. i - 1 /\ rows[rows[i].call].role = "call"

IsCall(rows, i, c) == rows[i].role = "call" /\ rows[i].call = c
IsResult(rows, i, c) == rows[i].role = "result" /\ rows[i].call = c

\* A request is paired but for the open calls.
PairedBut(rows, ids, open) ==
    /\ \A n \in 1 .. Len(ids) :
          /\ ids[n] \in DOMAIN rows
          /\ rows[ids[n]].role = "result" => \E m \in 1 .. n - 1 : IsCall(rows, ids[m], rows[ids[n]].call)
          /\ rows[ids[n]].role = "call" =>
                \/ \E m \in n + 1 .. Len(ids) : IsResult(rows, ids[m], rows[ids[n]].call)
                \/ \E k \in 1 .. Len(open) : open[k] = rows[ids[n]].call
    /\ \A k \in 1 .. Len(open) :
          open[k] \in DOMAIN rows /\ \E m \in 1 .. Len(ids) : IsCall(rows, ids[m], open[k])

Asks(t) ==
    /\ Stage(t) \in {"model", "call", "invoke"} => PairedBut(log, sent[t], tools[t].open)
    /\ Stage(t) \notin {"call", "invoke", "done"} => tools[t].open = <<>>

\* The messages a summary and the first m of its tail stand for.
Told(k, m) == k.told \cup {k.tail[j] : j \in 1 .. m}

\* What is known of a thread fits what is seen of it: the places up to a count
\* were told or are late, and unless some are late the tail follows the count and
\* nothing behind the count was told.
FitsIn(k, seen, shown, delayed) ==
    /\ k.count + Len(k.tail) <= Len(seen)
    /\ k.told \subseteq shown /\ \A m \in 1 .. Len(k.tail) : k.tail[m] \in shown
    /\ \A m \in 0 .. Len(k.tail) : \A n \in 1 .. k.count + m : seen[n] \in Told(k, m) \cup delayed
    /\ delayed = {} =>
          /\ \A m \in 1 .. Len(k.tail) : k.tail[m] = seen[k.count + m]
          /\ \A n \in k.count + 1 .. Len(seen) : seen[n] \notin k.told

Seen == InOrder(Shown, Len(log))
Fits(k) == FitsIn(k, Seen, Shown, late)

RowOf(row) == [count |-> row.count, told |-> row.told, tail |-> <<>>]

SummaryFits == thread.exists => Fits(RowOf(thread)) /\ \A t \in Turns : Fits(saw[t]) /\ Fits(base[t])

-----------------------------------------------------------------------------
(* What a step does to the messages.                                       *)

LEMMA MinOfTwo ==
    \A a, b \in Nat : Min({a, b}) = IF a <= b THEN a ELSE b
<1> TAKE a, b \in Nat
<1> DEFINE least == IF a <= b THEN a ELSE b
<1>1. least \in {a, b} /\ \A y \in {a, b} : least <= y
  OBVIOUS
<1>2. \A x \in {a, b} : (\A y \in {a, b} : x <= y) => x = least
  OBVIOUS
<1> HIDE DEF least
<1>3. (CHOOSE x \in {a, b} : \A y \in {a, b} : x <= y) = least
  BY <1>1, <1>2
<1>4. Min({a, b}) = least
  BY <1>3 DEF Min
<1> QED BY <1>4 DEF least

LEMMA Alone ==
    ASSUME AgentsInv, NEW u \in Turns, Proceed(u) \/ Abandon(u), NEW t \in Turns, t # u
    PROVE  /\ pc'[t] = pc[t] /\ phase'[t] = phase[t] /\ saw'[t] = saw[t] /\ base'[t] = base[t]
           /\ sent'[t] = sent[t] /\ tools'[t] = tools[t] /\ after'[t] = after[t] /\ result'[t] = result[t]
<1> USE DEF AgentsInv, Typed, LogTyped, PlaceTyped, MindTyped, Sound
<1>1. CASE LoadRow(u)
  BY <1>1 DEF LoadRow, End, Goto, shared, setting
<1>2. CASE LoadMessages(u)
  BY <1>2 DEF LoadMessages, Goto, shared, setting
<1>3. CASE Judge(u)
  BY <1>3 DEF Judge, LeaveShortening, Goto, shared, setting
<1>4. CASE Save(u)
  BY <1>4 DEF Save, LeaveShortening, Goto, setting
<1>5. CASE Ensure(u)
  BY <1>5 DEF Ensure, End, Goto, shared, setting
<1>6. CASE StoreQuestion(u)
  BY <1>6 DEF StoreQuestion, Write, End, Goto, setting
<1>7. CASE Commit(u)
  BY <1>7 DEF Commit, End, Goto, setting
<1>8. CASE ModelAnswers(u)
  BY <1>8 DEF ModelAnswers, Conclude, End, Goto, shared, setting
<1>9. CASE ModelCalls(u)
  BY <1>9 DEF ModelCalls, End, Goto, shared, setting
<1>10. CASE StoreCall(u)
  BY <1>10 DEF StoreCall, Write, End, Goto, setting
<1>11. CASE Invoke(u)
  BY <1>11 DEF Invoke, Write, End, Goto, setting
<1>12. CASE StoreAnswer(u)
  BY <1>12 DEF StoreAnswer, Write, End, Goto, setting
<1>13. CASE Abandon(u)
  BY <1>13 DEF Abandon, End, Goto, shared, setting
<1> QED BY <1>1, <1>2, <1>3, <1>4, <1>5, <1>6, <1>7, <1>8, <1>9, <1>10, <1>11, <1>12, <1>13 DEF Proceed

LEMMA UnseenRow ==
    ASSUME AgentsInv, NEW u \in Turns, pc[u] = "commit"
    PROVE  Unseen(u, MineUnseen(u)) /\ \A j \in DOMAIN log : Unseen(u, j) => j = MineUnseen(u)
<1>1. PICK i \in DOMAIN log : Unseen(u, i) /\ \A j \in DOMAIN log : Unseen(u, j) => j = i
  BY DEF AgentsInv, Typed, LogTyped, PlaceTyped, MindTyped, Sound, SeesItsRows
<1>2. MineUnseen(u) \in DOMAIN log /\ log[MineUnseen(u)].by = u /\ ~log[MineUnseen(u)].shown
  BY <1>1 DEF MineUnseen, Unseen
<1>3. Unseen(u, MineUnseen(u))
  BY <1>2 DEF Unseen
<1>4. MineUnseen(u) = i
  BY <1>1, <1>2, <1>3
<1> QED BY <1>1, <1>3, <1>4

\* The log is left alone, gets a row of the turn at its end, or has the unseen
\* row of the turn seen.
AddsRow(u, role, call, shown) == log' = Append(log, Row(u, role, call, shown))

LogStep(u) ==
    \/ log' = log
    \/ \E role \in Roles, call \in Nat, shown \in BOOLEAN : AddsRow(u, role, call, shown)
    \/ pc[u] = "commit" /\ log' = [log EXCEPT ![MineUnseen(u)].shown = TRUE]

LEMMA StepsOfTheLog ==
    ASSUME AgentsInv, NEW u \in Turns, Proceed(u) \/ Abandon(u)
    PROVE  LogStep(u)
<1> USE DEF AgentsInv, Typed, LogTyped, PlaceTyped, MindTyped, Sound, LogStep
<1>1. CASE LoadRow(u) \/ LoadMessages(u) \/ Judge(u) \/ Save(u) \/ Ensure(u) \/ ModelAnswers(u) \/ ModelCalls(u) \/ Abandon(u)
  BY <1>1 DEF LoadRow, LoadMessages, Judge, Save, Ensure, ModelAnswers, ModelCalls, Abandon, shared
<1>2. ASSUME NEW role \in Roles, NEW call \in Nat, NEW then, Write(u, role, call, then)
      PROVE  LogStep(u)
  BY <1>2 DEF Write, AddsRow
<1>3. Len(log) + 1 \in Nat /\ {"user", "call", "result", "assistant"} \subseteq Roles
  BY DEF Roles
<1> HIDE DEF LogStep
<1>4. CASE StoreQuestion(u)
  BY <1>2, <1>3, <1>4 DEF StoreQuestion
<1>5. CASE StoreCall(u)
  BY <1>2, <1>3, <1>5 DEF StoreCall
<1>6. CASE StoreAnswer(u)
  BY <1>2, <1>3, <1>6 DEF StoreAnswer
<1>7. CASE Invoke(u)
  <2>1. pc[u] = "invoke" /\ tools[u].open # <<>> /\ tools[u].open \in Seq(Nat)
    BY <1>7 DEF Invoke, StandsRight, Stage, Calls
  <2>2. Head(tools[u].open) \in Nat
    BY <2>1
  <2>3. CASE log' = log
    BY <2>3 DEF LogStep
  <2> QED BY <1>2, <1>3, <1>7, <2>2, <2>3 DEF Invoke
<1>8. CASE Commit(u)
  BY <1>8 DEF Commit, LogStep
<1> QED BY <1>1, <1>4, <1>5, <1>6, <1>7, <1>8 DEF Proceed

\* A row keeps what it says, and once it is seen it stays so.
Keeps(i) ==
    /\ i \in DOMAIN log'
    /\ log'[i].role = log[i].role /\ log'[i].call = log[i].call /\ log'[i].size = log[i].size
    /\ log'[i].by = log[i].by /\ (log[i].shown => log'[i].shown)

LEMMA RowsFit ==
    \A u \in Turns, role \in Roles, call \in Nat, shown \in BOOLEAN : Row(u, role, call, shown) \in MessageRow
BY ConstantsAssumption DEF Row, Size, MessageRow

LEMMA NewRow ==
    ASSUME AgentsInv, NEW u \in Turns, NEW role \in Roles, NEW call \in Nat, NEW shown \in BOOLEAN,
           AddsRow(u, role, call, shown)
    PROVE  /\ DOMAIN log' = 1 .. Len(log) + 1 /\ Len(log') = Len(log) + 1
           /\ log'[Len(log) + 1].role = role /\ log'[Len(log) + 1].call = call
           /\ log'[Len(log) + 1].by = u /\ log'[Len(log) + 1].shown = shown
           /\ \A j \in 1 .. Len(log) : log'[j] = log[j]
<1> DEFINE row == Row(u, role, call, shown)
<1>1. log' = Append(log, row) /\ row \in MessageRow /\ log \in Seq(MessageRow)
  BY RowsFit DEF AddsRow, AgentsInv, Typed, LogTyped
<1>2. row.role = role /\ row.call = call /\ row.by = u /\ row.shown = shown
  BY DEF Row
<1> HIDE DEF row
<1>3. /\ DOMAIN log' = 1 .. Len(log) + 1 /\ Len(log') = Len(log) + 1
      /\ log'[Len(log) + 1] = row /\ \A j \in 1 .. Len(log) : log'[j] = log[j]
  BY <1>1
<1> QED BY <1>2, <1>3

LEMMA SeeingARow ==
    \A m \in MessageRow :
       /\ [m EXCEPT !.shown = TRUE] \in MessageRow
       /\ [m EXCEPT !.shown = TRUE].role = m.role /\ [m EXCEPT !.shown = TRUE].call = m.call
       /\ [m EXCEPT !.shown = TRUE].size = m.size /\ [m EXCEPT !.shown = TRUE].by = m.by
       /\ [m EXCEPT !.shown = TRUE].shown
<1> TAKE m \in MessageRow
<1> DEFINE seen == [m EXCEPT !.shown = TRUE]
<1>1. DOMAIN m = {"role", "call", "size", "by", "shown"} /\ m = [f \in DOMAIN m |-> m[f]]
  BY DEF MessageRow
<1>2. /\ m.role \in Roles /\ m.call \in Nat /\ m.size \in Nat /\ m.by \in Turns \cup {"past"}
  BY DEF MessageRow
<1>3. /\ DOMAIN seen = DOMAIN m /\ seen = [f \in DOMAIN seen |-> seen[f]]
      /\ seen.role = m.role /\ seen.call = m.call /\ seen.size = m.size /\ seen.by = m.by /\ seen.shown
  BY <1>1
<1> HIDE DEF seen
<1>4. seen \in MessageRow
  BY <1>1, <1>2, <1>3 DEF MessageRow
<1> QED BY <1>3, <1>4 DEF seen

LEMMA LogGrows ==
    ASSUME AgentsInv, NEW u \in Turns, LogStep(u)
    PROVE  /\ log' \in Seq(MessageRow) /\ Len(log) <= Len(log') /\ \A i \in DOMAIN log : Keeps(i)
<1>0. log \in Seq(MessageRow) /\ Len(log) \in Nat /\ DOMAIN log = 1 .. Len(log)
  BY DEF AgentsInv, Typed, LogTyped, PlaceTyped, MindTyped, Sound
<1>1. CASE log' = log
  BY <1>0, <1>1 DEF Keeps
<1>2. ASSUME NEW role \in Roles, NEW call \in Nat, NEW shown \in BOOLEAN, AddsRow(u, role, call, shown)
      PROVE  /\ log' \in Seq(MessageRow) /\ Len(log) <= Len(log') /\ \A i \in DOMAIN log : Keeps(i)
  <2> DEFINE row == Row(u, role, call, shown)
  <2>1. row \in MessageRow /\ log' = Append(log, row)
    BY <1>2, RowsFit DEF AddsRow
  <2> HIDE DEF row
  <2>2. log' \in Seq(MessageRow) /\ Len(log') = Len(log) + 1 /\ \A i \in DOMAIN log : log'[i] = log[i]
    BY <1>0, <2>1
  <2>3. DOMAIN log' = 1 .. Len(log')
    BY <2>2
  <2> QED BY <1>0, <2>2, <2>3 DEF Keeps
<1>3. CASE pc[u] = "commit" /\ log' = [log EXCEPT ![MineUnseen(u)].shown = TRUE]
  <2> DEFINE k == MineUnseen(u)
  <2>1. k \in DOMAIN log
    BY <1>3, UnseenRow DEF Unseen
  <2> HIDE DEF k
  <2>2. log' = [log EXCEPT ![k].shown = TRUE]
    BY <1>3 DEF k
  <2>3. [log[k] EXCEPT !.shown = TRUE] \in MessageRow
    <3>1. log[k] \in MessageRow
      BY <1>0, <2>1
    <3> QED BY <3>1, SeeingARow
  <2>4. /\ DOMAIN log' = DOMAIN log /\ Len(log') = Len(log)
        /\ log'[k] = [log[k] EXCEPT !.shown = TRUE]
        /\ \A i \in DOMAIN log : i # k => log'[i] = log[i]
    BY <1>0, <2>1, <2>2
  <2>5. log' \in Seq(MessageRow)
    BY <1>0, <2>1, <2>2, <2>3
  <2>6. log[k] \in MessageRow
    BY <1>0, <2>1
  <2>7. Keeps(k)
    BY <2>1, <2>4, <2>6, SeeingARow, Zenon DEF Keeps
  <2>8. \A i \in DOMAIN log : i # k => Keeps(i)
    BY <2>4 DEF Keeps
  <2> QED BY <1>0, <2>4, <2>5, <2>7, <2>8
<1> QED BY <1>1, <1>2, <1>3 DEF LogStep

-----------------------------------------------------------------------------
(* What is seen, folded and sent.                                          *)

LEMMA VisibleIs ==
    ASSUME AgentsInv
    PROVE  /\ Visible \in Seq(Nat) /\ Rising(Visible) /\ Len(Visible) <= Len(log)
           /\ \A m \in 1 .. Len(Visible) : Visible[m] \in 1 .. Len(log)
<1>1. Len(log) \in Nat
  BY DEF AgentsInv, Typed, LogTyped, PlaceTyped, MindTyped, Sound
<1>2. Lists(InOrder(Shown, Len(log)), Shown, Len(log))
  BY <1>1, InOrderIs
<1>3. CASE thread.exists
  BY <1>2, <1>3 DEF Visible, Lists
<1>4. CASE ~thread.exists
  BY <1>1, <1>4 DEF Visible, Rising
<1> QED BY <1>3, <1>4

\* A message of a transcript: a row, or the question that is about to be stored.
Text == MessageRow \cup {[role |-> "user", call |-> 0, size |-> QuestionSize]}

LEMMA TextsAre ==
    ASSUME AgentsInv, NEW ids \in Seq(Nat), \A m \in 1 .. Len(ids) : ids[m] \in 1 .. Len(log)
    PROVE  /\ Texts(ids) \in Seq(Text) /\ Len(Texts(ids)) = Len(ids)
           /\ \A m \in 1 .. Len(ids) : Texts(ids)[m] = log[ids[m]]
<1>1. Len(ids) \in Nat /\ log \in Seq(MessageRow)
  BY DEF AgentsInv, Typed, LogTyped, PlaceTyped, MindTyped, Sound
<1>2. \A m \in 1 .. Len(ids) : log[ids[m]] \in Text
  BY <1>1 DEF Text
<1>3. Texts(ids) = [n \in 1 .. Len(ids) |-> log[ids[n]]]
  BY DEF Texts
<1> HIDE DEF Text
<1> QED BY <1>1, <1>2, <1>3

LEMMA TextSizes ==
    /\ \A m \in Text : m.size \in Nat
    /\ \A t \in Turns : Pending(t) \in Seq(Text)
<1>1. \A m \in Text : m.size \in Nat
  BY ConstantsAssumption DEF Text, MessageRow
<1>2. \A t \in Turns : Pending(t) \in Seq(Text)
  <2> DEFINE question == [role |-> "user", call |-> 0, size |-> QuestionSize]
  <2>1. question \in Text
    BY DEF Text
  <2> HIDE DEF Text, question
  <2>2. <<question>> \in Seq(Text) /\ <<>> \in Seq(Text)
    BY <2>1
  <2> QED BY <2>2 DEF Pending, Question, question
<1> QED BY <1>1, <1>2

LEMMA PrefixFits ==
    ASSUME AgentsInv, NEW t \in Turns
    PROVE  Prefix(t) \in 0 .. Len(saw[t].tail)
<1> DEFINE texts == Texts(saw[t].tail)
<1>1. saw[t].tail \in Seq(Nat)
  BY DEF AgentsInv, Typed, LogTyped, PlaceTyped, MindTyped, Sound, Known
<1>2. texts \in Seq(Text) /\ Len(texts) = Len(saw[t].tail)
  <2>1. \A m \in 1 .. Len(saw[t].tail) : saw[t].tail[m] \in 1 .. Len(log)
    BY DEF AgentsInv, Typed, LogTyped, PlaceTyped, MindTyped, Sound, Names
  <2> QED BY <1>1, <2>1, TextsAre
<1> HIDE DEF texts
<1>3. Prefix(t) = PrefixLength(texts, saw[t].told # {}, Pending(t))
  BY DEF Prefix, texts
<1>4. CASE texts = <<>>
  BY <1>2, <1>3, <1>4 DEF PrefixLength
<1>5. CASE texts # <<>>
  <2>1. (saw[t].told # {}) \in BOOLEAN
    OBVIOUS
  <2>2. Pending(t) \in Seq(Text) /\ \A m \in Text : m.size \in Nat
    BY TextSizes
  <2>3. /\ FirstSplit(texts, saw[t].told # {}) \in 0 .. Len(texts)
        /\ PrefixLength(texts, saw[t].told # {}, Pending(t)) \in FirstSplit(texts, saw[t].told # {}) .. Len(texts)
    BY <1>2, <1>5, <2>1, <2>2, PrefixIs
  <2> QED BY <1>2, <1>3, <2>3
<1> QED BY <1>4, <1>5

\* Folding a part of a tail.
LEMMA FoldedNames ==
    ASSUME NEW n \in Nat, NEW k \in Known, Names(k, n), NEW p \in 0 .. Len(k.tail)
    PROVE  LET f == [count |-> k.count + p, told |-> k.told \cup {k.tail[i] : i \in 1 .. p}, tail |-> TailFrom(k.tail, p)]
           IN f \in Known /\ Names(f, n) /\ Len(f.tail) = Len(k.tail) - p
<1>1. k.count \in Nat /\ k.told \in SUBSET Nat /\ k.tail \in Seq(Nat)
  BY DEF Known
<1> DEFINE tail == TailFrom(k.tail, p)
           told == k.told \cup {k.tail[i] : i \in 1 .. p}
<1>2. /\ tail \in Seq(Nat) /\ Len(tail) = Len(k.tail) - p
      /\ \A i \in 1 .. Len(k.tail) - p : tail[i] = k.tail[i + p]
  BY <1>1, TailIs
<1>3. told \subseteq 1 .. n /\ told \in SUBSET Nat
  BY <1>1 DEF Names
<1> HIDE DEF tail, told
<1>4. Rising(tail)
  <2> SUFFICES ASSUME NEW a \in 1 .. Len(tail), NEW b \in 1 .. Len(tail), a < b PROVE tail[a] < tail[b]
    BY DEF Rising
  <2>1. a + p \in 1 .. Len(k.tail) /\ b + p \in 1 .. Len(k.tail) /\ a + p < b + p
    BY <1>1, <1>2
  <2>2. k.tail[a + p] < k.tail[b + p]
    BY <2>1 DEF Names, Rising
  <2> QED BY <1>2, <2>2
<1>5. \A m \in 1 .. Len(tail) : tail[m] \in 1 .. n
  <2> TAKE m \in 1 .. Len(tail)
  <2>1. m + p \in 1 .. Len(k.tail) /\ m \in 1 .. Len(k.tail) - p
    BY <1>1, <1>2
  <2> QED BY <1>2, <2>1 DEF Names
<1>6. (k.count + p) + Len(tail) <= n /\ k.count + p \in Nat
  BY <1>1, <1>2 DEF Names
<1> DEFINE f == [count |-> k.count + p, told |-> told, tail |-> tail]
<1>7. f.count = k.count + p /\ f.told = told /\ f.tail = tail
  OBVIOUS
<1>8. f \in Known
  BY <1>2, <1>3, <1>6 DEF Known
<1> HIDE DEF f
<1>9. Names(f, n)
  BY <1>3, <1>4, <1>5, <1>6, <1>7 DEF Names
<1> QED BY <1>2, <1>7, <1>8, <1>9 DEF f, told, tail

LEMMA KeptIs ==
    ASSUME AgentsInv, NEW ids \in Seq(Nat)
    PROVE  LET places == {n \in DOMAIN ids : Kept(Texts(ids), n)}
               kept   == InOrder(places, Len(ids))
           IN /\ Lists(kept, places, Len(ids))
              /\ KeptOf(ids) \in Seq(Nat) /\ Len(KeptOf(ids)) = Len(kept)
              /\ \A m \in 1 .. Len(kept) : KeptOf(ids)[m] = ids[kept[m]]
<1> DEFINE places == {n \in DOMAIN ids : Kept(Texts(ids), n)}
           kept == InOrder(places, Len(ids))
<1>1. Len(ids) \in Nat
  OBVIOUS
<1>3. KeptOf(ids) = [m \in DOMAIN kept |-> ids[kept[m]]]
  BY DEF KeptOf
<1> HIDE DEF places
<1>2. Lists(kept, places, Len(ids))
  BY <1>1, InOrderIs
<1> HIDE DEF kept
<1>4. kept \in Seq(Nat) /\ Len(kept) \in Nat /\ DOMAIN kept = 1 .. Len(kept)
  BY <1>2 DEF Lists
<1>5. \A m \in 1 .. Len(kept) : ids[kept[m]] \in Nat
  BY <1>2 DEF Lists
<1>6. /\ KeptOf(ids) \in Seq(Nat) /\ Len(KeptOf(ids)) = Len(kept)
      /\ \A m \in 1 .. Len(kept) : KeptOf(ids)[m] = ids[kept[m]]
  BY <1>3, <1>4, <1>5
<1> QED BY <1>2, <1>6 DEF places, kept

LEMMA NamesGrow ==
    ASSUME NEW n \in Nat, NEW m \in Nat, n <= m, NEW k \in Known, Names(k, n)
    PROVE  Names(k, m)
BY DEF Names, Known

-----------------------------------------------------------------------------
(* The invariant: the rows of a turn.                                      *)

LEMMA UnseenOfOthers ==
    ASSUME AgentsInv, NEW u \in Turns, LogStep(u), NEW t \in Turns, t # u
    PROVE  \A j : Unseen(t, j)' <=> Unseen(t, j)
<1>0. log \in Seq(MessageRow) /\ Len(log) \in Nat /\ DOMAIN log = 1 .. Len(log)
  BY DEF AgentsInv, Typed, LogTyped, PlaceTyped, MindTyped, Sound
<1>1. CASE log' = log
  BY <1>1 DEF Unseen
<1>2. ASSUME NEW role \in Roles, NEW call \in Nat, NEW shown \in BOOLEAN, AddsRow(u, role, call, shown)
      PROVE  \A j : Unseen(t, j)' <=> Unseen(t, j)
  <2>2. /\ DOMAIN log' = 1 .. Len(log) + 1 /\ log'[Len(log) + 1].by = u
        /\ \A j \in 1 .. Len(log) : log'[j] = log[j]
    BY <1>2, NewRow
  <2>3. \A j : j \in DOMAIN log' => j \in DOMAIN log \/ j = Len(log) + 1
    BY <1>0, <2>2
  <2>4. \A j \in DOMAIN log : j \in DOMAIN log'
    BY <1>0, <2>2
  <2> QED BY <1>0, <2>2, <2>3, <2>4, Zenon DEF Unseen
<1>3. CASE pc[u] = "commit" /\ log' = [log EXCEPT ![MineUnseen(u)].shown = TRUE]
  <2> DEFINE k == MineUnseen(u)
  <2>1. k \in DOMAIN log /\ log[k].by = u
    BY <1>3, UnseenRow DEF Unseen
  <2> HIDE DEF k
  <2>2. /\ DOMAIN log' = DOMAIN log /\ \A j \in DOMAIN log : j # k => log'[j] = log[j]
    BY <1>0, <1>3 DEF k
  <2>3. log'[k].by = u
    <3>1. Keeps(k)
      BY <2>1, LogGrows
    <3> QED BY <2>1, <3>1 DEF Keeps
  <2> QED BY <2>1, <2>2, <2>3, Zenon DEF Unseen
<1> QED BY <1>1, <1>2, <1>3 DEF LogStep

LEMMA RowsOfOthers ==
    ASSUME AgentsInv, NEW u \in Turns, LogStep(u), NEW t \in Turns, t # u, pc'[t] = pc[t]
    PROVE  SeesItsRows(t)'
<1>1. \A j : Unseen(t, j)' <=> Unseen(t, j)
  BY UnseenOfOthers
<1>2. SeesItsRows(t)
  BY DEF AgentsInv, Typed, LogTyped, PlaceTyped, MindTyped, Sound
<1>3. \A j \in DOMAIN log' : Unseen(t, j)' => j \in DOMAIN log
  BY <1>1 DEF Unseen
<1>4. \A j \in DOMAIN log : j \in DOMAIN log'
  BY LogGrows DEF Keeps
<1> QED BY <1>1, <1>2, <1>3, <1>4, Zenon DEF SeesItsRows

LEMMA QuietRows ==
    ASSUME AgentsInv, NEW u \in Turns, log' = log, pc'[u] # "commit", pc[u] # "commit", pc[u] # "done"
    PROVE  SeesItsRows(u)'
<1>1. SeesItsRows(u)
  BY DEF AgentsInv, Typed, LogTyped, PlaceTyped, MindTyped, Sound
<1> QED BY <1>1 DEF SeesItsRows, Unseen

\* What writing a row leaves: the turn goes on at once or after a commit, or
\* it ends.
LEMMA Written ==
    ASSUME AgentsInv, NEW u \in Turns, pc[u] \notin {"commit", "done"},
           NEW role \in Roles, NEW call \in Nat, NEW then \in Steps \ {"commit", "done"}, Write(u, role, call, then)
    PROVE  /\ pc' \in [Turns -> Steps] /\ after' \in [Turns -> Steps]
           /\ result' \in [Turns -> {"none", "answered", "empty", "failed", "abandoned"}]
           /\ \/ pc'[u] = then /\ after' = after /\ result' = result /\ AddsRow(u, role, call, TRUE) /\ thread.exists
              \/ pc'[u] = "commit" /\ after'[u] = then /\ result' = result /\ AddsRow(u, role, call, FALSE)
              \/ pc'[u] = "done" /\ result'[u] = "failed" /\ log' = log /\ ~thread.exists
           /\ pc'[u] # "done" => Len(log') = Len(log) + 1
           /\ SeesItsRows(u)'
<1> DEFINE Plain == /\ thread.exists /\ AddsRow(u, role, call, TRUE)
                    /\ pc' = [pc EXCEPT ![u] = then] /\ after' = after /\ result' = result
           Gone  == /\ ~thread.exists /\ log' = log /\ pc' = [pc EXCEPT ![u] = "done"]
                    /\ result' = [result EXCEPT ![u] = "failed"] /\ after' = after
           Slow  == /\ AddsRow(u, role, call, FALSE) /\ pc' = [pc EXCEPT ![u] = "commit"]
                    /\ after' = [after EXCEPT ![u] = then] /\ result' = result
<1>0. /\ log \in Seq(MessageRow) /\ Len(log) \in Nat /\ DOMAIN log = 1 .. Len(log)
      /\ pc \in [Turns -> Steps] /\ after \in [Turns -> Steps]
      /\ result \in [Turns -> {"none", "answered", "empty", "failed", "abandoned"}]
      /\ SeesItsRows(u) /\ "commit" \in Steps /\ "done" \in Steps
  BY DEF AgentsInv, Typed, LogTyped, PlaceTyped, MindTyped, Sound, Steps
<1>1. Plain \/ Gone \/ Slow
  BY DEF Write, Goto, End, AddsRow
<1>2. ASSUME NEW shown \in BOOLEAN, AddsRow(u, role, call, shown)
      PROVE  /\ DOMAIN log' = 1 .. Len(log) + 1 /\ Len(log') = Len(log) + 1
             /\ log'[Len(log) + 1].by = u /\ log'[Len(log) + 1].shown = shown
             /\ \A j \in 1 .. Len(log) : log'[j] = log[j]
  BY <1>2, NewRow
<1>3. \A j \in DOMAIN log : ~Unseen(u, j)
  BY <1>0 DEF SeesItsRows
<1>4. CASE Plain
  <2>1. pc'[u] = then /\ Len(log') = Len(log) + 1
    BY <1>0, <1>2, <1>4
  <2>2. \A j \in DOMAIN log' : ~Unseen(u, j)'
    <3> TAKE j \in DOMAIN log'
    <3>0. j \in 1 .. Len(log) + 1
      BY <1>2, <1>4
    <3>1. CASE j = Len(log) + 1
      <4>1. log'[j].shown = TRUE
        BY <1>2, <1>4, <3>1
      <4> QED BY <4>1 DEF Unseen
    <3>2. CASE j \in 1 .. Len(log)
      BY <1>0, <1>2, <1>3, <1>4, <3>2, Zenon DEF Unseen
    <3> QED BY <1>0, <3>0, <3>1, <3>2
  <2>3. SeesItsRows(u)'
    BY <2>1, <2>2 DEF SeesItsRows
  <2> QED BY <1>0, <1>4, <2>1, <2>3
<1>5. CASE Gone
  <2>1. pc'[u] = "done"
    BY <1>0, <1>5
  <2>2. SeesItsRows(u)'
    BY <2>1 DEF SeesItsRows
  <2> QED BY <1>0, <1>5, <2>1, <2>2
<1>6. CASE Slow
  <2>1. pc'[u] = "commit" /\ after'[u] = then
    BY <1>0, <1>6
  <2>2. PICK n \in DOMAIN log' : n = Len(log) + 1 /\ Unseen(u, n)'
    <3>1. /\ DOMAIN log' = 1 .. Len(log) + 1
          /\ log'[Len(log) + 1].by = u /\ log'[Len(log) + 1].shown = FALSE
      BY <1>2, <1>6
    <3>2. PICK n \in DOMAIN log' : n = Len(log) + 1
      BY <1>0, <3>1
    <3>3. Unseen(u, n)'
      BY <3>1, <3>2 DEF Unseen
    <3> QED BY <3>2, <3>3
  <2>3. \A j \in DOMAIN log' : Unseen(u, j)' => j = Len(log) + 1
    <3> SUFFICES ASSUME NEW j \in DOMAIN log', j # Len(log) + 1 PROVE ~Unseen(u, j)'
      OBVIOUS
    <3>0. j \in 1 .. Len(log) + 1
      BY <1>2, <1>6
    <3>2. j \in 1 .. Len(log)
      BY <1>0, <3>0
    <3> QED BY <1>0, <1>2, <1>3, <1>6, <3>2, Zenon DEF Unseen
  <2>4. SeesItsRows(u)'
    BY <2>1, <2>2, <2>3, Zenon DEF SeesItsRows
  <2>5. /\ pc' \in [Turns -> Steps] /\ after' \in [Turns -> Steps] /\ result' = result
        /\ AddsRow(u, role, call, FALSE) /\ Len(log') = Len(log) + 1
    BY <1>0, <1>2, <1>6
  <2> QED BY <1>0, <2>1, <2>4, <2>5
<1> QED BY <1>1, <1>4, <1>5, <1>6

LEMMA OthersStand ==
    ASSUME AgentsInv, NEW u \in Turns, Proceed(u) \/ Abandon(u), NEW t \in Turns, t # u
    PROVE  Sound(t)'
<1>1. /\ pc'[t] = pc[t] /\ phase'[t] = phase[t] /\ saw'[t] = saw[t] /\ base'[t] = base[t]
      /\ tools'[t] = tools[t] /\ after'[t] = after[t]
  BY Alone
<1>2. LogStep(u)
  BY StepsOfTheLog
<1>3. StandsRight(t)'
  <2>1. StandsRight(t)
    BY DEF AgentsInv, Typed, LogTyped, PlaceTyped, MindTyped, Sound
  <2> QED BY <1>1, <2>1 DEF StandsRight, Stage
<1>4. Len(log) \in Nat /\ Len(log') \in Nat /\ Len(log) <= Len(log')
  BY <1>2, LogGrows DEF AgentsInv, Typed, LogTyped, PlaceTyped, MindTyped, Sound
<1>5. saw[t] \in Known /\ base[t] \in Known /\ Names(saw[t], Len(log)) /\ Names(base[t], Len(log))
  BY DEF AgentsInv, Typed, LogTyped, PlaceTyped, MindTyped, Sound
<1>6. Names(saw[t], Len(log')) /\ Names(base[t], Len(log'))
  BY <1>4, <1>5, NamesGrow
<1>7. SeesItsRows(t)'
  BY <1>1, <1>2, RowsOfOthers
<1> QED BY <1>1, <1>3, <1>6, <1>7 DEF Sound

-----------------------------------------------------------------------------
(* The invariant: one lemma for each kind of step.                         *)

LEMMA StartSound == Init => AgentsInv
<1> SUFFICES ASSUME Init PROVE AgentsInv
  OBVIOUS
<1>1. Past \in Seq([role: Roles, call: Nat])
  BY PastAssumption
<1> DEFINE n == Len(Past)
<1>2. n \in Nat /\ \A i \in 1 .. n : Past[i] \in [role: Roles, call: Nat]
  <2>1. \A S : \A f \in Seq(S) : Len(f) \in Nat /\ \A i \in 1 .. Len(f) : f[i] \in S
    OBVIOUS
  <2> QED BY <1>1, <2>1
<1> DEFINE message(i) ==
             [role |-> Past[i].role, call |-> Past[i].call, size |-> Size(Past[i].role), by |-> "past", shown |-> TRUE]
           rows == [i \in 1 .. n |-> message(i)]
<1>3. \A i \in 1 .. n : message(i) \in MessageRow /\ message(i).by = "past"
  BY <1>2, ConstantsAssumption DEF MessageRow, Size
<1>4. log = rows
  BY DEF Init
<1> HIDE DEF n, message
<1>5. /\ rows \in Seq(MessageRow) /\ Len(rows) = n /\ DOMAIN rows = 1 .. n
      /\ \A i \in 1 .. n : rows[i] = message(i)
  <2>1. \A i \in 1 .. n : message(i) \in MessageRow
    BY <1>3
  <2> QED BY <1>2, <2>1
<1> HIDE DEF rows
<1>6. Len(log) \in Nat /\ DOMAIN log = 1 .. Len(log) /\ \A i \in DOMAIN log : log[i].by = "past"
  BY <1>2, <1>3, <1>4, <1>5
<1>7. NothingKnown \in Known /\ Names(NothingKnown, Len(log))
  BY <1>6 DEF NothingKnown, Known, Names, Rising
<1>8. Typed
  <2>1. LogTyped
    <3>1. log \in Seq(MessageRow)
      BY <1>4, <1>5
    <3>2. thread \in Thread /\ thread.count <= Len(log) /\ thread.told \subseteq DOMAIN log
      BY <1>6 DEF Init, Thread
    <3>3. late \subseteq DOMAIN log /\ usesTools \in BOOLEAN /\ owns \subseteq Turns
      BY DEF Init
    <3> QED BY <3>1, <3>2, <3>3 DEF LogTyped
  <2>2. PlaceTyped
    BY DEF Init, PlaceTyped, Steps
  <2>3. saw \in [Turns -> Known] /\ base \in [Turns -> Known]
    BY <1>7 DEF Init
  <2>4. sent \in [Turns -> Seq(Nat)] /\ tools \in [Turns -> Calls]
    <3>1. NoTools \in Calls
      BY ConstantsAssumption DEF NoTools, Calls
    <3>2. <<>> \in Seq(Nat)
      OBVIOUS
    <3> QED BY <3>1, <3>2 DEF Init
  <2> QED BY <2>1, <2>2, <2>3, <2>4 DEF Typed, MindTyped
<1>9. ASSUME NEW t \in Turns PROVE Sound(t)
  <2>1. StandsRight(t)
    BY DEF Init, StandsRight, Stage
  <2>2. Names(saw[t], Len(log)) /\ Names(base[t], Len(log))
    BY <1>7 DEF Init
  <2>3. SeesItsRows(t)
    BY <1>6, ConstantsAssumption DEF Init, SeesItsRows, Unseen
  <2> QED BY <2>1, <2>2, <2>3 DEF Sound
<1> QED BY <1>8, <1>9 DEF AgentsInv

\* A step that leaves messages and tools alone.
LEMMA LoadRowSound ==
    ASSUME AgentsInv, NEW u \in Turns, LoadRow(u)
    PROVE  Typed' /\ Sound(u)'
<1> USE DEF AgentsInv, Typed, LogTyped, PlaceTyped, MindTyped, Sound
<1>1. pc[u] = "row" /\ pc'[u] \in {"list", "ensure", "done"} /\ log' = log /\ (pc'[u] = "ensure" => phase[u] = "before")
  BY DEF LoadRow, Goto, End, shared
<1> DEFINE row == [count |-> thread.count, told |-> thread.told, tail |-> <<>>]
<1>2. row \in Known /\ Names(row, Len(log))
  BY DEF TypeOK, Thread, Known, Names, Rising
<1> HIDE DEF row
<1>3. saw' = saw \/ saw' = [saw EXCEPT ![u] = row]
  BY DEF LoadRow, row
<1>4. saw' \in [Turns -> Known] /\ Names(saw'[u], Len(log'))
  BY <1>1, <1>2, <1>3 DEF TypeOK
<1>5. Typed'
  <2>1. LogTyped'
    BY <1>1 DEF LoadRow, shared, setting
  <2>2. PlaceTyped'
    BY DEF LoadRow, Goto, End, Steps
  <2>3. MindTyped'
    BY <1>4 DEF LoadRow
  <2> QED BY <2>1, <2>2, <2>3
<1>6. StandsRight(u)' /\ Names(base[u], Len(log))'
  BY <1>1 DEF LoadRow, StandsRight, Stage
<1>7. SeesItsRows(u)'
  BY <1>1, QuietRows
<1> QED BY <1>4, <1>5, <1>6, <1>7

LEMMA LoadMessagesSound ==
    ASSUME AgentsInv, NEW u \in Turns, LoadMessages(u)
    PROVE  Typed' /\ Sound(u)'
<1> USE DEF AgentsInv, Typed, LogTyped, PlaceTyped, MindTyped, Sound
<1> DEFINE count == Min({saw[u].count, Len(Visible)})
           tail == SubSeq(Visible, count + 1, Len(Visible))
           known == [saw[u] EXCEPT !.count = count, !.tail = tail]
<1>1. /\ pc[u] = "list" /\ pc'[u] = "judge" /\ log' = log
      /\ saw' = [saw EXCEPT ![u] = known] /\ base' = [base EXCEPT ![u] = known]
  BY DEF LoadMessages, Goto, shared
<1>2. /\ saw[u] \in Known /\ saw[u].count \in Nat /\ saw[u].told \in SUBSET Nat /\ saw[u].told \subseteq 1 .. Len(log)
      /\ Len(log) \in Nat
  BY DEF Known, Names
<1>3. /\ Visible \in Seq(Nat) /\ Rising(Visible) /\ Len(Visible) <= Len(log) /\ Len(Visible) \in Nat
      /\ \A m \in 1 .. Len(Visible) : Visible[m] \in 1 .. Len(log)
  BY VisibleIs
<1>4. count \in 0 .. Len(Visible)
  <2>1. count = IF saw[u].count <= Len(Visible) THEN saw[u].count ELSE Len(Visible)
    BY <1>2, <1>3, MinOfTwo
  <2> HIDE DEF count
  <2> QED BY <1>2, <1>3, <2>1
<1> HIDE DEF count
<1>5. tail \in Seq(Nat) /\ Len(tail) = Len(Visible) - count /\ Rising(tail) /\ \A m \in 1 .. Len(tail) : tail[m] \in 1 .. Len(log)
  <2> DEFINE all == [count |-> 0, told |-> {}, tail |-> Visible]
  <2>0. all.count = 0 /\ all.told = {} /\ all.tail = Visible
    OBVIOUS
  <2>1. all \in Known /\ Names(all, Len(log)) /\ all.tail = Visible
    <3>1. all \in Known
      BY <1>3 DEF Known
    <3> HIDE DEF all
    <3> QED BY <1>2, <1>3, <2>0, <3>1 DEF Names
  <2> HIDE DEF all
  <2>2. tail = TailFrom(all.tail, count) /\ count \in 0 .. Len(all.tail)
    BY <1>4, <2>1 DEF TailFrom
  <2> HIDE DEF tail
  <2> DEFINE f == [count |-> all.count + count, told |-> all.told \cup {all.tail[i] : i \in 1 .. count},
                   tail |-> TailFrom(all.tail, count)]
  <2>3. f \in Known /\ Names(f, Len(log)) /\ Len(f.tail) = Len(all.tail) - count
    BY <1>2, <2>1, <2>2, FoldedNames
  <2>4. f.tail = tail
    BY <2>2
  <2> HIDE DEF f
  <2> QED BY <2>1, <2>3, <2>4 DEF Known, Names
<1> HIDE DEF tail
<1>6. known.count = count /\ known.tail = tail /\ known.told = saw[u].told /\ known \in Known
  <2>1. known = [count |-> count, told |-> saw[u].told, tail |-> tail]
    <3>1. DOMAIN saw[u] = {"count", "told", "tail"}
      BY <1>2 DEF Known
    <3>2. DOMAIN known = {"count", "told", "tail"} /\ known.count = count /\ known.tail = tail /\ known.told = saw[u].told
      BY <3>1
    <3>3. known = [f \in DOMAIN known |-> known[f]]
      OBVIOUS
    <3> HIDE DEF known
    <3> QED BY <3>2, <3>3
  <2>2. count \in Nat
    BY <1>3, <1>4
  <2> QED BY <1>2, <1>5, <2>1, <2>2 DEF Known
<1> HIDE DEF known
<1>7. Names(known, Len(log))
  BY <1>2, <1>3, <1>4, <1>5, <1>6 DEF Names
<1>8. /\ saw' \in [Turns -> Known] /\ base' \in [Turns -> Known]
      /\ Names(saw[u], Len(log))' /\ Names(base[u], Len(log))'
  BY <1>1, <1>6, <1>7
<1>9. Typed'
  <2>1. LogTyped'
    BY DEF LoadMessages, shared, setting
  <2>2. PlaceTyped'
    BY DEF LoadMessages, Goto, Steps
  <2>3. MindTyped'
    BY <1>8 DEF LoadMessages
  <2> QED BY <2>1, <2>2, <2>3
<1>10. StandsRight(u)'
  BY <1>1 DEF StandsRight, Stage
<1>11. SeesItsRows(u)'
  BY <1>1, QuietRows
<1> QED BY <1>8, <1>9, <1>10, <1>11

LEMMA JudgeSound ==
    ASSUME AgentsInv, NEW u \in Turns, Judge(u)
    PROVE  Typed' /\ Sound(u)'
<1> USE DEF AgentsInv, Typed, LogTyped, PlaceTyped, MindTyped, Sound
<1>1. /\ pc[u] = "judge" /\ pc'[u] \in {"save", "ensure", "done"} /\ log' = log
      /\ pc'[u] = "ensure" => phase[u] = "before"
  BY DEF Judge, LeaveShortening, Goto, shared
<1>2. saw' = saw \/ saw' = [saw EXCEPT ![u] = base[u]]
  BY DEF Judge
<1>3. saw' \in [Turns -> Known] /\ Names(saw[u], Len(log))' /\ Names(base[u], Len(log))'
  BY <1>1, <1>2 DEF Judge
<1>4. Typed'
  <2>1. LogTyped'
    BY DEF Judge, shared, setting
  <2>2. PlaceTyped'
    BY DEF Judge, LeaveShortening, Goto, Steps
  <2>3. MindTyped'
    BY <1>3 DEF Judge
  <2> QED BY <2>1, <2>2, <2>3
<1>5. StandsRight(u)'
  BY <1>1 DEF Judge, StandsRight, Stage
<1>6. SeesItsRows(u)'
  BY <1>1, QuietRows
<1> QED BY <1>3, <1>4, <1>5, <1>6

LEMMA SaveSound ==
    ASSUME AgentsInv, NEW u \in Turns, Save(u)
    PROVE  Typed' /\ Sound(u)'
<1> USE DEF AgentsInv, Typed, LogTyped, PlaceTyped, MindTyped, Sound
<1> DEFINE f == Folded(u)
<1>1. /\ pc[u] = "save" /\ pc'[u] \in {"judge", "ensure", "done"} /\ log' = log
      /\ pc'[u] = "ensure" => phase[u] = "before"
  BY DEF Save, LeaveShortening, Goto
<1>2. f \in Known /\ Names(f, Len(log))
  <2>1. Prefix(u) \in 0 .. Len(saw[u].tail) /\ saw[u] \in Known /\ Names(saw[u], Len(log)) /\ Len(log) \in Nat
    BY PrefixFits
  <2> QED BY <2>1, FoldedNames DEF Folded, FoldedTo
<1> HIDE DEF f
<1>3. saw' = [saw EXCEPT ![u] = f] \/ saw' = [saw EXCEPT ![u] = base[u]]
  BY DEF Save, f
<1>4. saw' \in [Turns -> Known] /\ Names(saw[u], Len(log))' /\ Names(base[u], Len(log))'
  BY <1>1, <1>2, <1>3 DEF Save
<1>5. thread' = thread \/ thread' = [thread EXCEPT !.count = f.count, !.told = f.told]
  BY DEF Save, f
<1>6. thread' \in Thread /\ thread'.count <= Len(log') /\ thread'.told \subseteq DOMAIN log'
  <2>1. f.count \in Nat /\ f.told \in SUBSET Nat /\ f.count <= Len(log) /\ f.told \subseteq 1 .. Len(log)
    <3>1. f.count \in Nat /\ f.told \in SUBSET Nat /\ Len(f.tail) \in Nat /\ Len(log) \in Nat
      BY <1>2 DEF Known
    <3> QED BY <1>2, <3>1 DEF Names
  <2>2. CASE thread' = thread
    BY <1>1, <2>2
  <2>3. CASE thread' = [thread EXCEPT !.count = f.count, !.told = f.told]
    <3>1. thread' = [exists |-> thread.exists, count |-> f.count, told |-> f.told] /\ thread.exists \in BOOLEAN
      BY <2>3 DEF Thread
    <3>2. thread'.count = f.count /\ thread'.told = f.told /\ thread' \in Thread
      BY <2>1, <3>1 DEF Thread
    <3> QED BY <1>1, <2>1, <3>2
  <2> QED BY <1>5, <2>2, <2>3
<1>7. Typed'
  <2>1. LogTyped'
    BY <1>1, <1>6 DEF Save, setting
  <2>2. PlaceTyped'
    BY DEF Save, LeaveShortening, Goto, Steps
  <2>3. MindTyped'
    BY <1>4 DEF Save
  <2> QED BY <2>1, <2>2, <2>3
<1>8. StandsRight(u)'
  BY <1>1 DEF Save, StandsRight, Stage
<1>9. SeesItsRows(u)'
  BY <1>1, QuietRows
<1> QED BY <1>4, <1>7, <1>8, <1>9

\* The steps that ask for the thread or the model.
LEMMA AskingSound ==
    ASSUME AgentsInv, NEW u \in Turns, Ensure(u) \/ ModelAnswers(u) \/ ModelCalls(u)
    PROVE  Typed' /\ Sound(u)'
<1> USE DEF AgentsInv, Typed, LogTyped, PlaceTyped, MindTyped, Sound
<1>1. CASE Ensure(u)
  <2>1. pc[u] = "ensure" /\ pc'[u] \in {"question", "done"} /\ log' = log /\ phase[u] = "before"
    BY <1>1 DEF Ensure, Goto, End, shared, StandsRight
  <2>2. LogTyped' /\ MindTyped'
    BY <1>1 DEF Ensure, shared, setting
  <2>3. PlaceTyped'
    BY <1>1 DEF Ensure, Goto, End, Steps
  <2>4. StandsRight(u)'
    BY <1>1, <2>1 DEF Ensure, StandsRight, Stage
  <2>5. Names(saw[u], Len(log))' /\ Names(base[u], Len(log))'
    BY <1>1, <2>1 DEF Ensure
  <2> QED BY <2>1, <2>2, <2>3, <2>4, <2>5, QuietRows
<1>2. CASE ModelAnswers(u)
  <2>1. /\ pc[u] = "model" /\ log' = log
        /\ \/ pc'[u] \in {"answer", "row"} /\ phase'[u] = "after"
           \/ pc'[u] = "done"
    BY <1>2 DEF ModelAnswers, Conclude, Goto, End, shared
  <2>2. LogTyped' /\ MindTyped'
    BY <1>2 DEF ModelAnswers, shared, setting
  <2>3. PlaceTyped'
    BY <1>2 DEF ModelAnswers, Conclude, Goto, End, Steps
  <2>4. StandsRight(u)'
    BY <1>2, <2>1 DEF ModelAnswers, StandsRight, Stage
  <2>5. Names(saw[u], Len(log))' /\ Names(base[u], Len(log))'
    BY <1>2, <2>1 DEF ModelAnswers
  <2> QED BY <2>1, <2>2, <2>3, <2>4, <2>5, QuietRows
<1>3. CASE ModelCalls(u)
  <2>1. /\ pc[u] = "model" /\ pc'[u] \in {"call", "done"} /\ log' = log /\ phase[u] = "before"
        /\ \/ tools' = tools /\ pc'[u] = "done"
           \/ \E n \in 1 .. MaxCalls :
                 RoundLeft(u) /\ tools' = [tools EXCEPT ![u] = [left |-> n, round |-> @.round + 1, open |-> <<>>]]
    BY <1>3 DEF ModelCalls, Goto, End, shared, StandsRight
  <2>2. tools' \in [Turns -> Calls] /\ (pc'[u] = "call" => tools'[u].left # 0)
    <3>1. CASE tools' = tools /\ pc'[u] = "done"
      BY <3>1
    <3>2. ASSUME NEW n \in 1 .. MaxCalls, RoundLeft(u),
                 tools' = [tools EXCEPT ![u] = [left |-> n, round |-> @.round + 1, open |-> <<>>]]
          PROVE  tools' \in [Turns -> Calls] /\ tools'[u].left # 0
      <4> DEFINE new == [left |-> n, round |-> tools[u].round + 1, open |-> <<>>]
      <4>1. tools[u].round \in 0 .. MaxRounds /\ tools[u].round < MaxRounds
        BY <3>2 DEF RoundLeft, Calls
      <4>2. new \in Calls /\ new.left # 0
        BY <4>1, ConstantsAssumption DEF Calls
      <4> HIDE DEF new
      <4>3. tools' = [tools EXCEPT ![u] = new]
        BY <3>2 DEF new
      <4> QED BY <4>2, <4>3
    <3> QED BY <2>1, <3>1, <3>2
  <2>3. LogTyped' /\ MindTyped'
    BY <1>3, <2>2 DEF ModelCalls, shared, setting
  <2>4. PlaceTyped'
    BY <1>3 DEF ModelCalls, Goto, End, Steps
  <2>5. StandsRight(u)'
    BY <1>3, <2>1, <2>2 DEF ModelCalls, StandsRight, Stage
  <2>6. Names(saw[u], Len(log))' /\ Names(base[u], Len(log))'
    BY <1>3, <2>1 DEF ModelCalls
  <2> QED BY <2>1, <2>3, <2>4, <2>5, <2>6, QuietRows
<1> QED BY <1>1, <1>2, <1>3

\* What a step that writes a row does to the rest.
LEMMA GrownLog ==
    ASSUME AgentsInv, NEW u \in Turns, LogStep(u), thread' = thread, late' = late, UNCHANGED setting, saw' = saw, base' = base
    PROVE  LogTyped' /\ Names(saw[u], Len(log))' /\ Names(base[u], Len(log))'
<1> USE DEF AgentsInv, Typed, LogTyped, PlaceTyped, MindTyped, Sound
<1>1. log' \in Seq(MessageRow) /\ Len(log) <= Len(log') /\ \A i \in DOMAIN log : i \in DOMAIN log'
  BY LogGrows DEF Keeps
<1>2. Len(log) \in Nat /\ Len(log') \in Nat /\ thread.count \in Nat
  BY <1>1 DEF Thread
<1>3. LogTyped'
  <2>1. thread.count <= Len(log')
    BY <1>1, <1>2
  <2>2. thread.told \subseteq DOMAIN log' /\ late \subseteq DOMAIN log'
    BY <1>1
  <2> QED BY <1>1, <2>1, <2>2 DEF setting
<1>4. saw[u] \in Known /\ base[u] \in Known /\ Names(saw[u], Len(log)) /\ Names(base[u], Len(log))
  OBVIOUS
<1>5. Names(saw[u], Len(log')) /\ Names(base[u], Len(log'))
  BY <1>1, <1>2, <1>4, NamesGrow
<1> QED BY <1>3, <1>5

LEMMA QueuesOfPlaces ==
    \A s \in Seq(Nat) :
       /\ Len(s) \in Nat /\ \A n \in Nat : Append(s, n) \in Seq(Nat) /\ Append(s, n) # <<>>
       /\ s # <<>> => Head(s) \in Nat /\ Tail(s) \in Seq(Nat) /\ (Tail(s) = <<>> => Len(s) = 1)
<1> TAKE s \in Seq(Nat)
<1>1. Len(s) \in Nat /\ Len(<<>>) = 0
  OBVIOUS
<1>2. ASSUME NEW n \in Nat
      PROVE  Append(s, n) \in Seq(Nat) /\ Append(s, n) # <<>>
  <2>1. Append(s, n) \in Seq(Nat) /\ Len(Append(s, n)) = Len(s) + 1
    OBVIOUS
  <2>2. Len(Append(s, n)) # Len(<<>>)
    BY <1>1, <2>1
  <2> QED BY <2>1, <2>2, Zenon
<1>3. CASE s # <<>>
  <2>1. Head(s) \in Nat /\ Tail(s) \in Seq(Nat) /\ Len(Tail(s)) = Len(s) - 1
    BY <1>3
  <2>2. Tail(s) = <<>> => Len(Tail(s)) = Len(<<>>)
    BY Zenon
  <2> QED BY <1>1, <2>1, <2>2
<1> QED BY <1>1, <1>2, <1>3

LEMMA StoreQuestionSound ==
    ASSUME AgentsInv, NEW u \in Turns, StoreQuestion(u)
    PROVE  Typed' /\ Sound(u)'
<1> USE DEF AgentsInv, Typed, LogTyped, PlaceTyped, MindTyped, Sound
<1>1. /\ pc[u] = "question" /\ phase[u] = "before" /\ Write(u, "user", 0, "model")
      /\ sent' = [sent EXCEPT ![u] = Append(KeptOf(saw[u].tail), Len(log) + 1)]
  BY DEF StoreQuestion, StandsRight
<1>2. "user" \in Roles /\ "model" \in Steps \ {"commit", "done"}
  BY DEF Roles, Steps
<1>3. LogStep(u)
  BY StepsOfTheLog DEF Proceed
<1>4. LogTyped' /\ Names(saw[u], Len(log))' /\ Names(base[u], Len(log))'
  BY <1>3, GrownLog DEF StoreQuestion
<1>5. /\ PlaceTyped' /\ SeesItsRows(u)'
      /\ pc'[u] \in {"model", "done"} \/ (pc'[u] = "commit" /\ after'[u] = "model")
  <2>1. pc[u] \notin {"commit", "done"} /\ 0 \in Nat
    BY <1>1
  <2>2. /\ pc' \in [Turns -> Steps] /\ after' \in [Turns -> Steps]
        /\ result' \in [Turns -> {"none", "answered", "empty", "failed", "abandoned"}]
        /\ pc'[u] \in {"model", "done"} \/ (pc'[u] = "commit" /\ after'[u] = "model")
    BY <1>1, <1>2, <2>1, Written
  <2>3. SeesItsRows(u)'
    BY <1>1, <1>2, <2>1, Written
  <2> QED BY <2>2, <2>3 DEF StoreQuestion
<1>6. sent' \in [Turns -> Seq(Nat)]
  <2>1. saw[u].tail \in Seq(Nat) /\ Len(log) + 1 \in Nat
    BY DEF Known
  <2>2. KeptOf(saw[u].tail) \in Seq(Nat)
    BY <2>1, KeptIs
  <2>3. Append(KeptOf(saw[u].tail), Len(log) + 1) \in Seq(Nat)
    BY <2>1, <2>2
  <2> QED BY <1>1, <2>3
<1>7. MindTyped'
  BY <1>6 DEF StoreQuestion
<1>8. StandsRight(u)'
  BY <1>1, <1>5 DEF StoreQuestion, StandsRight, Stage
<1> QED BY <1>4, <1>5, <1>7, <1>8

LEMMA StoreAnswerSound ==
    ASSUME AgentsInv, NEW u \in Turns, StoreAnswer(u)
    PROVE  Typed' /\ Sound(u)'
<1> USE DEF AgentsInv, Typed, LogTyped, PlaceTyped, MindTyped, Sound
<1>1. pc[u] = "answer" /\ phase[u] = "after" /\ Write(u, "assistant", 0, "row")
  BY DEF StoreAnswer, StandsRight
<1>2. "assistant" \in Roles /\ "row" \in Steps \ {"commit", "done"}
  BY DEF Roles, Steps
<1>3. LogStep(u)
  BY StepsOfTheLog DEF Proceed
<1>4. LogTyped' /\ Names(saw[u], Len(log))' /\ Names(base[u], Len(log))'
  BY <1>3, GrownLog DEF StoreAnswer
<1>5. /\ PlaceTyped' /\ SeesItsRows(u)'
      /\ pc'[u] \in {"row", "done"} \/ (pc'[u] = "commit" /\ after'[u] = "row")
  BY <1>1, <1>2, Written DEF StoreAnswer
<1>6. MindTyped'
  BY DEF StoreAnswer
<1>7. StandsRight(u)'
  BY <1>1, <1>5 DEF StoreAnswer, StandsRight, Stage
<1> QED BY <1>4, <1>5, <1>6, <1>7

LEMMA StoreCallSound ==
    ASSUME AgentsInv, NEW u \in Turns, StoreCall(u)
    PROVE  Typed' /\ Sound(u)'
<1> USE DEF AgentsInv, Typed, LogTyped, PlaceTyped, MindTyped, Sound
<1> DEFINE then == IF tools[u].left = 1 THEN "invoke" ELSE "call"
           new == [tools[u] EXCEPT !.left = @ - 1, !.open = Append(@, Len(log) + 1)]
<1>1. /\ pc[u] = "call" /\ phase[u] = "before" /\ Write(u, "call", Len(log) + 1, then)
      /\ sent' = [sent EXCEPT ![u] = Append(@, Len(log) + 1)]
      /\ tools[u].left # 0
  BY DEF StoreCall, StandsRight, Stage
<1>2. "call" \in Roles /\ then \in Steps \ {"commit", "done"} /\ Len(log) + 1 \in Nat
  BY DEF Roles, Steps
<1>3. LogStep(u)
  BY StepsOfTheLog DEF Proceed
<1>4. LogTyped' /\ Names(saw[u], Len(log))' /\ Names(base[u], Len(log))'
  BY <1>3, GrownLog DEF StoreCall
<1>5. /\ PlaceTyped' /\ SeesItsRows(u)'
      /\ pc'[u] \in {then, "done"} \/ (pc'[u] = "commit" /\ after'[u] = then)
  <2> DEFINE place == Len(log) + 1
  <2>1. then \in Steps \ {"commit", "done"} /\ place \in Nat /\ "call" \in Roles /\ Write(u, "call", place, then)
    BY <1>1, <1>2
  <2>2. pc[u] \notin {"commit", "done"}
    BY <1>1
  <2> HIDE DEF then, place
  <2>3. /\ pc' \in [Turns -> Steps] /\ after' \in [Turns -> Steps]
        /\ result' \in [Turns -> {"none", "answered", "empty", "failed", "abandoned"}]
        /\ pc'[u] \in {then, "done"} \/ (pc'[u] = "commit" /\ after'[u] = then)
    BY <2>1, <2>2, Written
  <2>4. SeesItsRows(u)'
    BY <2>1, <2>2, Written
  <2> QED BY <2>3, <2>4 DEF StoreCall
<1>6. sent' \in [Turns -> Seq(Nat)]
  <2>1. Append(sent[u], Len(log) + 1) \in Seq(Nat)
    BY <1>2
  <2> QED BY <1>1, <2>1
<1>7. tools' \in [Turns -> Calls] /\ (tools'[u].left = 0 => tools[u].left = 1) /\ tools'[u].open # <<>>
  <2>1. tools[u].left \in Nat /\ tools[u].round \in 0 .. MaxRounds /\ tools[u].open \in Seq(Nat)
    BY DEF Calls
  <2>2. /\ new.left = tools[u].left - 1 /\ new.open = Append(tools[u].open, Len(log) + 1) /\ new.round = tools[u].round
        /\ DOMAIN new = {"left", "round", "open"} /\ new = [f \in DOMAIN new |-> new[f]]
    BY DEF Calls
  <2>3. tools' = [tools EXCEPT ![u] = new]
    BY DEF StoreCall
  <2>4. new.left \in Nat /\ new.open \in Seq(Nat) /\ new.open # <<>> /\ (new.left = 0 => tools[u].left = 1)
    <3> HIDE DEF new
    <3>1. Append(tools[u].open, Len(log) + 1) \in Seq(Nat) /\ Append(tools[u].open, Len(log) + 1) # <<>>
      BY <1>2, <2>1, QueuesOfPlaces
    <3> QED BY <1>1, <2>1, <2>2, <3>1
  <2> HIDE DEF new
  <2>5. new \in Calls
    BY <2>1, <2>2, <2>4 DEF Calls
  <2>6. tools' \in [Turns -> Calls] /\ tools'[u] = new
    BY <2>3, <2>5
  <2> QED BY <2>4, <2>6
<1>8. MindTyped'
  BY <1>6, <1>7 DEF StoreCall
<1>9. StandsRight(u)'
  BY <1>1, <1>5, <1>7 DEF StoreCall, StandsRight, Stage
<1> QED BY <1>4, <1>5, <1>8, <1>9

LEMMA InvokeSound ==
    ASSUME AgentsInv, NEW u \in Turns, Invoke(u)
    PROVE  Typed' /\ Sound(u)'
<1> USE DEF AgentsInv, Typed, LogTyped, PlaceTyped, MindTyped, Sound
<1> DEFINE open == tools[u].open
           then == IF Len(open) = 1 THEN "model" ELSE "invoke"
           new == [tools[u] EXCEPT !.open = Tail(@)]
<1>1. pc[u] = "invoke" /\ phase[u] = "before" /\ open # <<>> /\ open \in Seq(Nat)
  BY DEF Invoke, StandsRight, Stage, Calls
<1>2. "result" \in Roles /\ then \in Steps \ {"commit", "done"} /\ Head(open) \in Nat /\ Len(log) + 1 \in Nat
  BY <1>1 DEF Roles, Steps
<1>3. LogStep(u)
  BY StepsOfTheLog DEF Proceed
<1>4. LogTyped' /\ Names(saw[u], Len(log))' /\ Names(base[u], Len(log))'
  BY <1>3, GrownLog DEF Invoke
<1>5. CASE /\ Write(u, "result", Head(open), then) /\ tools' = [tools EXCEPT ![u].open = Tail(@)]
           /\ sent' = [sent EXCEPT ![u] = Append(@, Len(log) + 1)]
  <2>1. /\ PlaceTyped' /\ SeesItsRows(u)'
        /\ pc'[u] \in {then, "done"} \/ (pc'[u] = "commit" /\ after'[u] = then)
    <3> DEFINE asked == Head(open)
    <3>1. then \in Steps \ {"commit", "done"} /\ asked \in Nat /\ "result" \in Roles /\ Write(u, "result", asked, then)
      BY <1>2, <1>5
    <3>2. pc[u] \notin {"commit", "done"}
      BY <1>1
    <3> HIDE DEF then, asked
    <3>3. /\ pc' \in [Turns -> Steps] /\ after' \in [Turns -> Steps]
          /\ result' \in [Turns -> {"none", "answered", "empty", "failed", "abandoned"}]
          /\ pc'[u] \in {then, "done"} \/ (pc'[u] = "commit" /\ after'[u] = then)
      BY <3>1, <3>2, Written
    <3>4. SeesItsRows(u)'
      BY <3>1, <3>2, Written
    <3> QED BY <3>3, <3>4 DEF Invoke
  <2>2. sent' \in [Turns -> Seq(Nat)]
    <3>1. Append(sent[u], Len(log) + 1) \in Seq(Nat)
      BY <1>2
    <3> QED BY <1>5, <3>1
  <2>3. tools' \in [Turns -> Calls] /\ (tools'[u].open = <<>> => Len(open) = 1)
    <3>1. /\ new.open = Tail(open) /\ new.round = tools[u].round /\ new.left = tools[u].left
          /\ DOMAIN new = {"left", "round", "open"} /\ new = [f \in DOMAIN new |-> new[f]]
      BY DEF Calls
    <3>2. tools[u].left \in Nat /\ tools[u].round \in 0 .. MaxRounds
      BY DEF Calls
    <3>3. tools' = [tools EXCEPT ![u] = new]
      BY <1>5
    <3> HIDE DEF new
    <3>4. Tail(open) \in Seq(Nat) /\ (Tail(open) = <<>> => Len(open) = 1)
      BY <1>1, QueuesOfPlaces
    <3> HIDE DEF open
    <3>5. new \in Calls
      BY <3>1, <3>2, <3>4 DEF Calls
    <3>6. tools' \in [Turns -> Calls] /\ tools'[u] = new
      BY <3>3, <3>5
    <3> QED BY <3>1, <3>4, <3>6
  <2>4. MindTyped'
    BY <2>2, <2>3 DEF Invoke
  <2>5. StandsRight(u)'
    BY <1>1, <2>1, <2>3 DEF Invoke, StandsRight, Stage
  <2> QED BY <1>4, <2>1, <2>4, <2>5
<1>6. CASE End(u, "failed") /\ UNCHANGED <<log, tools, sent, after>>
  <2>1. pc'[u] = "done" /\ log' = log
    BY <1>6 DEF End, Goto
  <2>2. PlaceTyped'
    BY <1>6 DEF Invoke, End, Goto, Steps
  <2>3. MindTyped'
    BY <1>6 DEF Invoke
  <2>4. StandsRight(u)'
    BY <1>6, <2>1 DEF Invoke, StandsRight, Stage
  <2>5. SeesItsRows(u)'
    BY <1>1, <2>1, QuietRows
  <2> QED BY <1>4, <2>2, <2>3, <2>4, <2>5
<1> QED BY <1>5, <1>6 DEF Invoke

LEMMA CommitSound ==
    ASSUME AgentsInv, NEW u \in Turns, Commit(u)
    PROVE  Typed' /\ Sound(u)'
<1> USE DEF AgentsInv, Typed, LogTyped, PlaceTyped, MindTyped, Sound
<1>1. pc[u] = "commit" /\ saw' = saw /\ base' = base /\ thread' = thread
  BY DEF Commit
<1>2. LogStep(u)
  BY StepsOfTheLog DEF Proceed
<1>3. CASE ~thread.exists
  <2>1. pc'[u] = "done" /\ log' = log /\ late' = late
    BY <1>3 DEF Commit, End, Goto
  <2>2. LogTyped' /\ Names(saw[u], Len(log))' /\ Names(base[u], Len(log))'
    BY <1>2, <2>1, GrownLog DEF Commit
  <2>3. PlaceTyped'
    BY <1>3 DEF Commit, End, Goto, Steps
  <2>4. MindTyped'
    BY DEF Commit
  <2>5. StandsRight(u)' /\ SeesItsRows(u)'
    BY <2>1 DEF StandsRight, SeesItsRows, Stage
  <2> QED BY <2>2, <2>3, <2>4, <2>5
<1>4. CASE thread.exists
  <2> DEFINE i == MineUnseen(u)
  <2>1. i \in DOMAIN log /\ \A j \in DOMAIN log : Unseen(u, j) => j = i
    BY <1>1, UnseenRow DEF Unseen
  <2>2. /\ log' = [log EXCEPT ![i].shown = TRUE]
        /\ late' = late \cup {j \in {i} : \E k \in i + 1 .. Len(log) : log[k].shown}
        /\ pc' = [pc EXCEPT ![u] = after[u]] /\ result' = result
    BY <1>4 DEF Commit, Goto
  <2> HIDE DEF i
  <2>3. /\ log' \in Seq(MessageRow) /\ DOMAIN log' = DOMAIN log /\ Len(log') = Len(log)
        /\ log'[i].shown /\ \A j \in DOMAIN log : j # i => log'[j] = log[j]
    <3>1. log' \in Seq(MessageRow)
      BY <1>2, LogGrows
    <3>2. DOMAIN log' = DOMAIN log /\ Len(log') = Len(log) /\ \A j \in DOMAIN log : j # i => log'[j] = log[j]
      BY <2>1, <2>2
    <3>3. log'[i] = [log[i] EXCEPT !.shown = TRUE] /\ log[i] \in MessageRow
      BY <2>1, <2>2
    <3> QED BY <3>1, <3>2, <3>3, SeeingARow
  <2>4. LogTyped'
    BY <1>1, <2>1, <2>2, <2>3 DEF Commit, setting
  <2>5. PlaceTyped'
    BY <2>2 DEF Commit
  <2>6. MindTyped'
    BY DEF Commit
  <2>7. pc'[u] = after[u] /\ after[u] \notin {"commit", "done"} /\ phase' = phase /\ tools' = tools
    BY <1>1, <2>2 DEF Commit, StandsRight
  <2>8. StandsRight(u)'
    BY <1>1, <2>7 DEF StandsRight, Stage
  <2>9. SeesItsRows(u)'
    <3>1. \A j \in DOMAIN log' : ~Unseen(u, j)'
      <4> TAKE j \in DOMAIN log'
      <4>1. CASE j = i
        BY <2>3, <4>1 DEF Unseen
      <4>2. CASE j # i
        BY <2>1, <2>3, <4>2, Zenon DEF Unseen
      <4> QED BY <4>1, <4>2
    <3> QED BY <2>7, <3>1 DEF SeesItsRows
  <2>10. Names(saw[u], Len(log))' /\ Names(base[u], Len(log))'
    BY <1>1, <2>3
  <2> QED BY <2>4, <2>5, <2>6, <2>8, <2>9, <2>10
<1> QED BY <1>3, <1>4

LEMMA AbandonSound ==
    ASSUME AgentsInv, NEW u \in Turns, Abandon(u)
    PROVE  Typed' /\ Sound(u)'
<1> USE DEF AgentsInv, Typed, LogTyped, PlaceTyped, MindTyped, Sound
<1>1. pc'[u] = "done" /\ log' = log /\ saw' = saw /\ base' = base
  BY DEF Abandon, End, Goto, shared
<1>2. LogTyped' /\ MindTyped'
  BY DEF Abandon, shared, setting
<1>3. PlaceTyped'
  BY DEF Abandon, End, Goto, Steps
<1>4. StandsRight(u)' /\ SeesItsRows(u)'
  BY <1>1 DEF StandsRight, SeesItsRows, Stage
<1>5. Names(saw[u], Len(log))' /\ Names(base[u], Len(log))'
  BY <1>1
<1> QED BY <1>2, <1>3, <1>4, <1>5

LEMMA DeleteSound ==
    ASSUME AgentsInv, DeleteThread \/ UNCHANGED vars
    PROVE  AgentsInv'
<1> USE DEF AgentsInv, Typed, LogTyped, PlaceTyped, MindTyped, Sound
<1>1. /\ log' = log /\ late' = late /\ UNCHANGED local
      /\ thread' = thread \/ thread' = [thread EXCEPT !.exists = FALSE]
  BY DEF DeleteThread, vars, shared
<1>2. thread' \in Thread /\ thread'.count = thread.count /\ thread'.told = thread.told
  BY <1>1 DEF Thread
<1>3. LogTyped'
  BY <1>1, <1>2 DEF local, setting
<1>4. PlaceTyped' /\ MindTyped'
  BY <1>1 DEF local
<1>5. ASSUME NEW t \in Turns PROVE Sound(t)'
  <2>1. Sound(t)
    OBVIOUS
  <2> QED BY <1>1, <2>1 DEF local, StandsRight, Stage, SeesItsRows, Unseen
<1> QED BY <1>3, <1>4, <1>5

LEMMA AgentsInvStep == AgentsInv /\ [Next]_vars => AgentsInv'
<1> SUFFICES ASSUME AgentsInv, [Next]_vars PROVE AgentsInv'
  OBVIOUS
<1>1. ASSUME NEW u \in Turns, Proceed(u) \/ Abandon(u)
      PROVE  AgentsInv'
  <2>1. Typed' /\ Sound(u)'
    BY <1>1, LoadRowSound, LoadMessagesSound, JudgeSound, SaveSound, AskingSound, StoreQuestionSound, StoreAnswerSound,
       StoreCallSound, InvokeSound, CommitSound, AbandonSound DEF Proceed
  <2>2. \A t \in Turns : t # u => Sound(t)'
    BY <1>1, OthersStand
  <2> QED BY <2>1, <2>2 DEF AgentsInv
<1>2. CASE DeleteThread \/ UNCHANGED vars
  BY <1>2, DeleteSound
<1> QED BY <1>1, <1>2 DEF Next

LEMMA TypesFollow == AgentsInv => TypeOK
BY DEF AgentsInv, Typed, LogTyped, PlaceTyped, MindTyped, TypeOK, MessageRow, Thread, Calls

\* Everything has its type: turns, what they know and send, and every message.
THEOREM Types == Spec => []TypeOK
<1>1. Init => AgentsInv
  BY StartSound
<1>2. AgentsInv /\ [Next]_vars => AgentsInv'
  BY AgentsInvStep
<1> QED BY <1>1, <1>2, TypesFollow, PTL DEF Spec

-----------------------------------------------------------------------------
(* A refresh shortens the tail.                                            *)

FoldsInv == \A t \in Turns : FoldsSome(t)

\* Other turns change nothing a split looks at.
LEMMA FoldingStays ==
    ASSUME AgentsInv, NEW u \in Turns, LogStep(u), NEW t \in Turns, saw'[t] = saw[t], phase'[t] = phase[t]
    PROVE  Prefix(t)' = 0 <=> Prefix(t) = 0
<1> DEFINE ids == saw[t].tail
           summarized == saw[t].told # {}
           a == [n \in 1 .. Len(ids) |-> log[ids[n]]]
           b == [n \in 1 .. Len(ids) |-> log'[ids[n]]]
<1>1. Prefix(t) = PrefixLength(a, summarized, Pending(t)) /\ Prefix(t)' = PrefixLength(b, summarized, Pending(t))
  BY DEF Prefix, Texts, Pending
<1>2. /\ ids \in Seq(Nat) /\ \A m \in 1 .. Len(ids) : ids[m] \in DOMAIN log
      /\ log \in Seq(MessageRow) /\ summarized \in BOOLEAN
  <2>1. log \in Seq(MessageRow) /\ saw[t] \in Known /\ Names(saw[t], Len(log))
    BY DEF AgentsInv, Typed, LogTyped, MindTyped, Sound
  <2>2. DOMAIN log = 1 .. Len(log)
    BY <2>1
  <2> QED BY <2>1, <2>2 DEF Known, Names
<1> HIDE DEF ids, summarized
<1>3. log' \in Seq(MessageRow) /\ \A i \in DOMAIN log : i \in DOMAIN log' /\ log'[i].size = log[i].size
  BY LogGrows DEF Keeps
<1>4. \A m \in 1 .. Len(ids) : log[ids[m]] \in Text /\ log'[ids[m]] \in Text
  BY <1>2, <1>3 DEF Text
<1> HIDE DEF Text
<1>5. /\ a \in Seq(Text) /\ Len(a) = Len(ids) /\ \A m \in 1 .. Len(ids) : a[m] = log[ids[m]]
      /\ b \in Seq(Text) /\ Len(b) = Len(ids) /\ \A m \in 1 .. Len(ids) : b[m] = log'[ids[m]]
  BY <1>2, <1>4
<1> HIDE DEF a, b
<1>6. \A m \in 1 .. Len(a) : b[m].size = a[m].size
  BY <1>2, <1>3, <1>5
<1>7. Pending(t) \in Seq(Text) /\ \A m \in Text : m.size \in Nat
  BY TextSizes
<1> QED BY <1>1, <1>2, <1>5, <1>6, <1>7, ZeroAgrees

LEMMA FoldsStep == AgentsInv /\ FoldsInv /\ [Next]_vars => FoldsInv'
<1> SUFFICES ASSUME AgentsInv, FoldsInv, [Next]_vars, NEW t \in Turns PROVE FoldsSome(t)'
  BY DEF FoldsInv
<1>0. FoldsSome(t) /\ pc \in [Turns -> Steps]
  BY DEF FoldsInv, AgentsInv, Typed, PlaceTyped
<1>1. ASSUME NEW u \in Turns, Proceed(u) \/ Abandon(u), t # u
      PROVE  FoldsSome(t)'
  <2>1. pc'[t] = pc[t] /\ saw'[t] = saw[t] /\ phase'[t] = phase[t] /\ LogStep(u)
    BY <1>1, Alone, StepsOfTheLog
  <2>2. Prefix(t)' = 0 <=> Prefix(t) = 0
    BY <2>1, FoldingStays
  <2> QED BY <1>0, <2>1, <2>2 DEF FoldsSome
<1>2. CASE Judge(t)
  <2>1. pc'[t] = "save" => Prefix(t) # 0 /\ saw' = saw /\ log' = log /\ phase' = phase
    BY <1>0, <1>2 DEF Judge, LeaveShortening, Goto, NothingToFold, shared
  <2> QED BY <2>1 DEF FoldsSome, Prefix, Texts, Pending
<1>3. CASE (Proceed(t) /\ ~Judge(t)) \/ Abandon(t)
  <2>1. CASE StoreQuestion(t) \/ StoreCall(t) \/ StoreAnswer(t) \/ Invoke(t)
    <3>1. pc'[t] # "save"
      BY <1>0, <2>1 DEF StoreQuestion, StoreCall, StoreAnswer, Invoke, Write, Goto, End
    <3> QED BY <3>1 DEF FoldsSome
  <2>2. CASE Commit(t)
    <3>1. pc'[t] # "save"
      BY <1>0, <2>2 DEF Commit, Goto, End, AgentsInv, Sound, StandsRight
    <3> QED BY <3>1 DEF FoldsSome
  <2>3. CASE LoadRow(t) \/ LoadMessages(t) \/ Save(t) \/ Ensure(t) \/ ModelAnswers(t) \/ ModelCalls(t) \/ Abandon(t)
    <3>1. pc'[t] # "save"
      BY <1>0, <2>3 DEF LoadRow, LoadMessages, Save, Ensure, ModelAnswers, ModelCalls, Conclude, Abandon, LeaveShortening, Goto, End
    <3> QED BY <3>1 DEF FoldsSome
  <2> QED BY <1>3, <2>1, <2>2, <2>3 DEF Proceed
<1>4. CASE DeleteThread \/ UNCHANGED vars
  BY <1>0, <1>4 DEF DeleteThread, vars, shared, local, FoldsSome, Prefix, Texts, Pending
<1> QED BY <1>1, <1>2, <1>3, <1>4 DEF Next

LEMMA SaveShortens ==
    ASSUME AgentsInv, NEW t \in Turns, FoldsSome(t), Save(t), pc'[t] = "judge"
    PROVE  Len(saw'[t].tail) < Len(saw[t].tail)
<1>1. pc[t] = "save" /\ saw' = [saw EXCEPT ![t] = Folded(t)]
  BY DEF Save, LeaveShortening, Goto, AgentsInv, Typed, PlaceTyped
<1>2. saw'[t] = Folded(t)
  BY <1>1 DEF AgentsInv, Typed, MindTyped
<1>3. Prefix(t) \in 1 .. Len(saw[t].tail)
  BY <1>1, PrefixFits DEF FoldsSome
<1>4. saw[t].tail \in Seq(Nat)
  BY DEF AgentsInv, Typed, MindTyped, Known
<1>5. Len(TailFrom(saw[t].tail, Prefix(t))) = Len(saw[t].tail) - Prefix(t)
  <2>1. Prefix(t) \in 0 .. Len(saw[t].tail)
    BY <1>3, PrefixFits
  <2> QED BY <1>4, <2>1, TailIs
<1>6. Folded(t).tail = TailFrom(saw[t].tail, Prefix(t))
  BY DEF Folded, FoldedTo
<1> QED BY <1>2, <1>3, <1>4, <1>5, <1>6

\* A refresh that was stored left a shorter tail: what was worth folding when
\* the model was asked still is when its answer is saved, whatever other turns
\* stored meanwhile.
THEOREM RefreshesShrink == Spec => RefreshShrinks
<1>1. Init => AgentsInv /\ FoldsInv
  <2>1. Init => FoldsInv
    BY DEF Init, FoldsInv, FoldsSome
  <2> QED BY <2>1, StartSound
<1>2. AgentsInv /\ FoldsInv /\ [Next]_vars => (AgentsInv /\ FoldsInv)'
  BY AgentsInvStep, FoldsStep
<1>3. AgentsInv /\ FoldsInv /\ [Next]_vars
         => [\A t \in Turns : pc[t] = "save" /\ pc'[t] = "judge" => Len(saw'[t].tail) < Len(saw[t].tail)]_vars
  <2> SUFFICES ASSUME AgentsInv, FoldsInv, Next, NEW t \in Turns, pc[t] = "save", pc'[t] = "judge"
               PROVE  Len(saw'[t].tail) < Len(saw[t].tail)
    OBVIOUS
  <2>0. FoldsSome(t) /\ pc \in [Turns -> Steps]
    BY DEF FoldsInv, AgentsInv, Typed, PlaceTyped
  <2>1. ASSUME NEW u \in Turns, Proceed(u) \/ Abandon(u) PROVE u = t
    BY <2>1, Alone
  <2>2. ~DeleteThread
    BY DEF DeleteThread, local
  <2>3. Proceed(t) \/ Abandon(t)
    BY <2>1, <2>2 DEF Next
  <2>4. Save(t)
    <3>1. ~Abandon(t)
      BY <2>0 DEF Abandon, End, Goto
    <3> QED BY <2>3, <3>1 DEF Proceed, LoadRow, LoadMessages, Judge, Ensure, StoreQuestion, Commit, ModelAnswers, ModelCalls,
                              StoreCall, Invoke, StoreAnswer
  <2> QED BY <2>0, <2>4, SaveShortens
<1> QED BY <1>1, <1>2, <1>3, PTL DEF Spec, RefreshShrinks

-----------------------------------------------------------------------------
(* A turn that is done has stored its answer.                              *)

StoresInv == \A t \in Turns : Stores(t)

Asked(t) == \E q \in DOMAIN log : QuestionAt(t, q)
Answers(t) == \E a \in DOMAIN log : AnswerAt(t, a) /\ log[a].shown

\* What was stored stays stored.
LEMMA StoredStays ==
    ASSUME AgentsInv, NEW u \in Turns, LogStep(u), NEW t \in Turns
    PROVE  /\ Asked(t) => Asked(t)'
           /\ \A a : AnswerAt(t, a) => AnswerAt(t, a)'
           /\ Answers(t) => Answers(t)'
<1>1. \A i \in DOMAIN log : Keeps(i)
  BY LogGrows
<1>2. \A q : QuestionAt(t, q) => QuestionAt(t, q)'
  BY <1>1 DEF QuestionAt, Keeps
<1>3. \A a : AnswerAt(t, a) => AnswerAt(t, a)'
  BY <1>1, <1>2 DEF AnswerAt, Keeps
<1>4. Asked(t) => Asked(t)'
  BY <1>1, <1>2 DEF Asked, Keeps
<1>5. Answers(t) => Answers(t)'
  BY <1>1, <1>3 DEF Answers, Keeps
<1> QED BY <1>3, <1>4, <1>5

LEMMA OthersStore ==
    ASSUME AgentsInv, NEW u \in Turns, Proceed(u) \/ Abandon(u), NEW t \in Turns, t # u, Stores(t)
    PROVE  Stores(t)'
<1>1. pc'[t] = pc[t] /\ phase'[t] = phase[t] /\ result'[t] = result[t] /\ LogStep(u)
  BY Alone, StepsOfTheLog
<1>2. thread'.exists => thread.exists
  BY DEF Proceed, Abandon, LoadRow, LoadMessages, Judge, Save, Ensure, StoreQuestion, Commit, ModelAnswers, ModelCalls,
         StoreCall, Invoke, StoreAnswer, shared, AgentsInv, Typed, LogTyped, Thread
<1>3. /\ Asked(t) => Asked(t)'
      /\ Answers(t) => Answers(t)'
  BY <1>1, StoredStays
<1>4. (\E a \in DOMAIN log : AnswerAt(t, a) /\ Unseen(t, a)) => \E a \in DOMAIN log' : AnswerAt(t, a)' /\ Unseen(t, a)'
  BY <1>1, StoredStays, UnseenOfOthers DEF AnswerAt
<1>5. (\E a \in DOMAIN log : AnswerAt(t, a) /\ Unseen(t, a)) => (\E a \in DOMAIN log : AnswerAt(t, a) /\ Unseen(t, a))'
  BY <1>4
<1> QED BY <1>1, <1>2, <1>3, <1>5 DEF Stores, Asked, Answers

\* A step that writes nothing and does not answer.
LEMMA QuietStores ==
    ASSUME NEW t, Stores(t), log' = log, phase'[t] = phase[t], thread'.exists => thread.exists,
           pc'[t] \in {"model", "call", "invoke", "commit"} => pc[t] \in {"model", "call", "invoke"},
           pc'[t] # "commit", result'[t] = "answered" => result[t] = "answered" /\ pc[t] \notin {"answer", "commit"}
    PROVE  Stores(t)'
<1>1. (Asked(t) => Asked(t)') /\ (Answers(t) => Answers(t)')
  BY DEF Asked, Answers, QuestionAt, AnswerAt
<1> QED BY <1>1 DEF Stores, Asked, Answers

LEMMA OwnStores ==
    ASSUME AgentsInv, NEW u \in Turns, Proceed(u) \/ Abandon(u), Stores(u)
    PROVE  Stores(u)'
<1>0. /\ pc \in [Turns -> Steps] /\ phase \in [Turns -> {"before", "after"}] /\ Len(log) \in Nat /\ DOMAIN log = 1 .. Len(log)
      /\ result \in [Turns -> {"none", "answered", "empty", "failed", "abandoned"}] /\ StandsRight(u) /\ thread \in Thread
  BY DEF AgentsInv, Typed, LogTyped, PlaceTyped, Sound
<1>1. LogStep(u)
  BY StepsOfTheLog
<1>2. (Asked(u) => Asked(u)') /\ (Answers(u) => Answers(u)')
  BY <1>1, StoredStays
<1>3. CASE LoadRow(u) \/ LoadMessages(u) \/ Judge(u) \/ Ensure(u) \/ ModelCalls(u)
  <2>1. /\ log' = log /\ thread' = thread /\ phase' = phase /\ pc[u] \notin {"answer", "commit"} /\ pc'[u] # "commit"
        /\ result'[u] = "answered" => result[u] = "answered"
        /\ pc'[u] \in {"model", "call", "invoke"} => pc[u] = "model"
    BY <1>0, <1>3 DEF LoadRow, LoadMessages, Judge, Ensure, ModelCalls, LeaveShortening, Goto, End, shared
  <2> QED BY <2>1, QuietStores
<1>4. CASE Save(u)
  <2>1. /\ log' = log /\ phase' = phase /\ pc[u] = "save" /\ pc'[u] \in {"judge", "ensure", "done"} /\ result' = result
    BY <1>0, <1>4 DEF Save, LeaveShortening, Goto
  <2>2. thread'.exists => thread.exists
    BY <1>0, <1>4 DEF Save, Thread
  <2> QED BY <2>1, <2>2, QuietStores
<1>5. CASE ModelAnswers(u)
  <2>1. ASSUME NEW text \in BOOLEAN, Conclude(u, text)
        PROVE  Stores(u)'
    <3>1. /\ pc[u] = "model" /\ phase'[u] = "after" /\ pc'[u] \in {"answer", "row"}
          /\ pc'[u] = "row" => result'[u] = "empty"
      BY <1>0, <1>5, <2>1 DEF ModelAnswers, Conclude, Goto
    <3>2. Asked(u)'
      BY <1>2, <3>1 DEF Stores, Asked
    <3> QED BY <3>1, <3>2 DEF Stores, Asked
  <2>2. CASE End(u, "failed") /\ UNCHANGED phase
    <3>1. /\ log' = log /\ thread' = thread /\ phase' = phase /\ pc[u] = "model" /\ pc'[u] = "done" /\ result'[u] = "failed"
      BY <1>0, <1>5, <2>2 DEF ModelAnswers, End, Goto, shared
    <3> QED BY <3>1, QuietStores
  <2> QED BY <1>5, <2>1, <2>2 DEF ModelAnswers
<1>6. CASE Abandon(u)
  <2>1. /\ log' = log /\ thread' = thread /\ phase' = phase /\ pc'[u] = "done"
        /\ result'[u] = "answered" => result[u] = "answered" /\ pc[u] \notin {"answer", "commit"}
    BY <1>0, <1>6 DEF Abandon, Goto, End, shared
  <2> QED BY <2>1, QuietStores
<1>7. CASE StoreQuestion(u)
  <2>0. /\ pc[u] = "question" /\ phase[u] = "before" /\ Write(u, "user", 0, "model") /\ phase' = phase
        /\ "user" \in Roles /\ 0 \in Nat /\ "model" \in Steps \ {"commit", "done"}
    BY <1>0, <1>7 DEF StoreQuestion, StandsRight, Roles, Steps
  <2>1. /\ pc'[u] # "done" => \E shown \in BOOLEAN : AddsRow(u, "user", 0, shown)
        /\ result'[u] = "answered" => result[u] = "answered"
    BY <2>0, Written
  <2>2. result'[u] # "answered" /\ phase'[u] = "before"
    BY <2>0, <2>1 DEF Stores
  <2>3. pc'[u] # "done" => Asked(u)'
    <3> SUFFICES ASSUME NEW shown \in BOOLEAN, AddsRow(u, "user", 0, shown) PROVE Asked(u)'
      BY <2>1
    <3>1. PICK q : q = Len(log) + 1
      OBVIOUS
    <3>2. q \in DOMAIN log' /\ log'[q].by = u /\ log'[q].role = "user"
      <4>1. DOMAIN log' = 1 .. Len(log) + 1 /\ log'[Len(log) + 1].by = u /\ log'[Len(log) + 1].role = "user"
        BY <2>0, NewRow
      <4> QED BY <1>0, <3>1, <4>1
    <3> QED BY <3>2 DEF Asked, QuestionAt
  <2> QED BY <2>2, <2>3 DEF Stores, Asked
<1>8. CASE StoreCall(u) \/ Invoke(u)
  <2>1. pc[u] \in {"call", "invoke"} /\ phase[u] = "before" /\ phase' = phase
    BY <1>0, <1>8 DEF StoreCall, Invoke, StandsRight
  <2>2. Asked(u)' /\ result[u] # "answered"
    BY <1>2, <2>1 DEF Stores, Asked
  <2>3. result'[u] # "answered"
    BY <1>0, <1>8, <2>2 DEF StoreCall, Invoke, Write, End
  <2> QED BY <2>1, <2>2, <2>3 DEF Stores, Asked
<1>9. CASE StoreAnswer(u)
  <2>0. /\ pc[u] = "answer" /\ phase[u] = "after" /\ Write(u, "assistant", 0, "row") /\ phase' = phase
        /\ "assistant" \in Roles /\ 0 \in Nat /\ "row" \in Steps \ {"commit", "done"}
    BY <1>0, <1>9 DEF StoreAnswer, StandsRight, Roles, Steps
  <2>1. \/ pc'[u] = "row" /\ AddsRow(u, "assistant", 0, TRUE)
        \/ pc'[u] = "commit" /\ AddsRow(u, "assistant", 0, FALSE)
        \/ pc'[u] = "done" /\ result'[u] = "failed"
    BY <2>0, Written
  <2>2. PICK q \in DOMAIN log : QuestionAt(u, q)
    BY <2>0 DEF Stores
  <2>3. Asked(u)'
    BY <1>2, <2>2 DEF Asked
  <2>4. ASSUME NEW shown \in BOOLEAN, AddsRow(u, "assistant", 0, shown)
        PROVE  \E a \in DOMAIN log' : AnswerAt(u, a)' /\ log'[a].by = u /\ log'[a].shown = shown
    <3>1. PICK a : a = Len(log) + 1
      OBVIOUS
    <3>2. a \in DOMAIN log' /\ log'[a].by = u /\ log'[a].role = "assistant" /\ log'[a].shown = shown
      BY <1>0, <2>0, <2>4, <3>1, NewRow
    <3>3. q \in DOMAIN log' /\ q < a /\ QuestionAt(u, q)'
      <4>1. Keeps(q) /\ q < a
        BY <1>0, <1>1, <2>2, <3>1, LogGrows
      <4> QED BY <2>2, <4>1 DEF QuestionAt, Keeps
    <3> QED BY <3>2, <3>3 DEF AnswerAt
  <2>5. CASE pc'[u] = "row" /\ AddsRow(u, "assistant", 0, TRUE)
    <3>1. Answers(u)'
      BY <2>4, <2>5 DEF Answers
    <3> QED BY <2>0, <2>3, <2>5, <3>1 DEF Stores, Asked, Answers
  <2>6. CASE pc'[u] = "commit" /\ AddsRow(u, "assistant", 0, FALSE)
    <3>1. \E a \in DOMAIN log' : AnswerAt(u, a)' /\ Unseen(u, a)'
      BY <2>4, <2>6 DEF Unseen
    <3> QED BY <2>0, <2>3, <2>6, <3>1 DEF Stores, Asked
  <2>7. CASE pc'[u] = "done" /\ result'[u] = "failed"
    BY <2>0, <2>3, <2>7 DEF Stores, Asked
  <2> QED BY <2>1, <2>5, <2>6, <2>7
<1>10. CASE Commit(u)
  <2>0. pc[u] = "commit" /\ phase' = phase /\ Asked(u)'
    BY <1>2, <1>10 DEF Commit, Stores, Asked
  <2>1. CASE ~thread.exists
    <3>1. pc'[u] = "done" /\ result'[u] = "failed"
      BY <1>0, <1>10, <2>1 DEF Commit, Goto, End
    <3> QED BY <2>0, <3>1 DEF Stores, Asked
  <2>2. CASE thread.exists
    <3>1. pc'[u] = after[u] /\ result' = result /\ log' = [log EXCEPT ![MineUnseen(u)].shown = TRUE] /\ after[u] # "commit"
      BY <1>0, <1>10, <2>0, <2>2 DEF Commit, Goto, StandsRight
    <3>2. phase[u] = "after" => Answers(u)'
      <4> SUFFICES ASSUME phase[u] = "after" PROVE Answers(u)'
        OBVIOUS
      <4>1. PICK a \in DOMAIN log : AnswerAt(u, a) /\ Unseen(u, a)
        BY <2>0 DEF Stores
      <4>2. a = MineUnseen(u)
        BY <2>0, <4>1, UnseenRow
      <4>3. log'[a] = [log[a] EXCEPT !.shown = TRUE] /\ log[a] \in MessageRow
        BY <3>1, <4>1, <4>2 DEF AgentsInv, Typed, LogTyped
      <4>4. AnswerAt(u, a)' /\ a \in DOMAIN log' /\ log'[a].shown
        BY <1>1, <4>1, <4>3, SeeingARow, StoredStays DEF AnswerAt
      <4> QED BY <4>4 DEF Answers
    <3> QED BY <1>0, <2>0, <3>1, <3>2 DEF Stores, Asked, Answers
  <2> QED BY <2>1, <2>2
<1> QED BY <1>3, <1>4, <1>5, <1>6, <1>7, <1>8, <1>9, <1>10 DEF Proceed

LEMMA StoresStep == AgentsInv /\ StoresInv /\ [Next]_vars => StoresInv'
<1> SUFFICES ASSUME AgentsInv, StoresInv, [Next]_vars, NEW t \in Turns PROVE Stores(t)'
  BY DEF StoresInv
<1>0. Stores(t)
  BY DEF StoresInv
<1>1. ASSUME NEW u \in Turns, Proceed(u) \/ Abandon(u)
      PROVE  Stores(t)'
  BY <1>0, <1>1, OthersStore, OwnStores
<1>2. CASE DeleteThread \/ UNCHANGED vars
  <2>1. /\ log' = log /\ UNCHANGED local /\ (thread'.exists => thread.exists)
    BY <1>2 DEF DeleteThread, vars, shared
  <2> QED BY <1>0, <2>1 DEF local, Stores, QuestionAt, AnswerAt, Unseen
<1> QED BY <1>1, <1>2 DEF Next

\* A turn reported as answered has its answer stored, after its question,
\* however its steps and those of other turns fall.
THEOREM AnswersAreStored == Spec => []DoneMeansStored
<1>1. Init => AgentsInv /\ StoresInv
  <2>1. Init => StoresInv
    BY DEF Init, StoresInv, Stores
  <2> QED BY <2>1, StartSound
<1>2. AgentsInv /\ StoresInv /\ [Next]_vars => (AgentsInv /\ StoresInv)'
  BY AgentsInvStep, StoresStep
<1>3. AgentsInv /\ StoresInv => DoneMeansStored
  BY DEF StoresInv, Stores, QuestionAt, AnswerAt, DoneMeansStored
<1> QED BY <1>1, <1>2, <1>3, PTL DEF Spec

-----------------------------------------------------------------------------
(* A request is paired.                                                    *)

LEMMA PairedGrows ==
    ASSUME NEW rows, NEW more, NEW ids, NEW open, PairedBut(rows, ids, open),
           \A i \in DOMAIN rows : i \in DOMAIN more /\ more[i].role = rows[i].role /\ more[i].call = rows[i].call
    PROVE  PairedBut(more, ids, open)
<1>1. ASSUME NEW n \in 1 .. Len(ids)
      PROVE  /\ ids[n] \in DOMAIN more /\ more[ids[n]].role = rows[ids[n]].role /\ more[ids[n]].call = rows[ids[n]].call
             /\ \A c : IsCall(rows, ids[n], c) => IsCall(more, ids[n], c)
             /\ \A c : IsResult(rows, ids[n], c) => IsResult(more, ids[n], c)
  BY DEF PairedBut, IsCall, IsResult
<1>2. ASSUME NEW n \in 1 .. Len(ids)
      PROVE  /\ ids[n] \in DOMAIN more
             /\ more[ids[n]].role = "result" => \E m \in 1 .. n - 1 : IsCall(more, ids[m], more[ids[n]].call)
             /\ more[ids[n]].role = "call" =>
                   \/ \E m \in n + 1 .. Len(ids) : IsResult(more, ids[m], more[ids[n]].call)
                   \/ \E k \in 1 .. Len(open) : open[k] = more[ids[n]].call
  <2>1. n \in Int /\ \A m \in 1 .. n - 1 : m \in 1 .. Len(ids)
    OBVIOUS
  <2>2. \A m \in n + 1 .. Len(ids) : m \in 1 .. Len(ids)
    OBVIOUS
  <2> QED BY <1>1, <2>1, <2>2 DEF PairedBut
<1>3. ASSUME NEW k \in 1 .. Len(open)
      PROVE  open[k] \in DOMAIN more /\ \E m \in 1 .. Len(ids) : IsCall(more, ids[m], open[k])
  BY <1>1 DEF PairedBut
<1> QED BY <1>2, <1>3 DEF PairedBut

\* One more message of the request: a call is open, a result closes the first of
\* the open calls, and nothing else changes what is open.
LEMMA PairedAppends ==
    ASSUME NEW rows, NEW ids \in Seq(Nat), NEW open \in Seq(Nat), PairedBut(rows, ids, open),
           NEW i \in Nat, i \in DOMAIN rows, NEW left \in Seq(Nat),
           \/ rows[i].role \notin {"call", "result"} /\ left = open
           \/ IsCall(rows, i, i) /\ left = Append(open, i)
           \/ open # <<>> /\ IsResult(rows, i, Head(open)) /\ left = Tail(open)
    PROVE  PairedBut(rows, Append(ids, i), left)
<1> DEFINE more == Append(ids, i)
           n == Len(ids)
<1>1. n \in Nat /\ Len(more) = n + 1 /\ more[n + 1] = i /\ \A m \in 1 .. n : more[m] = ids[m]
  OBVIOUS
<1> HIDE DEF more
<1>2. /\ \A m \in 1 .. n : ids[m] \in DOMAIN rows
      /\ \A m \in 1 .. n : rows[ids[m]].role = "result" => \E l \in 1 .. m - 1 : IsCall(rows, ids[l], rows[ids[m]].call)
      /\ \A m \in 1 .. n : rows[ids[m]].role = "call" =>
               \/ \E l \in m + 1 .. n : IsResult(rows, ids[l], rows[ids[m]].call)
               \/ \E k \in 1 .. Len(open) : open[k] = rows[ids[m]].call
      /\ \A k \in 1 .. Len(open) : open[k] \in DOMAIN rows /\ \E m \in 1 .. n : IsCall(rows, ids[m], open[k])
  BY DEF PairedBut
<1> HIDE DEF n
<1>3. \A m \in 1 .. n + 1 : m \in 1 .. n \/ m = n + 1
  BY <1>1
<1>4. ASSUME NEW m \in 1 .. n + 1 PROVE more[m] \in DOMAIN rows
  BY <1>1, <1>2, <1>3
<1>5. ASSUME NEW m \in 1 .. n, rows[ids[m]].role = "result"
      PROVE  \E l \in 1 .. m - 1 : IsCall(rows, more[l], rows[more[m]].call)
  <2>1. PICK l \in 1 .. m - 1 : IsCall(rows, ids[l], rows[ids[m]].call)
    BY <1>2, <1>5
  <2>2. l \in 1 .. n
    BY <1>1
  <2> QED BY <1>1, <2>1, <2>2
<1>6. ASSUME NEW m \in 1 .. n, NEW l \in m + 1 .. n, IsResult(rows, ids[l], rows[ids[m]].call)
      PROVE  \E j \in m + 1 .. n + 1 : IsResult(rows, more[j], rows[more[m]].call)
  <2>1. l \in 1 .. n /\ l \in m + 1 .. n + 1
    BY <1>1
  <2> QED BY <1>1, <1>6, <2>1
<1>7. ASSUME NEW c, NEW m \in 1 .. n, IsCall(rows, ids[m], c)
      PROVE  \E j \in 1 .. n + 1 : IsCall(rows, more[j], c)
  <2>1. m \in 1 .. n + 1
    BY <1>1
  <2> QED BY <1>1, <1>7, <2>1
<1>8. CASE rows[i].role \notin {"call", "result"} /\ left = open
  <2>1. ASSUME NEW m \in 1 .. n + 1
        PROVE  /\ rows[more[m]].role = "result" => \E l \in 1 .. m - 1 : IsCall(rows, more[l], rows[more[m]].call)
               /\ rows[more[m]].role = "call" =>
                     \/ \E l \in m + 1 .. n + 1 : IsResult(rows, more[l], rows[more[m]].call)
                     \/ \E k \in 1 .. Len(left) : left[k] = rows[more[m]].call
    <3>1. CASE m = n + 1
      BY <1>1, <1>8, <3>1
    <3>2. CASE m \in 1 .. n
      BY <1>1, <1>2, <1>5, <1>6, <1>8, <3>2
    <3> QED BY <1>3, <3>1, <3>2
  <2>2. \A k \in 1 .. Len(left) : left[k] \in DOMAIN rows /\ \E m \in 1 .. n + 1 : IsCall(rows, more[m], left[k])
    BY <1>2, <1>7, <1>8
  <2> QED BY <1>1, <1>4, <2>1, <2>2 DEF PairedBut, more
<1>9. CASE IsCall(rows, i, i) /\ left = Append(open, i)
  <2>0. /\ Len(open) \in Nat /\ Len(left) = Len(open) + 1 /\ left[Len(open) + 1] = i
        /\ \A k \in 1 .. Len(open) : left[k] = open[k] /\ k \in 1 .. Len(left)
    BY <1>9
  <2>1. ASSUME NEW m \in 1 .. n + 1
        PROVE  /\ rows[more[m]].role = "result" => \E l \in 1 .. m - 1 : IsCall(rows, more[l], rows[more[m]].call)
               /\ rows[more[m]].role = "call" =>
                     \/ \E l \in m + 1 .. n + 1 : IsResult(rows, more[l], rows[more[m]].call)
                     \/ \E k \in 1 .. Len(left) : left[k] = rows[more[m]].call
    <3>1. CASE m = n + 1
      <4>1. Len(open) + 1 \in 1 .. Len(left) /\ left[Len(open) + 1] = rows[more[m]].call /\ rows[more[m]].role # "result"
        BY <1>1, <1>9, <2>0, <3>1 DEF IsCall
      <4> QED BY <4>1
    <3>2. CASE m \in 1 .. n
      <4>1. rows[more[m]].role = "result" => \E l \in 1 .. m - 1 : IsCall(rows, more[l], rows[more[m]].call)
        BY <1>1, <1>5, <3>2
      <4>2. ASSUME rows[more[m]].role = "call"
            PROVE  \/ \E l \in m + 1 .. n + 1 : IsResult(rows, more[l], rows[more[m]].call)
                   \/ \E k \in 1 .. Len(left) : left[k] = rows[more[m]].call
        <5>1. rows[ids[m]].role = "call" /\ more[m] = ids[m]
          BY <1>1, <3>2, <4>2
        <5>2. CASE \E l \in m + 1 .. n : IsResult(rows, ids[l], rows[ids[m]].call)
          BY <1>6, <3>2, <5>2
        <5>3. CASE \E k \in 1 .. Len(open) : open[k] = rows[ids[m]].call
          BY <2>0, <5>1, <5>3
        <5> QED BY <1>2, <3>2, <5>1, <5>2, <5>3
      <4> QED BY <4>1, <4>2
    <3> QED BY <1>3, <3>1, <3>2
  <2>2. ASSUME NEW k \in 1 .. Len(left)
        PROVE  left[k] \in DOMAIN rows /\ \E m \in 1 .. n + 1 : IsCall(rows, more[m], left[k])
    <3>1. CASE k = Len(open) + 1
      <4>1. n + 1 \in 1 .. n + 1
        BY <1>1
      <4> QED BY <1>1, <1>9, <2>0, <3>1, <4>1
    <3>2. CASE k \in 1 .. Len(open)
      BY <1>2, <1>7, <2>0, <3>2
    <3> QED BY <2>0, <3>1, <3>2
  <2> QED BY <1>1, <1>4, <2>1, <2>2 DEF PairedBut, more
<1>10. CASE open # <<>> /\ IsResult(rows, i, Head(open)) /\ left = Tail(open)
  <2>0. /\ Len(open) \in Nat \ {0} /\ Len(left) = Len(open) - 1 /\ Head(open) = open[1]
        /\ \A k \in 1 .. Len(left) : left[k] = open[k + 1] /\ k + 1 \in 1 .. Len(open)
        /\ \A k \in 1 .. Len(open) : k = 1 \/ (k - 1 \in 1 .. Len(left) /\ left[k - 1] = open[k])
    BY <1>10
  <2>1. ASSUME NEW m \in 1 .. n + 1
        PROVE  /\ rows[more[m]].role = "result" => \E l \in 1 .. m - 1 : IsCall(rows, more[l], rows[more[m]].call)
               /\ rows[more[m]].role = "call" =>
                     \/ \E l \in m + 1 .. n + 1 : IsResult(rows, more[l], rows[more[m]].call)
                     \/ \E k \in 1 .. Len(left) : left[k] = rows[more[m]].call
    <3>1. CASE m = n + 1
      <4>0. 1 \in 1 .. Len(open)
        BY <2>0
      <4>1. PICK l \in 1 .. n : IsCall(rows, ids[l], open[1])
        BY <1>2, <4>0
      <4>2. l \in 1 .. m - 1 /\ more[l] = ids[l]
        BY <1>1, <3>1
      <4>3. rows[i].call = open[1] /\ rows[i].role = "result" /\ more[m] = i
        BY <1>1, <1>10, <2>0, <3>1, Zenon DEF IsResult
      <4> QED BY <4>1, <4>2, <4>3
    <3>2. CASE m \in 1 .. n
      <4>1. rows[more[m]].role = "result" => \E l \in 1 .. m - 1 : IsCall(rows, more[l], rows[more[m]].call)
        BY <1>1, <1>5, <3>2
      <4>2. ASSUME rows[more[m]].role = "call"
            PROVE  \/ \E l \in m + 1 .. n + 1 : IsResult(rows, more[l], rows[more[m]].call)
                   \/ \E k \in 1 .. Len(left) : left[k] = rows[more[m]].call
        <5>1. rows[ids[m]].role = "call" /\ more[m] = ids[m]
          BY <1>1, <3>2, <4>2
        <5>2. CASE \E l \in m + 1 .. n : IsResult(rows, ids[l], rows[ids[m]].call)
          BY <1>6, <3>2, <5>2
        <5>3. ASSUME NEW k \in 1 .. Len(open), open[k] = rows[ids[m]].call
              PROVE  \/ \E l \in m + 1 .. n + 1 : IsResult(rows, more[l], rows[more[m]].call)
                     \/ \E j \in 1 .. Len(left) : left[j] = rows[more[m]].call
          <6>1. CASE k = 1
            <7>1. n + 1 \in m + 1 .. n + 1
              BY <1>1, <3>2
            <7>2. Head(open) = rows[ids[m]].call
              BY <2>0, <5>3, <6>1
            <7>3. IsResult(rows, more[n + 1], rows[more[m]].call)
              BY <1>1, <1>10, <5>1, <7>2, Zenon
            <7> QED BY <7>1, <7>3
          <6>2. CASE k # 1
            BY <2>0, <5>1, <5>3, <6>2
          <6> QED BY <6>1, <6>2
        <5> QED BY <1>2, <3>2, <5>1, <5>2, <5>3
      <4> QED BY <4>1, <4>2
    <3> QED BY <1>3, <3>1, <3>2
  <2>2. ASSUME NEW k \in 1 .. Len(left)
        PROVE  left[k] \in DOMAIN rows /\ \E m \in 1 .. n + 1 : IsCall(rows, more[m], left[k])
    BY <1>2, <1>7, <2>0
  <2> QED BY <1>1, <1>4, <2>1, <2>2 DEF PairedBut, more
<1> QED BY <1>8, <1>9, <1>10

\* What is kept of a tail is paired: a result is kept only with its call, and a
\* call that is answered anywhere is answered behind it.
LEMMA KeptArePaired ==
    ASSUME AgentsInv, CallsAreNamed(log), NEW ids \in Seq(Nat), Rising(ids), \A m \in 1 .. Len(ids) : ids[m] \in 1 .. Len(log)
    PROVE  PairedBut(log, KeptOf(ids), <<>>)
<1> DEFINE texts == Texts(ids)
           places == {n \in DOMAIN ids : Kept(texts, n)}
           kept == InOrder(places, Len(ids))
           request == KeptOf(ids)
<1>0. Len(ids) \in Nat /\ DOMAIN ids = 1 .. Len(ids) /\ DOMAIN log = 1 .. Len(log) /\ Len(<<>>) = 0
  BY DEF AgentsInv, Typed, LogTyped
<1>1. /\ texts \in Seq(Text) /\ Len(texts) = Len(ids) /\ \A m \in 1 .. Len(ids) : texts[m] = log[ids[m]]
  BY TextsAre
<1>2. /\ Lists(kept, places, Len(ids))
      /\ request \in Seq(Nat) /\ Len(request) = Len(kept) /\ \A m \in 1 .. Len(kept) : request[m] = ids[kept[m]]
  BY KeptIs
<1>3. DOMAIN texts = 1 .. Len(ids) /\ \A m : m \in places <=> m \in 1 .. Len(ids) /\ Kept(texts, m)
  <2>1. DOMAIN texts = 1 .. Len(ids)
    BY <1>0, <1>1
  <2> HIDE DEF texts
  <2>2. \A m : m \in places <=> m \in DOMAIN ids /\ Kept(texts, m)
    OBVIOUS
  <2> HIDE DEF places
  <2> QED BY <1>0, <2>1, <2>2
<1> HIDE DEF texts, request, places, kept
<1>4. ASSUME NEW m \in 1 .. Len(kept)
      PROVE  /\ kept[m] \in 1 .. Len(ids) /\ Kept(texts, kept[m]) /\ request[m] = ids[kept[m]]
             /\ request[m] \in DOMAIN log /\ texts[kept[m]] = log[request[m]]
  BY <1>0, <1>1, <1>2, <1>3 DEF Lists
<1>5. ASSUME NEW i \in 1 .. Len(ids), Kept(texts, i)
      PROVE  \E m \in 1 .. Len(kept) : kept[m] = i
  BY <1>2, <1>3, <1>5 DEF Lists
<1>6. ASSUME NEW m \in 1 .. Len(kept), NEW n \in 1 .. Len(kept), kept[m] < kept[n]
      PROVE  m < n
  <2>1. n < m => kept[n] < kept[m]
    BY <1>2 DEF Lists, Rising
  <2>2. kept[m] \in Nat /\ kept[n] \in Nat
    BY <1>4
  <2>3. m \in Nat /\ n \in Nat /\ (m = n => kept[m] = kept[n])
    OBVIOUS
  <2> QED BY <1>6, <2>1, <2>2, <2>3
<1>7. ASSUME NEW n \in 1 .. Len(kept), log[request[n]].role = "result"
      PROVE  \E m \in 1 .. n - 1 : IsCall(log, request[m], log[request[n]].call)
  <2> DEFINE i == kept[n]
  <2>1. i \in 1 .. Len(ids) /\ Kept(texts, i) /\ texts[i] = log[request[n]] /\ texts[i].role = "result"
    BY <1>4, <1>7
  <2>2. PICK j \in 1 .. i - 1 : texts[j].role = "call" /\ texts[j].call = texts[i].call
    BY <2>1 DEF Kept
  <2>3. j \in 1 .. Len(ids) /\ j < i
    BY <1>0, <2>1
  <2>4. Kept(texts, j)
    <3>1. Answered(texts, texts[j].call)
      BY <1>3, <2>1, <2>2 DEF Answered
    <3> QED BY <2>2, <3>1 DEF Kept
  <2>5. PICK m \in 1 .. Len(kept) : kept[m] = j
    BY <1>5, <2>3, <2>4
  <2>6. m < n
    BY <1>6, <2>3, <2>5
  <2>7. IsCall(log, request[m], log[request[n]].call)
    BY <1>4, <2>1, <2>2, <2>5 DEF IsCall
  <2>8. m \in 1 .. n - 1
    BY <2>6
  <2> QED BY <2>7, <2>8
<1>8. ASSUME NEW n \in 1 .. Len(kept), log[request[n]].role = "call"
      PROVE  \E m \in n + 1 .. Len(kept) : IsResult(log, request[m], log[request[n]].call)
  <2> DEFINE i == kept[n]
  <2>1. i \in 1 .. Len(ids) /\ Kept(texts, i) /\ texts[i] = log[request[n]] /\ texts[i].role = "call" /\ request[n] = ids[i]
    BY <1>4, <1>8
  <2>2. PICK j \in 1 .. Len(ids) : texts[j].role = "result" /\ texts[j].call = texts[i].call
    <3>1. Answered(texts, texts[i].call)
      BY <2>1 DEF Kept
    <3> QED BY <1>3, <3>1 DEF Answered
  <2>3. texts[i].call = ids[i] /\ texts[j] = log[ids[j]] /\ ids[i] \in 1 .. Len(log) /\ ids[j] \in 1 .. Len(log)
    BY <1>0, <1>1, <2>1, <2>2 DEF CallsAreNamed
  <2>4. ids[i] < ids[j]
    <3>1. log[ids[j]].call \in 1 .. ids[j] - 1
      BY <1>0, <2>2, <2>3 DEF CallsAreNamed
    <3> QED BY <2>2, <2>3, <3>1
  <2>5. i < j
    <3>1. j < i => ids[j] < ids[i]
      BY <2>1 DEF Rising
    <3> QED BY <2>1, <2>3, <2>4, <3>1
  <2>6. Kept(texts, j)
    <3>1. i \in 1 .. j - 1
      BY <2>1, <2>5
    <3> QED BY <2>1, <2>2, <3>1 DEF Kept
  <2>7. PICK m \in 1 .. Len(kept) : kept[m] = j
    BY <1>5, <2>6
  <2>8. n < m
    BY <1>6, <2>5, <2>7
  <2>9. IsResult(log, request[m], log[request[n]].call)
    BY <1>4, <2>1, <2>2, <2>7 DEF IsResult
  <2>10. m \in n + 1 .. Len(kept)
    BY <2>8
  <2> QED BY <2>9, <2>10
<1>9. \A n \in 1 .. Len(request) :
         /\ request[n] \in DOMAIN log
         /\ log[request[n]].role = "result" => \E m \in 1 .. n - 1 : IsCall(log, request[m], log[request[n]].call)
         /\ log[request[n]].role = "call" => \E m \in n + 1 .. Len(request) : IsResult(log, request[m], log[request[n]].call)
  BY <1>2, <1>4, <1>7, <1>8
<1>10. \A k : k \notin 1 .. Len(<<>>)
  BY <1>0
<1>11. PairedBut(log, request, <<>>)
  BY <1>9, <1>10 DEF PairedBut
<1> QED BY <1>11 DEF request

LEMMA NamedGrows ==
    ASSUME AgentsInv, CallsAreNamed(log), NEW u \in Turns, NEW role \in Roles, NEW call \in Nat, NEW shown \in BOOLEAN,
           AddsRow(u, role, call, shown),
           role = "call" => call = Len(log) + 1,
           role = "result" => call \in 1 .. Len(log) /\ log[call].role = "call"
    PROVE  CallsAreNamed(log')
<1> DEFINE n == Len(log)
<1>1. /\ DOMAIN log' = 1 .. n + 1 /\ n \in Nat /\ DOMAIN log = 1 .. n
      /\ log'[n + 1].role = role /\ log'[n + 1].call = call
      /\ \A j \in 1 .. n : log'[j] = log[j]
  BY NewRow DEF AgentsInv, Typed, LogTyped
<1> HIDE DEF n
<1> SUFFICES ASSUME NEW i \in 1 .. n + 1
             PROVE  /\ log'[i].role = "call" => log'[i].call = i
                    /\ log'[i].role = "result" => log'[i].call \in 1 .. i - 1 /\ log'[log'[i].call].role = "call"
  BY <1>1 DEF CallsAreNamed
<1>2. CASE i = n + 1
  <2>1. (n + 1) - 1 = n
    BY <1>1
  <2> QED BY <1>1, <1>2, <2>1 DEF n
<1>3. CASE i \in 1 .. n
  <2>1. log[i].role = "result" => log[i].call \in 1 .. n
    BY <1>1, <1>3 DEF CallsAreNamed
  <2> QED BY <1>1, <1>3, <2>1 DEF CallsAreNamed
<1> QED BY <1>1, <1>2, <1>3

LEMMA NamedKeeps ==
    ASSUME CallsAreNamed(log), DOMAIN log' = DOMAIN log, \A i \in DOMAIN log : Keeps(i), DOMAIN log \subseteq Nat,
           \A i \in DOMAIN log : \A j \in 1 .. i - 1 : j \in DOMAIN log
    PROVE  CallsAreNamed(log')
BY DEF CallsAreNamed, Keeps

PairedInv == CallsAreNamed(log) /\ \A t \in Turns : Asks(t)

\* Steps that leave the log's rows and the request of a turn alone.
LEMMA AsksStays ==
    ASSUME AgentsInv, NEW u \in Turns, LogStep(u), NEW t \in Turns, PairedBut(log, sent[t], tools[t].open),
           sent'[t] = sent[t], tools'[t] = tools[t]
    PROVE  PairedBut(log', sent'[t], tools'[t].open)
<1>1. \A i \in DOMAIN log : i \in DOMAIN log' /\ log'[i].role = log[i].role /\ log'[i].call = log[i].call
  BY LogGrows DEF Keeps
<1> QED BY <1>1, PairedGrows

LEMMA NamedSame ==
    ASSUME AgentsInv, CallsAreNamed(log), NEW u \in Turns, LogStep(u), Len(log') = Len(log)
    PROVE  CallsAreNamed(log')
<1>1. /\ log' \in Seq(MessageRow) /\ log \in Seq(MessageRow) /\ \A i \in DOMAIN log : Keeps(i)
  BY LogGrows DEF AgentsInv, Typed, LogTyped
<1>2. DOMAIN log = 1 .. Len(log) /\ DOMAIN log' = 1 .. Len(log') /\ Len(log) \in Nat
  BY <1>1
<1>3. DOMAIN log \subseteq Nat /\ \A i \in DOMAIN log : \A j \in 1 .. i - 1 : j \in DOMAIN log
  BY <1>2
<1> QED BY <1>1, <1>2, <1>3, NamedKeeps

\* A row that joins the log and the request.
LEMMA AskedFor ==
    ASSUME AgentsInv, CallsAreNamed(log), NEW u \in Turns, NEW ids \in Seq(Nat), NEW open \in Seq(Nat), PairedBut(log, ids, open),
           NEW role \in Roles, NEW call \in Nat, NEW shown \in BOOLEAN, AddsRow(u, role, call, shown), NEW left \in Seq(Nat),
           \/ role \notin {"call", "result"} /\ left = open
           \/ role = "call" /\ call = Len(log) + 1 /\ left = Append(open, Len(log) + 1)
           \/ role = "result" /\ open # <<>> /\ call = Head(open) /\ left = Tail(open)
    PROVE  CallsAreNamed(log') /\ PairedBut(log', Append(ids, Len(log) + 1), left)
<1> DEFINE place == Len(log) + 1
<1>1. /\ DOMAIN log' = 1 .. place /\ log'[place].role = role /\ log'[place].call = call
  BY NewRow
<1>2. Len(log) \in Nat /\ DOMAIN log = 1 .. Len(log)
  BY DEF AgentsInv, Typed, LogTyped
<1>3. place \in Nat /\ place \in DOMAIN log'
  BY <1>1, <1>2
<1>4. \A i \in DOMAIN log : i \in DOMAIN log' /\ log'[i].role = log[i].role /\ log'[i].call = log[i].call
  <2>1. LogStep(u)
    BY DEF LogStep
  <2> QED BY <2>1, LogGrows DEF Keeps
<1>5. PairedBut(log', ids, open)
  BY <1>4, PairedGrows
<1>6. PairedBut(log', Append(ids, place), left)
  <2>1. \/ log'[place].role \notin {"call", "result"} /\ left = open
        \/ IsCall(log', place, place) /\ left = Append(open, place)
        \/ open # <<>> /\ IsResult(log', place, Head(open)) /\ left = Tail(open)
    BY <1>1 DEF IsCall, IsResult
  <2> HIDE DEF place
  <2> QED BY <1>3, <1>5, <2>1, PairedAppends
<1>7. role = "result" => call \in 1 .. Len(log) /\ log[call].role = "call"
  <2> SUFFICES ASSUME role = "result" PROVE call \in 1 .. Len(log) /\ log[call].role = "call"
    OBVIOUS
  <2>1. open # <<>> /\ call = open[1] /\ 1 \in 1 .. Len(open)
    OBVIOUS
  <2>2. PICK m \in 1 .. Len(ids) : IsCall(log, ids[m], call)
    BY <2>1 DEF PairedBut
  <2>3. ids[m] \in DOMAIN log /\ call \in DOMAIN log
    BY <2>1, <2>2 DEF PairedBut
  <2>4. ids[m] = call
    BY <2>2, <2>3 DEF IsCall, CallsAreNamed
  <2> QED BY <1>2, <2>2, <2>3, <2>4 DEF IsCall
<1>8. role = "call" => call = Len(log) + 1
  OBVIOUS
<1>9. CallsAreNamed(log')
  BY <1>7, <1>8, NamedGrows
<1> QED BY <1>6, <1>9

\* An answer joins the log alone.
LEMMA AnswerIsNamed ==
    ASSUME AgentsInv, CallsAreNamed(log), NEW u \in Turns, NEW shown \in BOOLEAN, AddsRow(u, "assistant", 0, shown)
    PROVE  CallsAreNamed(log')
<1>1. "assistant" \in Roles /\ 0 \in Nat
  BY DEF Roles
<1> QED BY <1>1, NamedGrows

LEMMA OwnAsks ==
    ASSUME AgentsInv, NEW u \in Turns, Proceed(u) \/ Abandon(u), CallsAreNamed(log), Asks(u)
    PROVE  CallsAreNamed(log') /\ Asks(u)'
<1>0. /\ pc \in [Turns -> Steps] /\ after \in [Turns -> Steps] /\ sent \in [Turns -> Seq(Nat)] /\ tools \in [Turns -> Calls]
      /\ tools[u].open \in Seq(Nat) /\ sent[u] \in Seq(Nat) /\ StandsRight(u) /\ Len(log) \in Nat
  BY DEF AgentsInv, Typed, LogTyped, PlaceTyped, MindTyped, Sound, Calls
<1>1. LogStep(u)
  BY StepsOfTheLog
<1>2. CASE LoadRow(u) \/ LoadMessages(u) \/ Judge(u) \/ Save(u) \/ Ensure(u) \/ ModelAnswers(u)
  <2>1. /\ log' = log /\ tools' = tools /\ pc[u] \notin {"call", "invoke", "done", "commit"}
        /\ pc'[u] \notin {"model", "call", "invoke", "commit"}
    BY <1>0, <1>2 DEF LoadRow, LoadMessages, Judge, Save, Ensure, ModelAnswers, Conclude, LeaveShortening, Goto, End, shared
  <2>2. tools'[u].open = <<>>
    BY <2>1 DEF Asks, Stage
  <2> QED BY <2>1, <2>2 DEF Asks, Stage
<1>3. CASE ModelCalls(u)
  <2>1. log' = log /\ pc[u] = "model" /\ pc'[u] \in {"call", "done"} /\ sent' = sent
    BY <1>0, <1>3 DEF ModelCalls, Goto, End, shared
  <2>2. tools'[u].open = <<>> /\ tools[u].open = <<>> /\ PairedBut(log, sent[u], tools[u].open)
    BY <1>0, <1>3, <2>1 DEF ModelCalls, Asks, Stage
  <2> QED BY <2>1, <2>2 DEF Asks, Stage
<1>4. CASE Abandon(u)
  <2>1. log' = log /\ pc'[u] = "done"
    BY <1>0, <1>4 DEF Abandon, Goto, End, shared
  <2> QED BY <2>1 DEF Asks, Stage
<1>5. CASE Commit(u)
  <2>1. CASE ~thread.exists
    <3>1. log' = log /\ pc'[u] = "done"
      BY <1>0, <1>5, <2>1 DEF Commit, Goto, End
    <3> QED BY <3>1 DEF Asks, Stage
  <2>2. CASE thread.exists
    <3>1. /\ pc[u] = "commit" /\ pc'[u] = after[u] /\ after[u] # "commit" /\ sent' = sent /\ tools' = tools
          /\ log' = [log EXCEPT ![MineUnseen(u)].shown = TRUE]
      BY <1>0, <1>5, <2>2 DEF Commit, Goto, StandsRight
    <3>2. Len(log') = Len(log)
      BY <3>1 DEF AgentsInv, Typed, LogTyped
    <3>3. CallsAreNamed(log')
      BY <1>1, <3>2, NamedSame
    <3>4. Stage(u)' = Stage(u)
      BY <3>1 DEF Stage
    <3>5. Asks(u)'
      BY <1>1, <3>1, <3>4, AsksStays DEF Asks
    <3> QED BY <3>3, <3>5
  <2> QED BY <2>1, <2>2
<1>6. CASE StoreQuestion(u)
  <2>0. /\ pc[u] = "question" /\ Write(u, "user", 0, "model") /\ tools' = tools
        /\ sent' = [sent EXCEPT ![u] = Append(KeptOf(saw[u].tail), Len(log) + 1)]
        /\ "user" \in Roles /\ 0 \in Nat /\ "model" \in Steps \ {"commit", "done"}
    BY <1>6 DEF StoreQuestion, Roles, Steps
  <2>1. \/ pc'[u] = "model" /\ AddsRow(u, "user", 0, TRUE)
        \/ pc'[u] = "commit" /\ after'[u] = "model" /\ AddsRow(u, "user", 0, FALSE)
        \/ pc'[u] = "done" /\ log' = log
    BY <2>0, Written
  <2>2. tools'[u].open = <<>> /\ sent'[u] = Append(KeptOf(saw[u].tail), Len(log) + 1)
    BY <1>0, <2>0 DEF Asks, Stage
  <2>3. PairedBut(log, KeptOf(saw[u].tail), <<>>) /\ KeptOf(saw[u].tail) \in Seq(Nat)
    <3>1. saw[u] \in Known /\ Names(saw[u], Len(log))
      BY DEF AgentsInv, Typed, MindTyped, Sound
    <3> QED BY <3>1, KeptArePaired, KeptIs DEF Known, Names
  <2>4. ASSUME NEW shown \in BOOLEAN, AddsRow(u, "user", 0, shown)
        PROVE  CallsAreNamed(log') /\ PairedBut(log', sent'[u], tools'[u].open)
    <3>1. <<>> \in Seq(Nat) /\ "user" \notin {"call", "result"}
      OBVIOUS
    <3>2. CallsAreNamed(log') /\ PairedBut(log', Append(KeptOf(saw[u].tail), Len(log) + 1), <<>>)
      BY <2>0, <2>3, <2>4, <3>1, AskedFor
    <3> QED BY <2>2, <3>2
  <2>5. CASE pc'[u] = "done" /\ log' = log
    BY <2>5 DEF Asks, Stage
  <2> QED BY <2>1, <2>2, <2>4, <2>5 DEF Asks, Stage
<1>7. CASE StoreCall(u)
  <2> DEFINE then == IF tools[u].left = 1 THEN "invoke" ELSE "call"
             place == Len(log) + 1
  <2>0. /\ pc[u] = "call" /\ Write(u, "call", place, then)
        /\ sent' = [sent EXCEPT ![u] = Append(@, place)]
        /\ tools' = [tools EXCEPT ![u].left = @ - 1, ![u].open = Append(@, place)]
        /\ "call" \in Roles /\ place \in Nat /\ then \in Steps \ {"commit", "done"} /\ then \in {"call", "invoke"}
    BY <1>0, <1>7 DEF StoreCall, Roles, Steps
  <2>1. place = Len(log) + 1
    OBVIOUS
  <2>2. tools'[u].open = Append(tools[u].open, place) /\ sent'[u] = Append(sent[u], place)
    BY <1>0, <2>0 DEF Calls
  <2> HIDE DEF then, place
  <2>3. \/ pc'[u] = then /\ AddsRow(u, "call", place, TRUE)
        \/ pc'[u] = "commit" /\ after'[u] = then /\ AddsRow(u, "call", place, FALSE)
        \/ pc'[u] = "done" /\ log' = log
    BY <2>0, Written
  <2>4. PairedBut(log, sent[u], tools[u].open)
    BY <2>0 DEF Asks, Stage
  <2>5. ASSUME NEW shown \in BOOLEAN, AddsRow(u, "call", place, shown)
        PROVE  CallsAreNamed(log') /\ PairedBut(log', sent'[u], tools'[u].open)
    <3>1. Append(tools[u].open, place) \in Seq(Nat)
      BY <1>0, <2>0, QueuesOfPlaces
    <3>2. CallsAreNamed(log') /\ PairedBut(log', Append(sent[u], place), Append(tools[u].open, place))
      <4>1. tools[u].open \in Seq(Nat) /\ sent[u] \in Seq(Nat) /\ "call" \in Roles /\ place \in Nat
        BY <1>0, <2>0
      <4>2. Append(tools[u].open, place) = Append(tools[u].open, Len(log) + 1) /\ Append(sent[u], Len(log) + 1) = Append(sent[u], place)
        BY <2>1
      <4>3. CallsAreNamed(log') /\ PairedBut(log', Append(sent[u], Len(log) + 1), Append(tools[u].open, place))
        BY <2>1, <2>4, <2>5, <3>1, <4>1, <4>2, AskedFor
      <4> QED BY <4>2, <4>3
    <3> QED BY <2>2, <3>2
  <2>6. CASE pc'[u] = "done" /\ log' = log
    BY <2>6 DEF Asks, Stage
  <2> QED BY <2>0, <2>3, <2>5, <2>6 DEF Asks, Stage
<1>8. CASE Invoke(u)
  <2> DEFINE open == tools[u].open
             then == IF Len(open) = 1 THEN "model" ELSE "invoke"
             asked == Head(open)
  <2>0. /\ pc[u] = "invoke" /\ open # <<>> /\ open \in Seq(Nat) /\ asked \in Nat
        /\ "result" \in Roles /\ then \in Steps \ {"commit", "done"}
    BY <1>0, <1>8, QueuesOfPlaces DEF Invoke, StandsRight, Stage, Roles, Steps
  <2>1. PairedBut(log, sent[u], open)
    BY <2>0 DEF Asks, Stage
  <2>2. CASE /\ Write(u, "result", asked, then) /\ tools' = [tools EXCEPT ![u].open = Tail(@)]
             /\ sent' = [sent EXCEPT ![u] = Append(@, Len(log) + 1)]
    <3>1. tools'[u].open = Tail(open) /\ sent'[u] = Append(sent[u], Len(log) + 1)
      BY <1>0, <2>2 DEF Calls
    <3>2. Tail(open) \in Seq(Nat) /\ (then = "model" => Tail(open) = <<>>) /\ then \in {"model", "invoke"}
      <4>1. Tail(open) \in Seq(Nat)
        BY <2>0, QueuesOfPlaces
      <4>2. \A s \in Seq(Nat) : Len(s) = 1 => Tail(s) = <<>>
        <5>1. \A s \in Seq(Nat) : Len(s) = 1 => Tail(s) \in Seq(Nat) /\ Len(Tail(s)) = 0
          OBVIOUS
        <5>2. \A s \in Seq(Nat) : Len(s) = 0 => s = <<>>
          OBVIOUS
        <5> QED BY <5>1, <5>2
      <4>3. then = "model" => Len(open) = 1
        OBVIOUS
      <4> HIDE DEF open
      <4> QED BY <2>0, <4>1, <4>2, <4>3
    <3> HIDE DEF then, asked
    <3>3. \/ pc'[u] = then /\ AddsRow(u, "result", asked, TRUE)
          \/ pc'[u] = "commit" /\ after'[u] = then /\ AddsRow(u, "result", asked, FALSE)
          \/ pc'[u] = "done" /\ log' = log
      BY <2>0, <2>2, Written
    <3>4. ASSUME NEW shown \in BOOLEAN, AddsRow(u, "result", asked, shown)
          PROVE  CallsAreNamed(log') /\ PairedBut(log', sent'[u], tools'[u].open)
      <4>1. asked = Head(open)
        BY DEF asked
      <4> HIDE DEF open
      <4>2. CallsAreNamed(log') /\ PairedBut(log', Append(sent[u], Len(log) + 1), Tail(open))
        BY <1>0, <2>0, <2>1, <3>2, <3>4, <4>1, AskedFor
      <4> QED BY <3>1, <4>2 DEF open
    <3>5. ASSUME pc'[u] = "done", log' = log
          PROVE  CallsAreNamed(log') /\ Asks(u)'
      BY <3>5 DEF Asks, Stage
    <3>6. ASSUME \/ pc'[u] = then /\ AddsRow(u, "result", asked, TRUE)
                 \/ pc'[u] = "commit" /\ after'[u] = then /\ AddsRow(u, "result", asked, FALSE)
          PROVE  CallsAreNamed(log') /\ Asks(u)'
      <4>1. CallsAreNamed(log') /\ PairedBut(log', sent'[u], tools'[u].open)
        BY <3>4, <3>6
      <4>2. Stage(u)' = then
        BY <3>2, <3>6 DEF Stage
      <4> QED BY <3>1, <3>2, <4>1, <4>2 DEF Asks
    <3> QED BY <3>3, <3>5, <3>6
  <2>3. CASE End(u, "failed") /\ UNCHANGED <<log, tools, sent, after>>
    <3>1. log' = log /\ pc'[u] = "done"
      BY <1>0, <2>3 DEF End, Goto
    <3> QED BY <3>1 DEF Asks, Stage
  <2> QED BY <1>8, <2>2, <2>3 DEF Invoke
<1>9. CASE StoreAnswer(u)
  <2>0. /\ pc[u] = "answer" /\ Write(u, "assistant", 0, "row") /\ tools' = tools
        /\ "assistant" \in Roles /\ 0 \in Nat /\ "row" \in Steps \ {"commit", "done"}
    BY <1>9 DEF StoreAnswer, Roles, Steps
  <2>1. \/ pc'[u] = "row" /\ AddsRow(u, "assistant", 0, TRUE)
        \/ pc'[u] = "commit" /\ after'[u] = "row" /\ AddsRow(u, "assistant", 0, FALSE)
        \/ pc'[u] = "done" /\ log' = log
    BY <2>0, Written
  <2>2. CallsAreNamed(log')
    BY <2>1, AnswerIsNamed
  <2>3. tools'[u].open = <<>>
    BY <2>0 DEF Asks, Stage
  <2> QED BY <2>1, <2>2, <2>3 DEF Asks, Stage
<1> QED BY <1>2, <1>3, <1>4, <1>5, <1>6, <1>7, <1>8, <1>9 DEF Proceed

LEMMA PairedStep == AgentsInv /\ PairedInv /\ [Next]_vars => PairedInv'
<1> SUFFICES ASSUME AgentsInv, PairedInv, [Next]_vars PROVE PairedInv'
  OBVIOUS
<1>1. ASSUME NEW u \in Turns, Proceed(u) \/ Abandon(u)
      PROVE  PairedInv'
  <2>1. CallsAreNamed(log') /\ Asks(u)'
    BY <1>1, OwnAsks DEF PairedInv
  <2>2. ASSUME NEW t \in Turns, t # u PROVE Asks(t)'
    <3>1. /\ pc'[t] = pc[t] /\ after'[t] = after[t] /\ sent'[t] = sent[t] /\ tools'[t] = tools[t] /\ LogStep(u) /\ Asks(t)
      BY <1>1, <2>2, Alone, StepsOfTheLog DEF PairedInv
    <3>2. PairedBut(log, sent[t], tools[t].open) => PairedBut(log', sent'[t], tools'[t].open)
      BY <3>1, AsksStays
    <3> QED BY <3>1, <3>2 DEF Asks, Stage
  <2> QED BY <2>1, <2>2 DEF PairedInv
<1>2. CASE DeleteThread \/ UNCHANGED vars
  <2>1. log' = log /\ UNCHANGED local
    BY <1>2 DEF DeleteThread, vars, shared
  <2> QED BY <2>1 DEF local, PairedInv, Asks, Stage
<1> QED BY <1>1, <1>2 DEF Next

LEMMA StartPaired == Init => PairedInv
<1> SUFFICES ASSUME Init PROVE PairedInv
  OBVIOUS
<1>1. Len(Past) \in Nat /\ DOMAIN Past = 1 .. Len(Past)
  <2>1. \A S : \A f \in Seq(S) : Len(f) \in Nat /\ DOMAIN f = 1 .. Len(f)
    OBVIOUS
  <2> QED BY <2>1, PastAssumption
<1>2. DOMAIN log = 1 .. Len(Past) /\ \A i \in 1 .. Len(Past) : log[i].role = Past[i].role /\ log[i].call = Past[i].call
  BY DEF Init
<1>3. CallsAreNamed(log)
  <2> SUFFICES ASSUME NEW i \in 1 .. Len(Past)
               PROVE  /\ log[i].role = "call" => log[i].call = i
                      /\ log[i].role = "result" => log[i].call \in 1 .. i - 1 /\ log[log[i].call].role = "call"
    BY <1>2 DEF CallsAreNamed
  <2>1. \A j \in 1 .. i - 1 : j \in 1 .. Len(Past)
    BY <1>1
  <2> QED BY <1>1, <1>2, <2>1, PastAssumption
<1>4. \A t \in Turns : Asks(t)
  BY DEF Init, Asks, Stage, NoTools
<1> QED BY <1>3, <1>4 DEF PairedInv

\* A request to the model has a result for every call and the call before it:
\* what is kept of the past is paired, and what the turn adds is paired once no
\* call is open.
THEOREM RequestsArePaired == Spec => []RequestIsPaired
<1>1. Init => AgentsInv /\ PairedInv
  BY StartSound, StartPaired
<1>2. AgentsInv /\ PairedInv /\ [Next]_vars => (AgentsInv /\ PairedInv)'
  BY AgentsInvStep, PairedStep
<1>3. AgentsInv /\ PairedInv => RequestIsPaired
  <2> SUFFICES ASSUME AgentsInv, PairedInv, NEW t \in Turns, pc[t] = "model", NEW n \in DOMAIN sent[t]
               PROVE  /\ log[sent[t][n]].role = "result" =>
                            \E m \in 1 .. n - 1 : log[sent[t][m]].role = "call" /\ log[sent[t][m]].call = log[sent[t][n]].call
                      /\ log[sent[t][n]].role = "call" =>
                            \E m \in n + 1 .. Len(sent[t]) :
                               log[sent[t][m]].role = "result" /\ log[sent[t][m]].call = log[sent[t][n]].call
    BY DEF RequestIsPaired
  <2>1. PairedBut(log, sent[t], <<>>)
    BY DEF PairedInv, Asks, Stage
  <2>2. sent[t] \in Seq(Nat) /\ DOMAIN sent[t] = 1 .. Len(sent[t])
    BY DEF AgentsInv, Typed, MindTyped
  <2>3. \A k : k \notin 1 .. Len(<<>>)
    OBVIOUS
  <2> QED BY <2>1, <2>2, <2>3 DEF PairedBut, IsCall, IsResult
<1> QED BY <1>1, <1>2, <1>3, PTL DEF Spec

-----------------------------------------------------------------------------
(* The summary and its count.                                              *)

LEMMA FitsGrows ==
    ASSUME NEW k \in Known, NEW s \in Seq(Nat), NEW t \in Seq(Nat), NEW shown, NEW delayed, NEW others, NEW p, NEW i,
           Inserted(s, t, p, i), i \notin shown, delayed \subseteq others, p <= Len(s) => i \in others,
           FitsIn(k, s, shown, delayed)
    PROVE  FitsIn(k, t, shown \cup {i}, others)
<1>1. /\ k.count \in Nat /\ k.tail \in Seq(Nat) /\ Len(k.tail) \in Nat /\ Len(s) \in Nat /\ Len(t) = Len(s) + 1
      /\ p \in 1 .. Len(s) + 1 /\ k.count + Len(k.tail) <= Len(s)
  BY DEF Known, Inserted, FitsIn
<1>2. k.count + Len(k.tail) <= Len(t)
  BY <1>1
<1>3. k.told \subseteq shown \cup {i} /\ \A m \in 1 .. Len(k.tail) : k.tail[m] \in shown \cup {i}
  BY DEF FitsIn
<1>4. ASSUME NEW m \in 0 .. Len(k.tail), NEW n \in 1 .. k.count + m
      PROVE  t[n] \in Told(k, m) \cup others
  <2> DEFINE last == k.count + m
  <2>0. last \in Nat /\ last <= Len(s) /\ n \in Nat /\ 1 <= n /\ n <= last
    <3>1. \A c, l, z \in Nat : c + l <= z => \A j \in 0 .. l : c + j \in Nat /\ c + j <= z
      OBVIOUS
    <3>2. last \in Nat /\ last <= Len(s)
      BY <1>1, <3>1
    <3> HIDE DEF last
    <3> QED BY <3>2 DEF last
  <2>1. CASE n < p
    <3>1. t[n] = s[n]
      BY <1>1, <2>0, <2>1 DEF Inserted
    <3> QED BY <3>1 DEF FitsIn
  <2>2. CASE n = p
    BY <1>1, <2>0, <2>2 DEF Inserted
  <2>3. CASE n > p
    <3> DEFINE b == n - 1
    <3>1. b \in p .. Len(s) /\ b + 1 = n /\ b \in 1 .. last
      <4> HIDE DEF last
      <4> QED BY <1>1, <2>0, <2>3
    <3> HIDE DEF b
    <3>2. t[n] = s[b]
      BY <3>1 DEF Inserted
    <3> QED BY <3>1, <3>2 DEF FitsIn
  <2> QED BY <1>1, <2>0, <2>1, <2>2, <2>3
<1>5. ASSUME others = {}
      PROVE  /\ \A m \in 1 .. Len(k.tail) : k.tail[m] = t[k.count + m]
             /\ \A n \in k.count + 1 .. Len(t) : t[n] \notin k.told
  <2>1. delayed = {} /\ p = Len(s) + 1
    BY <1>1, <1>5
  <2>2. t[Len(s) + 1] = i /\ \A n \in 1 .. Len(s) : t[n] = s[n]
    BY <1>1, <2>1 DEF Inserted
  <2>3. ASSUME NEW m \in 1 .. Len(k.tail) PROVE k.tail[m] = t[k.count + m]
    <3>1. \A c, l, z \in Nat : c + l <= z => \A j \in 1 .. l : c + j \in 1 .. z
      OBVIOUS
    <3>2. k.count + m \in 1 .. Len(s)
      BY <1>1, <3>1
    <3> QED BY <2>1, <2>2, <3>2 DEF FitsIn
  <2>4. ASSUME NEW n \in k.count + 1 .. Len(t) PROVE t[n] \notin k.told
    <3>1. CASE n = Len(s) + 1
      BY <2>2, <3>1 DEF FitsIn
    <3>2. CASE n # Len(s) + 1
      <4>1. n \in k.count + 1 .. Len(s) /\ n \in 1 .. Len(s)
        BY <1>1, <3>2
      <4> QED BY <2>1, <2>2, <4>1 DEF FitsIn
    <3> QED BY <3>1, <3>2
  <2> QED BY <2>3, <2>4
<1> QED BY <1>2, <1>3, <1>4, <1>5 DEF FitsIn

\* What a step of a turn does to what is seen: nothing, or one message joins it,
\* which is late if others are behind it.
Joins(p, i) ==
    /\ Inserted(Seen, Seen', p, i) /\ i \notin Shown /\ Shown' = Shown \cup {i}
    /\ late \subseteq late' /\ (p <= Len(Seen) => i \in late')

LEMMA SeenIs ==
    ASSUME AgentsInv
    PROVE  /\ Len(log) \in Nat /\ DOMAIN log = 1 .. Len(log) /\ Shown \subseteq 1 .. Len(log)
           /\ Lists(Seen, Shown, Len(log))
<1>1. Len(log) \in Nat /\ DOMAIN log = 1 .. Len(log)
  BY DEF AgentsInv, Typed, LogTyped
<1>2. Lists(InOrder(Shown, Len(log)), Shown, Len(log))
  BY <1>1, InOrderIs
<1> QED BY <1>1, <1>2 DEF Seen, Shown

LEMMA SeenStep ==
    ASSUME AgentsInv, NEW u \in Turns, Proceed(u) \/ Abandon(u)
    PROVE  \/ thread.exists => Seen' = Seen /\ Shown' = Shown /\ late' = late
           \/ \E p, i : Joins(p, i)
<1>0. Len(log) \in Nat /\ DOMAIN log = 1 .. Len(log) /\ Shown \subseteq 1 .. Len(log) /\ Seen \in Seq(Nat)
  BY SeenIs DEF Lists
<1>1. CASE ~Commit(u)
  <2>1. late' = late /\ (pc[u] = "commit" => log' = log)
    <3>1. CASE LoadRow(u) \/ LoadMessages(u) \/ Judge(u) \/ Save(u) \/ Ensure(u) \/ ModelAnswers(u) \/ ModelCalls(u) \/ Abandon(u)
      BY <3>1 DEF LoadRow, LoadMessages, Judge, Save, Ensure, ModelAnswers, ModelCalls, Abandon, shared
    <3>2. CASE StoreQuestion(u) \/ StoreCall(u) \/ Invoke(u) \/ StoreAnswer(u)
      BY <3>2 DEF StoreQuestion, StoreCall, Invoke, StoreAnswer
    <3> QED BY <1>1, <3>1, <3>2 DEF Proceed
  <2>2. CASE log' = log
    <3>1. Shown' = Shown /\ Seen' = Seen
      BY <2>2 DEF Shown, Seen
    <3> QED BY <2>1, <3>1
  <2>3. ASSUME NEW role \in Roles, NEW call \in Nat, NEW shown \in BOOLEAN, AddsRow(u, role, call, shown)
        PROVE  \/ thread.exists => Seen' = Seen /\ Shown' = Shown /\ late' = late
               \/ \E p, i : Joins(p, i)
    <3> DEFINE n == Len(log)
    <3>1. /\ DOMAIN log' = 1 .. n + 1 /\ Len(log') = n + 1 /\ log'[n + 1].shown = shown
          /\ \A j \in 1 .. n : log'[j] = log[j]
      BY <2>3, NewRow
    <3>2. n \in Nat /\ Shown = {j \in 1 .. n : log[j].shown} /\ Shown' = {j \in 1 .. n + 1 : log'[j].shown}
      BY <1>0, <3>1 DEF Shown
    <3>3. Seen = InOrder(Shown, n) /\ Seen' = InOrder(Shown', n + 1)
      BY <3>1 DEF Seen
    <3> HIDE DEF n
    <3>4. InOrder(Shown', n) = InOrder(Shown, n)
      <4>1. \A j \in 1 .. n : j \in Shown <=> j \in Shown'
        BY <3>1, <3>2
      <4> QED BY <3>2, <4>1, InOrderSame
    <3>5. Seen' = IF n + 1 \in Shown' THEN Append(Seen, n + 1) ELSE Seen
      BY <3>2, <3>3, <3>4, InOrderSteps
    <3>6. CASE shown
      <4>1. Shown' = Shown \cup {n + 1} /\ n + 1 \notin Shown
        <5>1. n + 1 \notin 1 .. n /\ n + 1 \in 1 .. n + 1 /\ \A j : j \in 1 .. n + 1 <=> j \in 1 .. n \/ j = n + 1
          BY <3>2
        <5>2. n + 1 \in Shown' /\ n + 1 \notin Shown
          BY <3>1, <3>2, <3>6, <5>1, Zenon
        <5>3. \A j : j \in 1 .. n => (j \in Shown' <=> j \in Shown)
          BY <3>1, <3>2, <5>1, Zenon
        <5> QED BY <3>2, <5>1, <5>2, <5>3, Zenon
      <4>2. Seen' = Append(Seen, n + 1)
        BY <3>5, <4>1
      <4> DEFINE p == Len(Seen) + 1
      <4>3. Inserted(Seen, Seen', p, n + 1)
        <5>1. \A x \in Seq(Nat), y \in Nat :
                 /\ Len(x) + 1 \in 1 .. Len(x) + 1 /\ Len(Append(x, y)) = Len(x) + 1 /\ Append(x, y)[Len(x) + 1] = y
                 /\ \A m \in 1 .. (Len(x) + 1) - 1 : Append(x, y)[m] = x[m]
                 /\ \A m \in Len(x) + 1 .. Len(x) : Append(x, y)[m + 1] = x[m]
          OBVIOUS
        <5>2. n + 1 \in Nat
          BY <3>2
        <5>3. /\ p \in 1 .. Len(Seen) + 1 /\ Len(Append(Seen, n + 1)) = Len(Seen) + 1 /\ Append(Seen, n + 1)[p] = n + 1
              /\ \A m \in 1 .. p - 1 : Append(Seen, n + 1)[m] = Seen[m]
              /\ \A m \in p .. Len(Seen) : Append(Seen, n + 1)[m + 1] = Seen[m]
          BY <1>0, <5>1, <5>2
        <5> HIDE DEF p
        <5> QED BY <4>2, <5>3 DEF Inserted
      <4>4. ~(p <= Len(Seen))
        BY <1>0
      <4> HIDE DEF p
      <4> QED BY <2>1, <4>1, <4>3, <4>4 DEF Joins
    <3>7. CASE ~shown
      <4>1. Shown' = Shown /\ n + 1 \notin Shown'
        BY <3>1, <3>2, <3>7
      <4> QED BY <2>1, <3>5, <4>1
    <3> QED BY <3>6, <3>7
  <2> QED BY <2>1, <2>2, <2>3, StepsOfTheLog DEF LogStep
<1>2. CASE Commit(u) /\ thread.exists
  <2> DEFINE i == MineUnseen(u)
  <2>1. /\ pc[u] = "commit" /\ log' = [log EXCEPT ![i].shown = TRUE]
        /\ late' = late \cup {j \in {i} : \E k \in i + 1 .. Len(log) : log[k].shown}
    BY <1>2 DEF Commit
  <2>2. i \in DOMAIN log /\ ~log[i].shown
    BY <2>1, UnseenRow DEF Unseen
  <2> HIDE DEF i
  <2>3. DOMAIN log' = DOMAIN log /\ Len(log') = Len(log) /\ log'[i].shown /\ \A j \in DOMAIN log : j # i => log'[j] = log[j]
    <3>1. log[i] \in MessageRow
      BY <2>2 DEF AgentsInv, Typed, LogTyped
    <3>2. DOMAIN log' = DOMAIN log /\ Len(log') = Len(log) /\ log'[i] = [log[i] EXCEPT !.shown = TRUE] /\ \A j \in DOMAIN log : j # i => log'[j] = log[j]
      BY <2>1, <2>2 DEF AgentsInv, Typed, LogTyped
    <3>3. [log[i] EXCEPT !.shown = TRUE].shown
      BY <3>1, SeeingARow
    <3> QED BY <3>2, <3>3, Zenon
  <2>4. Shown' = Shown \cup {i} /\ i \notin Shown
    BY <2>2, <2>3, Zenon DEF Shown
  <2>5. Seen = InOrder(Shown, Len(log)) /\ Seen' = InOrder(Shown \cup {i}, Len(log))
    BY <2>3, <2>4 DEF Seen
  <2>6. PICK p : Inserted(Seen, Seen', p, i) /\ (p <= Len(Seen) => \E l \in i + 1 .. Len(log) : l \in Shown)
    BY <1>0, <2>2, <2>4, <2>5, InOrderInsert DEF InsertedAt
  <2>7. p <= Len(Seen) => i \in late'
    BY <2>1, <2>6 DEF Shown
  <2>8. late \subseteq late'
    BY <2>1
  <2> QED BY <2>4, <2>6, <2>7, <2>8 DEF Joins
<1> QED BY <1>1, <1>2

\* Nothing but the row is known before the messages are listed, all of them after.
LEMMA RowFits ==
    ASSUME NEW k, NEW e, NEW s, NEW shown, NEW delayed, FitsIn(k, s, shown, delayed),
           k.count \in Nat, k.tail \in Seq(Nat), Len(s) \in Nat, e.count = k.count, e.told = k.told, e.tail = <<>>
    PROVE  FitsIn(e, s, shown, delayed)
<1>1. Len(e.tail) = 0 /\ k.count + Len(k.tail) <= Len(s) /\ Len(k.tail) \in Nat
  BY DEF FitsIn
<1>2. \A c, l, z \in Nat : c + l <= z => c + 0 <= z
  OBVIOUS
<1>3. e.count + Len(e.tail) <= Len(s)
  BY <1>1, <1>2
<1>4. ASSUME NEW m \in 0 .. Len(e.tail), NEW n \in 1 .. e.count + m
      PROVE  s[n] \in Told(e, m) \cup delayed
  <2>1. m = 0 /\ 0 \in 0 .. Len(k.tail)
    BY <1>1
  <2>2. n \in 1 .. k.count + 0
    BY <2>1
  <2>3. s[n] \in Told(k, 0) \cup delayed
    BY <2>1, <2>2 DEF FitsIn
  <2>4. Told(k, 0) = k.told /\ e.told \subseteq Told(e, m)
    BY DEF Told
  <2> QED BY <2>3, <2>4
<1>5. e.told \subseteq shown /\ (\A m : m \notin 1 .. Len(e.tail))
  BY <1>1 DEF FitsIn
<1>6. delayed = {} => \A n \in e.count + 1 .. Len(s) : s[n] \notin e.told
  BY DEF FitsIn
<1> QED BY <1>3, <1>4, <1>5, <1>6 DEF FitsIn

LEMMA ListFits ==
    ASSUME NEW k, NEW f, NEW s \in Seq(Nat), NEW shown, NEW delayed, FitsIn(k, s, shown, delayed),
           k.count \in Nat, k.tail \in Seq(Nat), \A n \in 1 .. Len(s) : s[n] \in shown,
           f.count = k.count, f.told = k.told, f.tail = SubSeq(s, k.count + 1, Len(s))
    PROVE  FitsIn(f, s, shown, delayed)
<1> DEFINE c == k.count
           l == Len(s) - c
<1>1. c \in Nat /\ Len(s) \in Nat /\ c <= Len(s) /\ 0 \in 0 .. Len(k.tail)
  <2>1. k.count + Len(k.tail) <= Len(s) /\ Len(k.tail) \in Nat
    BY DEF FitsIn
  <2>2. \A x, y, z \in Nat : x + y <= z => x <= z /\ 0 \in 0 .. y
    OBVIOUS
  <2> QED BY <2>1, <2>2
<1>2. \A x \in Nat : x <= Len(s) =>
         LET t == SubSeq(s, x + 1, Len(s)) IN Len(t) = Len(s) - x /\ \A m \in 1 .. Len(s) - x : t[m] = s[x + m]
  OBVIOUS
<1>3. Len(f.tail) = l /\ l \in Nat /\ c + l = Len(s) /\ \A m \in 1 .. l : f.tail[m] = s[c + m]
  <2>1. f.tail = SubSeq(s, c + 1, Len(s))
    OBVIOUS
  <2> HIDE DEF c
  <2>2. Len(f.tail) = Len(s) - c /\ \A m \in 1 .. Len(s) - c : f.tail[m] = s[c + m]
    BY ONLY <1>1, <1>2, <2>1
  <2>3. Len(s) - c \in Nat /\ c + (Len(s) - c) = Len(s)
    BY ONLY <1>1
  <2> QED BY <2>2, <2>3
<1>4. f.count = c /\ f.told = k.told
  OBVIOUS
<1>5. (\A n \in 1 .. c : s[n] \in k.told \cup delayed) /\ (delayed = {} => \A n \in c + 1 .. Len(s) : s[n] \notin k.told)
  <2>1. \A n \in 1 .. k.count + 0 : s[n] \in Told(k, 0) \cup delayed
    BY <1>1 DEF FitsIn
  <2>2. Told(k, 0) = k.told
    BY DEF Told
  <2>3. \A x \in Nat : x + 0 = x
    OBVIOUS
  <2>4. k.count + 0 = c
    BY <2>3
  <2> QED BY <2>1, <2>2, <2>4 DEF FitsIn
<1> HIDE DEF c, l
<1>6. \A m \in 1 .. l : c + m \in 1 .. Len(s)
  BY <1>1, <1>3
<1>7. ASSUME NEW m \in 0 .. l, NEW n \in 1 .. c + m
      PROVE  s[n] \in Told(f, m) \cup delayed
  <2>1. CASE n \in 1 .. c
    BY <1>4, <1>5, <2>1 DEF Told
  <2>2. CASE n \notin 1 .. c
    <3> DEFINE j == n - c
    <3>1. j \in 1 .. m /\ j \in 1 .. l /\ c + j = n
      BY <1>1, <1>3, <2>2
    <3> HIDE DEF j
    <3>2. f.tail[j] = s[n]
      BY <1>3, <3>1
    <3> QED BY <3>1, <3>2 DEF Told
  <2> QED BY <2>1, <2>2
<1>8. f.count + Len(f.tail) <= Len(s)
  BY <1>1, <1>3, <1>4
<1>9. f.told \subseteq shown /\ \A m \in 1 .. Len(f.tail) : f.tail[m] \in shown
  BY <1>3, <1>6 DEF FitsIn
<1> QED BY <1>3, <1>4, <1>5, <1>7, <1>8, <1>9 DEF FitsIn

\* Folding a prefix adds it to what is told and to the count.
LEMMA FoldFits ==
    ASSUME NEW k \in Known, NEW f, NEW s \in Seq(Nat), NEW shown, NEW delayed, FitsIn(k, s, shown, delayed), Rising(s),
           NEW p \in 0 .. Len(k.tail), f.count = k.count + p, f.told = Told(k, p), f.tail = TailFrom(k.tail, p)
    PROVE  FitsIn(f, s, shown, delayed)
<1> DEFINE c == k.count
           l == Len(k.tail)
<1>1. c \in Nat /\ l \in Nat /\ Len(s) \in Nat /\ c + l <= Len(s) /\ p \in Nat /\ p <= l
  BY DEF Known, FitsIn
<1>2. Len(f.tail) = l - p /\ \A m \in 1 .. l - p : f.tail[m] = k.tail[m + p]
  <2>1. k.tail \in Seq(Nat)
    BY DEF Known
  <2> QED BY <2>1, TailIs
<1>3. /\ \A m \in 0 .. l : \A n \in 1 .. c + m : s[n] \in Told(k, m) \cup delayed
      /\ delayed = {} => \A m \in 1 .. l : k.tail[m] = s[c + m]
      /\ delayed = {} => \A n \in c + 1 .. Len(s) : s[n] \notin k.told
      /\ k.told \subseteq shown /\ \A m \in 1 .. l : k.tail[m] \in shown
  BY DEF FitsIn
<1>4. f.count = c + p
  OBVIOUS
<1> HIDE DEF c, l
<1>5. f.count + Len(f.tail) <= Len(s)
  BY <1>1, <1>2, <1>4
<1>6. f.told \subseteq shown /\ \A m \in 1 .. Len(f.tail) : f.tail[m] \in shown
  <2>1. \A j \in 1 .. p : j \in 1 .. l
    BY <1>1
  <2>2. \A m \in 1 .. l - p : m + p \in 1 .. l
    BY <1>1
  <2> QED BY <1>2, <1>3, <2>1, <2>2 DEF Told
<1>7. ASSUME NEW m \in 0 .. Len(f.tail), NEW n \in 1 .. f.count + m
      PROVE  s[n] \in Told(f, m) \cup delayed
  <2>1. m + p \in 0 .. l /\ n \in 1 .. c + (m + p)
    BY <1>1, <1>2, <1>4
  <2>2. s[n] \in Told(k, m + p) \cup delayed
    BY <1>3, <2>1
  <2>3. Told(k, m + p) \subseteq Told(f, m)
    <3> SUFFICES ASSUME NEW j \in 1 .. m + p PROVE k.tail[j] \in Told(f, m)
      BY DEF Told
    <3>1. CASE j \in 1 .. p
      BY <3>1 DEF Told
    <3>2. CASE j \notin 1 .. p
      <4> DEFINE i == j - p
      <4>1. i \in 1 .. m /\ i + p = j /\ i \in 1 .. l - p
        BY <1>1, <1>2, <3>2
      <4> HIDE DEF i
      <4>2. f.tail[i] = k.tail[j]
        BY <1>2, <4>1
      <4> QED BY <4>1, <4>2 DEF Told
    <3> QED BY <3>1, <3>2
  <2> QED BY <2>2, <2>3
<1>8. ASSUME delayed = {}
      PROVE  /\ \A m \in 1 .. Len(f.tail) : f.tail[m] = s[f.count + m]
             /\ \A n \in f.count + 1 .. Len(s) : s[n] \notin f.told
  <2>1. ASSUME NEW m \in 1 .. Len(f.tail) PROVE f.tail[m] = s[f.count + m]
    <3>1. m + p \in 1 .. l /\ c + (m + p) = f.count + m
      BY <1>1, <1>2, <1>4
    <3> QED BY <1>2, <1>3, <1>8, <3>1
  <2>2. ASSUME NEW n \in f.count + 1 .. Len(s) PROVE s[n] \notin f.told
    <3>1. n \in c + 1 .. Len(s) /\ n \in 1 .. Len(s)
      BY <1>1, <1>4
    <3>2. ASSUME NEW j \in 1 .. p PROVE k.tail[j] # s[n]
      <4> DEFINE at == c + j
      <4>1. j \in 1 .. l /\ at \in 1 .. Len(s) /\ at < n
        BY <1>1, <1>4
      <4>2. k.tail[j] = s[at]
        BY <1>3, <1>8, <4>1
      <4> HIDE DEF at
      <4>3. s[at] < s[n] /\ s[at] \in Nat /\ s[n] \in Nat
        BY <3>1, <4>1 DEF Rising
      <4> QED BY <4>2, <4>3
    <3> QED BY <1>3, <1>8, <3>1, <3>2 DEF Told
  <2> QED BY <2>1, <2>2
<1> QED BY <1>5, <1>6, <1>7, <1>8 DEF FitsIn

\* Whatever a turn learns, keeps or stores fits what is seen when it does.
LEMMA LearnsWhatFits ==
    ASSUME AgentsInv, SummaryFits, thread.exists, NEW u \in Turns, Proceed(u) \/ Abandon(u)
    PROVE  Fits(RowOf(thread')) /\ \A t \in Turns : Fits(saw'[t]) /\ Fits(base'[t])
<1>0. /\ saw \in [Turns -> Known] /\ base \in [Turns -> Known] /\ thread \in Thread /\ saw[u] \in Known /\ base[u] \in Known
      /\ Seen \in Seq(Nat) /\ Rising(Seen) /\ Len(Seen) \in Nat /\ \A n \in 1 .. Len(Seen) : Seen[n] \in Shown
  <2>1. Lists(Seen, Shown, Len(log))
    BY SeenIs
  <2> QED BY <2>1 DEF AgentsInv, Typed, LogTyped, MindTyped, Lists
<1>1. Fits(RowOf(thread)) /\ Fits(saw[u]) /\ Fits(base[u]) /\ \A t \in Turns : Fits(saw[t]) /\ Fits(base[t])
  BY DEF SummaryFits
<1>2. ASSUME Fits(saw'[u]), Fits(base'[u])
      PROVE  \A t \in Turns : Fits(saw'[t]) /\ Fits(base'[t])
  <2> SUFFICES ASSUME NEW t \in Turns, t # u PROVE Fits(saw'[t]) /\ Fits(base'[t])
    BY <1>2
  <2>1. saw'[t] = saw[t] /\ base'[t] = base[t]
    BY Alone
  <2> QED BY <1>1, <2>1
<1>3. CASE /\ thread' = thread /\ base' = base
           /\ saw' = saw \/ saw' = [saw EXCEPT ![u] = base[u]]
  <2>1. saw'[u] \in {saw[u], base[u]} /\ base'[u] = base[u]
    BY <1>0, <1>3
  <2> QED BY <1>1, <1>2, <1>3, <2>1
<1>4. CASE LoadRow(u)
  <2>1. thread' = thread /\ base' = base /\ (saw' = saw \/ saw' = [saw EXCEPT ![u] = RowOf(thread)])
    BY <1>4 DEF LoadRow, shared, RowOf
  <2>2. saw'[u] \in {saw[u], RowOf(thread)}
    BY <1>0, <2>1
  <2> QED BY <1>1, <1>2, <2>1, <2>2
<1>5. CASE LoadMessages(u)
  <2> DEFINE count == Min({saw[u].count, Len(Visible)})
             k == saw[u]
             f == [k EXCEPT !.count = count, !.tail = SubSeq(Visible, count + 1, Len(Visible))]
  <2>1. thread' = thread /\ saw' = [saw EXCEPT ![u] = f] /\ base' = [base EXCEPT ![u] = f]
    BY <1>5 DEF LoadMessages, shared
  <2>2. Visible = Seen
    BY DEF Visible, Seen
  <2>3. count = k.count
    <3>1. k.count \in Nat /\ Len(k.tail) \in Nat /\ k.count + Len(k.tail) <= Len(Seen)
      BY <1>0, <1>1 DEF Fits, FitsIn, Known
    <3>2. k.count <= Len(Visible) /\ Len(Visible) \in Nat
      BY <1>0, <2>2, <3>1
    <3> QED BY <3>1, <3>2, MinOfTwo
  <2> HIDE DEF count
  <2>4. k \in Known /\ k = [count |-> k.count, told |-> k.told, tail |-> k.tail]
    BY <1>0 DEF Known
  <2>5. f.count = k.count /\ f.told = k.told /\ f.tail = SubSeq(Seen, k.count + 1, Len(Seen))
    BY <2>2, <2>3, <2>4
  <2>6. saw'[u] = f /\ base'[u] = f
    BY <1>0, <2>1
  <2> HIDE DEF f
  <2>7. FitsIn(k, Seen, Shown, late) /\ k.count \in Nat /\ k.tail \in Seq(Nat)
    BY <1>1, <2>4 DEF Fits, Known
  <2> HIDE DEF k
  <2>8. FitsIn(f, Seen, Shown, late)
    BY <1>0, <2>5, <2>7, ListFits
  <2> QED BY <1>1, <1>2, <2>1, <2>6, <2>8 DEF Fits
<1>6. CASE Save(u)
  <2>1. CASE u \in owns
    <3> DEFINE f == Folded(u)
               p == Prefix(u)
               k == saw[u]
               tail == TailFrom(k.tail, p)
    <3>1. thread' = [thread EXCEPT !.count = f.count, !.told = f.told] /\ saw' = [saw EXCEPT ![u] = f] /\ base' = base
      BY <1>6, <2>1 DEF Save
    <3>2. f.count = k.count + p /\ f.told = Told(k, p) /\ f.tail = tail
      BY DEF Folded, FoldedTo, Told
    <3>3. p \in 0 .. Len(k.tail) /\ k \in Known
      BY <1>0, PrefixFits
    <3>4. saw'[u] = f /\ base'[u] = base[u]
      BY <1>0, <3>1
    <3> HIDE DEF f, p
    <3>5. FitsIn(k, Seen, Shown, late)
      BY <1>1 DEF Fits
    <3> HIDE DEF k
    <3>6. FitsIn(f, Seen, Shown, late)
      BY <1>0, <3>2, <3>3, <3>5, FoldFits
    <3>7. f.count \in Nat /\ f.tail \in Seq(Nat)
      <4>1. k.count \in Nat /\ k.tail \in Seq(Nat) /\ p \in Nat
        BY <3>3 DEF Known
      <4> QED BY <3>2, <3>3, <4>1, TailIs
    <3>8. thread'.count = f.count /\ thread'.told = f.told
      <4>1. thread = [exists |-> thread.exists, count |-> thread.count, told |-> thread.told]
        BY <1>0 DEF Thread
      <4> QED BY <3>1, <4>1
    <3> DEFINE e == RowOf(thread')
    <3>9. e.count = f.count /\ e.told = f.told /\ e.tail = <<>>
      BY <3>8 DEF RowOf
    <3> HIDE DEF e
    <3>10. FitsIn(e, Seen, Shown, late)
      BY <1>0, <3>6, <3>7, <3>9, RowFits
    <3>11. Fits(RowOf(thread'))
      BY <3>10 DEF Fits, e
    <3> QED BY <1>1, <1>2, <3>4, <3>6, <3>11 DEF Fits
  <2>2. CASE u \notin owns
    BY <1>3, <1>6, <2>2 DEF Save
  <2> QED BY <2>1, <2>2
<1>7. CASE Judge(u)
  BY <1>3, <1>7 DEF Judge, shared
<1>8. CASE Ensure(u) \/ StoreQuestion(u) \/ Commit(u) \/ ModelAnswers(u) \/ ModelCalls(u) \/ StoreCall(u) \/ Invoke(u) \/ StoreAnswer(u) \/ Abandon(u)
  <2>1. thread' = thread /\ base' = base /\ saw' = saw
    BY <1>8 DEF Ensure, StoreQuestion, Commit, ModelAnswers, ModelCalls, StoreCall, Invoke, StoreAnswer, Abandon, shared
  <2> QED BY <1>3, <2>1
<1> QED BY <1>4, <1>5, <1>6, <1>7, <1>8 DEF Proceed

LEMMA SummaryStep == AgentsInv /\ SummaryFits /\ [Next]_vars => SummaryFits'
<1> SUFFICES ASSUME AgentsInv, SummaryFits, [Next]_vars, thread'.exists
             PROVE  Fits(RowOf(thread))' /\ \A t \in Turns : Fits(saw[t])' /\ Fits(base[t])'
  BY DEF SummaryFits
<1>1. CASE \E u \in Turns : Proceed(u) \/ Abandon(u)
  <2>1. PICK u \in Turns : Proceed(u) \/ Abandon(u)
    BY <1>1
  <2>2. thread.exists
    <3>1. CASE ~Save(u)
      BY <2>1, <3>1 DEF Proceed, LoadRow, LoadMessages, Judge, Ensure, StoreQuestion, Commit, ModelAnswers, ModelCalls, StoreCall, Invoke, StoreAnswer, Abandon, shared
    <3>2. CASE Save(u)
      BY <3>2 DEF Save
    <3> QED BY <3>1, <3>2
  <2>3. Fits(RowOf(thread')) /\ \A t \in Turns : Fits(saw'[t]) /\ Fits(base'[t])
    BY <2>1, <2>2, LearnsWhatFits
  <2>4. RowOf(thread') \in Known /\ \A t \in Turns : saw'[t] \in Known /\ base'[t] \in Known
    <3>1. AgentsInv'
      BY AgentsInvStep
    <3>2. thread'.count \in Nat /\ thread'.told \in SUBSET Nat /\ <<>> \in Seq(Nat)
      BY <3>1 DEF AgentsInv, Typed, LogTyped, Thread
    <3> QED BY <3>1, <3>2 DEF AgentsInv, Typed, MindTyped, Known, RowOf
  <2>5. ASSUME NEW k \in Known, FitsIn(k, Seen, Shown, late)
        PROVE  FitsIn(k, Seen', Shown', late')
    <3>1. CASE Seen' = Seen /\ Shown' = Shown /\ late' = late
      BY <2>5, <3>1
    <3>2. ASSUME NEW p, NEW i, Joins(p, i)
          PROVE  FitsIn(k, Seen', Shown', late')
      <4>1. Seen \in Seq(Nat) /\ Seen' \in Seq(Nat)
        <5>1. Seen \in Seq(Nat)
          BY SeenIs DEF Lists
        <5>3. AgentsInv'
          BY AgentsInvStep
        <5>4. Lists(Seen', Shown', Len(log'))
          <6>1. Len(log') \in Nat
            BY <5>3 DEF AgentsInv, Typed, LogTyped
          <6>2. Lists(InOrder(Shown', Len(log')), Shown', Len(log'))
            BY <6>1, InOrderIs
          <6> QED BY <6>2 DEF Seen
        <5> QED BY <5>1, <5>4 DEF Lists
      <4>2. FitsIn(k, Seen', Shown \cup {i}, late')
        BY <2>5, <3>2, <4>1, FitsGrows DEF Joins
      <4> QED BY <3>2, <4>2 DEF Joins
    <3> QED BY <2>1, <2>2, <3>1, <3>2, SeenStep
  <2>6. FitsIn(RowOf(thread'), Seen', Shown', late') /\ \A t \in Turns : FitsIn(saw'[t], Seen', Shown', late') /\ FitsIn(base'[t], Seen', Shown', late')
    BY <2>3, <2>4, <2>5 DEF Fits
  <2> QED BY <2>6 DEF Fits
<1>2. CASE DeleteThread
  BY <1>2 DEF DeleteThread, AgentsInv, Typed, LogTyped, Thread
<1>3. CASE UNCHANGED vars
  <2>1. thread' = thread /\ log' = log /\ late' = late /\ saw' = saw /\ base' = base
    BY <1>3 DEF vars, shared, local
  <2>2. Shown' = Shown /\ Seen' = Seen
    BY <2>1 DEF Shown, Seen
  <2>3. Fits(RowOf(thread)) /\ \A t \in Turns : Fits(saw[t]) /\ Fits(base[t])
    BY <2>1 DEF SummaryFits
  <2> QED BY <2>1, <2>2, <2>3 DEF Fits
<1> QED BY <1>1, <1>2, <1>3 DEF Next

LEMMA StartFits == Init => SummaryFits
<1> SUFFICES ASSUME Init PROVE Fits(RowOf(thread)) /\ \A t \in Turns : Fits(saw[t]) /\ Fits(base[t])
  BY DEF SummaryFits
<1>1. RowOf(thread) = NothingKnown /\ \A t \in Turns : saw[t] = NothingKnown /\ base[t] = NothingKnown
  BY DEF Init, RowOf, NothingKnown
<1>2. Seen \in Seq(Nat)
  <2>1. AgentsInv
    BY StartSound
  <2> QED BY <2>1, SeenIs DEF Lists
<1> DEFINE k == NothingKnown
<1>3. k.count = 0 /\ k.told = {} /\ k.tail = <<>> /\ Len(k.tail) = 0
  BY DEF NothingKnown
<1> HIDE DEF k
<1>4. (\A m \in 0 .. Len(k.tail) : \A n \in 1 .. k.count + m : FALSE) /\ (\A m \in 1 .. Len(k.tail) : FALSE)
      /\ k.count + Len(k.tail) <= Len(Seen)
  BY <1>2, <1>3
<1>5. FitsIn(k, Seen, Shown, late)
  BY <1>3, <1>4, Zenon DEF FitsIn
<1> QED BY <1>1, <1>5 DEF Fits, k

\* The count stored with a summary is the count of what it tells, for any number
\* of turns that refresh it at once.
THEOREM SummariesCount == Spec => []SummaryMatchesCount
<1>1. Init => AgentsInv /\ SummaryFits
  BY StartSound, StartFits
<1>2. AgentsInv /\ SummaryFits /\ [Next]_vars => (AgentsInv /\ SummaryFits)'
  BY AgentsInvStep, SummaryStep
<1>3. AgentsInv /\ SummaryFits => SummaryMatchesCount
  <2> SUFFICES ASSUME AgentsInv, SummaryFits, thread.exists PROVE SummaryMatchesCount
    BY DEF SummaryMatchesCount
  <2> DEFINE k == RowOf(thread)
  <2>1. FitsIn(k, Seen, Shown, late) /\ Visible = Seen
    BY DEF SummaryFits, Fits, Visible, Seen
  <2>2. k.count = thread.count /\ k.told = thread.told /\ Len(k.tail) = 0 /\ thread.count \in Nat
    BY DEF RowOf, AgentsInv, Typed, LogTyped, Thread
  <2>3. Seen \in Seq(Nat) /\ DOMAIN Seen = 1 .. Len(Seen) /\ Len(Seen) \in Nat
    <3>1. Seen \in Seq(Nat)
      BY SeenIs DEF Lists
    <3> QED BY <3>1
  <2> HIDE DEF k
  <2>4. ASSUME NEW n \in DOMAIN Seen, n <= thread.count PROVE Seen[n] \in thread.told \cup late
    <3>1. 0 \in 0 .. Len(k.tail) /\ n \in 1 .. k.count + 0
      BY <2>2, <2>3, <2>4
    <3>2. Seen[n] \in Told(k, 0) \cup late
      BY <2>1, <3>1 DEF FitsIn
    <3>3. Told(k, 0) = k.told
      BY DEF Told
    <3> QED BY <2>2, <3>2, <3>3
  <2>5. ASSUME late = {}, NEW n \in DOMAIN Seen, n > thread.count PROVE Seen[n] \notin thread.told
    <3>1. n \in k.count + 1 .. Len(Seen)
      BY <2>2, <2>3, <2>5
    <3> QED BY <2>1, <2>2, <2>5, <3>1 DEF FitsIn
  <2> QED BY <2>1, <2>4, <2>5 DEF SummaryMatchesCount
<1> QED BY <1>1, <1>2, <1>3, PTL DEF Spec

====
