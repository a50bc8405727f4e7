---- MODULE Agents ----
(***************************************************************************)
(* The turns of one stored conversation with an agent                      *)
(* (apiplant-server/src/agent_routes.rs).                                  *)
(*                                                                         *)
(* A turn loads the thread's summary and the messages it does not cover,   *)
(* shortens them if they are long, stores the question, asks the model,    *)
(* stores tool calls, results and the answer, and shortens the thread      *)
(* again. Nothing serialises the turns of one thread: two tabs, or the     *)
(* owner and an admin, take turns at once. A message has its place when    *)
(* its statement starts and is seen by others when it commits.             *)
(***************************************************************************)
EXTENDS Summaries, FiniteSets, FiniteSetsExt

CONSTANTS Turns,        \* the turns ever taken
          Past,         \* messages stored before: a sequence of [role, call]
          QuestionSize, \* what a question adds to a transcript; other messages add one
          MaxRounds,    \* rounds of tool calls (8 in the code)
          MaxCalls,     \* bound on the calls of one round
          MaxFaults     \* bound on faults and on useless summaries

Roles == {"user", "assistant", "call", "result"}

\* A call is named by its place, and its result comes later.
ASSUME PastAssumption ==
    /\ Past \in Seq([role: Roles, call: Nat])
    /\ \A i \in DOMAIN Past :
          /\ Past[i].role = "call" => Past[i].call = i
          /\ Past[i].role = "result" => Past[i].call \in 1 .. i - 1 /\ Past[Past[i].call].role = "call"

ASSUME ConstantsAssumption ==
    /\ "past" \notin Turns
    /\ QuestionSize \in Nat \ {0} /\ MaxRounds \in Nat /\ MaxCalls \in Nat \ {0} /\ MaxFaults \in Nat

VARIABLES log,          \* message rows in the order of created_at
          thread,       \* the thread's row: its count, and what its summary tells of
          usesTools,    \* whether the agent has tools (it never changes)
          owns,         \* the turns the thread's owner takes; the others are an admin's
          pc,           \* where a turn stands
          phase,        \* before the answer or after it
          saw,          \* the thread as the turn knows it
          base,         \* as it was loaded
          sent,         \* the messages of the request to the model
          tools,        \* calls the model asked for in this round, and those answered
          after,        \* where the turn goes when its row is committed
          result,       \* how the turn was answered
          faults,
          late          \* history: messages seen only after a later one was

shared == <<log, thread>>
setting == <<usesTools, owns>>
local == <<setting, pc, phase, saw, base, sent, tools, after, result>>
vars == <<shared, local, faults, late>>

Known == [count: Nat, told: SUBSET Nat, tail: Seq(Nat)]
Steps == {"row", "list", "judge", "save", "ensure", "question", "commit", "model",
          "call", "invoke", "answer", "done"}

TypeOK ==
    /\ log \in Seq([role: Roles, call: Nat, size: Nat, by: Turns \cup {"past"}, shown: BOOLEAN])
    /\ thread.exists \in BOOLEAN /\ thread.count \in 0 .. Len(log) /\ thread.told \subseteq DOMAIN log
    /\ usesTools \in BOOLEAN /\ owns \subseteq Turns /\ pc \in [Turns -> Steps]
    /\ phase \in [Turns -> {"before", "after"}]
    /\ saw \in [Turns -> Known] /\ base \in [Turns -> Known]
    /\ sent \in [Turns -> Seq(Nat)]
    /\ \A t \in Turns : tools[t].left \in Nat /\ tools[t].round \in 0 .. MaxRounds
    /\ after \in [Turns -> Steps]
    /\ result \in [Turns -> {"none", "answered", "empty", "failed", "abandoned"}]
    /\ late \subseteq DOMAIN log

NothingKnown == [count |-> 0, told |-> {}, tail |-> <<>>]
NoTools == [left |-> 0, round |-> 0, open |-> <<>>]

Size(role) == IF role = "user" THEN QuestionSize ELSE 1

Init ==
    /\ log = [i \in 1 .. Len(Past) |->
                 [role |-> Past[i].role, call |-> Past[i].call, size |-> Size(Past[i].role), by |-> "past", shown |-> TRUE]]
    /\ thread = [exists |-> TRUE, count |-> 0, told |-> {}]
    /\ usesTools \in BOOLEAN /\ owns \in SUBSET Turns
    /\ pc = [t \in Turns |-> "row"]
    /\ phase = [t \in Turns |-> "before"]
    /\ saw = [t \in Turns |-> NothingKnown] /\ base = saw
    /\ sent = [t \in Turns |-> <<>>]
    /\ tools = [t \in Turns |-> NoTools]
    /\ after = [t \in Turns |-> "done"]
    /\ result = [t \in Turns |-> "none"]
    /\ faults = 0 /\ late = {}

----------------------------------------------------------------------------
\* The messages of a thread are there as long as the thread is.
Shown == {i \in DOMAIN log : log[i].shown}
Visible == IF thread.exists THEN InOrder(Shown, Len(log)) ELSE <<>>
Texts(ids) == [n \in 1 .. Len(ids) |-> log[ids[n]]]
Question == <<[role |-> "user", call |-> 0, size |-> QuestionSize]>>
Pending(t) == IF phase[t] = "before" THEN Question ELSE <<>>

Running(t) == pc[t] # "done"
Goto(t, step) == pc' = [pc EXCEPT ![t] = step]
End(t, how) == Goto(t, "done") /\ result' = [result EXCEPT ![t] = how]
Fault == faults < MaxFaults /\ faults' = faults + 1

----------------------------------------------------------------------------
(* Loading the thread and shortening it.                                   *)

\* The load before an answer finds the threads of the organisation for an
\* admin; the one after it acts as the caller alone, who must be the owner.
Finds(t) == thread.exists /\ (t \in owns \/ phase[t] = "before")

\* What a turn does once there is nothing more to shorten.
LeaveShortening(t) ==
    IF phase[t] = "before" THEN Goto(t, "ensure") /\ UNCHANGED result
                           ELSE Goto(t, "done") /\ UNCHANGED result

LoadRow(t) ==
    /\ pc[t] = "row"
    /\ IF Finds(t)
       THEN /\ saw' = [saw EXCEPT ![t] = [count |-> thread.count, told |-> thread.told, tail |-> <<>>]]
            /\ Goto(t, "list") /\ UNCHANGED result
       ELSE /\ UNCHANGED saw
            /\ IF phase[t] = "before" THEN End(t, "failed") ELSE Goto(t, "done") /\ UNCHANGED result
    /\ UNCHANGED <<shared, setting, phase, base, sent, tools, after, faults, late>>

\* A second statement: what it finds may be newer than the row.
LoadMessages(t) ==
    /\ pc[t] = "list"
    /\ LET count == Min({saw[t].count, Len(Visible)})
           known == [saw[t] EXCEPT !.count = count, !.tail = SubSeq(Visible, count + 1, Len(Visible))]
       IN saw' = [saw EXCEPT ![t] = known] /\ base' = [base EXCEPT ![t] = known]
    /\ Goto(t, "judge")
    /\ UNCHANGED <<shared, setting, phase, sent, tools, after, result, faults, late>>

Prefix(t) == PrefixLength(Texts(saw[t].tail), saw[t].told # {}, Pending(t))

\* Mutant: the refresh is tried until the tail fits.
FoldForever(t) == FALSE

\* An unchanged count ends the refresh: nothing more can be folded in.
NothingToFold(t) == Prefix(t) = 0

\* While the tail is too long the model is asked to fold the prefix into the
\* summary. Nothing usable keeps the last summary and ends the refresh; an error
\* also takes the turn back to the thread as it was loaded.
Judge(t) ==
    /\ pc[t] = "judge"
    /\ \/ /\ ~NeedsRefresh(Texts(saw[t].tail) \o Pending(t)) \/ NothingToFold(t)
          /\ LeaveShortening(t) /\ UNCHANGED <<saw, faults>>
       \/ /\ NeedsRefresh(Texts(saw[t].tail) \o Pending(t)) /\ ~NothingToFold(t)
          /\ \/ Goto(t, "save") /\ UNCHANGED <<saw, result, faults>>
             \/ Fault /\ LeaveShortening(t) /\ UNCHANGED saw
             \/ Fault /\ LeaveShortening(t) /\ saw' = [saw EXCEPT ![t] = base[t]]
    /\ UNCHANGED <<shared, setting, phase, base, sent, tools, after, late>>

FoldedTo(t, count) ==
    [count |-> count,
     told |-> saw[t].told \cup {saw[t].tail[i] : i \in 1 .. Prefix(t)},
     tail |-> TailFrom(saw[t].tail, Prefix(t))]

\* Mutant: what was folded is added to the count that is stored by now.
FoldedOnto(t) == FoldedTo(t, thread.count + Prefix(t))

Folded(t) == FoldedTo(t, saw[t].count + Prefix(t))

\* Summary and count are one statement; the row must be the caller's own.
Save(t) ==
    /\ pc[t] = "save"
    /\ IF thread.exists /\ t \in owns
       THEN /\ thread' = [thread EXCEPT !.count = Folded(t).count, !.told = Folded(t).told]
            /\ saw' = [saw EXCEPT ![t] = Folded(t)]
            /\ Goto(t, "judge") /\ UNCHANGED result
       ELSE /\ saw' = [saw EXCEPT ![t] = base[t]]
            /\ LeaveShortening(t) /\ UNCHANGED thread
    /\ UNCHANGED <<log, setting, phase, base, sent, tools, after, faults, late>>

----------------------------------------------------------------------------
(* Writing a message. It has its place when its statement starts and is seen *)
(* when it commits: at once, or later (a slow commit counts as a fault).   *)

Row(t, role, call, shown) == [role |-> role, call |-> call, size |-> Size(role), by |-> t, shown |-> shown]

\* The row refers to the thread, so there must be one.
Write(t, role, call, then) ==
    \/ /\ thread.exists
       /\ log' = Append(log, Row(t, role, call, TRUE))
       /\ Goto(t, then) /\ UNCHANGED <<after, result, faults>>
    \/ /\ ~thread.exists
       /\ End(t, "failed") /\ UNCHANGED <<log, after, faults>>
    \/ /\ Fault
       /\ log' = Append(log, Row(t, role, call, FALSE))
       /\ after' = [after EXCEPT ![t] = then]
       /\ Goto(t, "commit") /\ UNCHANGED result

MineUnseen(t) == CHOOSE i \in DOMAIN log : log[i].by = t /\ ~log[i].shown

\* A row seen after a later one is late.
Commit(t) ==
    /\ pc[t] = "commit"
    /\ IF thread.exists
       THEN LET i == MineUnseen(t)
            IN /\ log' = [log EXCEPT ![i].shown = TRUE]
               /\ late' = late \cup {j \in {i} : \E k \in i + 1 .. Len(log) : log[k].shown}
               /\ Goto(t, after[t]) /\ UNCHANGED result
       ELSE End(t, "failed") /\ UNCHANGED <<log, late>>
    /\ UNCHANGED <<thread, setting, phase, saw, base, sent, tools, after, faults>>

Ensure(t) ==
    /\ pc[t] = "ensure"
    /\ IF thread.exists THEN Goto(t, "question") /\ UNCHANGED result ELSE End(t, "failed")
    /\ UNCHANGED <<shared, setting, phase, saw, base, sent, tools, after, faults, late>>

\* The request: what the summary does not cover, without orphans, and the question.
KeptOf(ids) ==
    LET kept == InOrder({n \in DOMAIN ids : Kept(Texts(ids), n)}, Len(ids))
    IN [m \in DOMAIN kept |-> ids[kept[m]]]

StoreQuestion(t) ==
    /\ pc[t] = "question"
    /\ Write(t, "user", 0, "model")
    /\ sent' = [sent EXCEPT ![t] = Append(KeptOf(saw[t].tail), Len(log) + 1)]
    /\ UNCHANGED <<thread, setting, phase, saw, base, tools, late>>

----------------------------------------------------------------------------
(* The model's answer and its tool calls.                                  *)

Conclude(t, text) ==
    /\ result' = [result EXCEPT ![t] = IF text THEN "answered" ELSE "empty"]
    /\ phase' = [phase EXCEPT ![t] = "after"]
    /\ Goto(t, IF text THEN "answer" ELSE "row")

\* Text, or nothing. Without tools the answer may be streamed, and a stream that
\* breaks keeps the text that came.
ModelAnswers(t) ==
    /\ pc[t] = "model"
    /\ \/ \E text \in BOOLEAN : Conclude(t, text) /\ UNCHANGED faults
       \/ Fault /\ ~usesTools /\ Conclude(t, TRUE)
       \/ Fault /\ End(t, "failed") /\ UNCHANGED phase
    /\ UNCHANGED <<shared, setting, saw, base, sent, tools, after, late>>

\* Mutant: one round too many.
RoundLeftOrLast(t) == tools[t].round <= MaxRounds

RoundLeft(t) == tools[t].round < MaxRounds

ModelCalls(t) ==
    /\ pc[t] = "model" /\ usesTools
    /\ IF RoundLeft(t)
       THEN \E n \in 1 .. MaxCalls :
               /\ tools' = [tools EXCEPT ![t] = [left |-> n, round |-> @.round + 1, open |-> <<>>]]
               /\ Goto(t, "call") /\ UNCHANGED result
       ELSE End(t, "failed") /\ UNCHANGED tools
    /\ UNCHANGED <<shared, setting, phase, saw, base, sent, after, faults, late>>

\* Every call of a round is stored before the first of them is made. A call is
\* named by its place.
StoreCall(t) ==
    /\ pc[t] = "call"
    /\ Write(t, "call", Len(log) + 1, IF tools[t].left = 1 THEN "invoke" ELSE "call")
    /\ tools' = [tools EXCEPT ![t].left = @ - 1, ![t].open = Append(@, Len(log) + 1)]
    /\ sent' = [sent EXCEPT ![t] = Append(@, Len(log) + 1)]
    /\ UNCHANGED <<thread, setting, phase, saw, base, late>>

\* A tool that fails ends the turn, its call unanswered.
Invoke(t) ==
    /\ pc[t] = "invoke"
    /\ \/ /\ Write(t, "result", Head(tools[t].open), IF Len(tools[t].open) = 1 THEN "model" ELSE "invoke")
          /\ tools' = [tools EXCEPT ![t].open = Tail(@)]
          /\ sent' = [sent EXCEPT ![t] = Append(@, Len(log) + 1)]
       \/ Fault /\ End(t, "failed") /\ UNCHANGED <<log, tools, sent, after>>
    /\ UNCHANGED <<thread, setting, phase, saw, base, late>>

\* Mutant: the answer is given and not stored.
GiveAnswerOnly(t) ==
    /\ pc[t] = "answer" /\ Goto(t, "row")
    /\ UNCHANGED <<shared, setting, phase, saw, base, sent, tools, after, result, faults, late>>

StoreAnswer(t) ==
    /\ pc[t] = "answer"
    /\ Write(t, "assistant", 0, "row")
    /\ UNCHANGED <<thread, setting, phase, saw, base, sent, tools, late>>

----------------------------------------------------------------------------
\* The process stops, the database fails, or the client of a stream goes away:
\* the rest of the turn does not happen.
Abandon(t) ==
    /\ Running(t) /\ Fault
    /\ IF phase[t] = "before" \/ pc[t] \in {"answer", "commit"} THEN End(t, "abandoned")
                                                                ELSE Goto(t, "done") /\ UNCHANGED result
    /\ UNCHANGED <<shared, setting, phase, saw, base, sent, tools, after, late>>

\* The owner deletes the thread, and its messages with it (the log keeps them
\* as history).
DeleteThread ==
    /\ thread.exists /\ Fault
    /\ thread' = [thread EXCEPT !.exists = FALSE]
    /\ UNCHANGED <<log, local, late>>

Proceed(t) ==
    \/ LoadRow(t) \/ LoadMessages(t) \/ Judge(t) \/ Save(t) \/ Ensure(t)
    \/ StoreQuestion(t) \/ Commit(t) \/ ModelAnswers(t) \/ ModelCalls(t) \/ StoreCall(t) \/ Invoke(t) \/ StoreAnswer(t)

Next == (\E t \in Turns : Proceed(t) \/ Abandon(t)) \/ DeleteThread

Spec == Init /\ [][Next]_vars

----------------------------------------------------------------------------
(* Properties.                                                             *)

\* The count stored with a summary is the count of what the summary tells,
\* however many turns refresh it at once. A message behind the count was told,
\* unless it was seen only after a later one; and without such a message none is
\* both told and sent word for word. (A stale refresh may put an older summary
\* back; it puts its count back with it.)
SummaryMatchesCount ==
    thread.exists =>
        /\ \A n \in DOMAIN Visible : n <= thread.count => Visible[n] \in thread.told \cup late
        /\ late = {} => \A n \in DOMAIN Visible : n > thread.count => Visible[n] \notin thread.told

\* A request to the model has a result for every call and the call before the
\* result, whatever other turns stored in between and whichever turns ended
\* with a call unanswered.
RequestIsPaired ==
    \A t \in Turns : pc[t] = "model" =>
        LET request == sent[t]
        IN \A n \in DOMAIN request :
              /\ log[request[n]].role = "result" =>
                    \E m \in 1 .. n - 1 : log[request[m]].role = "call" /\ log[request[m]].call = log[request[n]].call
              /\ log[request[n]].role = "call" =>
                    \E m \in n + 1 .. Len(request) :
                        log[request[m]].role = "result" /\ log[request[m]].call = log[request[n]].call

\* A turn reported as answered has its answer stored, after its question.
DoneMeansStored ==
    \A t \in Turns : pc[t] = "done" /\ result[t] = "answered" /\ thread.exists =>
        \E q, a \in DOMAIN log : q < a /\ log[q].by = t /\ log[q].role = "user"
                                /\ log[a].by = t /\ log[a].role = "assistant" /\ log[a].shown

\* A refresh that was stored leaves a shorter tail: the loop that refreshes until
\* the tail fits asks the model no more often than there are messages.
RefreshShrinks ==
    [][\A t \in Turns : pc[t] = "save" /\ pc'[t] = "judge" => Len(saw'[t].tail) < Len(saw[t].tail)]_vars
====
