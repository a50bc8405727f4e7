---- MODULE Summaries ----
(***************************************************************************)
(* Which messages of a conversation a rolling summary replaces, and which  *)
(* of the rest may be sent (apiplant-ai/src/summary.rs). A message is a    *)
(* record [role, call, size]: the tool call it makes or answers, and the   *)
(* length it adds to a transcript.                                         *)
(***************************************************************************)
EXTENDS Naturals, Sequences

CONSTANTS Trigger,      \* length at which a tail is due for a refresh
          RecentKept    \* RECENT_MESSAGE_COUNT

ASSUME SummariesAssumption == Trigger \in Nat \ {0} /\ RecentKept \in Nat

\* The members of a set of places, in order.
InOrder(places, n) ==
    LET upTo[i \in 0 .. n] ==
            IF i = 0 THEN <<>> ELSE IF i \in places THEN Append(upTo[i - 1], i) ELSE upTo[i - 1]
    IN upTo[n]

TranscriptLength(messages) ==
    LET upTo[n \in 0 .. Len(messages)] == IF n = 0 THEN 0 ELSE upTo[n - 1] + messages[n].size
    IN upTo[Len(messages)]

NeedsRefresh(messages) == messages # <<>> /\ TranscriptLength(messages) >= Trigger

TailFrom(messages, split) == SubSeq(messages, split + 1, Len(messages))

\* A tail never starts with a tool's result: the results move to the prefix.
SafeSplit(messages, split) ==
    IF split = 0 THEN 0
    ELSE CHOOSE s \in split .. Len(messages) :
            /\ s = Len(messages) \/ messages[s + 1].role # "result"
            /\ \A i \in split + 1 .. s : messages[i].role = "result"

\* Where the search for a split begins: all of a short first summary, else all
\* but the recent messages.
FirstSplit(recent, summarized) ==
    IF ~summarized /\ Len(recent) <= RecentKept THEN Len(recent)
    ELSE IF Len(recent) > RecentKept THEN Len(recent) - RecentKept ELSE 0

\* Mutant: what is about to be added is left out of the account.
SplitSufficesNow(recent, pending, s) == ~NeedsRefresh(TailFrom(recent, s)) \/ Len(recent) - s <= 1

\* The tail fits with what is about to be added, or one message is left.
SplitSuffices(recent, pending, s) ==
    \/ ~NeedsRefresh(TailFrom(recent, s) \o pending)
    \/ Len(recent) - s <= 1

PrefixLength(recent, summarized, pending) ==
    LET first == FirstSplit(recent, summarized)
        split == CHOOSE s \in first .. Len(recent) :
                    /\ s = Len(recent) \/ SplitSuffices(recent, pending, s)
                    /\ \A i \in first .. s - 1 : ~SplitSuffices(recent, pending, i)
    IN IF recent = <<>> THEN 0 ELSE SafeSplit(recent, split)

Answered(messages, c) == \E i \in DOMAIN messages : messages[i].role = "result" /\ messages[i].call = c

\* Mutant: a call is kept whether it was answered or not.
KeptIfAsked(messages, i) ==
    messages[i].role = "result" => \E j \in 1 .. i - 1 : messages[j].role = "call" /\ messages[j].call = messages[i].call

\* A call that was answered somewhere, a result whose call came before and was
\* kept, and everything that is neither.
Kept(messages, i) ==
    CASE messages[i].role = "call"   -> Answered(messages, messages[i].call)
      [] messages[i].role = "result" -> \E j \in 1 .. i - 1 : messages[j].role = "call" /\ messages[j].call = messages[i].call
      [] OTHER                       -> TRUE

DropOrphans(messages) ==
    LET kept == InOrder({i \in DOMAIN messages : Kept(messages, i)}, Len(messages))
    IN [n \in DOMAIN kept |-> messages[kept[n]]]
====
