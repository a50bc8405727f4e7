---- MODULE Queue ----
(***************************************************************************)
(* The message queue of apiplant: publishers that write rows of the        *)
(* `queue_message` table and notify, subscriber processes that claim rows  *)
(* under a lease, run a handler, and record its outcome.                   *)
(*                                                                         *)
(* Time is kept relative to now: `due` is available_at - now, `claimAge`   *)
(* is now - claimed_at, `doneAge` is now - processed_at.  Tick moves all   *)
(* of them, and each saturates one step beyond the last value a statement  *)
(* of the code tells apart.  `claimed_by`, `error` and the payload are     *)
(* written by the code and read by none of its statements; they are left   *)
(* out.                                                                    *)
(***************************************************************************)
EXTENDS RetryBackoff, FiniteSets

CONSTANTS
    Messages,      \* the calls of publish
    FanOut,        \* [Messages -> Nat]: subscribers of the topic published to
    Malformed,     \* the messages whose topic valid_topic refuses
    Workers,       \* the subscriber processes, one per replica
    Batch,         \* [queues] batch
    MaxAttempts,   \* [queues] max_attempts
    Backoff,       \* [queues] retry_backoff_secs
    Lease,         \* [queues] lease_secs
    Poll,          \* [queues] poll_secs
    Retain,        \* [queues] retain_hours, in ticks; 0 keeps rows for ever
    HandlerTicks,  \* bound: ticks from taking up a delivery to its outcome
    Overdue,       \* bound: how far in the past available_at is told apart
    MaxFaults      \* bound: failed statements, lost wakeups and crashes

NoRow == <<>>
RowsOf(m) == IF FanOut[m] = 0 THEN {<<m, 0>>} ELSE {<<m, i>> : i \in 1 .. FanOut[m]}
Rows == UNION {RowsOf(m) : m \in Messages}
\* The row of a message nobody subscribes to carries the subscriber ''.
HasSubscriber(r) == r[2] # 0

ASSUME QueueAssumption ==
    /\ FanOut \in [Messages -> Nat]
    /\ Malformed \subseteq Messages
    /\ IsFiniteSet(Rows)
    /\ \A k \in {Batch, MaxAttempts, Lease, Poll} : k \in Nat \ {0}
    /\ \A k \in {Backoff, Retain, HandlerTicks, Overdue, MaxFaults} : k \in Nat

VARIABLES
    status,     \* the column, plus "absent" before the insert and "pruned" after the delete
    attempts,   \* the column
    due,        \* available_at - now
    claimAge,   \* now - claimed_at while running
    doneAge,    \* now - processed_at while done
    progress,   \* how far each call of publish is
    phase,      \* where each subscriber process is in its loop
    delivery,   \* the batch of a process: the attempt each claimed row is on, 0 for the others
    current,    \* the delivery being handled
    spent,      \* ticks since the current delivery's turn came
    timer,      \* ticks until the wait of a process times out
    listening,  \* the process has a LISTEN connection
    notified,   \* a notification is waiting on that connection
    handled,    \* history: how often the handler of a row has succeeded
    faults      \* faults so far, at most MaxFaults

table     == <<status, attempts, due, claimAge, doneAge>>
processes == <<phase, delivery, current, spent, timer, listening, notified>>
vars      == <<table, progress, processes, handled, faults>>

BatchOf(w) == {r \in Rows : delivery[w][r] > 0}
Busy       == {"pick", "handling", "succeeded", "erred"}

Init ==
    /\ status = [r \in Rows |-> "absent"]
    /\ attempts = [r \in Rows |-> 0]
    /\ due = [r \in Rows |-> 0]
    /\ claimAge = [r \in Rows |-> 0]
    /\ doneAge = [r \in Rows |-> 0]
    /\ progress = [m \in Messages |-> "new"]
    /\ phase = [w \in Workers |-> "drain"]
    /\ delivery = [w \in Workers |-> [r \in Rows |-> 0]]
    /\ current = [w \in Workers |-> NoRow]
    /\ spent = [w \in Workers |-> 0]
    /\ timer = [w \in Workers |-> 0]
    /\ listening \in [Workers -> BOOLEAN]
    /\ notified = [w \in Workers |-> FALSE]
    /\ handled = [r \in Rows |-> 0]
    /\ faults = 0

Fault == faults < MaxFaults /\ faults' = faults + 1

-----------------------------------------------------------------------------
(* Publishing: one autocommitted INSERT per subscriber, then one NOTIFY.   *)

Reject(m) ==
    /\ progress[m] = "new" /\ m \in Malformed
    /\ progress' = [progress EXCEPT ![m] = "rejected"]
    /\ UNCHANGED <<table, processes, handled, faults>>

Publishing(m) == progress[m] \in {"new", "inserting"} /\ m \notin Malformed

\* The rows of a message are inserted in the order of its subscribers.
IsNextRow(m, r) ==
    /\ status[r] = "absent"
    /\ \A q \in RowsOf(m) : q[2] < r[2] => status[q] # "absent"

InsertRow(r) ==
    /\ status' = [status EXCEPT ![r] = IF HasSubscriber(r) THEN "pending" ELSE "done"]
    /\ due' = [due EXCEPT ![r] = 0]
    /\ UNCHANGED <<attempts, claimAge, doneAge>>

Insert(m) ==
    /\ Publishing(m)
    /\ \E r \in RowsOf(m) :
        /\ IsNextRow(m, r)
        /\ InsertRow(r)
        /\ progress' = [progress EXCEPT ![m] =
            IF \E q \in RowsOf(m) : q[2] > r[2] THEN "inserting"
            ELSE IF HasSubscriber(r) THEN "notifying" ELSE "accepted"]
    /\ UNCHANGED <<processes, handled, faults>>

\* An INSERT fails, or commits and its answer is lost: publish returns the
\* error and the rows already written stay.
InsertFails(m) ==
    /\ Publishing(m)
    /\ Fault
    /\ progress' = [progress EXCEPT ![m] = "failed"]
    /\ \/ UNCHANGED table
       \/ \E r \in RowsOf(m) : IsNextRow(m, r) /\ InsertRow(r)
    /\ UNCHANGED <<processes, handled>>

Notify(m) ==
    /\ progress[m] = "notifying"
    /\ progress' = [progress EXCEPT ![m] = "accepted"]
    /\ notified' = [w \in Workers |-> notified[w] \/ listening[w]]
    /\ UNCHANGED <<table, phase, delivery, current, spent, timer, listening, handled, faults>>

\* A NOTIFY that fails is logged; publish still succeeds.
NotifyFails(m) ==
    /\ progress[m] = "notifying"
    /\ Fault
    /\ progress' = [progress EXCEPT ![m] = "accepted"]
    /\ UNCHANGED <<table, processes, handled>>

-----------------------------------------------------------------------------
(* A subscriber process: drain, reclaim, prune, ask for the next due time, *)
(* wait.  Each statement is one transaction of the database.               *)

Claimable == {r \in Rows : status[r] = "pending" /\ due[r] <= 0 /\ HasSubscriber(r)}

\* UPDATE ... WHERE id IN (SELECT ... ORDER BY available_at FOR UPDATE SKIP
\* LOCKED LIMIT batch): the oldest claimable rows.
IsOldestBatch(S) ==
    /\ S \subseteq Claimable
    /\ IsFiniteSet(S) /\ Cardinality(S) <= Batch
    /\ Cardinality(S) < Batch => S = Claimable
    /\ \A r \in S, q \in Claimable \ S : due[r] <= due[q]

MarkClaimed(S) ==
    /\ status' = [r \in Rows |-> IF r \in S THEN "running" ELSE status[r]]
    /\ attempts' = [r \in Rows |-> IF r \in S THEN attempts[r] + 1 ELSE attempts[r]]
    /\ claimAge' = [r \in Rows |-> IF r \in S THEN 0 ELSE claimAge[r]]
    /\ UNCHANGED <<due, doneAge>>

MoveTo(w, p) == phase' = [phase EXCEPT ![w] = p]

Claim(w) ==
    /\ phase[w] = "drain"
    /\ \E S \in SUBSET Rows :
        /\ IsOldestBatch(S)
        /\ MarkClaimed(S)
        /\ delivery' = [delivery EXCEPT ![w] =
                            [r \in Rows |-> IF r \in S THEN attempts[r] + 1 ELSE 0]]
        /\ MoveTo(w, IF S = {} THEN "reclaim" ELSE "pick")
    /\ spent' = [spent EXCEPT ![w] = 0]
    /\ UNCHANGED <<progress, current, timer, listening, notified, handled, faults>>

\* The claim fails, or commits and its answer is lost: drain returns, and
\* rows that were marked are held by nobody.
ClaimFails(w) ==
    /\ phase[w] = "drain"
    /\ Fault
    /\ \E S \in SUBSET Rows : (S = {} \/ IsOldestBatch(S)) /\ MarkClaimed(S)
    /\ MoveTo(w, "reclaim")
    /\ UNCHANGED <<progress, delivery, current, spent, timer, listening, notified, handled>>

\* RETURNING promises no order, so the next delivery is any of the batch.
TakeUp(w) ==
    /\ phase[w] = "pick"
    /\ \E r \in BatchOf(w) : current' = [current EXCEPT ![w] = r]
    /\ MoveTo(w, "handling")
    /\ UNCHANGED <<table, progress, delivery, spent, timer, listening, notified, handled, faults>>

HandlerSucceeds(w) ==
    /\ phase[w] = "handling"
    /\ handled' = [handled EXCEPT ![current[w]] = @ + 1]
    /\ MoveTo(w, "succeeded")
    /\ UNCHANGED <<table, progress, delivery, current, spent, timer, listening, notified, faults>>

\* The handler returns an error, panics, or is not loaded.
HandlerErrs(w) ==
    /\ phase[w] = "handling"
    /\ MoveTo(w, "erred")
    /\ UNCHANGED <<table, progress, delivery, current, spent, timer, listening, notified,
                   handled, faults>>

\* The loop over the batch goes on to the next delivery, or claims again.
NextDelivery(w) ==
    /\ delivery' = [delivery EXCEPT ![w][current[w]] = 0]
    /\ current' = [current EXCEPT ![w] = NoRow]
    /\ spent' = [spent EXCEPT ![w] = 0]
    /\ MoveTo(w, IF BatchOf(w) = {current[w]} THEN "drain" ELSE "pick")
    /\ UNCHANGED <<timer, listening, notified>>

Complete(w) ==
    /\ phase[w] = "succeeded"
    /\ status' = [status EXCEPT ![current[w]] = "done"]
    /\ doneAge' = [doneAge EXCEPT ![current[w]] = 0]
    /\ NextDelivery(w)
    /\ UNCHANGED <<attempts, due, claimAge, progress, handled, faults>>

\* The row of a failed delivery: dead letter, or scheduled for a retry.
DeadLetter(r) ==
    /\ status' = [status EXCEPT ![r] = "failed"]
    /\ UNCHANGED due

Retry(r, attempt) ==
    /\ status' = [status EXCEPT ![r] = "pending"]
    /\ due' = [due EXCEPT ![r] = RetryDelay(Backoff, attempt)]

\* Mutants of the decision: one attempt too many, one too few.
ExhaustedLate(attempt)  == attempt > MaxAttempts
ExhaustedEarly(attempt) == attempt + 1 >= MaxAttempts

Exhausted(attempt) == attempt >= MaxAttempts

\* The delivery's own count of attempts decides, not the row's.
Fail(w) ==
    LET attempt == delivery[w][current[w]] IN
    /\ phase[w] = "erred"
    /\ \/ Exhausted(attempt) /\ DeadLetter(current[w])
       \/ ~Exhausted(attempt) /\ Retry(current[w], attempt)
    /\ NextDelivery(w)
    /\ UNCHANGED <<attempts, claimAge, doneAge, progress, handled, faults>>

\* The outcome could not be recorded: it is logged and the loop goes on.
OutcomeLost(w) ==
    /\ phase[w] \in {"succeeded", "erred"}
    /\ Fault
    /\ NextDelivery(w)
    /\ UNCHANGED <<table, progress, handled>>

\* Mutants of the lease: an off-by-one, none at all, and no sweep.
ExpiredEarly   == {r \in Rows : status[r] = "running" /\ claimAge[r] >= Lease}
ExpiredAtOnce  == {r \in Rows : status[r] = "running"}
ExpiredNever   == {}

Expired == {r \in Rows : status[r] = "running" /\ claimAge[r] > Lease}

Reclaim(w) ==
    /\ phase[w] = "reclaim"
    /\ status' = [r \in Rows |-> IF r \in Expired THEN "pending" ELSE status[r]]
    /\ MoveTo(w, "prune")
    /\ UNCHANGED <<attempts, due, claimAge, doneAge, progress, delivery, current, spent,
                   timer, listening, notified, handled, faults>>

\* Mutant: the sweep takes every processed row.
PrunableProcessed ==
    {r \in Rows : status[r] \in {"done", "failed"} /\ Retain > 0 /\ doneAge[r] >= 0}

Prunable == {r \in Rows : status[r] = "done" /\ Retain > 0 /\ doneAge[r] > Retain}

Prune(w) ==
    /\ phase[w] = "prune"
    /\ status' = [r \in Rows |-> IF r \in Prunable THEN "pruned" ELSE status[r]]
    /\ MoveTo(w, "ask")
    /\ UNCHANGED <<attempts, due, claimAge, doneAge, progress, delivery, current, spent,
                   timer, listening, notified, handled, faults>>

Scheduled == {r \in Rows : status[r] = "pending" /\ HasSubscriber(r)}

\* Mutants: the wait is not clamped at 0; it is always the poll interval.
WaitsUnclamped == {Poll} \cup {due[r] : r \in Scheduled}
WaitsPoll == {Poll}

\* next_due, at least 0 and at most the poll interval.
Waits == {Poll} \cup {IF due[r] > 0 THEN due[r] ELSE 0 : r \in Scheduled}

Ask(w) ==
    /\ phase[w] = "ask"
    /\ \E t \in Waits : (\A u \in Waits : t <= u) /\ timer' = [timer EXCEPT ![w] = t]
    /\ MoveTo(w, "waiting")
    /\ UNCHANGED <<table, progress, delivery, current, spent, listening, notified, handled, faults>>

\* reclaim, prune or next_due fails: the loop goes on to the next of them,
\* and waits the poll interval when it does not know the next due time.
SweepFails(w) ==
    /\ Fault
    /\ \/ phase[w] = "reclaim" /\ MoveTo(w, "prune") /\ UNCHANGED timer
       \/ phase[w] = "prune" /\ MoveTo(w, "ask") /\ UNCHANGED timer
       \/ phase[w] = "ask" /\ MoveTo(w, "waiting") /\ timer' = [timer EXCEPT ![w] = Poll]
    /\ UNCHANGED <<table, progress, delivery, current, spent, listening, notified, handled>>

\* recv answers.  Notifications that arrived together wake the process once.
Wake(w) ==
    /\ phase[w] = "waiting" /\ listening[w] /\ notified[w]
    /\ notified' = [notified EXCEPT ![w] = FALSE]
    /\ MoveTo(w, "drain")
    /\ UNCHANGED <<table, progress, delivery, current, spent, timer, listening, handled, faults>>

\* The wait ends.  Without a listener the process tries to connect one.
WaitEnds(w) ==
    /\ phase[w] = "waiting" /\ timer[w] = 0
    /\ MoveTo(w, "drain")
    /\ \E up \in BOOLEAN : listening' = [listening EXCEPT ![w] = @ \/ up]
    /\ UNCHANGED <<table, progress, delivery, current, spent, timer, notified, handled, faults>>

\* recv fails: the process polls until it reconnects.
ListenerFails(w) ==
    /\ phase[w] = "waiting" /\ listening[w]
    /\ Fault
    /\ listening' = [listening EXCEPT ![w] = FALSE]
    /\ notified' = [notified EXCEPT ![w] = FALSE]
    /\ MoveTo(w, "drain")
    /\ UNCHANGED <<table, progress, delivery, current, spent, timer, handled>>

\* The connection drops and is replaced inside recv: what it carried is gone.
NotificationLost(w) ==
    /\ notified[w]
    /\ Fault
    /\ notified' = [notified EXCEPT ![w] = FALSE]
    /\ UNCHANGED <<table, progress, phase, delivery, current, spent, timer, listening, handled>>

\* A crash takes the batch with it; the rows stay running.
Crash(w) ==
    /\ phase[w] # "down"
    /\ Fault
    /\ MoveTo(w, "down")
    /\ delivery' = [delivery EXCEPT ![w] = [r \in Rows |-> 0]]
    /\ current' = [current EXCEPT ![w] = NoRow]
    /\ spent' = [spent EXCEPT ![w] = 0]
    /\ timer' = [timer EXCEPT ![w] = 0]
    /\ listening' = [listening EXCEPT ![w] = FALSE]
    /\ notified' = [notified EXCEPT ![w] = FALSE]
    /\ UNCHANGED <<table, progress, handled>>

\* `run`: the index is prepared, the listener connects or does not.
Restart(w) ==
    /\ phase[w] = "down"
    /\ MoveTo(w, "drain")
    /\ \E up \in BOOLEAN : listening' = [listening EXCEPT ![w] = up]
    /\ UNCHANGED <<table, progress, delivery, current, spent, timer, notified, handled, faults>>

-----------------------------------------------------------------------------
(* Time.  A delivery is taken up, handled and recorded in HandlerTicks.    *)

Down(n, floor) == IF n > floor THEN n - 1 ELSE n
Up(n, ceiling) == IF n < ceiling THEN n + 1 ELSE n

Tick ==
    /\ \A w \in Workers : phase[w] \in Busy => spent[w] < HandlerTicks
    /\ due' = [r \in Rows |-> Down(due[r], -Overdue)]
    /\ claimAge' = [r \in Rows |->
            IF status[r] = "running" THEN Up(claimAge[r], Lease + 1) ELSE claimAge[r]]
    /\ doneAge' = [r \in Rows |->
            IF status[r] = "done" /\ Retain > 0 THEN Up(doneAge[r], Retain + 1) ELSE doneAge[r]]
    /\ spent' = [w \in Workers |-> IF phase[w] \in Busy THEN spent[w] + 1 ELSE spent[w]]
    /\ timer' = [w \in Workers |-> Down(timer[w], 0)]
    /\ UNCHANGED <<status, attempts, progress, phase, delivery, current, listening,
                   notified, handled, faults>>

PublisherStep(m) == Reject(m) \/ Insert(m) \/ Notify(m)

WorkerStep(w) ==
    \/ Claim(w) \/ TakeUp(w) \/ HandlerSucceeds(w) \/ HandlerErrs(w)
    \/ Complete(w) \/ Fail(w) \/ Reclaim(w) \/ Prune(w) \/ Ask(w)
    \/ Wake(w) \/ WaitEnds(w)

WorkerFault(w) ==
    \/ ClaimFails(w) \/ OutcomeLost(w) \/ SweepFails(w) \/ ListenerFails(w)
    \/ NotificationLost(w) \/ Crash(w)

Next ==
    \/ \E m \in Messages : PublisherStep(m) \/ InsertFails(m) \/ NotifyFails(m)
    \/ \E w \in Workers : WorkerStep(w) \/ WorkerFault(w) \/ Restart(w)
    \/ Tick

Spec == Init /\ [][Next]_vars

\* A call of publish that has begun and a live process keep going, and time
\* passes.  Nothing obliges a publisher to call or a dead process to restart.
Fairness ==
    /\ \A m \in Messages : WF_vars(progress[m] # "new" /\ PublisherStep(m))
    /\ \A w \in Workers : WF_vars(WorkerStep(w))
    /\ WF_vars(Tick)

FairSpec == Spec /\ Fairness

-----------------------------------------------------------------------------
(* Properties.                                                             *)

States == {"absent", "pending", "running", "done", "failed", "pruned"}
Phases == {"down", "drain", "pick", "handling", "succeeded", "erred",
           "reclaim", "prune", "ask", "waiting"}

\* The variables have their types.
TypeOK ==
    /\ status \in [Rows -> States]
    /\ attempts \in [Rows -> Nat]
    /\ due \in [Rows -> Int]
    /\ claimAge \in [Rows -> Nat]
    /\ doneAge \in [Rows -> Nat]
    /\ progress \in [Messages ->
            {"new", "inserting", "notifying", "accepted", "rejected", "failed"}]
    /\ phase \in [Workers -> Phases]
    /\ delivery \in [Workers -> [Rows -> Nat]]
    /\ current \in [Workers -> Rows \cup {NoRow}]
    /\ spent \in [Workers -> Nat]
    /\ timer \in [Workers -> Nat]
    /\ listening \in [Workers -> BOOLEAN]
    /\ notified \in [Workers -> BOOLEAN]
    /\ handled \in [Rows -> Nat]
    /\ faults \in Nat

\* A lease that covers a whole batch: what LeaseIsExclusive rests on.
LeaseCoversBatch == Batch * HandlerTicks <= Lease

\* "No two ever hold the same message": a row is in the batch of one live
\* process at most, and stays running until that process lets it go.
LeaseIsExclusive ==
    \A w \in Workers : \A r \in BatchOf(w) :
        /\ status[r] = "running"
        /\ \A v \in Workers : r \in BatchOf(v) => v = w

\* Handled work stays handled and a dead letter stays a dead letter,
\* whatever a slow process records afterwards.
SettledForGood ==
    [][\A r \in Rows :
        /\ status[r] = "done" => status'[r] \in {"done", "pruned"}
        /\ status[r] \in {"failed", "pruned"} => status'[r] = status[r]]_vars

\* Each fault costs a message one attempt at most.
AttemptsCountFaults == \A r \in Rows : attempts[r] <= MaxAttempts + faults

\* A row is done only after its handler succeeded, and the handler succeeds
\* a second time only after a fault lost the first outcome.
OneEffectPerFault ==
    \A r \in Rows :
        /\ handled[r] <= 1 + faults
        /\ status[r] = "done" /\ HasSubscriber(r) => handled[r] >= 1

\* A message is given up on only after max_attempts attempts, and only a
\* fault makes a message whose handler succeeded a dead letter.
GivenUpForCause ==
    \A r \in Rows : status[r] = "failed" =>
        /\ attempts[r] >= MaxAttempts
        /\ handled[r] > 0 => faults > 0

\* Until something fails, no message that is due is slept over: either its
\* publisher has yet to notify, or some process is about to look for it, or
\* has set its timer no later than the message's due time.
NoLostWakeup ==
    (faults = 0 /\ \A w \in Workers : listening[w]) =>
        \A m \in Messages : \A r \in RowsOf(m) : r \in Scheduled =>
            \/ progress[m] \in {"inserting", "notifying"}
            \/ \E w \in Workers :
                \/ phase[w] # "waiting"
                \/ notified[w]
                \/ timer[w] = 0 \/ timer[w] <= due[r]

\* An accepted message has a row for every subscriber, a failed publish may
\* leave some behind, and every such row is handled or given up on in the
\* end, though notifications are lost and a process dies.
EveryRowIsSettled ==
    \A m \in Messages : \A r \in RowsOf(m) :
        (progress[m] = "accepted" \/ status[r] # "absent")
            ~> status[r] \in {"done", "failed", "pruned"}

-----------------------------------------------------------------------------
(* The inductive invariant behind the safety properties, when the lease    *)
(* covers a batch.                                                         *)

\* A row in a batch is running, on the attempt the batch says it is.
BatchIsRunning ==
    \A w \in Workers : \A r \in BatchOf(w) :
        status[r] = "running" /\ delivery[w][r] = attempts[r]

BatchesAreDisjoint ==
    \A v, w \in Workers : \A r \in BatchOf(v) \cap BatchOf(w) : v = w

CurrentIsHeld ==
    \A w \in Workers :
        /\ phase[w] \in {"handling", "succeeded", "erred"} => current[w] \in BatchOf(w)
        /\ BatchOf(w) # {} => phase[w] \in Busy

\* What is left of a lease pays for the deliveries that are left.
LeaseBudget ==
    \A w \in Workers :
        /\ IsFiniteSet(BatchOf(w))
        /\ spent[w] <= HandlerTicks
        /\ \A r \in BatchOf(w) :
            claimAge[r] + Cardinality(BatchOf(w)) * HandlerTicks <= Lease + spent[w]

Orphan(r) == \A w \in Workers : r \notin BatchOf(w)

\* An attempt whose outcome is unknown to the table was cut short by a fault.
AttemptBudget ==
    \A r \in Rows :
        /\ attempts[r] <= MaxAttempts + faults
        /\ status[r] \in {"absent", "pending", "running"} /\ Orphan(r)
                => attempts[r] < MaxAttempts + faults
        /\ status[r] = "failed" => attempts[r] >= MaxAttempts

JustSucceeded(r) == \E w \in Workers : phase[w] = "succeeded" /\ current[w] = r

\* A success the table does not know of was cut short by a fault.
EffectBudget ==
    \A r \in Rows :
        /\ handled[r] <= 1 + faults
        /\ status[r] \notin {"done", "pruned"} /\ ~JustSucceeded(r) => handled[r] <= faults
        /\ JustSucceeded(r) => handled[r] >= 1
        /\ status[r] = "done" /\ HasSubscriber(r) => handled[r] >= 1

LeaseInv == BatchIsRunning /\ BatchesAreDisjoint /\ CurrentIsHeld /\ LeaseBudget
QueueInv == LeaseInv /\ AttemptBudget /\ EffectBudget

-----------------------------------------------------------------------------
(* What comments of the code say and the code does not do.                 *)

\* max_attempts: "how many times a message is tried before it is left
\* failed", a handler that kills its process included.
AttemptsWithinLimit == \A r \in Rows : attempts[r] <= MaxAttempts
====
