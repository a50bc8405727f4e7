---- MODULE QueueProofs ----
(***************************************************************************)
(* Proofs about Queue, for every set of messages and processes and every   *)
(* value of the configuration, in three parts: the types, and that no      *)
(* process sleeps over due work; that a lease which covers a batch is      *)
(* exclusive; what becomes of a message, and that the queue refines        *)
(* delivery at least once.                                                 *)
(***************************************************************************)
EXTENDS QueueRefinement, FiniteSetTheorems, TLAPS

\* retry_delay_secs returns a delay between 0 and the cap, whatever the
\* attempt: the shift and the product never wrap around.
LEMMA RetryDelayBounded ==
    ASSUME NEW attempt \in Nat
    PROVE  RetryDelay(Backoff, attempt) \in Nat /\ RetryDelay(Backoff, attempt) <= MaxDelay
<1> DEFINE n == IF attempt = 0 THEN 0 ELSE attempt - 1
           one == ShiftedOne(n)
           delay == SaturatingMul(one, Backoff)
<1>1. n \in Nat
  OBVIOUS
<1>2. Backoff \in Nat /\ MaxDelay \in Nat /\ Width \in Nat
  BY QueueAssumption, WidthAssumption
<1>3. MaxUInt \in Nat
  <2>1. 2^Width \in Nat \ {0}
    BY <1>2, WidthAssumption
  <2> QED BY <2>1 DEF MaxUInt
<1>4. one \in Nat
  <2>1. n < Width => 2^n \in Nat
    BY <1>1, <1>2, WidthAssumption
  <2> QED BY <2>1, <1>3 DEF ShiftedOne
<1> HIDE DEF one, n
<1>5. one * Backoff \in Nat
  BY <1>2, <1>4
<1>6. delay \in Nat
  BY <1>3, <1>5 DEF SaturatingMul
<1> HIDE DEF delay
<1>7. RetryDelay(Backoff, attempt) = IF delay > MaxDelay THEN MaxDelay ELSE delay
  BY DEF RetryDelay, delay, one, n
<1> QED BY <1>2, <1>6, <1>7

LEMMA InitTypeOK == Init => TypeOK
BY DEF Init, TypeOK, States, Phases, NoRow

LEMMA InsertRowType ==
    ASSUME TypeOK, NEW r \in Rows, InsertRow(r)
    PROVE  status' \in [Rows -> States] /\ due' \in [Rows -> Int]
<1> DEFINE born == IF HasSubscriber(r) THEN "pending" ELSE "done"
<1>1. born \in States
  BY DEF States
<1>2. status' = [status EXCEPT ![r] = born] /\ due' = [due EXCEPT ![r] = 0]
  BY DEF InsertRow
<1>3. status \in [Rows -> States] /\ due \in [Rows -> Int]
  BY DEF TypeOK
<1> HIDE DEF born
<1>4. status' \in [Rows -> States]
  BY <1>1, <1>2, <1>3
<1>5. due' \in [Rows -> Int]
  BY <1>2, <1>3
<1> QED BY <1>4, <1>5

LEMMA PublisherTypeOK ==
    ASSUME TypeOK, NEW m \in Messages,
           PublisherStep(m) \/ InsertFails(m) \/ NotifyFails(m)
    PROVE  TypeOK'
<1> USE DEF TypeOK, table, processes
<1>1. CASE Reject(m)
  BY <1>1 DEF Reject
<1>2. CASE Insert(m)
  <2> PICK r \in RowsOf(m) :
          /\ InsertRow(r)
          /\ progress' = [progress EXCEPT ![m] =
              IF \E q \in RowsOf(m) : q[2] > r[2] THEN "inserting"
              ELSE IF HasSubscriber(r) THEN "notifying" ELSE "accepted"]
    BY <1>2 DEF Insert
  <2>1. progress' \in [Messages ->
            {"new", "inserting", "notifying", "accepted", "rejected", "failed"}]
    OBVIOUS
  <2>2. status' \in [Rows -> States] /\ due' \in [Rows -> Int]
    <3>1. r \in Rows
      BY DEF Rows
    <3> QED BY <3>1, InsertRowType
  <2>3. UNCHANGED <<attempts, claimAge, doneAge, processes, handled, faults>>
    BY <1>2 DEF Insert, InsertRow
  <2> QED BY <2>1, <2>2, <2>3
<1>3. CASE Notify(m)
  BY <1>3 DEF Notify
<1>4. CASE InsertFails(m)
  <2>1. progress' \in [Messages ->
            {"new", "inserting", "notifying", "accepted", "rejected", "failed"}]
    BY <1>4 DEF InsertFails
  <2>2. CASE UNCHANGED table
    BY <1>4, <2>1, <2>2 DEF InsertFails, Fault
  <2>3. ASSUME NEW r \in RowsOf(m), InsertRow(r)
        PROVE  TypeOK'
    <3>1. status' \in [Rows -> States] /\ due' \in [Rows -> Int]
      <4>1. r \in Rows
        BY DEF Rows
      <4> QED BY <2>3, <4>1, InsertRowType
    <3>3. faults' \in Nat
      BY <1>4 DEF InsertFails, Fault
    <3>2. UNCHANGED <<attempts, claimAge, doneAge, processes, handled>>
      BY <1>4, <2>3 DEF InsertFails, InsertRow
    <3> QED BY <2>1, <3>1, <3>2, <3>3
  <2> QED BY <1>4, <2>2, <2>3 DEF InsertFails
<1>5. CASE NotifyFails(m)
  BY <1>5 DEF NotifyFails, Fault
<1> QED BY <1>1, <1>2, <1>3, <1>4, <1>5 DEF PublisherStep

LEMMA NextDeliveryType ==
    ASSUME TypeOK, NEW w \in Workers, NextDelivery(w)
    PROVE  /\ phase' \in [Workers -> Phases]
           /\ delivery' \in [Workers -> [Rows -> Nat]]
           /\ current' \in [Workers -> Rows \cup {NoRow}]
           /\ spent' \in [Workers -> Nat]
BY DEF TypeOK, NextDelivery, MoveTo, Phases

LEMMA WorkerTypeOK ==
    ASSUME TypeOK, NEW w \in Workers, WorkerStep(w)
    PROVE  TypeOK'
<1> USE DEF TypeOK, table, MoveTo, Phases
<1>1. CASE Claim(w)
  BY <1>1 DEF Claim, MarkClaimed, States
<1>2. CASE TakeUp(w)
  BY <1>2 DEF TakeUp, BatchOf
<1>3. CASE HandlerSucceeds(w)
  <2>1. handled' \in [Rows -> Nat]
    <3>1. CASE current[w] \in Rows
      <4>1. handled[current[w]] + 1 \in Nat
        BY <3>1
      <4> QED BY <1>3, <4>1 DEF HandlerSucceeds
    <3>2. CASE current[w] \notin Rows
      BY <1>3, <3>2 DEF HandlerSucceeds
    <3> QED BY <3>1, <3>2
  <2>2. phase' \in [Workers -> Phases]
    BY <1>3 DEF HandlerSucceeds
  <2> QED BY <1>3, <2>1, <2>2 DEF HandlerSucceeds
<1>4. CASE HandlerErrs(w)
  BY <1>4 DEF HandlerErrs
<1>5. CASE Complete(w)
  <2>1. NextDelivery(w)
    BY <1>5 DEF Complete
  <2>2. status' \in [Rows -> States] /\ doneAge' \in [Rows -> Nat]
    BY <1>5 DEF Complete, States
  <2> QED BY <1>5, <2>1, <2>2, NextDeliveryType DEF Complete, NextDelivery
<1>6. CASE Fail(w)
  <2>1. NextDelivery(w)
    BY <1>6 DEF Fail
  <2>2. status' \in [Rows -> States]
    BY <1>6 DEF Fail, DeadLetter, Retry, States
  <2>3. due' \in [Rows -> Int]
    <3>1. ASSUME NEW a \in Nat, Retry(current[w], a) PROVE due' \in [Rows -> Int]
      <4> DEFINE d == RetryDelay(Backoff, a)
      <4>1. d \in Int
        BY RetryDelayBounded
      <4>2. due' = [due EXCEPT ![current[w]] = d]
        BY <3>1 DEF Retry
      <4> HIDE DEF d
      <4> QED BY <4>1, <4>2
    <3>2. CASE current[w] \in Rows
      <4>1. delivery[w][current[w]] \in Nat
        BY <3>2
      <4> QED BY <1>6, <3>1, <4>1 DEF Fail, DeadLetter
    <3>3. CASE current[w] \notin Rows
      BY <1>6, <3>3 DEF Fail, DeadLetter, Retry
    <3> QED BY <3>2, <3>3
  <2> QED BY <1>6, <2>1, <2>2, <2>3, NextDeliveryType DEF Fail, NextDelivery
<1>7. CASE Reclaim(w)
  BY <1>7 DEF Reclaim, States
<1>8. CASE Prune(w)
  BY <1>8 DEF Prune, States
<1>9. CASE Ask(w)
  <2>1. Waits \subseteq Nat
    BY QueueAssumption DEF Waits, Scheduled
  <2> QED BY <1>9, <2>1 DEF Ask
<1>10. CASE Wake(w)
  BY <1>10 DEF Wake
<1>11. CASE WaitEnds(w)
  BY <1>11 DEF WaitEnds
<1> QED BY <1>1, <1>2, <1>3, <1>4, <1>5, <1>6, <1>7, <1>8, <1>9, <1>10, <1>11 DEF WorkerStep

LEMMA FaultTypeOK ==
    ASSUME TypeOK, NEW w \in Workers, WorkerFault(w) \/ Restart(w)
    PROVE  TypeOK'
<1> USE DEF TypeOK, table, MoveTo, Phases, Fault
<1>1. CASE ClaimFails(w)
  BY <1>1 DEF ClaimFails, MarkClaimed, States
<1>2. CASE OutcomeLost(w)
  <2>1. NextDelivery(w) /\ faults' \in Nat
    BY <1>2 DEF OutcomeLost
  <2>2. UNCHANGED <<timer, listening, notified>>
    BY <2>1 DEF NextDelivery
  <2> QED BY <1>2, <2>1, <2>2, NextDeliveryType DEF OutcomeLost
<1>3. CASE SweepFails(w)
  <2>1. Poll \in Nat
    BY QueueAssumption
  <2>2. timer' \in [Workers -> Nat]
    BY <1>3, <2>1 DEF SweepFails
  <2>3. phase' \in [Workers -> Phases]
    BY <1>3 DEF SweepFails
  <2> QED BY <1>3, <2>2, <2>3 DEF SweepFails
<1>4. CASE ListenerFails(w)
  BY <1>4 DEF ListenerFails
<1>5. CASE NotificationLost(w)
  BY <1>5 DEF NotificationLost
<1>6. CASE Crash(w)
  BY <1>6 DEF Crash
<1>7. CASE Restart(w)
  BY <1>7 DEF Restart
<1> QED BY <1>1, <1>2, <1>3, <1>4, <1>5, <1>6, <1>7 DEF WorkerFault

LEMMA TickTypeOK == TypeOK /\ Tick => TypeOK'
<1> SUFFICES ASSUME TypeOK, Tick PROVE TypeOK'
  OBVIOUS
<1>1. due' \in [Rows -> Int] /\ timer' \in [Workers -> Nat]
  BY QueueAssumption DEF TypeOK, Tick, Down
<1>2. claimAge' \in [Rows -> Nat] /\ doneAge' \in [Rows -> Nat]
  BY QueueAssumption DEF TypeOK, Tick, Up
<1> QED BY <1>1, <1>2 DEF TypeOK, Tick

LEMMA NextTypeOK == TypeOK /\ [Next]_vars => TypeOK'
<1> SUFFICES ASSUME TypeOK, [Next]_vars PROVE TypeOK'
  OBVIOUS
<1>1. CASE Next
  BY <1>1, PublisherTypeOK, WorkerTypeOK, FaultTypeOK, TickTypeOK DEF Next
<1>2. CASE UNCHANGED vars
  BY <1>2 DEF vars, table, processes, TypeOK
<1> QED BY <1>1, <1>2

\* The type invariant, for every configuration.
THEOREM TypeCorrect == Spec => []TypeOK
BY InitTypeOK, NextTypeOK, PTL DEF Spec

-----------------------------------------------------------------------------
(* No process sleeps over due work.  What that needs to be told is that a  *)
(* message nobody has published has no rows, and that no process holds a   *)
(* row that is not there.                                                  *)

NewIsAbsent == \A m \in Messages : progress[m] = "new" => \A r \in RowsOf(m) : status[r] = "absent"

HeldIsPresent ==
    \A w \in Workers :
        /\ \A r \in BatchOf(w) : status[r] # "absent"
        /\ phase[w] \in {"handling", "succeeded", "erred"} =>
              current[w] \in Rows /\ status[current[w]] # "absent"

Attended(r) ==
    \E w \in Workers :
        \/ phase[w] # "waiting"
        \/ notified[w]
        \/ timer[w] = 0 \/ timer[w] <= due[r]

InTime(m, r) ==
    (faults = 0 /\ (\A w \in Workers : listening[w]) /\ r \in Scheduled) =>
        progress[m] \in {"inserting", "notifying"} \/ Attended(r)

WakeInv ==
    /\ NewIsAbsent /\ HeldIsPresent
    /\ \A m \in Messages : \A r \in RowsOf(m) : InTime(m, r)

LEMMA RowsOfAreRows ==
    /\ \A m \in Messages : RowsOf(m) \subseteq Rows
    /\ \A m, n \in Messages : \A r \in RowsOf(m) : r \in RowsOf(n) => m = n
BY DEF Rows, RowsOf

-----------------------------------------------------------------------------
(* Rows that are there and rows that are not.                              *)

\* A row never ceases to be there, and only its publisher puts it there.
LEMMA AbsenceStep ==
    ASSUME TypeOK, HeldIsPresent, [Next]_vars, NEW r \in Rows
    PROVE  /\ status[r] # "absent" => status'[r] # "absent"
           /\ status[r] = "absent" /\ status'[r] # "absent" =>
                 \E m \in Messages : r \in RowsOf(m) /\ progress'[m] # "new"
<1>1. ASSUME NEW n \in Messages, PublisherStep(n) \/ InsertFails(n) \/ NotifyFails(n)
      PROVE  status'[r] = status[r] \/ (status'[r] # "absent" /\ r \in RowsOf(n) /\ progress'[n] # "new")
  <2>1. ASSUME NEW q \in RowsOf(n), InsertRow(q)
        PROVE  status'[r] = status[r] \/ (q = r /\ status'[r] # "absent")
    BY <2>1, RowsOfAreRows DEF InsertRow, TypeOK
  <2>2. status' = status \/ progress'[n] # "new"
    BY <1>1 DEF PublisherStep, Reject, Insert, Notify, InsertFails, NotifyFails, TypeOK, table
  <2> QED BY <1>1, <2>1, <2>2 DEF PublisherStep, Reject, Insert, Notify, InsertFails, NotifyFails, table
<1>2. ASSUME NEW w \in Workers, WorkerStep(w) \/ WorkerFault(w) \/ Restart(w)
      PROVE  status[r] = "absent" <=> status'[r] = "absent"
  <2>1. CASE Claim(w) \/ ClaimFails(w)
    BY <2>1 DEF Claim, ClaimFails, IsOldestBatch, Claimable, MarkClaimed
  <2>2. CASE Reclaim(w) \/ Prune(w)
    BY <2>2 DEF Reclaim, Prune, Expired, Prunable
  <2>3. CASE Complete(w) \/ Fail(w)
    BY <2>3 DEF Complete, Fail, DeadLetter, Retry, HeldIsPresent, TypeOK
  <2>4. CASE TakeUp(w) \/ HandlerSucceeds(w) \/ HandlerErrs(w) \/ Ask(w) \/ Wake(w) \/ WaitEnds(w)
             \/ OutcomeLost(w) \/ SweepFails(w) \/ ListenerFails(w) \/ NotificationLost(w)
             \/ Crash(w) \/ Restart(w)
    BY <2>4 DEF TakeUp, HandlerSucceeds, HandlerErrs, Ask, Wake, WaitEnds, OutcomeLost,
                SweepFails, ListenerFails, NotificationLost, Crash, Restart, table
  <2> QED BY <1>2, <2>1, <2>2, <2>3, <2>4 DEF WorkerStep, WorkerFault
<1> QED BY <1>1, <1>2 DEF Next, Tick, vars, table

LEMMA NewStep ==
    ASSUME TypeOK, NewIsAbsent, HeldIsPresent, [Next]_vars
    PROVE  NewIsAbsent'
<1> SUFFICES ASSUME NEW m \in Messages, progress'[m] = "new", NEW r \in RowsOf(m)
             PROVE  status'[r] = "absent"
  BY DEF NewIsAbsent, RowsOf
<1>1. progress[m] = "new"
  BY DEF Next, PublisherStep, Reject, Insert, Notify, InsertFails, NotifyFails, WorkerStep, WorkerFault,
         Claim, ClaimFails, TakeUp, HandlerSucceeds, HandlerErrs, Complete, Fail, OutcomeLost, Reclaim,
         Prune, Ask, SweepFails, Wake, WaitEnds, ListenerFails, NotificationLost, Crash, Restart,
         Tick, TypeOK, vars
<1> QED BY <1>1, AbsenceStep, RowsOfAreRows DEF NewIsAbsent

LEMMA HeldStep ==
    ASSUME TypeOK, TypeOK', HeldIsPresent, [Next]_vars
    PROVE  HeldIsPresent'
<1> SUFFICES ASSUME NEW v \in Workers
             PROVE  /\ \A r \in BatchOf(v)' : status'[r] # "absent"
                    /\ phase'[v] \in {"handling", "succeeded", "erred"} =>
                          current'[v] \in Rows /\ status'[current'[v]] # "absent"
  BY DEF HeldIsPresent
<1>1. \A r \in Rows : status[r] # "absent" => status'[r] # "absent"
  BY AbsenceStep
<1>2. \A r \in BatchOf(v) : r \in Rows /\ status[r] # "absent"
  BY DEF HeldIsPresent, BatchOf
<1>3. ASSUME UNCHANGED <<phase, delivery, current>>
      PROVE  /\ \A r \in BatchOf(v)' : status'[r] # "absent"
             /\ phase'[v] \in {"handling", "succeeded", "erred"} =>
                   current'[v] \in Rows /\ status'[current'[v]] # "absent"
  BY <1>1, <1>2, <1>3 DEF HeldIsPresent, BatchOf
<1>4. ASSUME NEW w \in Workers, WorkerStep(w) \/ WorkerFault(w) \/ Restart(w)
      PROVE  /\ \A r \in BatchOf(v)' : status'[r] # "absent"
             /\ phase'[v] \in {"handling", "succeeded", "erred"} =>
                   current'[v] \in Rows /\ status'[current'[v]] # "absent"
  <2>1. CASE Claim(w)
    <3> PICK S \in SUBSET Rows :
            /\ MarkClaimed(S)
            /\ delivery' = [delivery EXCEPT ![w] = [r \in Rows |-> IF r \in S THEN attempts[r] + 1 ELSE 0]]
      BY <2>1 DEF Claim
    <3>1. \A r \in BatchOf(v)' : r \in BatchOf(v) \/ r \in S
      BY DEF BatchOf, TypeOK
    <3>2. \A r \in S : status'[r] = "running"
      BY DEF MarkClaimed
    <3>3. phase'[v] \in {"handling", "succeeded", "erred"} => phase'[v] = phase[v] /\ current' = current
      BY <2>1 DEF Claim, MoveTo, TypeOK
    <3> QED BY <1>1, <1>2, <3>1, <3>2, <3>3 DEF HeldIsPresent
  <2>2. CASE TakeUp(w)
    BY <1>1, <1>2, <2>2 DEF TakeUp, MoveTo, HeldIsPresent, BatchOf, TypeOK
  <2>3. CASE NextDelivery(w)
    <3>1. BatchOf(v)' \subseteq BatchOf(v)
      BY <2>3 DEF NextDelivery, BatchOf, TypeOK
    <3>2. phase'[v] \in {"handling", "succeeded", "erred"} => phase'[v] = phase[v] /\ current'[v] = current[v]
      BY <2>3 DEF NextDelivery, MoveTo, TypeOK
    <3> QED BY <1>1, <1>2, <3>1, <3>2 DEF HeldIsPresent
  <2>4. CASE Crash(w)
    <3>1. BatchOf(v)' \subseteq BatchOf(v)
      BY <2>4 DEF Crash, BatchOf, TypeOK
    <3>2. phase'[v] \in {"handling", "succeeded", "erred"} => phase'[v] = phase[v] /\ current'[v] = current[v]
      BY <2>4 DEF Crash, MoveTo, TypeOK
    <3> QED BY <1>1, <1>2, <3>1, <3>2 DEF HeldIsPresent
  <2>5. CASE HandlerSucceeds(w) \/ HandlerErrs(w)
    BY <1>1, <1>2, <2>5 DEF HandlerSucceeds, HandlerErrs, MoveTo, HeldIsPresent, BatchOf, TypeOK
  <2>6. CASE ClaimFails(w) \/ Reclaim(w) \/ Prune(w) \/ Ask(w) \/ Wake(w) \/ WaitEnds(w)
             \/ SweepFails(w) \/ ListenerFails(w) \/ NotificationLost(w) \/ Restart(w)
    <3>1. UNCHANGED <<delivery, current>>
          /\ (phase'[v] \in {"handling", "succeeded", "erred"} => phase'[v] = phase[v])
      BY <2>6 DEF ClaimFails, Reclaim, Prune, Ask, Wake, WaitEnds, SweepFails, ListenerFails,
                  NotificationLost, Restart, MoveTo, TypeOK
    <3> QED BY <1>1, <1>2, <3>1 DEF HeldIsPresent, BatchOf
  <2> QED BY <1>4, <2>1, <2>2, <2>3, <2>4, <2>5, <2>6
          DEF WorkerStep, WorkerFault, Complete, Fail, OutcomeLost
<1>5. ASSUME NEW m \in Messages, PublisherStep(m) \/ InsertFails(m) \/ NotifyFails(m)
      PROVE  UNCHANGED <<phase, delivery, current>>
  BY <1>5 DEF PublisherStep, Reject, Insert, Notify, InsertFails, NotifyFails, processes
<1>6. CASE Tick \/ UNCHANGED vars
  BY <1>3, <1>6 DEF Tick, vars, processes
<1> QED BY <1>3, <1>4, <1>5, <1>6 DEF Next

-----------------------------------------------------------------------------
(* Due work.                                                               *)

LEMMA PublisherInTime ==
    ASSUME Workers # {}, TypeOK, WakeInv, NEW n \in Messages, PublisherStep(n),
           NEW m \in Messages, NEW r \in RowsOf(m)
    PROVE  InTime(m, r)'
<1> SUFFICES ASSUME faults = 0, \A w \in Workers : listening[w], r \in Scheduled'
             PROVE  progress'[m] \in {"inserting", "notifying"} \/ Attended(r)'
  BY DEF InTime, PublisherStep, Reject, Insert, Notify, processes
<1>1. r \in Rows /\ (m # n => r \notin RowsOf(n))
  BY RowsOfAreRows
<1>2. InTime(m, r)
  BY DEF WakeInv
<1>3. CASE Reject(n)
  <2>1. UNCHANGED <<table, processes>> /\ (m = n \/ progress'[m] = progress[m]) /\ progress[n] = "new"
    BY <1>3 DEF Reject, TypeOK
  <2>2. Scheduled' = Scheduled /\ (Attended(r)' <=> Attended(r))
    BY <2>1 DEF table, processes, Scheduled, HasSubscriber, Attended
  <2>3. m # n
    BY <2>1, <2>2 DEF WakeInv, NewIsAbsent, Scheduled
  <2> QED BY <1>2, <2>1, <2>2, <2>3 DEF InTime
<1>4. CASE Insert(n)
  <2>1. UNCHANGED processes
    BY <1>4 DEF Insert
  <2> PICK q \in RowsOf(n) :
        /\ InsertRow(q)
        /\ progress' = [progress EXCEPT ![n] =
            IF \E p \in RowsOf(n) : p[2] > q[2] THEN "inserting"
            ELSE IF HasSubscriber(q) THEN "notifying" ELSE "accepted"]
    BY <1>4 DEF Insert
  <2>2. CASE m # n
    <3>1. status'[r] = status[r] /\ due'[r] = due[r] /\ progress'[m] = progress[m]
      BY <1>1, <2>2 DEF InsertRow, TypeOK
    <3>2. r \in Scheduled /\ (Attended(r)' <=> Attended(r))
      BY <1>1, <2>1, <3>1 DEF Scheduled, HasSubscriber, processes, Attended
    <3> QED BY <1>2, <3>1, <3>2 DEF InTime
  <2>3. CASE m = n
    <3>1. HasSubscriber(r)
      BY DEF Scheduled, HasSubscriber
    <3>2. r \in RowsOf(n) /\ FanOut[n] # 0
      BY <2>3, <3>1, QueueAssumption DEF RowsOf, HasSubscriber
    <3>3. HasSubscriber(q)
      BY <3>2, QueueAssumption DEF RowsOf, HasSubscriber
    <3> QED BY <2>3, <3>3 DEF TypeOK
  <2> QED BY <2>2, <2>3
<1>5. CASE Notify(n)
  <2>1. notified' = [w \in Workers |-> notified[w] \/ listening[w]] /\ UNCHANGED listening
    BY <1>5 DEF Notify
  <2>2. \A w \in Workers : notified'[w]
    BY <2>1
  <2> QED BY <2>2 DEF Attended
<1> QED BY <1>3, <1>4, <1>5 DEF PublisherStep

\* A process that does not go to sleep attends to everything; one that does
\* has set its timer by the rows it saw.
LEMMA WorkerInTime ==
    ASSUME TypeOK, TypeOK', NEW w \in Workers, WorkerStep(w) \/ Restart(w),
           NEW m \in Messages, NEW r \in RowsOf(m)
    PROVE  InTime(m, r)'
<1>1. CASE Ask(w)
  <2> SUFFICES ASSUME r \in Scheduled'  PROVE Attended(r)'
    BY DEF InTime
  <2>1. r \in Scheduled /\ due'[r] = due[r] /\ due[r] \in Int
    BY <1>1, RowsOfAreRows DEF Ask, table, Scheduled, TypeOK
  <2>2. PICK t \in Waits : (\A u \in Waits : t <= u) /\ timer' = [timer EXCEPT ![w] = t]
    BY <1>1 DEF Ask
  <2>3. timer'[w] = t /\ timer'[w] \in Nat
    BY <2>2 DEF TypeOK
  <2>4. t <= IF due[r] > 0 THEN due[r] ELSE 0
    BY <2>1, <2>2 DEF Waits
  <2>5. timer'[w] = 0 \/ timer'[w] <= due'[r]
    BY <2>1, <2>3, <2>4
  <2> QED BY <2>5 DEF Attended
<1>2. CASE ~Ask(w)
  <2>1. phase'[w] # "waiting"
    BY <1>2 DEF WorkerStep, Claim, TakeUp, HandlerSucceeds, HandlerErrs, Complete, Fail, NextDelivery,
                Reclaim, Prune, Wake, WaitEnds, Restart, MoveTo, TypeOK
  <2> QED BY <2>1 DEF InTime, Attended
<1> QED BY <1>1, <1>2

LEMMA TickInTime ==
    ASSUME TypeOK, WakeInv, Tick, NEW m \in Messages, NEW r \in RowsOf(m)
    PROVE  InTime(m, r)'
<1> SUFFICES ASSUME faults = 0, \A w \in Workers : listening[w], r \in Scheduled',
                    progress[m] \notin {"inserting", "notifying"}
             PROVE  Attended(r)'
  BY DEF InTime, Tick
<1>1. r \in Scheduled /\ r \in Rows
  BY RowsOfAreRows DEF Tick, Scheduled
<1>2. PICK w \in Workers :
        phase[w] # "waiting" \/ notified[w] \/ timer[w] = 0 \/ timer[w] <= due[r]
  BY <1>1 DEF WakeInv, InTime, Attended
<1>3. CASE phase[w] # "waiting" \/ notified[w]
  BY <1>3 DEF Tick, Attended
<1>4. CASE timer[w] = 0 \/ timer[w] <= due[r]
  <2>1. timer[w] \in Nat /\ due[r] \in Int /\ Overdue \in Nat
    BY <1>1, QueueAssumption DEF TypeOK
  <2>2. timer'[w] = Down(timer[w], 0) /\ due'[r] = Down(due[r], -Overdue)
    BY <1>1 DEF Tick
  <2>3. timer'[w] = 0 \/ timer'[w] <= due'[r]
    BY <1>4, <2>1, <2>2 DEF Down
  <2> QED BY <2>3 DEF Attended
<1> QED BY <1>2, <1>3, <1>4

\* Once something has failed there is nothing left to promise.
LEMMA FaultInTime ==
    ASSUME TypeOK, NEW m \in Messages, NEW r \in RowsOf(m),
           \/ \E n \in Messages : InsertFails(n) \/ NotifyFails(n)
           \/ \E w \in Workers : WorkerFault(w)
    PROVE  InTime(m, r)'
<1>1. faults' = faults + 1
  BY DEF InsertFails, NotifyFails, WorkerFault, ClaimFails, OutcomeLost, SweepFails, ListenerFails,
         NotificationLost, Crash, Fault
<1>2. faults' # 0
  BY <1>1 DEF TypeOK
<1> QED BY <1>2 DEF InTime

LEMMA WakeInit == Init => WakeInv
<1> SUFFICES ASSUME Init PROVE WakeInv
  OBVIOUS
<1>1. \A r \in Rows : status[r] = "absent"
  BY DEF Init
<1>2. NewIsAbsent
  BY <1>1, RowsOfAreRows DEF NewIsAbsent
<1>3. HeldIsPresent
  BY DEF Init, HeldIsPresent, BatchOf
<1>4. \A m \in Messages : \A r \in RowsOf(m) : InTime(m, r)
  BY <1>1, RowsOfAreRows DEF InTime, Scheduled
<1> QED BY <1>2, <1>3, <1>4 DEF WakeInv

LEMMA WakeNext ==
    ASSUME Workers # {}, TypeOK, TypeOK', WakeInv, [Next]_vars
    PROVE  WakeInv'
<1>1. NewIsAbsent' /\ HeldIsPresent'
  BY NewStep, HeldStep DEF WakeInv
<1>2. ASSUME NEW m \in Messages, NEW r \in RowsOf(m)
      PROVE  InTime(m, r)'
  <2>1. CASE \E n \in Messages : PublisherStep(n)
    BY <1>2, <2>1, PublisherInTime
  <2>2. CASE \E w \in Workers : WorkerStep(w) \/ Restart(w)
    BY <1>2, <2>2, WorkerInTime
  <2>3. CASE \/ \E n \in Messages : InsertFails(n) \/ NotifyFails(n)
             \/ \E w \in Workers : WorkerFault(w)
    BY <1>2, <2>3, FaultInTime
  <2>4. CASE Tick
    BY <1>2, <2>4, TickInTime
  <2>5. CASE UNCHANGED vars
    <3>1. InTime(m, r)
      BY <1>2 DEF WakeInv
    <3> QED BY <2>5, <3>1 DEF vars, table, processes, InTime, Attended, Scheduled, HasSubscriber
  <2> QED BY <2>1, <2>2, <2>3, <2>4, <2>5 DEF Next
<1>3. \A m \in Messages : \A r \in RowsOf(m) : InTime(m, r)'
  BY <1>2
<1> QED BY <1>1, <1>3 DEF WakeInv, RowsOf

\* Until something fails, no process of any number sleeps over a due row of
\* any message: the handshake of publish's notify with next_due's timer
\* (queues.rs) loses no wakeup.
THEOREM NoWakeupIsLost ==
    ASSUME Workers # {}
    PROVE  Spec => []NoLostWakeup
<1>1. Init => TypeOK /\ WakeInv
  BY InitTypeOK, WakeInit
<1>2. TypeOK /\ WakeInv /\ [Next]_vars => (TypeOK /\ WakeInv)'
  BY NextTypeOK, WakeNext
<1>3. TypeOK /\ WakeInv => NoLostWakeup
  BY DEF WakeInv, InTime, Attended, NoLostWakeup
<1> QED BY <1>1, <1>2, <1>3, PTL DEF Spec

----------------------------------------------------------------------------
\* Leases: LeaseInv is inductive, and implies LeaseIsExclusive.

LEMMA InitLeaseInv == Init => LeaseInv
<1> SUFFICES ASSUME Init PROVE LeaseInv
  OBVIOUS
<1>1. \A w \in Workers : BatchOf(w) = {}
  BY DEF Init, BatchOf
<1>2. \A w \in Workers : phase[w] = "drain" /\ spent[w] = 0
  BY DEF Init
<1>3. HandlerTicks \in Nat
  BY QueueAssumption
<1> QED BY <1>1, <1>2, <1>3, FS_EmptySet
    DEF LeaseInv, BatchIsRunning, BatchesAreDisjoint, CurrentIsHeld, LeaseBudget

\* Only what a step does to the rows in batches matters to LeaseInv.
LEMMA LeaseFrame ==
    ASSUME LeaseInv, CurrentIsHeld', UNCHANGED <<delivery, spent>>,
           \A w \in Workers : \A r \in BatchOf(w) :
               status'[r] = status[r] /\ attempts'[r] = attempts[r] /\ claimAge'[r] = claimAge[r]
    PROVE  LeaseInv'
<1>1. \A w \in Workers : BatchOf(w)' = BatchOf(w)
  BY DEF BatchOf
<1>2. BatchIsRunning'
  BY <1>1 DEF LeaseInv, BatchIsRunning
<1>3. BatchesAreDisjoint'
  BY <1>1 DEF LeaseInv, BatchesAreDisjoint
<1>4. LeaseBudget'
  BY <1>1 DEF LeaseInv, LeaseBudget
<1> QED BY <1>2, <1>3, <1>4 DEF LeaseInv

\* A step of a process between batches, or between the stages of a delivery.
LEMMA PhaseFrame ==
    ASSUME TypeOK, LeaseInv, NEW w \in Workers, NEW p \in Phases, MoveTo(w, p),
           UNCHANGED <<delivery, current>>,
           \/ BatchOf(w) = {} /\ p \notin {"handling", "succeeded", "erred"}
           \/ phase[w] = "handling" /\ p \in {"succeeded", "erred"}
    PROVE  CurrentIsHeld'
<1> SUFFICES ASSUME NEW v \in Workers
             PROVE  /\ phase'[v] \in {"handling", "succeeded", "erred"} => current'[v] \in BatchOf(v)'
                    /\ BatchOf(v)' # {} => phase'[v] \in Busy
  BY DEF CurrentIsHeld
<1>1. BatchOf(v)' = BatchOf(v) /\ current'[v] = current[v]
  BY DEF BatchOf
<1>2. CASE v = w
  BY <1>1, <1>2 DEF LeaseInv, CurrentIsHeld, MoveTo, TypeOK, Busy
<1>3. CASE v # w
  BY <1>1, <1>3 DEF LeaseInv, CurrentIsHeld, MoveTo, TypeOK
<1> QED BY <1>2, <1>3

LEMMA PublisherLeaseInv ==
    ASSUME TypeOK, LeaseInv, NEW m \in Messages,
           PublisherStep(m) \/ InsertFails(m) \/ NotifyFails(m)
    PROVE  LeaseInv'
<1>1. UNCHANGED <<attempts, claimAge, phase, delivery, current, spent>>
  BY DEF PublisherStep, Reject, Insert, Notify, InsertFails, NotifyFails, InsertRow,
         table, processes
<1>2. CurrentIsHeld'
  BY <1>1 DEF LeaseInv, CurrentIsHeld, BatchOf
<1>3. ASSUME NEW w \in Workers, NEW r \in BatchOf(w)
      PROVE  status'[r] = status[r]
  <2>1. status[r] = "running" /\ r \in Rows
    BY <1>3 DEF LeaseInv, BatchIsRunning, BatchOf
  <2>2. ASSUME NEW q, IsNextRow(m, q), InsertRow(q)
        PROVE  status'[r] = status[r]
    BY <2>1, <2>2 DEF IsNextRow, InsertRow, TypeOK
  <2> QED BY <2>2 DEF PublisherStep, Reject, Insert, Notify, InsertFails, NotifyFails, table
<1> QED BY <1>1, <1>2, <1>3, LeaseFrame

LEMMA ClaimLeaseInv ==
    ASSUME TypeOK, LeaseInv, LeaseCoversBatch, NEW w \in Workers, Claim(w)
    PROVE  LeaseInv'
<1> PICK S \in SUBSET Rows :
        /\ IsOldestBatch(S)
        /\ MarkClaimed(S)
        /\ delivery' = [delivery EXCEPT ![w] =
                            [r \in Rows |-> IF r \in S THEN attempts[r] + 1 ELSE 0]]
        /\ MoveTo(w, IF S = {} THEN "reclaim" ELSE "pick")
  BY DEF Claim
<1>1. \A r \in S : status[r] = "pending"
  BY DEF IsOldestBatch, Claimable
<1>2. \A v \in Workers : BatchOf(v) \cap S = {}
  BY <1>1 DEF LeaseInv, BatchIsRunning
<1>3. BatchOf(w)' = S
  <2>1. \A r \in Rows : delivery'[w][r] = IF r \in S THEN attempts[r] + 1 ELSE 0
    BY DEF TypeOK
  <2>2. \A r \in Rows : attempts[r] \in Nat
    BY DEF TypeOK
  <2> QED BY <2>1, <2>2 DEF BatchOf
<1>4. \A v \in Workers : v # w => delivery'[v] = delivery[v] /\ BatchOf(v)' = BatchOf(v)
  BY DEF TypeOK, BatchOf
<1>5. \A r \in Rows : r \notin S =>
          status'[r] = status[r] /\ attempts'[r] = attempts[r] /\ claimAge'[r] = claimAge[r]
  BY DEF MarkClaimed
<1>6. \A r \in S : status'[r] = "running" /\ attempts'[r] = attempts[r] + 1 /\ claimAge'[r] = 0
  BY DEF MarkClaimed
<1>7. BatchIsRunning'
  <2> SUFFICES ASSUME NEW v \in Workers, NEW r \in BatchOf(v)'
               PROVE  status'[r] = "running" /\ delivery'[v][r] = attempts'[r]
    BY DEF BatchIsRunning
  <2>1. CASE v = w
    BY <2>1, <1>3, <1>6 DEF TypeOK
  <2>2. CASE v # w
    <3>1. r \in BatchOf(v) /\ r \notin S /\ r \in Rows
      BY <2>2, <1>2, <1>4 DEF BatchOf
    <3> QED BY <2>2, <3>1, <1>4, <1>5 DEF LeaseInv, BatchIsRunning
  <2> QED BY <2>1, <2>2
<1>8. BatchesAreDisjoint'
  BY <1>2, <1>3, <1>4 DEF LeaseInv, BatchesAreDisjoint
<1>9. CurrentIsHeld'
  <2> SUFFICES ASSUME NEW v \in Workers
               PROVE  /\ phase'[v] \in {"handling", "succeeded", "erred"} =>
                             current'[v] \in BatchOf(v)'
                      /\ BatchOf(v)' # {} => phase'[v] \in Busy
    BY DEF CurrentIsHeld
  <2>1. CASE v = w
    BY <2>1, <1>3 DEF MoveTo, TypeOK, Busy
  <2>2. CASE v # w
    BY <2>2, <1>4 DEF Claim, MoveTo, TypeOK, LeaseInv, CurrentIsHeld
  <2> QED BY <2>1, <2>2
<1>10. LeaseBudget'
  <2>1. spent' = [spent EXCEPT ![w] = 0]
    BY DEF Claim
  <2> SUFFICES ASSUME NEW v \in Workers
               PROVE  /\ IsFiniteSet(BatchOf(v)')
                      /\ spent'[v] <= HandlerTicks
                      /\ \A r \in BatchOf(v)' :
                          claimAge'[r] + Cardinality(BatchOf(v)') * HandlerTicks <= Lease + spent'[v]
    BY DEF LeaseBudget
  <2>2. CASE v = w
    <3>1. IsFiniteSet(S) /\ Cardinality(S) \in Nat /\ Cardinality(S) <= Batch
      BY FS_CardinalityType DEF IsOldestBatch
    <3>2. Batch \in Nat /\ HandlerTicks \in Nat /\ Lease \in Nat
      BY QueueAssumption
    <3>3. Cardinality(S) * HandlerTicks <= Batch * HandlerTicks
      BY <3>1, <3>2
    <3>4. spent'[v] = 0
      BY <2>1, <2>2 DEF TypeOK
    <3>5. Cardinality(S) * HandlerTicks \in Nat /\ Batch * HandlerTicks \in Nat
      BY <3>1, <3>2
    <3>6. 0 + Cardinality(S) * HandlerTicks <= Lease + 0
      BY <3>2, <3>3, <3>5 DEF LeaseCoversBatch
    <3> QED BY <2>2, <1>3, <1>6, <3>1, <3>2, <3>4, <3>6
  <2>3. CASE v # w
    <3>1. spent'[v] = spent[v] /\ BatchOf(v)' = BatchOf(v)
      BY <2>1, <2>3, <1>4 DEF TypeOK
    <3>2. \A r \in BatchOf(v) : claimAge'[r] = claimAge[r]
      BY <1>2, <1>5 DEF BatchOf
    <3> QED BY <3>1, <3>2 DEF LeaseInv, LeaseBudget
  <2> QED BY <2>2, <2>3
<1> QED BY <1>7, <1>8, <1>9, <1>10 DEF LeaseInv

\* Recording an outcome, or failing to, lets one row of a batch go.
LEMMA LetGoLeaseInv ==
    ASSUME TypeOK, LeaseInv, NEW w \in Workers, NextDelivery(w),
           phase[w] \in {"succeeded", "erred"}, UNCHANGED <<attempts, claimAge>>,
           \A r \in Rows : r # current[w] => status'[r] = status[r]
    PROVE  LeaseInv'
<1> DEFINE c == current[w]
<1>1. c \in BatchOf(w) /\ c \in Rows
  BY DEF LeaseInv, CurrentIsHeld, BatchOf
<1>2. BatchOf(w)' = BatchOf(w) \ {c}
  <2>1. \A r \in Rows : delivery'[w][r] = IF r = c THEN 0 ELSE delivery[w][r]
    BY <1>1 DEF NextDelivery, TypeOK
  <2> QED BY <2>1 DEF BatchOf
<1>3. \A v \in Workers : v # w =>
          delivery'[v] = delivery[v] /\ BatchOf(v)' = BatchOf(v) /\ c \notin BatchOf(v)
  <2>1. \A v \in Workers : v # w => delivery'[v] = delivery[v]
    BY DEF NextDelivery, TypeOK
  <2> QED BY <2>1, <1>1 DEF LeaseInv, BatchesAreDisjoint, BatchOf
<1>4. \A v \in Workers : \A r \in BatchOf(v)' :
          /\ r \in BatchOf(v) /\ r \in Rows /\ r # c
          /\ delivery'[v][r] = delivery[v][r]
  BY <1>1, <1>2, <1>3 DEF BatchOf, NextDelivery, TypeOK
<1> HIDE DEF c
<1>5. BatchIsRunning'
  BY <1>4 DEF LeaseInv, BatchIsRunning, c
<1>6. BatchesAreDisjoint'
  BY <1>4 DEF LeaseInv, BatchesAreDisjoint
<1>7. CurrentIsHeld'
  <2> SUFFICES ASSUME NEW v \in Workers
               PROVE  /\ phase'[v] \in {"handling", "succeeded", "erred"} =>
                             current'[v] \in BatchOf(v)'
                      /\ BatchOf(v)' # {} => phase'[v] \in Busy
    BY DEF CurrentIsHeld
  <2>1. CASE v = w
    BY <2>1, <1>1, <1>2 DEF NextDelivery, MoveTo, TypeOK, Busy, c
  <2>2. CASE v # w
    BY <2>2, <1>3 DEF NextDelivery, MoveTo, TypeOK, LeaseInv, CurrentIsHeld
  <2> QED BY <2>1, <2>2
<1>8. LeaseBudget'
  <2> SUFFICES ASSUME NEW v \in Workers
               PROVE  /\ IsFiniteSet(BatchOf(v)')
                      /\ spent'[v] <= HandlerTicks
                      /\ \A r \in BatchOf(v)' :
                          claimAge'[r] + Cardinality(BatchOf(v)') * HandlerTicks <= Lease + spent'[v]
    BY DEF LeaseBudget
  <2>1. CASE v = w
    <3> DEFINE n == Cardinality(BatchOf(w))
    <3>1. IsFiniteSet(BatchOf(w)) /\ spent[w] <= HandlerTicks
      BY DEF LeaseInv, LeaseBudget
    <3>2. /\ n \in Nat /\ n - 1 \in Nat /\ IsFiniteSet(BatchOf(w)')
          /\ Cardinality(BatchOf(w)') = n - 1
      <4>1. Cardinality(BatchOf(w)') = n - 1 /\ IsFiniteSet(BatchOf(w)')
        BY <1>1, <1>2, <3>1, FS_RemoveElement
      <4> QED BY <4>1, <3>1, FS_CardinalityType
    <3>3. HandlerTicks \in Nat /\ Lease \in Nat
      BY QueueAssumption
    <3>4. spent'[w] = 0 /\ spent[w] \in Nat
      BY DEF NextDelivery, TypeOK
    <3>5. ASSUME NEW r \in BatchOf(w)'
          PROVE  claimAge'[r] + (n - 1) * HandlerTicks <= Lease + 0
      <4>1. claimAge'[r] = claimAge[r] /\ claimAge[r] \in Nat
        BY <3>5, <1>4 DEF TypeOK
      <4>2. claimAge[r] + n * HandlerTicks <= Lease + spent[w]
        BY <3>5, <1>4 DEF LeaseInv, LeaseBudget
      <4> HIDE DEF n
      <4>3. (n - 1) * HandlerTicks = n * HandlerTicks - HandlerTicks
        BY <3>2, <3>3
      <4>4. n * HandlerTicks \in Nat
        BY <3>2, <3>3
      <4> QED BY <3>1, <3>3, <3>4, <4>1, <4>2, <4>3, <4>4
    <3> QED BY <2>1, <3>2, <3>3, <3>4, <3>5
  <2>2. CASE v # w
    BY <2>2, <1>3 DEF NextDelivery, TypeOK, LeaseInv, LeaseBudget
  <2> QED BY <2>1, <2>2
<1> QED BY <1>5, <1>6, <1>7, <1>8 DEF LeaseInv

\* No row of a batch has outlived its lease.
LEMMA HeldIsNotExpired ==
    ASSUME TypeOK, LeaseInv, NEW w \in Workers, NEW r \in BatchOf(w)
    PROVE  r \notin Expired
<1> DEFINE n == Cardinality(BatchOf(w))
<1>1. IsFiniteSet(BatchOf(w)) /\ spent[w] <= HandlerTicks
      /\ claimAge[r] + n * HandlerTicks <= Lease + spent[w]
  BY DEF LeaseInv, LeaseBudget
<1>2. n \in Nat /\ n >= 1
  <2>1. n \in Nat
    BY <1>1, FS_CardinalityType
  <2>2. n # 0
    BY <1>1, FS_EmptySet
  <2> QED BY <2>1, <2>2
<1>3. HandlerTicks \in Nat /\ Lease \in Nat /\ spent[w] \in Nat /\ claimAge[r] \in Nat
  BY QueueAssumption DEF TypeOK, BatchOf
<1> HIDE DEF n
<1>4. n * HandlerTicks >= HandlerTicks /\ n * HandlerTicks \in Nat
  BY <1>2, <1>3
<1>5. claimAge[r] <= Lease
  BY <1>1, <1>3, <1>4
<1> QED BY <1>3, <1>5 DEF Expired

LEMMA WorkerLeaseInv ==
    ASSUME TypeOK, LeaseInv, LeaseCoversBatch, NEW w \in Workers, WorkerStep(w)
    PROVE  LeaseInv'
<1>0. BatchOf(w) # {} => phase[w] \in Busy
  BY DEF LeaseInv, CurrentIsHeld
<1>1. CASE Claim(w)
  BY <1>1, ClaimLeaseInv
<1>2. CASE TakeUp(w)
  <2>1. UNCHANGED <<status, attempts, claimAge, delivery, spent>>
    BY <1>2 DEF TakeUp, table
  <2>2. CurrentIsHeld'
    <3>1. \A v \in Workers : BatchOf(v)' = BatchOf(v)
      BY <2>1 DEF BatchOf
    <3>2. current'[w] \in BatchOf(w) /\ phase'[w] = "handling"
      BY <1>2 DEF TakeUp, MoveTo, TypeOK
    <3>3. \A v \in Workers : v # w => current'[v] = current[v] /\ phase'[v] = phase[v]
      BY <1>2 DEF TakeUp, MoveTo, TypeOK
    <3> QED BY <3>1, <3>2, <3>3 DEF LeaseInv, CurrentIsHeld, Busy
  <2> QED BY <2>1, <2>2, LeaseFrame
<1>3. CASE HandlerSucceeds(w) \/ HandlerErrs(w)
  <2>1. UNCHANGED <<status, attempts, claimAge, delivery, spent, current>>
    BY <1>3 DEF HandlerSucceeds, HandlerErrs, table
  <2>2. CurrentIsHeld'
    BY <1>3, <2>1, PhaseFrame DEF HandlerSucceeds, HandlerErrs, Phases
  <2> QED BY <2>1, <2>2, LeaseFrame
<1>4. CASE Complete(w)
  <2>1. \A r \in Rows : r # current[w] => status'[r] = status[r]
    BY <1>4 DEF Complete, TypeOK
  <2> QED BY <1>4, <2>1, LetGoLeaseInv DEF Complete
<1>5. CASE Fail(w)
  <2>1. \A r \in Rows : r # current[w] => status'[r] = status[r]
    BY <1>5 DEF Fail, DeadLetter, Retry, TypeOK
  <2> QED BY <1>5, <2>1, LetGoLeaseInv DEF Fail
<1>6. CASE Reclaim(w)
  <2>1. UNCHANGED <<attempts, claimAge, delivery, spent, current>>
    BY <1>6 DEF Reclaim
  <2>2. CurrentIsHeld'
    BY <1>0, <1>6, <2>1, PhaseFrame DEF Reclaim, Phases, Busy
  <2>3. \A v \in Workers : \A r \in BatchOf(v) : status'[r] = status[r]
    BY <1>6, HeldIsNotExpired DEF Reclaim, BatchOf
  <2> QED BY <2>1, <2>2, <2>3, LeaseFrame
<1>7. CASE Prune(w)
  <2>1. UNCHANGED <<attempts, claimAge, delivery, spent, current>>
    BY <1>7 DEF Prune
  <2>2. CurrentIsHeld'
    BY <1>0, <1>7, <2>1, PhaseFrame DEF Prune, Phases, Busy
  <2>3. \A v \in Workers : \A r \in BatchOf(v) : r \in Rows /\ r \notin Prunable
    BY DEF LeaseInv, BatchIsRunning, Prunable, BatchOf
  <2>4. \A v \in Workers : \A r \in BatchOf(v) : status'[r] = status[r]
    BY <1>7, <2>3 DEF Prune
  <2> QED BY <2>1, <2>2, <2>4, LeaseFrame
<1>8. CASE Ask(w) \/ Wake(w) \/ WaitEnds(w)
  <2>1. UNCHANGED <<status, attempts, claimAge, delivery, spent, current>>
    BY <1>8 DEF Ask, Wake, WaitEnds, table
  <2>2. CurrentIsHeld'
    BY <1>0, <1>8, <2>1, PhaseFrame DEF Ask, Wake, WaitEnds, Phases, Busy
  <2> QED BY <2>1, <2>2, LeaseFrame
<1> QED BY <1>1, <1>2, <1>3, <1>4, <1>5, <1>6, <1>7, <1>8 DEF WorkerStep

LEMMA FaultLeaseInv ==
    ASSUME TypeOK, LeaseInv, NEW w \in Workers, WorkerFault(w) \/ Restart(w)
    PROVE  LeaseInv'
<1>0. BatchOf(w) # {} => phase[w] \in Busy
  BY DEF LeaseInv, CurrentIsHeld
<1>1. CASE ClaimFails(w)
  <2>1. UNCHANGED <<delivery, spent, current>>
    BY <1>1 DEF ClaimFails
  <2>2. CurrentIsHeld'
    BY <1>0, <1>1, <2>1, PhaseFrame DEF ClaimFails, Phases, Busy
  <2> PICK S \in SUBSET Rows : (S = {} \/ IsOldestBatch(S)) /\ MarkClaimed(S)
    BY <1>1 DEF ClaimFails
  <2>3. \A r \in S : status[r] = "pending"
    BY DEF IsOldestBatch, Claimable
  <2>4. \A v \in Workers : \A r \in BatchOf(v) : r \in Rows /\ r \notin S
    BY <2>3 DEF LeaseInv, BatchIsRunning, BatchOf
  <2>5. \A v \in Workers : \A r \in BatchOf(v) :
            status'[r] = status[r] /\ attempts'[r] = attempts[r] /\ claimAge'[r] = claimAge[r]
    BY <2>4 DEF MarkClaimed
  <2> QED BY <2>1, <2>2, <2>5, LeaseFrame
<1>2. CASE OutcomeLost(w)
  <2>1. UNCHANGED <<status, attempts, claimAge>>
    BY <1>2 DEF OutcomeLost, table
  <2> QED BY <1>2, <2>1, LetGoLeaseInv DEF OutcomeLost
<1>3. CASE SweepFails(w) \/ ListenerFails(w) \/ Restart(w)
  <2>1. UNCHANGED <<status, attempts, claimAge, delivery, spent, current>>
    BY <1>3 DEF SweepFails, ListenerFails, Restart, table
  <2>2. CurrentIsHeld'
    BY <1>0, <1>3, <2>1, PhaseFrame DEF SweepFails, ListenerFails, Restart, Phases, Busy
  <2> QED BY <2>1, <2>2, LeaseFrame
<1>4. CASE NotificationLost(w)
  <2>1. UNCHANGED <<status, attempts, claimAge, delivery, spent, current, phase>>
    BY <1>4 DEF NotificationLost, table
  <2>2. CurrentIsHeld'
    BY <2>1 DEF LeaseInv, CurrentIsHeld, BatchOf
  <2> QED BY <2>1, <2>2, LeaseFrame
<1>5. CASE Crash(w)
  <2>1. UNCHANGED <<status, attempts, claimAge>>
    BY <1>5 DEF Crash, table
  <2>2. BatchOf(w)' = {} /\ spent'[w] = 0 /\ phase'[w] = "down"
    BY <1>5 DEF Crash, BatchOf, MoveTo, TypeOK
  <2>3. \A v \in Workers : v # w =>
            /\ delivery'[v] = delivery[v] /\ BatchOf(v)' = BatchOf(v)
            /\ spent'[v] = spent[v] /\ phase'[v] = phase[v] /\ current'[v] = current[v]
    BY <1>5 DEF Crash, BatchOf, MoveTo, TypeOK
  <2>4. BatchIsRunning'
    BY <2>1, <2>2, <2>3 DEF LeaseInv, BatchIsRunning
  <2>5. BatchesAreDisjoint'
    BY <2>2, <2>3 DEF LeaseInv, BatchesAreDisjoint
  <2>6. CurrentIsHeld'
    BY <2>2, <2>3 DEF LeaseInv, CurrentIsHeld
  <2>7. LeaseBudget'
    <3> SUFFICES ASSUME NEW v \in Workers
                 PROVE  /\ IsFiniteSet(BatchOf(v)')
                        /\ spent'[v] <= HandlerTicks
                        /\ \A r \in BatchOf(v)' :
                            claimAge'[r] + Cardinality(BatchOf(v)') * HandlerTicks <= Lease + spent'[v]
      BY DEF LeaseBudget
    <3>1. HandlerTicks \in Nat
      BY QueueAssumption
    <3>2. CASE v = w
      <4>1. BatchOf(v)' = {} /\ spent'[v] = 0
        BY <2>2, <3>2
      <4>2. IsFiniteSet({}) /\ 0 <= HandlerTicks
        BY <3>1, FS_EmptySet
      <4> QED BY <4>1, <4>2
    <3>3. CASE v # w
      <4>1. spent'[v] = spent[v] /\ BatchOf(v)' = BatchOf(v) /\ claimAge' = claimAge
        BY <2>1, <2>3, <3>3
      <4> QED BY <4>1 DEF LeaseInv, LeaseBudget
    <3> QED BY <3>2, <3>3
  <2> QED BY <2>4, <2>5, <2>6, <2>7 DEF LeaseInv
<1> QED BY <1>1, <1>2, <1>3, <1>4, <1>5 DEF WorkerFault

\* A tick ages the leases of a batch and the turn of its delivery together.
LEMMA TickLeaseInv == TypeOK /\ LeaseInv /\ Tick => LeaseInv'
<1> SUFFICES ASSUME TypeOK, LeaseInv, Tick PROVE LeaseInv'
  OBVIOUS
<1>1. UNCHANGED <<status, attempts, phase, delivery, current>>
  BY DEF Tick
<1>2. \A w \in Workers : BatchOf(w)' = BatchOf(w)
  BY <1>1 DEF BatchOf
<1>3. BatchIsRunning' /\ BatchesAreDisjoint' /\ CurrentIsHeld'
  BY <1>1, <1>2 DEF LeaseInv, BatchIsRunning, BatchesAreDisjoint, CurrentIsHeld
<1>4. LeaseBudget'
  <2> SUFFICES ASSUME NEW w \in Workers
               PROVE  /\ IsFiniteSet(BatchOf(w))
                      /\ spent'[w] <= HandlerTicks
                      /\ \A r \in BatchOf(w) :
                          claimAge'[r] + Cardinality(BatchOf(w)) * HandlerTicks <= Lease + spent'[w]
    BY <1>2 DEF LeaseBudget
  <2>1. HandlerTicks \in Nat /\ Lease \in Nat /\ spent[w] \in Nat
    BY QueueAssumption DEF TypeOK
  <2>2. spent'[w] <= HandlerTicks /\ spent'[w] \in Nat
    BY <2>1 DEF Tick, TypeOK, LeaseInv, LeaseBudget
  <2>3. ASSUME NEW r \in BatchOf(w)
        PROVE  claimAge'[r] + Cardinality(BatchOf(w)) * HandlerTicks <= Lease + spent'[w]
    <3> DEFINE k == Cardinality(BatchOf(w)) * HandlerTicks
    <3>1. claimAge[r] + k <= Lease + spent[w]
      BY <2>3 DEF LeaseInv, LeaseBudget
    <3>2. k \in Nat
      <4>1. Cardinality(BatchOf(w)) \in Nat
        BY FS_CardinalityType DEF LeaseInv, LeaseBudget
      <4> QED BY <4>1, <2>1
    <3>3. claimAge[r] \in Nat /\ claimAge'[r] \in Nat /\ claimAge'[r] <= claimAge[r] + 1
      BY <2>1, <2>3 DEF Tick, TypeOK, Up, BatchOf
    <3>4. spent'[w] = spent[w] + 1
      <4>1. phase[w] \in Busy
        BY <2>3 DEF LeaseInv, CurrentIsHeld
      <4> QED BY <4>1 DEF Tick, TypeOK
    <3> HIDE DEF k
    <3>5. claimAge'[r] + k <= Lease + spent'[w]
      BY <2>1, <3>1, <3>2, <3>3, <3>4
    <3> QED BY <3>5 DEF k
  <2> QED BY <2>2, <2>3 DEF LeaseInv, LeaseBudget
<1> QED BY <1>3, <1>4 DEF LeaseInv

LEMMA NextLeaseInv ==
    ASSUME LeaseCoversBatch
    PROVE  TypeOK /\ LeaseInv /\ [Next]_vars => LeaseInv'
<1> SUFFICES ASSUME TypeOK, LeaseInv, [Next]_vars PROVE LeaseInv'
  OBVIOUS
<1>1. CASE Next
  BY <1>1, PublisherLeaseInv, WorkerLeaseInv, FaultLeaseInv, TickLeaseInv DEF Next
<1>2. CASE UNCHANGED vars
  <2>1. CurrentIsHeld'
    BY <1>2 DEF vars, table, processes, LeaseInv, CurrentIsHeld, BatchOf
  <2> QED BY <1>2, <2>1, LeaseFrame DEF vars, table, processes
<1> QED BY <1>1, <1>2

\* When the lease covers a batch of the slowest handlers, no two live
\* processes ever hold the same message and none is taken from its holder.
THEOREM LeaseExclusive ==
    ASSUME LeaseCoversBatch
    PROVE  Spec => []LeaseIsExclusive
<1>1. LeaseInv => LeaseIsExclusive
  BY DEF LeaseInv, LeaseIsExclusive, BatchIsRunning, BatchesAreDisjoint
<1>2. Init => TypeOK /\ LeaseInv
  BY InitTypeOK, InitLeaseInv
<1>3. (TypeOK /\ LeaseInv) /\ [Next]_vars => (TypeOK /\ LeaseInv)'
  BY NextTypeOK, NextLeaseInv
<1> QED BY <1>1, <1>2, <1>3, PTL DEF Spec

----------------------------------------------------------------------------
\* What becomes of a message: each fault costs one attempt and repeats one effect
\* at most, and what is settled stays settled.  QueueInv is inductive.

AttemptsOf(r) ==
    /\ attempts[r] <= MaxAttempts + faults
    /\ status[r] \in {"absent", "pending", "running"} /\ Orphan(r)
            => attempts[r] < MaxAttempts + faults
    /\ status[r] = "failed" => attempts[r] >= MaxAttempts

EffectsOf(r) ==
    /\ handled[r] <= 1 + faults
    /\ status[r] \notin {"done", "pruned"} /\ ~JustSucceeded(r) => handled[r] <= faults
    /\ JustSucceeded(r) => handled[r] >= 1
    /\ status[r] = "done" /\ HasSubscriber(r) => handled[r] >= 1

LEMMA Budgets == /\ AttemptBudget <=> \A r \in Rows : AttemptsOf(r)
                 /\ EffectBudget <=> \A r \in Rows : EffectsOf(r)
BY DEF AttemptBudget, AttemptsOf, EffectBudget, EffectsOf

\* A step that leaves the attempts of a row alone, and lets go of it only at
\* the price of a fault.
LEMMA AttemptFrame ==
    ASSUME TypeOK, NEW r \in Rows, AttemptsOf(r), TypeOK',
           attempts'[r] = attempts[r], faults' \in {faults, faults + 1},
           \/ status'[r] \in {status[r], "done", "pruned"}
           \/ {status[r], status'[r]} \subseteq {"absent", "pending", "running"},
           Orphan(r)' => Orphan(r) \/ faults' = faults + 1
    PROVE  AttemptsOf(r)'
<1>1. MaxAttempts \in Nat /\ faults \in Nat /\ attempts[r] \in Nat
  BY QueueAssumption DEF TypeOK
<1> QED BY <1>1 DEF AttemptsOf

\* A step without an effect, which forgets a success only at the price of a fault.
LEMMA EffectFrame ==
    ASSUME TypeOK, NEW r \in Rows, EffectsOf(r),
           handled'[r] = handled[r], faults' \in {faults, faults + 1},
           JustSucceeded(r)' => JustSucceeded(r),
           JustSucceeded(r) => JustSucceeded(r)' \/ faults' = faults + 1,
           status[r] \in {"done", "pruned"} => status'[r] \in {"done", "pruned"},
           status'[r] = "done" /\ HasSubscriber(r) => status[r] = "done"
    PROVE  EffectsOf(r)'
<1>1. faults \in Nat /\ handled[r] \in Nat
  BY DEF TypeOK
<1>2. HasSubscriber(r)' <=> HasSubscriber(r)
  BY DEF HasSubscriber
<1> QED BY <1>1, <1>2 DEF EffectsOf

\* A row that was just handled is in the batch of the process that handled it.
LEMMA SucceededIsHeld ==
    ASSUME TypeOK, LeaseInv, NEW w \in Workers,
           phase[w] \in {"handling", "succeeded", "erred"}
    PROVE  /\ current[w] \in Rows /\ current[w] \in BatchOf(w)
           /\ status[current[w]] = "running"
           /\ delivery[w][current[w]] = attempts[current[w]]
           /\ \A v \in Workers : current[w] \in BatchOf(v) => v = w
           /\ \A v \in Workers :
                  phase[v] \in {"handling", "succeeded", "erred"} /\ current[v] = current[w] => v = w
<1>1. current[w] \in BatchOf(w) /\ current[w] \in Rows
  BY DEF LeaseInv, CurrentIsHeld, BatchOf
<1>2. \A v \in Workers : current[w] \in BatchOf(v) => v = w
  BY <1>1 DEF LeaseInv, BatchesAreDisjoint
<1>3. \A v \in Workers : phase[v] \in {"handling", "succeeded", "erred"} => current[v] \in BatchOf(v)
  BY DEF LeaseInv, CurrentIsHeld
<1> QED BY <1>1, <1>2, <1>3 DEF LeaseInv, BatchIsRunning

-----------------------------------------------------------------------------
(* Publishing.                                                             *)

LEMMA PublisherBudgets ==
    ASSUME TypeOK, TypeOK', QueueInv, NEW m \in Messages,
           PublisherStep(m) \/ InsertFails(m) \/ NotifyFails(m)
    PROVE  AttemptBudget' /\ EffectBudget'
<1>1. /\ UNCHANGED <<attempts, phase, delivery, current, handled>>
      /\ faults' \in {faults, faults + 1}
  BY DEF PublisherStep, Reject, Insert, Notify, InsertFails, NotifyFails, InsertRow,
         table, processes, Fault
<1> SUFFICES ASSUME NEW r \in Rows PROVE AttemptsOf(r)' /\ EffectsOf(r)'
  BY DEF AttemptBudget, AttemptsOf, EffectBudget, EffectsOf
<1>2. \/ status'[r] = status[r]
      \/ status[r] = "absent" /\ status'[r] = (IF HasSubscriber(r) THEN "pending" ELSE "done")
  <2>1. ASSUME NEW q, IsNextRow(m, q), InsertRow(q)
        PROVE  \/ status'[r] = status[r]
               \/ status[r] = "absent" /\ status'[r] = (IF HasSubscriber(r) THEN "pending" ELSE "done")
    BY <2>1 DEF IsNextRow, InsertRow, TypeOK
  <2> QED BY <2>1 DEF PublisherStep, Reject, Insert, Notify, InsertFails, NotifyFails, table
<1>3. (Orphan(r)' <=> Orphan(r)) /\ (JustSucceeded(r)' <=> JustSucceeded(r))
  BY <1>1 DEF Orphan, BatchOf, JustSucceeded
<1>4. AttemptsOf(r) /\ EffectsOf(r)
  BY Budgets DEF QueueInv
<1> QED BY <1>1, <1>2, <1>3, <1>4, AttemptFrame, EffectFrame

-----------------------------------------------------------------------------
(* The steps of a process.                                                 *)

\* A process between batches and outcomes: it claims nothing, lets go of
\* nothing and handles nothing.
LEMMA QuietBudgets ==
    ASSUME TypeOK, TypeOK', QueueInv, UNCHANGED <<attempts, delivery, handled>>,
           faults' \in {faults, faults + 1},
           \A r \in Rows : JustSucceeded(r)' <=> JustSucceeded(r),
           \A r \in Rows : \/ status'[r] = status[r]
                           \/ status[r] = "running" /\ status'[r] = "pending"
                           \/ status[r] = "done" /\ status'[r] = "pruned"
    PROVE  AttemptBudget' /\ EffectBudget'
<1> SUFFICES ASSUME NEW r \in Rows PROVE AttemptsOf(r)' /\ EffectsOf(r)'
  BY DEF AttemptBudget, AttemptsOf, EffectBudget, EffectsOf
<1>1. AttemptsOf(r) /\ EffectsOf(r)
  BY Budgets DEF QueueInv
<1>2. Orphan(r)' <=> Orphan(r)
  BY DEF Orphan, BatchOf
<1> QED BY <1>1, <1>2, AttemptFrame, EffectFrame

LEMMA ClaimBudgets ==
    ASSUME TypeOK, TypeOK', QueueInv, NEW w \in Workers, Claim(w) \/ ClaimFails(w)
    PROVE  AttemptBudget' /\ EffectBudget'
<1> PICK S \in SUBSET Rows :
        /\ S = {} \/ IsOldestBatch(S)
        /\ MarkClaimed(S)
        /\ \/ /\ delivery' = [delivery EXCEPT ![w] =
                            [r \in Rows |-> IF r \in S THEN attempts[r] + 1 ELSE 0]]
              /\ faults' = faults
           \/ delivery' = delivery /\ faults' = faults + 1
  BY DEF Claim, ClaimFails, Fault
<1>1. /\ phase[w] = "drain" /\ UNCHANGED <<current, handled>>
      /\ phase' \in {[phase EXCEPT ![w] = p] : p \in {"reclaim", "pick"}}
  BY DEF Claim, ClaimFails, MoveTo
<1>2. \A r \in S : status[r] = "pending" /\ Orphan(r)
  BY DEF IsOldestBatch, Claimable, QueueInv, LeaseInv, BatchIsRunning, Orphan
<1> SUFFICES ASSUME NEW r \in Rows PROVE AttemptsOf(r)' /\ EffectsOf(r)'
  BY DEF AttemptBudget, AttemptsOf, EffectBudget, EffectsOf
<1>3. AttemptsOf(r) /\ EffectsOf(r)
  BY Budgets DEF QueueInv
<1>4. JustSucceeded(r)' <=> JustSucceeded(r)
  BY <1>1 DEF JustSucceeded, TypeOK
<1>5. CASE r \notin S
  <2>1. status'[r] = status[r] /\ attempts'[r] = attempts[r]
    BY <1>5 DEF MarkClaimed
  <2>2. BatchOf(w) = {} \/ delivery' = delivery
    BY <1>1 DEF QueueInv, LeaseInv, CurrentIsHeld, Busy
  <2>3. \A v \in Workers : v # w => delivery'[v] = delivery[v]
    BY DEF TypeOK
  <2>4. Orphan(r)' => Orphan(r)
    BY <2>2, <2>3 DEF Orphan, BatchOf
  <2> QED BY <1>1, <1>3, <1>4, <2>1, <2>4, AttemptFrame, EffectFrame
<1>6. CASE r \in S
  <2>1. status[r] = "pending" /\ status'[r] = "running" /\ attempts'[r] = attempts[r] + 1
    BY <1>2, <1>6 DEF MarkClaimed
  <2>2. attempts[r] < MaxAttempts + faults
    BY <1>2, <1>3, <1>6 DEF AttemptsOf
  <2>3. MaxAttempts \in Nat /\ faults \in Nat /\ attempts[r] \in Nat
    BY QueueAssumption DEF TypeOK
  <2>4. Orphan(r)' => faults' = faults + 1
    <3>1. delivery' = [delivery EXCEPT ![w] = [q \in Rows |-> IF q \in S THEN attempts[q] + 1 ELSE 0]]
              => delivery'[w][r] = attempts[r] + 1
      BY <1>6 DEF TypeOK
    <3>2. delivery'[w][r] = attempts[r] + 1 => r \in BatchOf(w)'
      BY <2>3 DEF BatchOf
    <3> QED BY <3>1, <3>2 DEF Orphan
  <2>5. AttemptsOf(r)'
    BY <2>1, <2>2, <2>3, <2>4 DEF AttemptsOf
  <2> QED BY <1>1, <1>3, <1>4, <2>1, <2>5, EffectFrame
<1> QED BY <1>5, <1>6

LEMMA SuccessBudgets ==
    ASSUME TypeOK, TypeOK', QueueInv, NEW w \in Workers, HandlerSucceeds(w)
    PROVE  AttemptBudget' /\ EffectBudget'
<1> DEFINE c == current[w]
<1>1. /\ c \in Rows /\ status[c] = "running"
      /\ \A v \in Workers : phase[v] = "succeeded" => current[v] # c
  BY SucceededIsHeld DEF HandlerSucceeds, QueueInv
<1>2. UNCHANGED <<status, attempts, delivery, current, faults>>
  BY DEF HandlerSucceeds, table
<1>3. phase' = [phase EXCEPT ![w] = "succeeded"] /\ handled' = [handled EXCEPT ![c] = @ + 1]
  BY DEF HandlerSucceeds, MoveTo
<1> SUFFICES ASSUME NEW r \in Rows PROVE AttemptsOf(r)' /\ EffectsOf(r)'
  BY DEF AttemptBudget, AttemptsOf, EffectBudget, EffectsOf
<1>4. AttemptsOf(r) /\ EffectsOf(r) /\ AttemptsOf(c) /\ EffectsOf(c)
  BY <1>1, Budgets DEF QueueInv
<1>5. AttemptsOf(r)'
  BY <1>2, <1>4 DEF AttemptsOf, Orphan, BatchOf
<1>6. CASE r # c
  <2>1. JustSucceeded(r)' <=> JustSucceeded(r)
    BY <1>2, <1>3, <1>6 DEF JustSucceeded, HandlerSucceeds, TypeOK
  <2>2. handled'[r] = handled[r]
    BY <1>1, <1>3, <1>6 DEF TypeOK
  <2> QED BY <1>2, <1>4, <1>5, <2>1, <2>2, EffectFrame
<1>7. CASE r = c
  <2>1. ~JustSucceeded(r)
    BY <1>1, <1>7 DEF JustSucceeded
  <2>2. JustSucceeded(r)'
    BY <1>2, <1>3, <1>7 DEF JustSucceeded, TypeOK
  <2>3. handled'[r] = handled[r] + 1 /\ handled[r] \in Nat /\ faults \in Nat
    BY <1>1, <1>3, <1>7 DEF TypeOK
  <2> QED BY <1>1, <1>2, <1>4, <1>5, <1>7, <2>1, <2>2, <2>3 DEF EffectsOf
<1> QED BY <1>6, <1>7

\* An outcome, recorded or lost: the process lets one row go.
LEMMA OutcomeBudgets ==
    ASSUME TypeOK, TypeOK', QueueInv, NEW w \in Workers,
           Complete(w) \/ Fail(w) \/ OutcomeLost(w)
    PROVE  AttemptBudget' /\ EffectBudget'
<1> DEFINE c == current[w]
<1>1. /\ phase[w] \in {"succeeded", "erred"} /\ NextDelivery(w)
      /\ UNCHANGED <<attempts, handled>>
  BY DEF Complete, Fail, OutcomeLost, table
<1>2. /\ c \in Rows /\ c \in BatchOf(w) /\ status[c] = "running"
      /\ delivery[w][c] = attempts[c]
      /\ \A v \in Workers : phase[v] = "succeeded" /\ current[v] = c => v = w
  BY <1>1, SucceededIsHeld DEF QueueInv
<1>3. \/ Complete(w) /\ status' = [status EXCEPT ![c] = "done"] /\ faults' = faults
      \/ Fail(w) /\ Exhausted(attempts[c]) /\ status' = [status EXCEPT ![c] = "failed"] /\ faults' = faults
      \/ Fail(w) /\ ~Exhausted(attempts[c]) /\ status' = [status EXCEPT ![c] = "pending"] /\ faults' = faults
      \/ OutcomeLost(w) /\ status' = status /\ faults' = faults + 1
  BY <1>2 DEF Complete, Fail, OutcomeLost, Fault, table, DeadLetter, Retry
<1>4. /\ phase' \in {[phase EXCEPT ![w] = p] : p \in {"drain", "pick"}}
      /\ \A v \in Workers : v # w => current'[v] = current[v] /\ delivery'[v] = delivery[v]
      /\ \A r \in Rows : r # c => delivery'[w][r] = delivery[w][r]
  <2>1. phase' \in {[phase EXCEPT ![w] = p] : p \in {"drain", "pick"}}
    BY <1>1 DEF NextDelivery, MoveTo
  <2>2. \A v \in Workers : v # w => current'[v] = current[v]
    BY <1>1 DEF NextDelivery, TypeOK
  <2>3. \A v \in Workers : v # w => delivery'[v] = delivery[v]
    BY <1>1 DEF NextDelivery, TypeOK
  <2>4. \A r \in Rows : r # c => delivery'[w][r] = delivery[w][r]
    BY <1>1, <1>2 DEF NextDelivery, TypeOK
  <2> QED BY <2>1, <2>2, <2>3, <2>4
<1> SUFFICES ASSUME NEW r \in Rows PROVE AttemptsOf(r)' /\ EffectsOf(r)'
  BY DEF AttemptBudget, AttemptsOf, EffectBudget, EffectsOf
<1>5. AttemptsOf(r) /\ EffectsOf(r)
  BY Budgets DEF QueueInv
<1>6. JustSucceeded(r)' => JustSucceeded(r)
  BY <1>4 DEF JustSucceeded, TypeOK
<1>7. CASE r # c
  <2>1. status'[r] = status[r] /\ faults' \in {faults, faults + 1}
    BY <1>3, <1>7 DEF TypeOK
  <2>2. Orphan(r)' => Orphan(r)
    BY <1>4, <1>7 DEF Orphan, BatchOf
  <2>3. JustSucceeded(r) => JustSucceeded(r)'
    BY <1>4, <1>7 DEF JustSucceeded, TypeOK
  <2> QED BY <1>1, <1>5, <1>6, <2>1, <2>2, <2>3, AttemptFrame, EffectFrame
<1>8. CASE r = c
  <2>1. MaxAttempts \in Nat /\ faults \in Nat /\ attempts[r] \in Nat /\ handled[r] \in Nat
    BY QueueAssumption DEF TypeOK
  <2>2. AttemptsOf(r)'
    <3>1. CASE OutcomeLost(w) /\ status' = status /\ faults' = faults + 1
      BY <1>1, <1>5, <3>1, AttemptFrame
    <3>2. CASE Complete(w) /\ status' = [status EXCEPT ![c] = "done"] /\ faults' = faults
      BY <1>1, <1>2, <1>5, <1>8, <2>1, <3>2 DEF AttemptsOf, TypeOK
    <3>3. CASE Fail(w) /\ Exhausted(attempts[c]) /\ status' = [status EXCEPT ![c] = "failed"] /\ faults' = faults
      BY <1>1, <1>2, <1>5, <1>8, <2>1, <3>3 DEF AttemptsOf, TypeOK, Exhausted
    <3>4. CASE Fail(w) /\ ~Exhausted(attempts[c]) /\ status' = [status EXCEPT ![c] = "pending"] /\ faults' = faults
      BY <1>1, <1>2, <1>5, <1>8, <2>1, <3>4 DEF AttemptsOf, TypeOK, Exhausted
    <3> QED BY <1>3, <3>1, <3>2, <3>3, <3>4
  <2>3. EffectsOf(r)'
    <3>1. CASE OutcomeLost(w) /\ status' = status /\ faults' = faults + 1
      BY <1>1, <1>5, <1>6, <3>1, EffectFrame
    <3>2. CASE Complete(w) /\ status' = [status EXCEPT ![c] = "done"] /\ faults' = faults
      <4>1. JustSucceeded(r)
        BY <1>8, <3>2 DEF JustSucceeded, Complete
      <4>2. status'[r] = "done"
        BY <1>2, <1>8, <3>2 DEF TypeOK
      <4>3. handled'[r] = handled[r]
        BY <1>1
      <4> QED BY <1>5, <2>1, <3>2, <4>1, <4>2, <4>3 DEF EffectsOf
    <3>3. CASE Fail(w) /\ status' \in {[status EXCEPT ![c] = s] : s \in {"failed", "pending"}} /\ faults' = faults
      <4>1. ~JustSucceeded(r)
        BY <1>2, <1>8, <3>3 DEF JustSucceeded, Fail
      <4>2. status[r] = "running" /\ status'[r] \in {"failed", "pending"}
        BY <1>2, <1>8, <3>3 DEF TypeOK
      <4> QED BY <1>1, <1>5, <1>6, <3>3, <4>1, <4>2, EffectFrame
    <3> QED BY <1>3, <3>1, <3>2, <3>3
  <2> QED BY <2>2, <2>3
<1> QED BY <1>7, <1>8

LEMMA CrashBudgets ==
    ASSUME TypeOK, TypeOK', QueueInv, NEW w \in Workers, Crash(w)
    PROVE  AttemptBudget' /\ EffectBudget'
<1> SUFFICES ASSUME NEW r \in Rows PROVE AttemptsOf(r)' /\ EffectsOf(r)'
  BY DEF AttemptBudget, AttemptsOf, EffectBudget, EffectsOf
<1>1. AttemptsOf(r) /\ EffectsOf(r)
  BY Budgets DEF QueueInv
<1>2. UNCHANGED <<status, attempts, handled>> /\ faults' = faults + 1
  BY DEF Crash, table, Fault
<1>3. JustSucceeded(r)' => JustSucceeded(r)
  BY DEF Crash, MoveTo, JustSucceeded, TypeOK
<1> QED BY <1>1, <1>2, <1>3, AttemptFrame, EffectFrame

-----------------------------------------------------------------------------

LEMMA NextBudgets ==
    ASSUME TypeOK, TypeOK', QueueInv, [Next]_vars
    PROVE  AttemptBudget' /\ EffectBudget'
<1>1. ASSUME NEW w \in Workers,
             TakeUp(w) \/ HandlerErrs(w) \/ Reclaim(w) \/ Prune(w) \/ Ask(w) \/ Wake(w)
             \/ WaitEnds(w) \/ SweepFails(w) \/ ListenerFails(w) \/ NotificationLost(w) \/ Restart(w)
      PROVE  AttemptBudget' /\ EffectBudget'
  <2>1. UNCHANGED <<attempts, delivery, handled>> /\ faults' \in {faults, faults + 1}
    BY <1>1 DEF TakeUp, HandlerErrs, Reclaim, Prune, Ask, Wake, WaitEnds, SweepFails,
                ListenerFails, NotificationLost, Restart, table, Fault
  <2>2. ASSUME NEW r \in Rows PROVE JustSucceeded(r)' <=> JustSucceeded(r)
    <3>1. /\ phase' = phase \/ \E p \in Phases \ {"succeeded"} : phase' = [phase EXCEPT ![w] = p]
          /\ phase' # phase => phase[w] # "succeeded"
          /\ \A v \in Workers : v # w => current'[v] = current[v]
          /\ phase[w] = "succeeded" => current'[w] = current[w]
      BY <1>1 DEF TakeUp, HandlerErrs, Reclaim, Prune, Ask, Wake, WaitEnds, SweepFails,
                  ListenerFails, NotificationLost, Restart, MoveTo, TypeOK, Phases
    <3>2. \A v \in Workers : phase[v] = "succeeded" <=> phase'[v] = "succeeded"
      BY <3>1 DEF TypeOK
    <3> QED BY <3>1, <3>2 DEF JustSucceeded
  <2>3. ASSUME NEW r \in Rows
        PROVE  \/ status'[r] = status[r]
               \/ status[r] = "running" /\ status'[r] = "pending"
               \/ status[r] = "done" /\ status'[r] = "pruned"
    BY <1>1 DEF TakeUp, HandlerErrs, Reclaim, Prune, Ask, Wake, WaitEnds, SweepFails,
                ListenerFails, NotificationLost, Restart, table, Expired, Prunable
  <2> QED BY <2>1, <2>2, <2>3, QuietBudgets
<1>2. CASE Tick
  BY <1>2, QuietBudgets DEF Tick, JustSucceeded
<1>3. CASE UNCHANGED vars
  BY <1>3, QuietBudgets DEF vars, table, processes, JustSucceeded
<1>4. ASSUME NEW w \in Workers, WorkerStep(w) \/ WorkerFault(w) \/ Restart(w)
      PROVE  AttemptBudget' /\ EffectBudget'
  BY <1>1, <1>4, ClaimBudgets, SuccessBudgets, OutcomeBudgets, CrashBudgets
     DEF WorkerStep, WorkerFault
<1> QED BY <1>2, <1>3, <1>4, PublisherBudgets DEF Next

LEMMA InitBudgets == Init => AttemptBudget /\ EffectBudget
<1> SUFFICES ASSUME Init, NEW r \in Rows PROVE AttemptsOf(r) /\ EffectsOf(r)
  BY DEF AttemptBudget, AttemptsOf, EffectBudget, EffectsOf
<1>1. MaxAttempts \in Nat \ {0}
  BY QueueAssumption
<1>2. status[r] = "absent" /\ attempts[r] = 0 /\ handled[r] = 0 /\ faults = 0
  BY DEF Init
<1>3. ~JustSucceeded(r)
  BY DEF Init, JustSucceeded
<1> QED BY <1>1, <1>2, <1>3 DEF AttemptsOf, EffectsOf

\* A batch holds running rows only, so no outcome strikes a row that is settled.
LEMMA SettledStep ==
    ASSUME TypeOK, LeaseInv, [Next]_vars, NEW r \in Rows
    PROVE  /\ status[r] = "done" => status'[r] \in {"done", "pruned"}
           /\ status[r] \in {"failed", "pruned"} => status'[r] = status[r]
<1> SUFFICES ASSUME status[r] \in {"done", "failed", "pruned"}
             PROVE  status'[r] = status[r] \/ (status[r] = "done" /\ status'[r] = "pruned")
  OBVIOUS
<1>1. ASSUME NEW m \in Messages, PublisherStep(m) \/ InsertFails(m) \/ NotifyFails(m)
      PROVE  status'[r] = status[r]
  <2>1. ASSUME NEW q, IsNextRow(m, q), InsertRow(q) PROVE status'[r] = status[r]
    BY <2>1 DEF IsNextRow, InsertRow, TypeOK
  <2> QED BY <1>1, <2>1 DEF PublisherStep, Reject, Insert, Notify, InsertFails, NotifyFails, table
<1>2. ASSUME NEW w \in Workers, Complete(w) \/ Fail(w) PROVE status'[r] = status[r]
  <2>1. status[current[w]] = "running"
    BY <1>2, SucceededIsHeld DEF Complete, Fail
  <2> QED BY <1>2, <2>1 DEF Complete, Fail, DeadLetter, Retry, TypeOK
<1>3. ASSUME NEW w \in Workers, Claim(w) \/ ClaimFails(w) PROVE status'[r] = status[r]
  BY <1>3 DEF Claim, ClaimFails, IsOldestBatch, Claimable, MarkClaimed
<1>4. ASSUME NEW w \in Workers, WorkerStep(w) \/ WorkerFault(w) \/ Restart(w)
      PROVE  status'[r] = status[r] \/ (status[r] = "done" /\ status'[r] = "pruned")
  <2>1. CASE Reclaim(w) \/ Prune(w)
    BY <2>1 DEF Reclaim, Prune, Expired, Prunable
  <2>2. CASE TakeUp(w) \/ HandlerSucceeds(w) \/ HandlerErrs(w) \/ Ask(w) \/ Wake(w) \/ WaitEnds(w)
             \/ OutcomeLost(w) \/ SweepFails(w) \/ ListenerFails(w) \/ NotificationLost(w)
             \/ Crash(w) \/ Restart(w)
    BY <2>2 DEF TakeUp, HandlerSucceeds, HandlerErrs, Ask, Wake, WaitEnds, OutcomeLost,
                SweepFails, ListenerFails, NotificationLost, Crash, Restart, table
  <2> QED BY <1>2, <1>3, <1>4, <2>1, <2>2 DEF WorkerStep, WorkerFault
<1> QED BY <1>1, <1>4 DEF Next, Tick, vars, table

-----------------------------------------------------------------------------

\* The invariant of the whole queue, when the lease covers a batch.
THEOREM QueueInvariant ==
    ASSUME LeaseCoversBatch
    PROVE  Spec => [](TypeOK /\ QueueInv)
<1>1. Init => TypeOK /\ QueueInv
  BY InitTypeOK, InitLeaseInv, InitBudgets DEF QueueInv
<1>2. (TypeOK /\ QueueInv) /\ [Next]_vars => (TypeOK /\ QueueInv)'
  BY NextTypeOK, NextLeaseInv, NextBudgets DEF QueueInv
<1> QED BY <1>1, <1>2, PTL DEF Spec

\* However processes die and statements fail, a message is tried max_attempts
\* times and once more for each fault, at most.
THEOREM AttemptsAreCounted ==
    ASSUME LeaseCoversBatch
    PROVE  Spec => []AttemptsCountFaults
<1>1. QueueInv => AttemptsCountFaults
  BY DEF QueueInv, AttemptBudget, AttemptsCountFaults
<1> QED BY <1>1, QueueInvariant, PTL

\* A handler succeeds once, and once more for each fault, at most; and a message
\* somebody subscribes to is called done only after it did.
THEOREM EffectsAreCounted ==
    ASSUME LeaseCoversBatch
    PROVE  Spec => []OneEffectPerFault
<1>1. QueueInv => OneEffectPerFault
  BY DEF QueueInv, EffectBudget, OneEffectPerFault
<1> QED BY <1>1, QueueInvariant, PTL

\* A dead letter had its attempts, and one whose handler succeeded met a fault.
THEOREM DeadLettersHaveCause ==
    ASSUME LeaseCoversBatch
    PROVE  Spec => []GivenUpForCause
<1>1. TypeOK /\ QueueInv => GivenUpForCause
  <2> SUFFICES ASSUME TypeOK, QueueInv, NEW r \in Rows, status[r] = "failed"
               PROVE  attempts[r] >= MaxAttempts /\ (handled[r] > 0 => faults > 0)
    BY DEF GivenUpForCause
  <2>1. ~JustSucceeded(r)
    BY SucceededIsHeld DEF JustSucceeded, QueueInv
  <2>2. faults \in Nat /\ handled[r] \in Nat
    BY DEF TypeOK
  <2> QED BY <2>1, <2>2 DEF QueueInv, AttemptBudget, EffectBudget
<1> QED BY <1>1, QueueInvariant, PTL

\* What is done, given up on or pruned is never taken up again.
THEOREM SettledStaysSettled ==
    ASSUME LeaseCoversBatch
    PROVE  Spec => SettledForGood
<1>1. TypeOK /\ QueueInv /\ [Next]_vars =>
        [\A r \in Rows :
            /\ status[r] = "done" => status'[r] \in {"done", "pruned"}
            /\ status[r] \in {"failed", "pruned"} => status'[r] = status[r]]_vars
  BY SettledStep DEF QueueInv
<1> QED BY <1>1, QueueInvariant, PTL DEF Spec, SettledForGood

-----------------------------------------------------------------------------
(* The queue implements AtLeastOnce.                                       *)

\* Every success of a handler was paid for by an attempt of its own, and a
\* delivery that has yet to succeed still has one to spend.
TriesCover ==
    \A r \in Rows :
        /\ handled[r] <= attempts[r]
        /\ \A w \in Workers :
            r \in BatchOf(w) /\ ~(phase[w] = "succeeded" /\ current[w] = r)
                => handled[r] < attempts[r]

\* A step that handles nothing, takes up rows only with a fresh attempt, and
\* forgets of a row it keeps no success.
LEMMA CoverFrame ==
    ASSUME TypeOK, TypeOK', TriesCover, UNCHANGED handled,
           \A r \in Rows : attempts'[r] >= attempts[r],
           \A w \in Workers : \A r \in Rows : r \in BatchOf(w)' =>
               \/ handled[r] < attempts'[r]
               \/ /\ r \in BatchOf(w)
                  /\ phase[w] = "succeeded" /\ current[w] = r
                        => phase'[w] = "succeeded" /\ current'[w] = r
    PROVE  TriesCover'
<1> SUFFICES ASSUME NEW r \in Rows
             PROVE  /\ handled'[r] <= attempts'[r]
                    /\ \A w \in Workers :
                        r \in BatchOf(w)' /\ ~(phase'[w] = "succeeded" /\ current'[w] = r)
                            => handled'[r] < attempts'[r]
  BY DEF TriesCover
<1>1. handled[r] \in Nat /\ attempts[r] \in Nat /\ attempts'[r] \in Nat
  BY DEF TypeOK
<1>2. handled[r] <= attempts[r] /\ handled'[r] = handled[r] /\ attempts'[r] >= attempts[r]
  BY DEF TriesCover
<1>3. ASSUME NEW w \in Workers, r \in BatchOf(w)', ~(phase'[w] = "succeeded" /\ current'[w] = r)
      PROVE  handled[r] < attempts'[r]
  <2>1. CASE handled[r] < attempts'[r]
    BY <2>1
  <2>2. CASE r \in BatchOf(w) /\ ~(phase[w] = "succeeded" /\ current[w] = r)
    BY <2>2, <1>1, <1>2 DEF TriesCover
  <2> QED BY <1>3, <2>1, <2>2
<1> QED BY <1>1, <1>2, <1>3

LEMMA CoverNext ==
    ASSUME TypeOK, TypeOK', QueueInv, TriesCover, [Next]_vars
    PROVE  TriesCover'
<1>1. \A r \in Rows : handled[r] \in Nat /\ attempts[r] \in Nat
  BY DEF TypeOK
<1>2. ASSUME NEW m \in Messages, PublisherStep(m) \/ InsertFails(m) \/ NotifyFails(m)
      PROVE  TriesCover'
  <2>1. UNCHANGED <<attempts, phase, delivery, current, handled>>
    BY <1>2 DEF PublisherStep, Reject, Insert, Notify, InsertFails, NotifyFails, InsertRow,
                table, processes
  <2> QED BY <1>1, <2>1, CoverFrame DEF BatchOf
<1>3. ASSUME NEW w \in Workers, Claim(w) \/ ClaimFails(w) PROVE TriesCover'
  <2> PICK S \in SUBSET Rows :
          /\ MarkClaimed(S)
          /\ \/ delivery' = [delivery EXCEPT ![w] =
                              [r \in Rows |-> IF r \in S THEN attempts[r] + 1 ELSE 0]]
             \/ delivery' = delivery
    BY <1>3 DEF Claim, ClaimFails
  <2>1. phase[w] = "drain" /\ UNCHANGED <<current, handled>>
        /\ \A v \in Workers : v # w => phase'[v] = phase[v]
    BY <1>3 DEF Claim, ClaimFails, MoveTo, TypeOK
  <2>2. \A r \in Rows : attempts'[r] = IF r \in S THEN attempts[r] + 1 ELSE attempts[r]
    BY DEF MarkClaimed
  <2>3. \A r \in Rows : attempts'[r] >= attempts[r]
    BY <1>1, <2>2
  <2>4. ASSUME NEW v \in Workers, NEW r \in Rows, r \in BatchOf(v)'
        PROVE  r \in BatchOf(v) \/ r \in S
    <3>1. CASE delivery' = delivery \/ v # w
      BY <2>4, <3>1 DEF BatchOf, TypeOK
    <3>2. CASE v = w /\ delivery' = [delivery EXCEPT ![w] =
                              [q \in Rows |-> IF q \in S THEN attempts[q] + 1 ELSE 0]]
      <4>1. delivery'[v][r] = IF r \in S THEN attempts[r] + 1 ELSE 0
        BY <3>2 DEF TypeOK
      <4>2. delivery'[v][r] > 0
        BY <2>4 DEF BatchOf
      <4> QED BY <4>1, <4>2
    <3> QED BY <3>1, <3>2
  <2>5. ASSUME NEW r \in S PROVE handled[r] < attempts'[r]
    <3>1. handled[r] <= attempts[r]
      BY DEF TriesCover
    <3> QED BY <1>1, <2>2, <3>1
  <2>6. ASSUME NEW v \in Workers, phase[v] = "succeeded"
        PROVE  phase'[v] = phase[v] /\ current'[v] = current[v]
    BY <2>1, <2>6
  <2> QED BY <2>1, <2>3, <2>4, <2>5, <2>6, CoverFrame
<1>4. ASSUME NEW w \in Workers, HandlerSucceeds(w) PROVE TriesCover'
  <2> DEFINE c == current[w]
  <2>1. /\ c \in Rows /\ c \in BatchOf(w)
        /\ \A v \in Workers : c \in BatchOf(v) => v = w
    BY <1>4, SucceededIsHeld DEF HandlerSucceeds, QueueInv
  <2>2. phase[w] = "handling" /\ UNCHANGED <<attempts, delivery, current>>
    BY <1>4 DEF HandlerSucceeds, table
  <2>3. /\ phase'[w] = "succeeded" /\ \A v \in Workers : v # w => phase'[v] = phase[v]
        /\ handled'[c] = handled[c] + 1 /\ \A r \in Rows : r # c => handled'[r] = handled[r]
    BY <1>4, <2>1 DEF HandlerSucceeds, MoveTo, TypeOK
  <2> SUFFICES ASSUME NEW r \in Rows
               PROVE  /\ handled'[r] <= attempts'[r]
                      /\ \A v \in Workers :
                          r \in BatchOf(v)' /\ ~(phase'[v] = "succeeded" /\ current'[v] = r)
                              => handled'[r] < attempts'[r]
    BY DEF TriesCover
  <2>4. \A v \in Workers : BatchOf(v)' = BatchOf(v)
    BY <2>2 DEF BatchOf
  <2>5. CASE r = c
    <3>1. handled[c] < attempts[c]
      BY <2>1, <2>2 DEF TriesCover
    <3> QED BY <1>1, <2>1, <2>2, <2>3, <2>4, <2>5, <3>1
  <2>6. CASE r # c
    BY <2>2, <2>3, <2>4, <2>6 DEF TriesCover
  <2> QED BY <2>5, <2>6
<1>5. ASSUME NEW w \in Workers, Complete(w) \/ Fail(w) \/ OutcomeLost(w) PROVE TriesCover'
  <2>1. /\ phase[w] \in {"succeeded", "erred"} /\ NextDelivery(w)
        /\ UNCHANGED <<attempts, handled>>
    BY <1>5 DEF Complete, Fail, OutcomeLost, table
  <2>2. \A v \in Workers : v # w =>
            phase'[v] = phase[v] /\ current'[v] = current[v] /\ BatchOf(v)' = BatchOf(v)
    BY <2>1 DEF NextDelivery, MoveTo, BatchOf, TypeOK
  <2>3. current[w] \in Rows
    BY <2>1, SucceededIsHeld DEF QueueInv
  <2>4. \A r \in Rows : r \in BatchOf(w)' => r \in BatchOf(w) /\ r # current[w]
    BY <2>1, <2>3 DEF NextDelivery, BatchOf, TypeOK
  <2> QED BY <1>1, <2>1, <2>2, <2>4, CoverFrame
<1>6. ASSUME NEW w \in Workers, Crash(w) PROVE TriesCover'
  <2>1. UNCHANGED <<attempts, handled>>
    BY <1>6 DEF Crash, table
  <2>2. \A v \in Workers : v # w =>
            phase'[v] = phase[v] /\ current'[v] = current[v] /\ BatchOf(v)' = BatchOf(v)
    BY <1>6 DEF Crash, MoveTo, BatchOf, TypeOK
  <2>3. \A r \in Rows : r \notin BatchOf(w)'
    BY <1>6 DEF Crash, BatchOf, TypeOK
  <2> QED BY <1>1, <2>1, <2>2, <2>3, CoverFrame
<1>7. ASSUME NEW w \in Workers,
             TakeUp(w) \/ HandlerErrs(w) \/ Reclaim(w) \/ Prune(w) \/ Ask(w) \/ Wake(w)
             \/ WaitEnds(w) \/ SweepFails(w) \/ ListenerFails(w) \/ NotificationLost(w) \/ Restart(w)
      PROVE  TriesCover'
  <2>1. UNCHANGED <<attempts, handled, delivery>>
    BY <1>7 DEF TakeUp, HandlerErrs, Reclaim, Prune, Ask, Wake, WaitEnds, SweepFails,
                ListenerFails, NotificationLost, Restart, table
  <2>2. \A v \in Workers : phase[v] = "succeeded" => phase'[v] = phase[v] /\ current'[v] = current[v]
    BY <1>7 DEF TakeUp, HandlerErrs, Reclaim, Prune, Ask, Wake, WaitEnds, SweepFails,
                ListenerFails, NotificationLost, Restart, MoveTo, TypeOK
  <2> QED BY <1>1, <2>1, <2>2, CoverFrame DEF BatchOf
<1>8. CASE Tick
  BY <1>1, <1>8, CoverFrame DEF Tick, BatchOf
<1>9. CASE UNCHANGED vars
  BY <1>1, <1>9, CoverFrame DEF vars, table, processes, BatchOf
<1> QED BY <1>2, <1>3, <1>4, <1>5, <1>6, <1>7, <1>8, <1>9 DEF Next, WorkerStep, WorkerFault

\* What the ledger sees of one row that takes the status s.
LEMMA OneView ==
    ASSUME TypeOK, NEW r \in Rows, NEW s \in States, status' = [status EXCEPT ![r] = s],
           NEW t, \/ s \in {"pending", "running"} /\ t = "queued"
                  \/ s = "done" /\ t = "done"
                  \/ s = "failed" /\ t = "dead"
    PROVE  AbstractState' = [AbstractState EXCEPT ![r] = t]
<1>1. status'[r] = s /\ \A q \in Rows : q # r => status'[q] = status[q]
  BY DEF TypeOK
<1>2. View(s) = t
  BY DEF View
<1>3. \A q \in Rows : View(status'[q]) = IF q = r THEN t ELSE View(status[q])
  BY <1>1, <1>2
<1>4. AbstractState' = [q \in Rows |-> IF q = r THEN t ELSE View(status[q])]
  BY <1>3 DEF AbstractState
<1> QED BY <1>4 DEF AbstractState

\* Taking a row up, putting it back and pruning it are not seen.
LEMMA SameView ==
    ASSUME \A r \in Rows : \/ status'[r] = status[r]
                           \/ {status[r], status'[r]} \subseteq {"pending", "running"}
                           \/ {status[r], status'[r]} \subseteq {"done", "pruned"}
    PROVE  AbstractState' = AbstractState
<1>1. ASSUME NEW r \in Rows PROVE View(status'[r]) = View(status[r])
  BY DEF View
<1> QED BY <1>1 DEF AbstractState

LEMMA PublisherRefines ==
    ASSUME TypeOK, NEW m \in Messages, PublisherStep(m) \/ InsertFails(m) \/ NotifyFails(m)
    PROVE  Ledger!Next \/ UNCHANGED Ledger!vars
<1>1. UNCHANGED <<attempts, handled>>
  BY DEF PublisherStep, Reject, Insert, Notify, InsertFails, NotifyFails, InsertRow, table
<1>2. ASSUME NEW r \in RowsOf(m), IsNextRow(m, r), InsertRow(r) PROVE Ledger!Next
  <2>1. r \in Rows /\ status[r] = "absent"
    BY <1>2, RowsOfAreRows DEF IsNextRow
  <2>2. AbstractState' = [AbstractState EXCEPT ![r] = IF HasSubscriber(r) THEN "queued" ELSE "done"]
    BY <1>2, <2>1, OneView DEF InsertRow, States
  <2>3. AbstractState[r] = "none"
    BY <2>1 DEF AbstractState, View
  <2>4. Ledger!Accept(r)
    BY <1>1, <2>1, <2>2, <2>3 DEF Ledger!Accept
  <2> QED BY <2>1, <2>4 DEF Ledger!Next
<1>3. CASE UNCHANGED status
  BY <1>1, <1>3, SameView DEF Ledger!vars
<1> QED BY <1>2, <1>3 DEF PublisherStep, Reject, Insert, Notify, InsertFails, NotifyFails, table

LEMMA ClaimRefines ==
    ASSUME TypeOK, NEW w \in Workers, Claim(w) \/ ClaimFails(w)
    PROVE  Ledger!Next \/ UNCHANGED Ledger!vars
<1> PICK S \in SUBSET Rows : (S = {} \/ IsOldestBatch(S)) /\ MarkClaimed(S)
  BY DEF Claim, ClaimFails
<1>1. UNCHANGED handled
  BY DEF Claim, ClaimFails
<1>2. \A r \in S : status[r] = "pending"
  BY DEF IsOldestBatch, Claimable
<1>3. AbstractState' = AbstractState
  BY <1>2, SameView DEF MarkClaimed
<1>4. CASE S = {}
  <2>1. \A r \in Rows : attempts'[r] = attempts[r]
    BY <1>4 DEF MarkClaimed
  <2>2. attempts' = attempts
    BY <2>1 DEF MarkClaimed, TypeOK
  <2> QED BY <1>1, <1>3, <2>2 DEF Ledger!vars
<1>5. CASE S # {}
  <2>1. \A r \in S : AbstractState[r] = "queued"
    BY <1>2 DEF AbstractState, View
  <2>2. Ledger!Try(S)
    BY <1>1, <1>3, <1>5, <2>1 DEF MarkClaimed, Ledger!Try
  <2> QED BY <2>2 DEF Ledger!Next
<1> QED BY <1>4, <1>5

LEMMA OutcomeRefines ==
    ASSUME TypeOK, QueueInv, TriesCover, NEW w \in Workers,
           HandlerSucceeds(w) \/ Complete(w) \/ Fail(w)
    PROVE  Ledger!Next \/ UNCHANGED Ledger!vars
<1> DEFINE c == current[w]
<1>1. /\ c \in Rows /\ c \in BatchOf(w) /\ status[c] = "running"
      /\ delivery[w][c] = attempts[c]
  BY SucceededIsHeld DEF HandlerSucceeds, Complete, Fail, QueueInv
<1>2. AbstractState[c] = "queued"
  BY <1>1 DEF AbstractState, View
<1>3. CASE HandlerSucceeds(w)
  <2>1. handled[c] < attempts[c]
    BY <1>1, <1>3 DEF HandlerSucceeds, TriesCover
  <2>2. AbstractState' = AbstractState /\ attempts' = attempts
    BY <1>3, SameView DEF HandlerSucceeds, table
  <2>3. Ledger!Succeed(c)
    BY <1>2, <1>3, <2>1, <2>2 DEF HandlerSucceeds, Ledger!Succeed
  <2> QED BY <1>1, <2>3 DEF Ledger!Next
<1>4. CASE Complete(w)
  <2>1. handled[c] >= 1 /\ handled[c] \in Nat
    BY <1>1, <1>4 DEF Complete, QueueInv, EffectBudget, JustSucceeded, TypeOK
  <2>2. AbstractState' = [AbstractState EXCEPT ![c] = "done"]
    BY <1>1, <1>4, OneView DEF Complete, States
  <2>3. Ledger!Acknowledge(c)
    BY <1>2, <1>4, <2>1, <2>2 DEF Complete, Ledger!Acknowledge
  <2> QED BY <1>1, <2>3 DEF Ledger!Next
<1>5. CASE Fail(w) /\ ~Exhausted(attempts[c])
  <2>1. status' = [status EXCEPT ![c] = "pending"] /\ UNCHANGED <<attempts, handled>>
    BY <1>1, <1>5 DEF Fail, Retry
  <2>2. AbstractState' = AbstractState
    BY <1>1, <2>1, SameView DEF TypeOK
  <2> QED BY <2>1, <2>2 DEF Ledger!vars
<1>6. CASE Fail(w) /\ Exhausted(attempts[c])
  <2>1. status' = [status EXCEPT ![c] = "failed"] /\ UNCHANGED <<attempts, handled>>
    BY <1>1, <1>6 DEF Fail, DeadLetter
  <2>2. AbstractState' = [AbstractState EXCEPT ![c] = "dead"]
    BY <1>1, <2>1, OneView DEF States
  <2>3. Ledger!GiveUp(c)
    BY <1>2, <1>6, <2>1, <2>2 DEF Exhausted, Ledger!GiveUp
  <2> QED BY <1>1, <2>3 DEF Ledger!Next
<1> QED BY <1>3, <1>4, <1>5, <1>6

\* Every step is a step of the ledger or one it does not see.
LEMMA NextRefines ==
    ASSUME TypeOK, QueueInv, TriesCover, [Next]_vars
    PROVE  Ledger!Next \/ UNCHANGED Ledger!vars
<1>1. ASSUME NEW w \in Workers,
             TakeUp(w) \/ HandlerErrs(w) \/ Reclaim(w) \/ Prune(w) \/ Ask(w) \/ Wake(w)
             \/ WaitEnds(w) \/ OutcomeLost(w) \/ SweepFails(w) \/ ListenerFails(w)
             \/ NotificationLost(w) \/ Crash(w) \/ Restart(w)
      PROVE  UNCHANGED Ledger!vars
  <2>1. UNCHANGED <<attempts, handled>>
    BY <1>1 DEF TakeUp, HandlerErrs, Reclaim, Prune, Ask, Wake, WaitEnds, OutcomeLost,
                SweepFails, ListenerFails, NotificationLost, Crash, Restart, table
  <2>2. ASSUME NEW r \in Rows
        PROVE  \/ status'[r] = status[r]
               \/ status[r] = "running" /\ status'[r] = "pending"
               \/ status[r] = "done" /\ status'[r] = "pruned"
    BY <1>1 DEF TakeUp, HandlerErrs, Reclaim, Prune, Ask, Wake, WaitEnds, OutcomeLost,
                SweepFails, ListenerFails, NotificationLost, Crash, Restart, table,
                Expired, Prunable
  <2> QED BY <2>1, <2>2, SameView DEF Ledger!vars
<1>2. ASSUME NEW w \in Workers, WorkerStep(w) \/ WorkerFault(w) \/ Restart(w)
      PROVE  Ledger!Next \/ UNCHANGED Ledger!vars
  BY <1>1, <1>2, ClaimRefines, OutcomeRefines DEF WorkerStep, WorkerFault
<1>3. CASE Tick \/ UNCHANGED vars
  BY <1>3, SameView DEF Tick, vars, table, Ledger!vars
<1> QED BY <1>2, <1>3, PublisherRefines DEF Next

\* Whatever fails, crashes or comes late, the queue keeps the ledger of
\* AtLeastOnce: no item is acknowledged before its handler succeeded, given up
\* on before it used its attempts, or taken out of either state again.
THEOREM LedgerImplemented ==
    ASSUME LeaseCoversBatch
    PROVE  Spec => ImplementsAtLeastOnce
<1>1. Init => Ledger!Init /\ TriesCover
  BY DEF Init, Ledger!Init, AbstractState, View, TriesCover, BatchOf
<1>2. TypeOK /\ TypeOK' /\ QueueInv /\ TriesCover /\ [Next]_vars => TriesCover'
  BY CoverNext
<1>3. TypeOK /\ QueueInv /\ TriesCover /\ [Next]_vars => [Ledger!Next]_(Ledger!vars)
  BY NextRefines
<1> QED BY <1>1, <1>2, <1>3, QueueInvariant, PTL DEF Spec, ImplementsAtLeastOnce, Ledger!Spec
====
