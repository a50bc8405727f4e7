---- MODULE JsPool ----
(***************************************************************************)
(* The isolates that run JavaScript functions: callers that put jobs on    *)
(* one bounded queue and serve the host calls of their job, workers that   *)
(* run one job at a time, and beside each worker a watchdog that           *)
(* terminates a call that overstays its timeout.                           *)
(*                                                                         *)
(* Begin and End travel from a worker to its watchdog over a channel with  *)
(* one place; a send waits for the place.  The timeout is a fact about a   *)
(* call, Overstay, that may come true at any time while its watch is on.   *)
(* What a function does is unknown: it may ask the host, wait for a timer  *)
(* or an outbound request, end, or run for ever.                           *)
(***************************************************************************)
EXTENDS Naturals, Sequences

CONSTANTS
    Calls,       \* the invocations of the module's functions
    Workers,     \* the isolates, APIPLANT_JS_WORKERS of them
    QueueLimit,  \* the capacity of the job queue
    MaxDeaths    \* bound: worker threads that panic

ASSUME PoolAssumption == QueueLimit \in Nat \ {0} /\ MaxDeaths \in Nat

NoCall == "no call"
ASSUME NoCallAssumption == NoCall \notin Calls

VARIABLES
    queue,       \* the jobs nobody has taken
    outcome,     \* [Calls -> Outcomes]: what the caller knows
    phase,       \* [Workers -> Phases]
    job,         \* the call a worker runs
    result,      \* what the worker will answer
    signal,      \* the place of the channel to the watchdog
    dog,         \* where the watchdog is in its loop
    terminated,  \* the isolate's flag: JavaScript fails as soon as it runs
    deaths,
    overstayed,  \* history: calls whose watch ran out
    late,        \* history: the call whose watch a watchdog last saw run out
    blame,       \* history: the call on whose account the flag was last set
    killedFor    \* history: the call on whose account a call was killed

worker   == <<phase, job, result>>
watchdog == <<signal, dog, terminated>>
history  == <<overstayed, late, blame, killedFor>>
vars     == <<queue, outcome, worker, watchdog, deaths, history>>

Outcomes == {"new", "waiting", "overloaded", "answered", "killed", "died"}
Phases   == {"idle", "arming", "running", "asking", "awaiting", "finishing",
             "clearing", "replying", "dead"}
Watched  == {"running", "asking", "awaiting", "finishing"}
Alive    == {w \in Workers : phase[w] # "dead"}

Init ==
    /\ queue = <<>>
    /\ outcome = [c \in Calls |-> "new"]
    /\ phase = [w \in Workers |-> "idle"]
    /\ job = [w \in Workers |-> NoCall]
    /\ result = [w \in Workers |-> "answered"]
    /\ signal = [w \in Workers |-> "none"]
    /\ dog = [w \in Workers |-> "idle"]
    /\ terminated = [w \in Workers |-> FALSE]
    /\ deaths = 0
    /\ overstayed = {}
    /\ late = [w \in Workers |-> NoCall]
    /\ blame = [w \in Workers |-> NoCall]
    /\ killedFor = [c \in Calls |-> NoCall]

-----------------------------------------------------------------------------
(* The caller.                                                             *)

\* Mutant: an unbounded queue.
HasAnyRoom == Alive # {}
\* try_send fails when the queue is full or no worker is left to receive.
HasRoom == Len(queue) < QueueLimit /\ Alive # {}

Submit(c) ==
    /\ outcome[c] = "new"
    /\ IF HasRoom THEN /\ queue' = Append(queue, c)
                       /\ outcome' = [outcome EXCEPT ![c] = "waiting"]
       ELSE outcome' = [outcome EXCEPT ![c] = "overloaded"] /\ UNCHANGED queue
    /\ UNCHANGED <<worker, watchdog, deaths, history>>

\* The caller of the job answers the request its isolate is blocked on.
Serve(w) ==
    /\ phase[w] = "asking"
    /\ phase' = [phase EXCEPT ![w] = "running"]
    /\ UNCHANGED <<queue, outcome, job, result, watchdog, deaths, history>>

-----------------------------------------------------------------------------
(* The worker: take a job, arm the watchdog, run, disarm, clear the flag,  *)
(* answer.                                                                 *)

Move(w, from, to) == phase[w] = from /\ phase' = [phase EXCEPT ![w] = to]

TakeJob(w) ==
    /\ Move(w, "idle", "arming")
    /\ queue # <<>>
    /\ queue' = Tail(queue)
    /\ job' = [job EXCEPT ![w] = Head(queue)]
    /\ UNCHANGED <<outcome, result, watchdog, deaths, history>>

\* A signal is sent when the channel's one place is free.
Send(w, s) ==
    /\ signal[w] = "none"
    /\ signal' = [signal EXCEPT ![w] = s]
    /\ UNCHANGED <<queue, outcome, job, dog, terminated, deaths, overstayed, late, blame>>

Arm(w) == Move(w, "arming", "running") /\ Send(w, "begin") /\ UNCHANGED <<result, killedFor>>

\* While the flag is not set the function goes on as it likes.
Ask(w) ==
    /\ Move(w, "running", "asking") /\ ~terminated[w]
    /\ UNCHANGED <<queue, outcome, job, result, watchdog, deaths, history>>

Await(w) ==
    /\ Move(w, "running", "awaiting") /\ ~terminated[w]
    /\ UNCHANGED <<queue, outcome, job, result, watchdog, deaths, history>>

\* A timer fires or an outbound request ends: JavaScript runs again.
Settle(w) ==
    /\ Move(w, "awaiting", "running")
    /\ UNCHANGED <<queue, outcome, job, result, watchdog, deaths, history>>

\* A short function may end before V8 looks at the flag.
End(w) ==
    /\ Move(w, "running", "finishing")
    /\ result' = [result EXCEPT ![w] = "answered"]
    /\ UNCHANGED <<queue, outcome, job, watchdog, deaths, history>>

\* The flag interrupts JavaScript that runs, not a wait or a host call.
Interrupted(w) ==
    /\ terminated[w]
    /\ Move(w, "running", "finishing")
    /\ result' = [result EXCEPT ![w] = "killed"]
    /\ killedFor' = [killedFor EXCEPT ![job[w]] = blame[w]]
    /\ UNCHANGED <<queue, outcome, job, watchdog, deaths, overstayed, late, blame>>

Disarm(w) == Move(w, "finishing", "clearing") /\ Send(w, "end") /\ UNCHANGED <<result, killedFor>>

\* Mutant: the flag is left as it is.
FlagKept(w) == terminated
\* cancel_terminate_execution
FlagCleared(w) == [terminated EXCEPT ![w] = FALSE]

Clear(w) ==
    /\ Move(w, "clearing", "replying")
    /\ terminated' = FlagCleared(w)
    /\ UNCHANGED <<queue, outcome, job, result, signal, dog, deaths, history>>

Reply(w) ==
    /\ Move(w, "replying", "idle")
    /\ outcome' = [outcome EXCEPT ![job[w]] = result[w]]
    /\ job' = [job EXCEPT ![w] = NoCall]
    /\ UNCHANGED <<queue, result, watchdog, deaths, history>>

\* The thread panics while it runs a job: its caller learns that the worker
\* died.  With the last worker the queue goes too, and so do its jobs.
Waiting == {queue[i] : i \in 1 .. Len(queue)}

Die(w) ==
    /\ phase[w] \in {"running", "awaiting"}
    /\ deaths < MaxDeaths /\ deaths' = deaths + 1
    /\ phase' = [phase EXCEPT ![w] = "dead"]
    /\ job' = [job EXCEPT ![w] = NoCall]
    /\ queue' = IF Alive = {w} THEN <<>> ELSE queue
    /\ outcome' = [c \in Calls |->
            IF c = job[w] \/ (Alive = {w} /\ c \in Waiting) THEN "died" ELSE outcome[c]]
    /\ signal' = [signal EXCEPT ![w] = "none"]
    /\ dog' = [dog EXCEPT ![w] = "gone"]
    /\ terminated' = [terminated EXCEPT ![w] = FALSE]
    /\ UNCHANGED <<result, history>>

-----------------------------------------------------------------------------
(* The watchdog of a worker.                                               *)

\* The watch of a call runs out while the call is still being watched.
Overstay(w) ==
    /\ dog[w] = "armed" /\ phase[w] \in Watched
    /\ job[w] \notin overstayed
    /\ overstayed' = overstayed \cup {job[w]}
    /\ UNCHANGED <<queue, outcome, worker, watchdog, deaths, late, blame, killedFor>>

Receive(w, next) ==
    /\ signal' = [signal EXCEPT ![w] = "none"]
    /\ dog' = [dog EXCEPT ![w] = next]
    /\ UNCHANGED <<queue, outcome, worker, terminated, deaths, history>>

\* `while let Ok(Begin)`: anything else ends the watchdog's thread.
Watch(w) ==
    /\ dog[w] = "idle" /\ signal[w] # "none"
    /\ Receive(w, IF signal[w] = "begin" THEN "armed" ELSE "gone")

\* A signal that is there is received, however late it is.
StandDown(w) == dog[w] = "armed" /\ signal[w] # "none" /\ Receive(w, "idle")

Expire(w) ==
    /\ dog[w] = "armed" /\ signal[w] = "none" /\ job[w] \in overstayed
    /\ dog' = [dog EXCEPT ![w] = "firing"]
    /\ late' = [late EXCEPT ![w] = job[w]]
    /\ UNCHANGED <<queue, outcome, worker, signal, terminated, deaths,
                   overstayed, blame, killedFor>>

\* Mutant: the End that follows is not absorbed.
AfterFiringAtOnce == "idle"
AfterFiring == "absorbing"

\* terminate_execution
Fire(w) ==
    /\ dog[w] = "firing"
    /\ dog' = [dog EXCEPT ![w] = AfterFiring]
    /\ terminated' = [terminated EXCEPT ![w] = TRUE]
    /\ blame' = [blame EXCEPT ![w] = late[w]]
    /\ UNCHANGED <<queue, outcome, worker, signal, deaths, overstayed, late, killedFor>>

Absorb(w) == dog[w] = "absorbing" /\ signal[w] # "none" /\ Receive(w, "idle")

-----------------------------------------------------------------------------
WorkerStep(w) ==
    TakeJob(w) \/ Arm(w) \/ Interrupted(w) \/ Disarm(w) \/ Clear(w) \/ Reply(w)

FunctionStep(w) == Ask(w) \/ Await(w) \/ End(w)

WatchdogStep(w) == Watch(w) \/ StandDown(w) \/ Expire(w) \/ Fire(w) \/ Absorb(w)

Next ==
    \/ \E c \in Calls : Submit(c)
    \/ \E w \in Workers : WorkerStep(w) \/ FunctionStep(w) \/ Settle(w) \/ Serve(w) \/ Die(w)
    \/ \E w \in Workers : Overstay(w) \/ WatchdogStep(w)

\* The threads run, time passes, and the host answers; a function owes nothing.
ThreadFairness ==
    \A w \in Workers :
        /\ WF_vars(WorkerStep(w)) /\ WF_vars(WatchdogStep(w))
        /\ WF_vars(Overstay(w)) /\ WF_vars(Serve(w))

\* A timer may be set as far ahead as the function likes.
Spec == Init /\ [][Next]_vars /\ ThreadFairness

\* Timers fire and outbound requests end.
FairSpec == Spec /\ \A w \in Workers : WF_vars(Settle(w))

-----------------------------------------------------------------------------
(* Properties.                                                             *)

\* The variables have their types, and the queue its bound.
TypeOK ==
    /\ queue \in Seq(Calls) /\ Len(queue) <= QueueLimit
    /\ outcome \in [Calls -> Outcomes]
    /\ phase \in [Workers -> Phases]
    /\ job \in [Workers -> Calls \cup {NoCall}]
    /\ result \in [Workers -> {"answered", "killed"}]
    /\ signal \in [Workers -> {"none", "begin", "end"}]
    /\ dog \in [Workers -> {"idle", "armed", "firing", "absorbing", "gone"}]
    /\ terminated \in [Workers -> BOOLEAN]
    /\ deaths \in Nat
    /\ overstayed \subseteq Calls
    /\ late \in [Workers -> Calls \cup {NoCall}]
    /\ blame \in [Workers -> Calls \cup {NoCall}]
    /\ killedFor \in [Calls -> Calls \cup {NoCall}]

\* A watchdog never takes the end of one call for the beginning of the next,
\* which would end its thread: it is there as long as its worker is.
WatchdogStands == \A w \in Alive : dog[w] # "gone"

\* One that overstays costs one call.  The termination may arrive after the
\* call has ended and strike the next call of the isolate instead, but never
\* both, and no call is terminated when none overstayed.
OneKillPerOverstay ==
    \A c, d \in Calls :
        /\ killedFor[c] # NoCall => killedFor[c] \in overstayed
        /\ killedFor[c] # NoCall /\ killedFor[c] = killedFor[d] => c = d

\* A caller hears of its call in the end, although functions run for ever and
\* workers die.
EveryCallIsAnswered ==
    \A c \in Calls : outcome[c] = "waiting" ~> outcome[c] # "waiting"

-----------------------------------------------------------------------------
(* The inductive invariant.                                                *)

\* A worker and its watchdog agree whether a call is being watched.
Handshake ==
    \A w \in Alive :
        \/ phase[w] \in Watched /\ signal[w] = "begin" /\ dog[w] = "idle"
        \/ phase[w] \in Watched /\ signal[w] = "none" /\ dog[w] \in {"armed", "firing", "absorbing"}
        \/ phase[w] \notin Watched /\ signal[w] = "end" /\ dog[w] \in {"armed", "firing", "absorbing"}
        \/ phase[w] \notin Watched /\ signal[w] = "none" /\ dog[w] = "idle"

\* A call is in one place: unknown to the pool, in the queue once, or with one
\* worker.
InOnePlace ==
    /\ \A i, j \in 1 .. Len(queue) : queue[i] = queue[j] => i = j
    /\ \A c \in Waiting : outcome[c] = "waiting" /\ \A w \in Workers : job[w] # c
    /\ \A w \in Workers :
        /\ phase[w] \in {"idle", "dead"} <=> job[w] = NoCall
        /\ job[w] # NoCall => outcome[job[w]] = "waiting"
        /\ \A v \in Workers : job[v] = job[w] /\ job[w] # NoCall => v = w

\* A termination is still to strike on account of c: its watchdog is about to
\* set the flag, or the flag is set and the isolate has yet to run or to fail.
Flagged(w) == terminated[w] /\ phase[w] \notin {"finishing", "clearing"}
Strikes(w, c) == (dog[w] = "firing" /\ late[w] = c) \/ (Flagged(w) /\ blame[w] = c)

\* The watch of the job has not run out.
Fresh(w) ==
    \/ phase[w] = "arming"
    \/ phase[w] \in Watched /\ (signal[w] = "begin" \/ dog[w] = "armed")

Unspent(c) == \A d \in Calls : killedFor[d] # c

\* Each overstay is worth one kill, on the isolate that ran the call.
StrikesAreOwed ==
    \A w \in Workers :
        /\ dog[w] = "firing" /\ Flagged(w) => late[w] # blame[w]
        /\ \A c \in Calls \cup {NoCall} : Strikes(w, c) =>
            /\ c \in overstayed /\ Unspent(c)
            /\ c \notin Waiting /\ outcome[c] # "new"
            /\ \A v \in Workers \ {w} : ~Strikes(v, c) /\ job[v] # c

FreshIsUnspent ==
    /\ \A w \in Workers : Fresh(w) => Unspent(job[w]) /\ ~Strikes(w, job[w])
    /\ \A c \in Calls : outcome[c] = "new" \/ c \in Waiting => Unspent(c)

PoolInv ==
    TypeOK /\ Handshake /\ InOnePlace /\ OneKillPerOverstay /\ StrikesAreOwed /\ FreshIsUnspent
====
