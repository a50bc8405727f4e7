---- MODULE JsPoolProofs ----
(***************************************************************************)
(* Proofs about JsPool, for every set of calls, every number of workers,   *)
(* every length of the queue and every number of workers that die.         *)
(***************************************************************************)
EXTENDS JsPool, TLAPS

\* Every step keeps the types; that a watched worker has a job is needed where a
\* watch runs out.
LEMMA TypeStep == TypeOK /\ InOnePlace /\ [Next]_vars => TypeOK'
<1> SUFFICES ASSUME TypeOK, InOnePlace, [Next]_vars PROVE TypeOK'
    OBVIOUS
<1> USE PoolAssumption, NoCallAssumption DEF TypeOK, Outcomes, Phases, watchdog, history, worker
<1>1. ASSUME NEW c \in Calls, Submit(c) PROVE TypeOK'
  <2>1. CASE HasRoom
    <3>1. queue' = Append(queue, c) /\ outcome' = [outcome EXCEPT ![c] = "waiting"]
        BY <1>1, <2>1 DEF Submit
    <3>2. queue' \in Seq(Calls) /\ Len(queue') = Len(queue) + 1
        BY <3>1
    <3>3. Len(queue') <= QueueLimit
        BY <2>1, <3>2 DEF HasRoom
    <3>4. QED
        BY <1>1, <3>1, <3>2, <3>3 DEF Submit
  <2>2. CASE ~HasRoom
    BY <1>1, <2>2 DEF Submit
  <2>3. QED
    BY <2>1, <2>2
<1>2. ASSUME NEW w \in Workers, WorkerStep(w) PROVE TypeOK'
  <2>1. CASE TakeJob(w)
    BY <2>1 DEF TakeJob, Move
  <2>2. CASE Arm(w)
    BY <2>2 DEF Arm, Move, Send
  <2>3. CASE Interrupted(w)
    BY <2>3 DEF Interrupted, Move
  <2>4. CASE Disarm(w)
    BY <2>4 DEF Disarm, Move, Send
  <2>5. CASE Clear(w)
    BY <2>5 DEF Clear, Move, FlagCleared
  <2>6. CASE Reply(w)
    BY <2>6 DEF Reply, Move
  <2>7. QED
    BY <1>2, <2>1, <2>2, <2>3, <2>4, <2>5, <2>6 DEF WorkerStep
<1>3. ASSUME NEW w \in Workers, FunctionStep(w) \/ Settle(w) \/ Serve(w) PROVE TypeOK'
    BY <1>3 DEF FunctionStep, Ask, Await, End, Settle, Serve, Move
<1>4. ASSUME NEW w \in Workers, Die(w) PROVE TypeOK'
    BY <1>4 DEF Die
<1>5. ASSUME NEW w \in Workers, WatchdogStep(w) PROVE TypeOK'
  <2>1. CASE Watch(w)
    BY <2>1 DEF Watch, Receive
  <2>2. CASE StandDown(w) \/ Absorb(w)
    BY <2>2 DEF StandDown, Absorb, Receive
  <2>3. CASE Expire(w)
    BY <2>3 DEF Expire
  <2>4. CASE Fire(w)
    BY <2>4 DEF Fire, AfterFiring
  <2>5. QED
    BY <1>5, <2>1, <2>2, <2>3, <2>4 DEF WatchdogStep
<1>6. ASSUME NEW w \in Workers, Overstay(w) PROVE TypeOK'
  <2>1. job[w] \in Calls
    BY <1>6 DEF Overstay, Watched, InOnePlace
  <2>2. QED
    BY <1>6, <2>1 DEF Overstay
<1>7. CASE UNCHANGED vars
    BY <1>7 DEF vars
<1>8. QED
    BY <1>1, <1>2, <1>3, <1>4, <1>5, <1>6, <1>7 DEF Next

\* Every step keeps the agreement of a worker and its watchdog: the End that
\* follows a Begin is received before the next Begin is sent.
LEMMA HandshakeStep == TypeOK /\ Handshake /\ [Next]_vars => Handshake'
<1> SUFFICES ASSUME TypeOK, Handshake, [Next]_vars PROVE Handshake'
    OBVIOUS
<1> USE DEF TypeOK, Handshake, Alive, Watched, Phases, watchdog, history, worker
<1>1. ASSUME NEW c \in Calls, Submit(c) PROVE Handshake'
    BY <1>1 DEF Submit
<1>2. ASSUME NEW w \in Workers, WorkerStep(w) PROVE Handshake'
  <2>1. CASE TakeJob(w)
    BY <2>1 DEF TakeJob, Move
  <2>2. CASE Arm(w)
    BY <2>2 DEF Arm, Move, Send
  <2>3. CASE Interrupted(w)
    BY <2>3 DEF Interrupted, Move
  <2>4. CASE Disarm(w)
    BY <2>4 DEF Disarm, Move, Send
  <2>5. CASE Clear(w)
    BY <2>5 DEF Clear, Move
  <2>6. CASE Reply(w)
    BY <2>6 DEF Reply, Move
  <2>7. QED
    BY <1>2, <2>1, <2>2, <2>3, <2>4, <2>5, <2>6 DEF WorkerStep
<1>3. ASSUME NEW w \in Workers, FunctionStep(w) \/ Settle(w) \/ Serve(w) PROVE Handshake'
    BY <1>3 DEF FunctionStep, Ask, Await, End, Settle, Serve, Move
<1>4. ASSUME NEW w \in Workers, Die(w) PROVE Handshake'
    BY <1>4 DEF Die
<1>5. ASSUME NEW w \in Workers, WatchdogStep(w) PROVE Handshake'
    BY <1>5 DEF WatchdogStep, Watch, StandDown, Absorb, Receive, Expire, Fire, AfterFiring
<1>6. ASSUME NEW w \in Workers, Overstay(w) PROVE Handshake'
    BY <1>6 DEF Overstay
<1>7. CASE UNCHANGED vars
    BY <1>7 DEF vars
<1>8. QED
    BY <1>1, <1>2, <1>3, <1>4, <1>5, <1>6, <1>7 DEF Next

\* The first of the queue is in it, and the rest of the queue without it.
LEMMA TakingTheHead ==
    ASSUME TypeOK, InOnePlace, queue # <<>>, queue' = Tail(queue)
    PROVE  /\ Head(queue) \in Waiting
           /\ Waiting' \subseteq Waiting \ {Head(queue)}
           /\ \A i, j \in 1 .. Len(queue') : queue'[i] = queue'[j] => i = j
<1>1. Len(queue) \in Nat \ {0} /\ Len(queue') = Len(queue) - 1
    BY DEF TypeOK
<1>2. \A i \in 1 .. Len(queue') : i + 1 \in 2 .. Len(queue) /\ queue'[i] = queue[i + 1]
    BY <1>1 DEF TypeOK
<1>3. Head(queue) = queue[1]
    BY DEF TypeOK
<1>4. \A i, j \in 1 .. Len(queue) : queue[i] = queue[j] => i = j
    BY DEF InOnePlace
<1>5. Head(queue) \in Waiting
    BY <1>1, <1>3 DEF Waiting
<1>6. ASSUME NEW i \in 1 .. Len(queue') PROVE queue'[i] \in Waiting \ {Head(queue)}
    BY <1>1, <1>2, <1>3, <1>4 DEF Waiting
<1>7. \A i, j \in 1 .. Len(queue') : queue'[i] = queue'[j] => i = j
    BY <1>1, <1>2, <1>4
<1>8. QED
    BY <1>5, <1>6, <1>7 DEF Waiting

\* A step that leaves the queue, the answers and the jobs, and takes no worker
\* to or from a phase without a job, leaves every call where it is.
LEMMA StaysInPlace ==
    ASSUME InOnePlace, queue' = queue, outcome' = outcome, job' = job,
           \A w \in Workers : phase'[w] \in {"idle", "dead"} <=> phase[w] \in {"idle", "dead"}
    PROVE  InOnePlace'
<1>1. Waiting' = Waiting
    BY DEF Waiting
<1>2. QED
    BY <1>1 DEF InOnePlace

\* Every step keeps a call in one place.
LEMMA OnePlaceStep == TypeOK /\ InOnePlace /\ [Next]_vars => InOnePlace'
<1> SUFFICES ASSUME TypeOK, InOnePlace, [Next]_vars PROVE InOnePlace'
    OBVIOUS
<1> USE DEF watchdog, history, worker
<1>1. ASSUME NEW c \in Calls, Submit(c) PROVE InOnePlace'
  <2>1. c \notin Waiting /\ \A w \in Workers : job[w] # c
    BY <1>1, NoCallAssumption DEF InOnePlace, Submit
  <2>2. CASE HasRoom
    <3>1. queue' = Append(queue, c) /\ outcome' = [outcome EXCEPT ![c] = "waiting"] /\ job' = job /\ phase' = phase
        BY <1>1, <2>2 DEF Submit
    <3>2. Len(queue') = Len(queue) + 1 /\ Len(queue) \in Nat /\ queue'[Len(queue) + 1] = c
        BY <3>1 DEF TypeOK
    <3>3. \A i \in 1 .. Len(queue) : queue'[i] = queue[i]
        BY <3>1 DEF TypeOK
    <3>4. \A i \in 1 .. Len(queue) : queue[i] # c
        BY <2>1 DEF Waiting
    <3>5. \A i \in 1 .. Len(queue') : i \in 1 .. Len(queue) \/ i = Len(queue) + 1
        BY <3>2
    <3>6. \A i, j \in 1 .. Len(queue') : queue'[i] = queue'[j] => i = j
        BY <3>2, <3>3, <3>4, <3>5 DEF InOnePlace
    <3>7. Waiting' = Waiting \cup {c}
        BY <3>2, <3>3, <3>5 DEF Waiting
    <3>8. \A d \in Waiting' : outcome'[d] = "waiting" /\ \A w \in Workers : job'[w] # d
        BY <2>1, <3>1, <3>7 DEF InOnePlace, TypeOK
    <3>9. QED
        BY <2>1, <3>1, <3>6, <3>8 DEF InOnePlace, TypeOK
  <2>3. CASE ~HasRoom
    <3>1. queue' = queue /\ job' = job /\ phase' = phase /\ outcome' = [outcome EXCEPT ![c] = "overloaded"]
        BY <1>1, <2>3 DEF Submit
    <3>2. Waiting' = Waiting
        BY <3>1 DEF Waiting
    <3>3. QED
        BY <2>1, <3>1, <3>2 DEF InOnePlace, TypeOK
  <2>4. QED
    BY <2>2, <2>3
<1>2. ASSUME NEW w \in Workers, TakeJob(w) PROVE InOnePlace'
  <2>1. /\ queue # <<>> /\ queue' = Tail(queue) /\ outcome' = outcome
        /\ job' = [job EXCEPT ![w] = Head(queue)]
        /\ phase[w] = "idle" /\ phase' = [phase EXCEPT ![w] = "arming"]
    BY <1>2 DEF TakeJob, Move
  <2>2. /\ Head(queue) \in Waiting
        /\ Waiting' \subseteq Waiting \ {Head(queue)}
        /\ \A i, j \in 1 .. Len(queue') : queue'[i] = queue'[j] => i = j
    BY <2>1, TakingTheHead
  <2>3. Head(queue) \in Calls
    BY <2>1 DEF TypeOK
  <2>4. \A v \in Workers : v # w => job'[v] = job[v] /\ phase'[v] = phase[v]
    BY <2>1 DEF TypeOK
  <2>5. job'[w] = Head(queue) /\ phase'[w] = "arming"
    BY <2>1 DEF TypeOK
  <2>6. \A d \in Waiting' : outcome'[d] = "waiting" /\ \A v \in Workers : job'[v] # d
    BY <2>1, <2>2, <2>4, <2>5 DEF InOnePlace
  <2>7. ASSUME NEW v \in Workers
        PROVE  /\ phase'[v] \in {"idle", "dead"} <=> job'[v] = NoCall
               /\ job'[v] # NoCall => outcome'[job'[v]] = "waiting"
               /\ \A u \in Workers : job'[u] = job'[v] /\ job'[v] # NoCall => u = v
    BY <2>1, <2>2, <2>3, <2>4, <2>5, NoCallAssumption DEF InOnePlace
  <2>8. QED
    BY <2>2, <2>6, <2>7 DEF InOnePlace
<1>3. ASSUME NEW w \in Workers, Arm(w) \/ Interrupted(w) \/ Disarm(w) \/ Clear(w) PROVE InOnePlace'
    BY <1>3, StaysInPlace DEF Arm, Interrupted, Disarm, Clear, Move, Send, TypeOK
<1>4. ASSUME NEW w \in Workers, Reply(w) PROVE InOnePlace'
  <2>1. /\ queue' = queue /\ outcome' = [outcome EXCEPT ![job[w]] = result[w]]
        /\ job' = [job EXCEPT ![w] = NoCall]
        /\ phase[w] = "replying" /\ phase' = [phase EXCEPT ![w] = "idle"]
    BY <1>4 DEF Reply, Move
  <2>2. job[w] \in Calls
    BY <2>1 DEF InOnePlace, TypeOK
  <2>3. Waiting' = Waiting
    BY <2>1 DEF Waiting
  <2>4. job'[w] = NoCall /\ phase'[w] = "idle"
    BY <2>1 DEF TypeOK
  <2>5. \A v \in Workers : v # w => job'[v] = job[v] /\ phase'[v] = phase[v]
    BY <2>1 DEF TypeOK
  <2>6. \A c \in Calls : c # job[w] => outcome'[c] = outcome[c]
    BY <2>1 DEF TypeOK
  <2>7. Waiting \subseteq Calls /\ job[w] \notin Waiting
    BY <2>2 DEF Waiting, TypeOK, InOnePlace
  <2>8. \A d \in Waiting' : outcome'[d] = "waiting" /\ \A v \in Workers : job'[v] # d
    BY <2>3, <2>4, <2>5, <2>6, <2>7, NoCallAssumption DEF InOnePlace
  <2>9. \A v \in Workers :
            /\ phase'[v] \in {"idle", "dead"} <=> job'[v] = NoCall
            /\ job'[v] # NoCall => outcome'[job'[v]] = "waiting"
            /\ \A u \in Workers : job'[u] = job'[v] /\ job'[v] # NoCall => u = v
    BY <2>2, <2>4, <2>5, <2>6 DEF InOnePlace, TypeOK
  <2>10. QED
    BY <2>1, <2>8, <2>9 DEF InOnePlace
<1>5. ASSUME NEW w \in Workers, FunctionStep(w) \/ Settle(w) \/ Serve(w) PROVE InOnePlace'
    BY <1>5, StaysInPlace DEF FunctionStep, Ask, Await, End, Settle, Serve, Move, TypeOK
<1>6. ASSUME NEW w \in Workers, Die(w) PROVE InOnePlace'
  <2>1. /\ phase[w] \in {"running", "awaiting"} /\ phase' = [phase EXCEPT ![w] = "dead"]
        /\ job' = [job EXCEPT ![w] = NoCall]
        /\ outcome' = [c \in Calls |->
              IF c = job[w] \/ (Alive = {w} /\ c \in Waiting) THEN "died" ELSE outcome[c]]
    BY <1>6 DEF Die
  <2>2. job[w] \in Calls
    BY <2>1 DEF InOnePlace, TypeOK
  <2>3. CASE Alive = {w}
    <3>1. queue' = <<>>
        BY <1>6, <2>3 DEF Die
    <3>2. Waiting' = {} /\ \A i, j \in 1 .. Len(queue') : queue'[i] = queue'[j] => i = j
        BY <3>1 DEF Waiting
    <3>3. \A v \in Workers : v # w => phase[v] = "dead" /\ job[v] = NoCall
        BY <2>3 DEF Alive, InOnePlace
    <3>4. \A v \in Workers : job'[v] = NoCall /\ phase'[v] = "dead"
        BY <2>1, <3>3 DEF TypeOK
    <3>5. QED
        BY <3>2, <3>4 DEF InOnePlace
  <2>4. CASE Alive # {w}
    <3>1. queue' = queue
        BY <1>6, <2>4 DEF Die
    <3>2. Waiting' = Waiting /\ Waiting \subseteq Calls
        BY <3>1 DEF Waiting, TypeOK
    <3>3. \A c \in Calls : c # job[w] => outcome'[c] = outcome[c]
        BY <2>1, <2>4
    <3>4. \A v \in Workers : v # w => job'[v] = job[v] /\ phase'[v] = phase[v]
        BY <2>1 DEF TypeOK
    <3>5. job'[w] = NoCall /\ phase'[w] = "dead"
        BY <2>1 DEF TypeOK
    <3>6. \A d \in Waiting' : outcome'[d] = "waiting" /\ \A v \in Workers : job'[v] # d
        BY <3>2, <3>3, <3>4, <3>5, NoCallAssumption DEF InOnePlace
    <3>7. \A v \in Workers :
            /\ phase'[v] \in {"idle", "dead"} <=> job'[v] = NoCall
            /\ job'[v] # NoCall => outcome'[job'[v]] = "waiting"
            /\ \A u \in Workers : job'[u] = job'[v] /\ job'[v] # NoCall => u = v
        BY <2>2, <3>3, <3>4, <3>5 DEF InOnePlace, TypeOK
    <3>8. QED
        BY <3>1, <3>6, <3>7 DEF InOnePlace
  <2>5. QED
    BY <2>3, <2>4
<1>7. ASSUME NEW w \in Workers, Overstay(w) \/ WatchdogStep(w) PROVE InOnePlace'
    BY <1>7, StaysInPlace DEF Overstay, WatchdogStep, Watch, StandDown, Absorb, Receive, Expire, Fire
<1>8. CASE UNCHANGED vars
    BY <1>8, StaysInPlace DEF vars
<1>9. QED
    BY <1>1, <1>2, <1>3, <1>4, <1>5, <1>6, <1>7, <1>8 DEF Next, WorkerStep

-----------------------------------------------------------------------------
(* Who is killed, and on whose account.                                    *)

KillInv == OneKillPerOverstay /\ StrikesAreOwed /\ FreshIsUnspent

\* A step that kills nobody, owes no new strike, starts no watch and puts no
\* call in the queue keeps the account.
LEMMA AccountStays ==
    ASSUME TypeOK, KillInv, killedFor' = killedFor, overstayed \subseteq overstayed',
           Waiting' \subseteq Waiting,
           \A c \in Calls : outcome'[c] = "new" => outcome[c] = "new",
           \A w \in Workers :
             /\ job'[w] \in {job[w], NoCall}
             /\ Fresh(w)' => Fresh(w) /\ job'[w] = job[w]
             /\ \A c \in Calls \cup {NoCall} : Strikes(w, c)' => Strikes(w, c)
             /\ (dog[w] = "firing" /\ Flagged(w))' =>
                    dog[w] = "firing" /\ Flagged(w) /\ late'[w] = late[w] /\ blame'[w] = blame[w]
    PROVE  KillInv'
<1> USE DEF KillInv
<1>1. \A c \in Calls \cup {NoCall} : Unspent(c)' <=> Unspent(c)
    BY DEF Unspent
<1>2. overstayed \subseteq Calls
    BY DEF TypeOK
<1>3. OneKillPerOverstay'
    BY DEF OneKillPerOverstay
<1>4. ASSUME NEW w \in Workers, NEW c \in Calls \cup {NoCall}, Strikes(w, c)'
      PROVE  /\ c \in overstayed' /\ Unspent(c)'
             /\ c \notin Waiting' /\ outcome'[c] # "new"
             /\ \A v \in Workers \ {w} : ~Strikes(v, c)' /\ job'[v] # c
  <2>1. /\ c \in overstayed /\ Unspent(c) /\ c \notin Waiting /\ outcome[c] # "new"
        /\ \A v \in Workers \ {w} : ~Strikes(v, c) /\ job[v] # c
    BY <1>4 DEF StrikesAreOwed
  <2>2. c \in Calls
    BY <1>2, <2>1
  <2>3. QED
    BY <1>1, <2>1, <2>2, NoCallAssumption
<1>5. StrikesAreOwed'
    BY <1>4 DEF StrikesAreOwed
<1>6. \A w \in Workers : Fresh(w)' => Unspent(job[w])' /\ ~Strikes(w, job[w])' /\ job'[w] = job[w]
    BY <1>1 DEF FreshIsUnspent, TypeOK
<1>7. \A c \in Calls : outcome'[c] = "new" \/ c \in Waiting' => Unspent(c)'
    BY <1>1 DEF FreshIsUnspent
<1>8. FreshIsUnspent'
    BY <1>6, <1>7 DEF FreshIsUnspent, Unspent, Strikes
<1>9. QED
    BY <1>3, <1>5, <1>8

\* A call that enters the queue was unknown, so nobody was killed for it.
LEMMA SubmitKeepsAccount ==
    ASSUME TypeOK, KillInv, NEW c \in Calls, Submit(c)
    PROVE  KillInv'
<1> USE DEF watchdog, history, worker
<1>1. outcome[c] = "new"
    BY DEF Submit
<1>2. /\ killedFor' = killedFor /\ overstayed' = overstayed /\ late' = late /\ blame' = blame
      /\ job' = job /\ phase' = phase /\ signal' = signal /\ dog' = dog /\ terminated' = terminated
    BY DEF Submit
<1>3. /\ \A d \in Calls : outcome'[d] = "new" => outcome[d] = "new" /\ d # c
      /\ \A d \in Calls : outcome[d] # "new" => outcome'[d] # "new"
    BY DEF Submit, TypeOK
<1>4. Waiting' \subseteq Waiting \cup {c}
  <2>1. CASE queue' = queue
    BY <2>1 DEF Waiting
  <2>2. CASE queue' = Append(queue, c)
    <3>1. Len(queue') = Len(queue) + 1 /\ Len(queue) \in Nat /\ queue'[Len(queue) + 1] = c
        BY <2>2 DEF TypeOK
    <3>2. \A i \in 1 .. Len(queue) : queue'[i] = queue[i]
        BY <2>2 DEF TypeOK
    <3>3. \A i \in 1 .. Len(queue') : i \in 1 .. Len(queue) \/ i = Len(queue) + 1
        BY <3>1
    <3>4. QED
        BY <3>1, <3>2, <3>3 DEF Waiting
  <2>3. QED
    BY <2>1, <2>2 DEF Submit
<1>5. OneKillPerOverstay'
    BY <1>2 DEF KillInv, OneKillPerOverstay
<1>6. \A w \in Workers : /\ Fresh(w)' <=> Fresh(w)
                         /\ Flagged(w)' <=> Flagged(w)
                         /\ \A d \in Calls \cup {NoCall} : Strikes(w, d)' <=> Strikes(w, d)
    BY <1>2 DEF Fresh, Flagged, Strikes
<1>7. \A d \in Calls \cup {NoCall} : Unspent(d)' <=> Unspent(d)
    BY <1>2 DEF Unspent
<1>8. overstayed \subseteq Calls
    BY DEF TypeOK
<1>9. ASSUME NEW w \in Workers, NEW d \in Calls \cup {NoCall}, Strikes(w, d)'
      PROVE  /\ d \in overstayed' /\ Unspent(d)'
             /\ d \notin Waiting' /\ outcome'[d] # "new"
             /\ \A v \in Workers \ {w} : ~Strikes(v, d)' /\ job'[v] # d
  <2>1. /\ d \in overstayed /\ Unspent(d) /\ d \notin Waiting /\ outcome[d] # "new"
        /\ \A v \in Workers \ {w} : ~Strikes(v, d) /\ job[v] # d
    BY <1>6, <1>9 DEF KillInv, StrikesAreOwed
  <2>2. d \in Calls /\ d # c
    BY <1>1, <1>8, <2>1
  <2>3. QED
    BY <1>2, <1>3, <1>4, <1>6, <1>7, <2>1, <2>2
<1>10. StrikesAreOwed'
    BY <1>2, <1>6, <1>9 DEF KillInv, StrikesAreOwed
<1>11. \A w \in Workers : Fresh(w)' => Unspent(job[w])' /\ ~Strikes(w, job[w])'
    BY <1>2, <1>6, <1>7 DEF KillInv, FreshIsUnspent, TypeOK
<1>12. \A d \in Calls : outcome'[d] = "new" \/ d \in Waiting' => Unspent(d)'
    BY <1>1, <1>3, <1>4, <1>7 DEF KillInv, FreshIsUnspent
<1>13. QED
    BY <1>2, <1>5, <1>10, <1>11, <1>12 DEF KillInv, FreshIsUnspent, Unspent, Strikes

\* A job comes from the queue: nobody was killed for it and nobody will be.
LEMMA TakeJobKeepsAccount ==
    ASSUME TypeOK, InOnePlace, KillInv, NEW w \in Workers, TakeJob(w)
    PROVE  KillInv'
<1> USE DEF watchdog, history, worker
<1>1. /\ killedFor' = killedFor /\ overstayed' = overstayed /\ late' = late /\ blame' = blame
      /\ outcome' = outcome /\ signal' = signal /\ dog' = dog /\ terminated' = terminated
      /\ phase[w] = "idle" /\ phase' = [phase EXCEPT ![w] = "arming"]
      /\ queue # <<>> /\ queue' = Tail(queue) /\ job' = [job EXCEPT ![w] = Head(queue)]
    BY DEF TakeJob, Move
<1>2. Head(queue) \in Waiting /\ Waiting' \subseteq Waiting
    BY <1>1, TakingTheHead
<1>3. /\ job'[w] = Head(queue) /\ phase'[w] = "arming"
      /\ \A v \in Workers : v # w => job'[v] = job[v] /\ phase'[v] = phase[v]
    BY <1>1 DEF TypeOK
<1>4. Head(queue) \in Calls
    BY <1>1 DEF TypeOK
<1>5. OneKillPerOverstay'
    BY <1>1 DEF KillInv, OneKillPerOverstay
<1>6. \A v \in Workers : /\ v # w => (Fresh(v)' <=> Fresh(v))
                         /\ Flagged(v)' <=> Flagged(v)
                         /\ \A d \in Calls \cup {NoCall} : Strikes(v, d)' <=> Strikes(v, d)
    BY <1>1, <1>3 DEF Fresh, Flagged, Strikes
<1>7. \A d \in Calls \cup {NoCall} : Unspent(d)' <=> Unspent(d)
    BY <1>1 DEF Unspent
<1>8. ASSUME NEW v \in Workers, NEW d \in Calls \cup {NoCall}, Strikes(v, d)'
      PROVE  /\ d \in overstayed' /\ Unspent(d)'
             /\ d \notin Waiting' /\ outcome'[d] # "new"
             /\ \A u \in Workers \ {v} : ~Strikes(u, d)' /\ job'[u] # d
  <2>1. /\ d \in overstayed /\ Unspent(d) /\ d \notin Waiting /\ outcome[d] # "new"
        /\ \A u \in Workers \ {v} : ~Strikes(u, d) /\ job[u] # d
    BY <1>6, <1>8 DEF KillInv, StrikesAreOwed
  <2>2. QED
    BY <1>1, <1>2, <1>3, <1>6, <1>7, <2>1
<1>9. StrikesAreOwed'
    BY <1>1, <1>6, <1>8 DEF KillInv, StrikesAreOwed
<1>10. Unspent(Head(queue)) /\ ~Strikes(w, Head(queue))
    BY <1>2, <1>4 DEF KillInv, FreshIsUnspent, StrikesAreOwed
<1>11. ASSUME NEW v \in Workers, Fresh(v)'
       PROVE  Unspent(job[v])' /\ ~Strikes(v, job[v])'
  <2>1. CASE v = w
    <3>1. PICK c \in Calls : c = Head(queue)
        BY <1>4
    <3>2. Unspent(c)' /\ ~Strikes(w, c)' /\ job'[w] = c
        BY <1>3, <1>6, <1>7, <1>10, <3>1
    <3>3. QED
        BY <2>1, <3>2 DEF Unspent, Strikes
  <2>2. CASE v # w
    <3>1. job[v] \in Calls \cup {NoCall} /\ job'[v] = job[v]
        BY <1>3, <2>2 DEF TypeOK
    <3>2. Unspent(job[v]) /\ ~Strikes(v, job[v])
        BY <1>6, <1>11, <2>2 DEF KillInv, FreshIsUnspent
    <3>3. QED
        BY <1>1, <1>3, <2>2, <3>1, <3>2 DEF Unspent, Strikes, Flagged
  <2>3. QED
    BY <2>1, <2>2
<1>12. \A d \in Calls : outcome'[d] = "new" \/ d \in Waiting' => Unspent(d)'
    BY <1>1, <1>2, <1>7 DEF KillInv, FreshIsUnspent
<1>13. QED
    BY <1>5, <1>9, <1>11, <1>12 DEF KillInv, FreshIsUnspent, Unspent, Strikes

\* A watch that runs out is that of a fresh call: nobody was killed for it yet.
LEMMA ExpireKeepsAccount ==
    ASSUME TypeOK, Handshake, InOnePlace, KillInv, NEW w \in Workers, Expire(w)
    PROVE  KillInv'
<1> USE DEF watchdog, history, worker
<1>1. /\ killedFor' = killedFor /\ overstayed' = overstayed /\ blame' = blame
      /\ queue' = queue /\ outcome' = outcome /\ signal' = signal /\ terminated' = terminated
      /\ phase' = phase /\ job' = job
      /\ dog[w] = "armed" /\ signal[w] = "none" /\ job[w] \in overstayed
      /\ dog' = [dog EXCEPT ![w] = "firing"] /\ late' = [late EXCEPT ![w] = job[w]]
    BY DEF Expire
<1>2. /\ dog'[w] = "firing" /\ late'[w] = job[w]
      /\ \A v \in Workers : v # w => dog'[v] = dog[v] /\ late'[v] = late[v]
    BY <1>1 DEF TypeOK
<1>3. PICK c \in Calls : c = job[w]
    BY <1>1 DEF TypeOK
<1>4. phase[w] \in Watched
    BY <1>1, <1>3, NoCallAssumption DEF Handshake, InOnePlace, Alive
<1>5. Unspent(c) /\ ~Strikes(w, c)
    BY <1>1, <1>3, <1>4 DEF KillInv, FreshIsUnspent, Fresh
<1>6. \A v \in Workers \ {w} : ~Strikes(v, c) /\ job[v] # c
    BY <1>3, NoCallAssumption DEF KillInv, StrikesAreOwed, InOnePlace
<1>7. c \in overstayed /\ c \notin Waiting /\ outcome[c] # "new"
    BY <1>1, <1>3, NoCallAssumption DEF InOnePlace
<1>8. Waiting' = Waiting
    BY <1>1 DEF Waiting
<1>9. OneKillPerOverstay'
    BY <1>1 DEF KillInv, OneKillPerOverstay
<1>10. \A v \in Workers : /\ v # w => (Fresh(v)' <=> Fresh(v))
                          /\ Flagged(v)' <=> Flagged(v)
                          /\ \A d \in Calls \cup {NoCall} :
                                /\ v # w => (Strikes(v, d)' <=> Strikes(v, d))
                                /\ Strikes(v, d)' => Strikes(v, d) \/ d = c
    BY <1>1, <1>2, <1>3 DEF Fresh, Flagged, Strikes
<1>11. ~Fresh(w)'
    BY <1>1, <1>2, <1>4 DEF Fresh, Watched
<1>12. \A d \in Calls \cup {NoCall} : Unspent(d)' <=> Unspent(d)
    BY <1>1 DEF Unspent
<1>13. ASSUME NEW v \in Workers, NEW d \in Calls \cup {NoCall}, Strikes(v, d)'
       PROVE  /\ d \in overstayed' /\ Unspent(d)'
              /\ d \notin Waiting' /\ outcome'[d] # "new"
              /\ \A u \in Workers \ {v} : ~Strikes(u, d)' /\ job'[u] # d
  <2>1. CASE d = c
    BY <1>1, <1>5, <1>6, <1>7, <1>8, <1>10, <1>12, <1>13, <2>1
  <2>2. CASE d # c
    <3>1. /\ d \in overstayed /\ Unspent(d) /\ d \notin Waiting /\ outcome[d] # "new"
          /\ \A u \in Workers \ {v} : ~Strikes(u, d) /\ job[u] # d
        BY <1>10, <1>13, <2>2 DEF KillInv, StrikesAreOwed
    <3>2. QED
        BY <1>1, <1>8, <1>10, <1>12, <2>2, <3>1
  <2>3. QED
    BY <2>1, <2>2
<1>14. \A v \in Workers : (dog[v] = "firing" /\ Flagged(v))' => late'[v] # blame'[v]
  <2>1. Flagged(w) => blame[w] # c
    BY <1>5 DEF Strikes
  <2>2. QED
    BY <1>1, <1>2, <1>3, <1>10, <2>1 DEF KillInv, StrikesAreOwed
<1>15. StrikesAreOwed'
    BY <1>13, <1>14 DEF StrikesAreOwed
<1>16. ASSUME NEW v \in Workers, Fresh(v)'
       PROVE  Unspent(job[v])' /\ ~Strikes(v, job[v])'
  <2>1. v # w /\ job'[v] = job[v] /\ job[v] \in Calls \cup {NoCall}
    BY <1>1, <1>11, <1>16 DEF TypeOK
  <2>2. Unspent(job[v]) /\ ~Strikes(v, job[v])
    BY <1>10, <1>16, <2>1 DEF KillInv, FreshIsUnspent
  <2>3. QED
    BY <1>1, <1>2, <2>1, <2>2 DEF Unspent, Strikes, Flagged
<1>17. \A d \in Calls : outcome'[d] = "new" \/ d \in Waiting' => Unspent(d)'
    BY <1>1, <1>8, <1>12 DEF KillInv, FreshIsUnspent
<1>18. QED
    BY <1>9, <1>15, <1>16, <1>17 DEF KillInv, FreshIsUnspent

\* A call that is killed spends the overstay its isolate was flagged for.
LEMMA InterruptedKeepsAccount ==
    ASSUME TypeOK, InOnePlace, KillInv, NEW w \in Workers, Interrupted(w)
    PROVE  KillInv'
<1> USE DEF watchdog, history, worker
<1>1. /\ overstayed' = overstayed /\ blame' = blame /\ late' = late
      /\ queue' = queue /\ outcome' = outcome /\ signal' = signal /\ terminated' = terminated
      /\ dog' = dog /\ job' = job
      /\ terminated[w] /\ phase[w] = "running" /\ phase' = [phase EXCEPT ![w] = "finishing"]
      /\ killedFor' = [killedFor EXCEPT ![job[w]] = blame[w]]
    BY DEF Interrupted, Move
<1>2. job[w] \in Calls
    BY <1>1 DEF TypeOK, InOnePlace
<1>3. /\ phase'[w] = "finishing"
      /\ \A v \in Workers : v # w => phase'[v] = phase[v]
    BY <1>1 DEF TypeOK
<1>4. PICK b \in Calls \cup {NoCall} : b = blame[w]
    BY DEF TypeOK
<1>5. Strikes(w, b)
    BY <1>1, <1>4 DEF Strikes, Flagged
<1>6. /\ b \in overstayed /\ Unspent(b) /\ b \notin Waiting /\ outcome[b] # "new"
      /\ \A v \in Workers \ {w} : ~Strikes(v, b) /\ job[v] # b
      /\ dog[w] = "firing" => late[w] # b
    BY <1>1, <1>4, <1>5 DEF KillInv, StrikesAreOwed, Flagged
<1>7. b \in Calls
    BY <1>6 DEF TypeOK
<1>8. \A d \in Calls : killedFor'[d] = IF d = job[w] THEN b ELSE killedFor[d]
    BY <1>1, <1>4 DEF TypeOK
<1>9. OneKillPerOverstay'
    BY <1>1, <1>6, <1>8 DEF KillInv, OneKillPerOverstay, Unspent
<1>10. \A d \in Calls \cup {NoCall} : Unspent(d) /\ d # b => Unspent(d)'
    BY <1>8 DEF Unspent
<1>11. Waiting' = Waiting
    BY <1>1 DEF Waiting
<1>12. \A v \in Workers : /\ Fresh(v)' <=> Fresh(v)
                          /\ Flagged(v)' => Flagged(v)
                          /\ \A d \in Calls \cup {NoCall} : Strikes(v, d)' => Strikes(v, d) /\ d # b
    BY <1>1, <1>3, <1>6 DEF Fresh, Watched, Flagged, Strikes
<1>13. ASSUME NEW v \in Workers, NEW d \in Calls \cup {NoCall}, Strikes(v, d)'
       PROVE  /\ d \in overstayed' /\ Unspent(d)'
              /\ d \notin Waiting' /\ outcome'[d] # "new"
              /\ \A u \in Workers \ {v} : ~Strikes(u, d)' /\ job'[u] # d
  <2>1. /\ d \in overstayed /\ Unspent(d) /\ d \notin Waiting /\ outcome[d] # "new"
        /\ \A u \in Workers \ {v} : ~Strikes(u, d) /\ job[u] # d
    BY <1>12, <1>13 DEF KillInv, StrikesAreOwed
  <2>2. QED
    BY <1>1, <1>10, <1>11, <1>12, <1>13, <2>1
<1>14. StrikesAreOwed'
    BY <1>1, <1>12, <1>13 DEF KillInv, StrikesAreOwed
<1>15. ASSUME NEW v \in Workers, Fresh(v)'
       PROVE  Unspent(job[v])' /\ ~Strikes(v, job[v])'
  <2>1. job'[v] = job[v] /\ job[v] \in Calls \cup {NoCall}
    BY <1>1 DEF TypeOK
  <2>2. Unspent(job[v]) /\ ~Strikes(v, job[v])
    BY <1>12, <1>15 DEF KillInv, FreshIsUnspent
  <2>3. job[v] # b
    BY <1>5, <1>6, <2>2
  <2>4. PICK d \in Calls \cup {NoCall} : d = job[v]
    BY <2>1
  <2>5. Unspent(d)' /\ ~Strikes(v, d)'
    BY <1>10, <1>12, <2>2, <2>3, <2>4
  <2>6. QED
    BY <2>1, <2>4, <2>5 DEF Unspent, Strikes
<1>16. \A d \in Calls : outcome'[d] = "new" \/ d \in Waiting' => Unspent(d)'
    BY <1>1, <1>6, <1>10, <1>11 DEF KillInv, FreshIsUnspent
<1>17. QED
    BY <1>9, <1>14, <1>15, <1>16 DEF KillInv, FreshIsUnspent

\* Every step keeps the account of overstays and kills.
LEMMA KillStep == TypeOK /\ Handshake /\ InOnePlace /\ KillInv /\ [Next]_vars => KillInv'
<1> SUFFICES ASSUME TypeOK, Handshake, InOnePlace, KillInv, [Next]_vars PROVE KillInv'
    OBVIOUS
<1> USE DEF watchdog, history, worker
<1>1. ASSUME NEW w \in Workers, Arm(w) \/ FunctionStep(w) \/ Settle(w) \/ Serve(w) \/ Disarm(w) \/ Clear(w)
      PROVE  KillInv'
  <2>1. /\ queue' = queue /\ outcome' = outcome /\ job' = job /\ killedFor' = killedFor
        /\ overstayed' = overstayed /\ late' = late /\ blame' = blame /\ dog' = dog
        /\ Waiting' = Waiting
    BY <1>1 DEF Arm, FunctionStep, Ask, Await, End, Settle, Serve, Disarm, Clear, Send, Waiting
  <2>2. \A v \in Workers : v # w => phase'[v] = phase[v] /\ signal'[v] = signal[v] /\ terminated'[v] = terminated[v]
    BY <1>1 DEF Arm, FunctionStep, Ask, Await, End, Settle, Serve, Disarm, Clear, Send, Move, FlagCleared, TypeOK
  <2>3. (Fresh(w)' => Fresh(w)) /\ (Flagged(w)' => Flagged(w))
    <3>1. CASE Arm(w)
        BY <3>1 DEF Arm, Move, Send, Fresh, Flagged, Watched, TypeOK
    <3>2. CASE FunctionStep(w) \/ Settle(w) \/ Serve(w)
        BY <3>2 DEF FunctionStep, Ask, Await, End, Settle, Serve, Move, Fresh, Flagged, Watched, TypeOK
    <3>3. CASE Disarm(w) \/ Clear(w)
        BY <3>3 DEF Disarm, Clear, Send, Move, FlagCleared, Fresh, Flagged, Watched, TypeOK
    <3>4. QED
        BY <1>1, <3>1, <3>2, <3>3
  <2>4. \A v \in Workers : (Fresh(v)' => Fresh(v)) /\ (Flagged(v)' => Flagged(v))
    BY <2>1, <2>2, <2>3 DEF Fresh, Flagged
  <2>5. \A v \in Workers, c \in Calls \cup {NoCall} : Strikes(v, c)' => Strikes(v, c)
    BY <2>1, <2>4 DEF Strikes
  <2>6. QED
    BY <2>1, <2>4, <2>5, AccountStays
<1>2. ASSUME NEW w \in Workers, Reply(w) PROVE KillInv'
  <2>1. /\ outcome' = [outcome EXCEPT ![job[w]] = result[w]]
        /\ job' = [job EXCEPT ![w] = NoCall]
        /\ phase[w] = "replying" /\ phase' = [phase EXCEPT ![w] = "idle"]
        /\ queue' = queue /\ killedFor' = killedFor /\ overstayed' = overstayed /\ late' = late
        /\ blame' = blame /\ signal' = signal /\ dog' = dog /\ terminated' = terminated
    BY <1>2 DEF Reply, Move
  <2>2. \A c \in Calls : outcome'[c] = "new" => outcome[c] = "new"
    BY <2>1 DEF TypeOK
  <2>3. Waiting' = Waiting
    BY <2>1 DEF Waiting
  <2>4. ASSUME NEW v \in Workers
        PROVE  /\ job'[v] \in {job[v], NoCall}
               /\ Fresh(v)' => Fresh(v) /\ job'[v] = job[v]
               /\ Flagged(v)' => Flagged(v)
    BY <2>1 DEF Fresh, Flagged, Watched, TypeOK
  <2>5. \A v \in Workers, c \in Calls \cup {NoCall} : Strikes(v, c)' => Strikes(v, c)
    BY <2>1, <2>4 DEF Strikes
  <2>6. QED
    BY <2>1, <2>2, <2>3, <2>4, <2>5, AccountStays
<1>3. ASSUME NEW w \in Workers, Die(w) PROVE KillInv'
  <2>1. /\ killedFor' = killedFor /\ overstayed' = overstayed /\ late' = late /\ blame' = blame
        /\ job' = [job EXCEPT ![w] = NoCall] /\ phase' = [phase EXCEPT ![w] = "dead"]
        /\ signal' = [signal EXCEPT ![w] = "none"] /\ dog' = [dog EXCEPT ![w] = "gone"]
        /\ terminated' = [terminated EXCEPT ![w] = FALSE]
    BY <1>3 DEF Die
  <2>2. \A c \in Calls : outcome'[c] = "new" => outcome[c] = "new"
    BY <1>3 DEF Die
  <2>3. Waiting' \subseteq Waiting
    BY <1>3 DEF Die, Waiting
  <2>4. ASSUME NEW v \in Workers
        PROVE  /\ job'[v] \in {job[v], NoCall}
               /\ Fresh(v)' => Fresh(v) /\ job'[v] = job[v]
               /\ Flagged(v)' => Flagged(v)
               /\ dog'[v] = "firing" => dog[v] = "firing"
    BY <2>1 DEF Fresh, Flagged, Watched, TypeOK
  <2>5. \A v \in Workers, c \in Calls \cup {NoCall} : Strikes(v, c)' => Strikes(v, c)
    BY <2>1, <2>4 DEF Strikes
  <2>6. QED
    BY <2>1, <2>2, <2>3, <2>4, <2>5, AccountStays
<1>4. ASSUME NEW w \in Workers, Watch(w) \/ StandDown(w) \/ Absorb(w) \/ Overstay(w) PROVE KillInv'
  <2>1. /\ queue' = queue /\ outcome' = outcome /\ job' = job /\ killedFor' = killedFor /\ phase' = phase
        /\ overstayed \subseteq overstayed' /\ late' = late /\ blame' = blame /\ terminated' = terminated
        /\ Waiting' = Waiting
    BY <1>4 DEF Watch, StandDown, Absorb, Overstay, Receive, Waiting
  <2>2. \A v \in Workers : (Fresh(v)' => Fresh(v)) /\ (dog'[v] = "firing" => dog[v] = "firing")
    BY <1>4, <2>1 DEF Watch, StandDown, Absorb, Overstay, Receive, Fresh, TypeOK
  <2>3. \A v \in Workers : Flagged(v)' <=> Flagged(v)
    BY <2>1 DEF Flagged
  <2>4. \A v \in Workers, c \in Calls \cup {NoCall} : Strikes(v, c)' => Strikes(v, c)
    BY <2>1, <2>2, <2>3 DEF Strikes
  <2>5. QED
    BY <2>1, <2>2, <2>3, <2>4, AccountStays
<1>5. ASSUME NEW w \in Workers, Fire(w) PROVE KillInv'
  <2>1. /\ queue' = queue /\ outcome' = outcome /\ job' = job /\ killedFor' = killedFor /\ phase' = phase
        /\ overstayed' = overstayed /\ late' = late /\ signal' = signal /\ Waiting' = Waiting
        /\ dog[w] = "firing" /\ dog' = [dog EXCEPT ![w] = "absorbing"]
        /\ blame' = [blame EXCEPT ![w] = late[w]] /\ terminated' = [terminated EXCEPT ![w] = TRUE]
    BY <1>5 DEF Fire, AfterFiring, Waiting
  <2>2. \A v \in Workers : v # w => dog'[v] = dog[v] /\ blame'[v] = blame[v] /\ terminated'[v] = terminated[v]
    BY <2>1 DEF TypeOK
  <2>3. dog'[w] = "absorbing" /\ blame'[w] = late[w]
    BY <2>1 DEF TypeOK
  <2>4. \A v \in Workers : (Fresh(v)' => Fresh(v)) /\ (v # w => (Flagged(v)' <=> Flagged(v)))
    BY <2>1, <2>2, <2>3 DEF Fresh, Flagged
  <2>5. \A v \in Workers, c \in Calls \cup {NoCall} : Strikes(v, c)' => Strikes(v, c)
    BY <2>1, <2>2, <2>3, <2>4 DEF Strikes
  <2>6. QED
    BY <2>1, <2>2, <2>3, <2>4, <2>5, AccountStays
<1>6. CASE UNCHANGED vars
  <2>1. Waiting' = Waiting
    BY <1>6 DEF vars, Waiting
  <2>2. QED
    BY <1>6, <2>1, AccountStays DEF vars, Fresh, Strikes, Flagged
<1>7. QED
    BY <1>1, <1>2, <1>3, <1>4, <1>5, <1>6, SubmitKeepsAccount, TakeJobKeepsAccount, ExpireKeepsAccount,
       InterruptedKeepsAccount DEF Next, WorkerStep, WatchdogStep

-----------------------------------------------------------------------------
(* The theorems.                                                           *)

\* The initial states satisfy the inductive invariant.
LEMMA InitPoolInv == Init => PoolInv
<1> SUFFICES ASSUME Init PROVE PoolInv
    OBVIOUS
<1>1. TypeOK
    BY PoolAssumption DEF Init, TypeOK, Outcomes, Phases
<1>2. Handshake
    BY DEF Init, Handshake, Alive, Watched
<1>3. Waiting = {}
    BY DEF Init, Waiting
<1>4. InOnePlace
    BY <1>3 DEF Init, InOnePlace
<1>5. OneKillPerOverstay /\ \A c \in Calls : Unspent(c)
    BY NoCallAssumption DEF Init, OneKillPerOverstay, Unspent
<1>6. \A w \in Workers : ~Flagged(w) /\ ~Fresh(w) /\ dog[w] = "idle"
    BY DEF Init, Flagged, Fresh, Watched
<1>7. StrikesAreOwed /\ FreshIsUnspent
    BY <1>5, <1>6 DEF StrikesAreOwed, FreshIsUnspent, Strikes
<1>8. QED
    BY <1>1, <1>2, <1>4, <1>5, <1>7 DEF PoolInv

\* The inductive invariant holds in every state the pool reaches.
THEOREM PoolInvariant == Spec => []PoolInv
<1>1. PoolInv /\ [Next]_vars => PoolInv'
    BY TypeStep, HandshakeStep, OnePlaceStep, KillStep DEF PoolInv, KillInv
<1>2. QED
    BY <1>1, InitPoolInv, PTL DEF Spec

\* The watchdog of a live worker has not ended: it never receives the End of one
\* call where it expects the Begin of the next.
THEOREM WatchdogsStand == Spec => []WatchdogStands
<1>1. PoolInv => WatchdogStands
    BY DEF PoolInv, Handshake, WatchdogStands, Alive
<1>2. QED
    BY <1>1, PoolInvariant, PTL

\* Nobody is killed unless somebody overstayed, and one overstay kills one call.
THEOREM OneKill == Spec => []OneKillPerOverstay
<1>1. PoolInv => OneKillPerOverstay
    BY DEF PoolInv
<1>2. QED
    BY <1>1, PoolInvariant, PTL

\* The state of every worker, watchdog and call keeps its type, for every pool.
THEOREM TypesCorrect == Spec => []TypeOK
<1>1. PoolInv => TypeOK
    BY DEF PoolInv
<1>2. QED
    BY <1>1, PoolInvariant, PTL
====
