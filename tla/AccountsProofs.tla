---- MODULE AccountsProofs ----
(***************************************************************************)
(* Types, confirmed sessions, single admission, retired resets, links that *)
(* end with their owner and accounts that keep a way in, for every set of  *)
(* people, profiles, requests and operations.                              *)
(*                                                                         *)
(* The inductive invariant says where a request of each kind may stand,    *)
(* that whatever refers to an account refers to one that was made, that a  *)
(* request makes its account at one step only, and that a link or a        *)
(* sign-in is spent before anything is done with it. On it rest, each with *)
(* an invariant of its own: that requests which run at once are recorded   *)
(* as having done so, that what ended before a request began stays ended,  *)
(* what a sign-in knows and has connected at each of its steps, and that   *)
(* what an unlink found still holds when it deletes.                       *)
(***************************************************************************)
EXTENDS Accounts, TLAPS

Made(a) == user[a].state # "none"

\* Where a request of each kind may stand, and what its call carries.
CallFits(r) ==
    LET c == call[r] IN
    \/ c.op = "none" /\ pc[r] = "idle"
    \/ c.op = "register" /\ c.address \in Addresses /\ pc[r] \in {"create", "mint", "mail", "done"}
    \/ c.op \in {"forgot", "resend"} /\ c.address \in Addresses /\ pc[r] \in {"find", "mint", "mail", "done"}
    \/ c.op = "login" /\ c.who \in Ids /\ pc[r] \in {"enter", "done"}
    \/ c.op = "verify" /\ c.with \in Requests /\ pc[r] \in {"spend", "mark", "done"}
    \/ c.op = "reset" /\ c.with \in Requests /\ pc[r] \in {"spend", "set", "sweep", "done"}
    \/ c.op = "begin" /\ (pc[r] = "done" \/ (pc[r] = "insert" /\ c.profile \in Profiles))
    \/ c.op = "unlink" /\ c.who \in Ids /\ c.profile \in Profiles /\ pc[r] \in {"check", "delete", "done"}
    \/ /\ c.op = "callback" /\ c.with \in Requests /\ c.profile \in Profiles
       /\ pc[r] \in {"claim", "fetch", "resolve", "match", "taken", "create", "bind", "insert", "winner",
                     "dedupe", "read", "done"}

NeedsAccount(r) ==
    \/ pc[r] \in {"mint", "mark", "set", "sweep", "bind", "winner", "dedupe", "read"}
    \/ pc[r] = "insert" /\ call[r].op = "callback"

\* A request that acts on an account knows it, and the account was made.
Knows(r) ==
    /\ saw[r].account # None => Made(saw[r].account)
    /\ saw[r].link # None => Made(saw[r].link)
    /\ call[r].who # None => Made(call[r].who)
    /\ flow[r].link # None => Made(flow[r].link)
    /\ session[r] # None => Made(session[r]) /\ pc[r] = "done"
    /\ NeedsAccount(r) => saw[r].account # None

\* A link that can still be used names its account.
Named(r) == token[r].of = None => token[r].state = "used"

\* A request that has yet to make an account has made none.
Fresh(r) ==
    /\ Made(r) => saw[r].made
    /\ pc[r] \in {"idle", "find", "spend", "claim", "fetch", "resolve", "match", "taken", "create"} =>
          ~saw[r].made
    /\ pc[r] = "dedupe" => saw[r].made

\* A reset confirms the address before it answers with a session.
Confirmed(r) ==
    RequireVerified =>
        /\ session[r] # None /\ Live(session[r]) => user[session[r]].verified
        /\ pc[r] = "sweep" /\ Live(saw[r].account) => user[saw[r].account].verified

\* The request has spent what it came with.
Spent(r) ==
    /\ call[r].op \in {"verify", "reset", "callback"}
    /\ session[r] # None \/ pc[r] \notin {"spend", "claim", "done"}

\* A link is out, or a sign-in open, once the request that made it has ended;
\* requests of three kinds come with one.
Ended(r) ==
    /\ token[r].state = "mailed" => pc[r] = "done"
    /\ flow[r].state = "open" => pc[r] = "done"
    /\ call[r].with # None =>
          pc[call[r].with] = "done" /\ call[r].op \in {"verify", "reset", "callback"}

SpentIsUsed(r) ==
    Spent(r) => IF call[r].op = "callback" THEN flow[call[r].with].state # "open"
                                           ELSE token[call[r].with].state # "mailed"

SpentOnce(r, s) ==
    Spent(r) /\ Spent(s) /\ call[r].op = call[s].op /\ call[r].with = call[s].with => r = s

AccountsInv ==
    /\ TypeOK
    /\ \A r \in Requests :
          /\ CallFits(r) /\ Knows(r) /\ Named(r) /\ Fresh(r)
          /\ Confirmed(r) /\ Ended(r) /\ SpentIsUsed(r)
    /\ \A r, s \in Requests : SpentOnce(r, s)

-----------------------------------------------------------------------------
(* Types.                                                                  *)

LEMMA NoneIsNobody == None \notin Ids /\ None \notin Addresses /\ None \notin Profiles
BY ConstantsAssumption DEF None, Ids, Identities

LEMMA WhatIsClaimed ==
    \A k \in Profiles : \A c \in Claims[k] : c \in [email: Addresses \cup {"none"}, verified: BOOLEAN]
BY ConstantsAssumption

LEMMA InitType == Init => TypeOK
<1> SUFFICES ASSUME Init PROVE TypeOK
  OBVIOUS
<1> USE ConstantsAssumption, NoneIsNobody
<1>1. user \in [Ids -> User]
  BY DEF Init, Ids, Identities, User, NoUser
<1>2. connection \in [Profiles -> Ids \cup {None}]
  BY DEF Init, Ids
<1>3. token \in [Requests -> Token]
  BY DEF Init, Token, NoToken
<1>4. flow \in [Requests -> Flow]
  <2>1. \A f \in DOMAIN Begun : Begun[f].provider \in Providers /\ Begun[f].link \in Ids \cup {None}
    BY DEF Providers, Ids, None
  <2> QED BY <2>1 DEF Init, Flow, NoFlow
<1>5. pc \in [Requests -> Steps] /\ session \in [Requests -> Ids \cup {None}]
  BY DEF Init, Steps
<1>6. call \in [Requests -> Call]
  BY DEF Init, Call, NoCall, Operations
<1>7. saw \in [Requests -> Saw]
  BY DEF Init, Saw, Nothing
<1>8. failed \subseteq Requests /\ together \subseteq SUBSET Requests /\ before \in [Requests -> SUBSET Requests]
  BY DEF Init
<1>9. \A k \in Profiles : connection[k] # None => Live(connection[k])
  BY DEF Init, Live, Ids
<1>10. \A t \in Requests : token[t].of # None => Live(token[t].of)
  BY DEF Init, NoToken
<1> QED BY <1>1, <1>2, <1>3, <1>4, <1>5, <1>6, <1>7, <1>8, <1>9, <1>10 DEF TypeOK

\* A new call is a call, whatever it fills in.
LEMMA BeginType ==
    ASSUME TypeOK, NEW r \in Requests, NEW c \in Call, NEW step \in Steps, Begin(r, c, step)
    PROVE  TypeOK'
BY DEF TypeOK, Begin, Goto, rows, Live, Running

LEMMA ArriveType ==
    ASSUME TypeOK, NEW r \in Requests, Arrive(r)
    PROVE  TypeOK'
<1> USE DEF Call, NoCall, Operations, Steps
<1>1. ASSUME NEW e \in Addresses,
             \/ Begin(r, [NoCall EXCEPT !.op = "register", !.address = e], "create")
             \/ Begin(r, [NoCall EXCEPT !.op = "forgot", !.address = e], "find")
             \/ Begin(r, [NoCall EXCEPT !.op = "resend", !.address = e], "find")
      PROVE  TypeOK'
  BY <1>1, BeginType
<1>2. ASSUME NEW a \in Ids,
             \/ Begin(r, [NoCall EXCEPT !.op = "login", !.who = a], "enter")
             \/ \E k \in Profiles : Begin(r, [NoCall EXCEPT !.op = "unlink", !.who = a, !.profile = k], "check")
      PROVE  TypeOK'
  BY <1>2, BeginType
<1>3. ASSUME NEW t \in Requests,
             \/ Begin(r, [NoCall EXCEPT !.op = "verify", !.with = t], "spend")
             \/ Begin(r, [NoCall EXCEPT !.op = "reset", !.with = t], "spend")
      PROVE  TypeOK'
  BY <1>3, BeginType
<1>4. ASSUME NEW k \in Profiles, NEW a \in Ids \cup {None},
             Begin(r, [NoCall EXCEPT !.op = "begin", !.who = a, !.profile = k], "insert")
      PROVE  TypeOK'
  BY <1>4, BeginType
<1>5. ASSUME NEW k \in Profiles, NEW f \in Requests,
             Begin(r, [NoCall EXCEPT !.op = "callback", !.with = f, !.profile = k], "claim")
      PROVE  TypeOK'
  BY <1>5, BeginType
<1> QED BY <1>1, <1>2, <1>3, <1>4, <1>5 DEF Arrive

\* What a request knows.
LEMMA SawExcept ==
    ASSUME NEW x \in Saw, NEW a \in Ids \cup {None}, NEW e \in Addresses \cup {None}, NEW v \in BOOLEAN
    PROVE  /\ [x EXCEPT !.account = a] \in Saw
           /\ [x EXCEPT !.account = a, !.made = TRUE] \in Saw
           /\ [x EXCEPT !.email = e, !.vouched = v] \in Saw
           /\ [Nothing EXCEPT !.account = a] \in Saw
           /\ [Nothing EXCEPT !.account = a, !.made = TRUE] \in Saw
           /\ [Nothing EXCEPT !.link = a] \in Saw
BY DEF Saw, Nothing

LEMMA SawLinked == \A l \in Ids \cup {None} : [Nothing EXCEPT !.link = l] \in Saw
BY DEF Saw, Nothing

LEMMA SawFields ==
    ASSUME TypeOK, NEW r \in Requests
    PROVE  /\ saw[r] \in Saw
           /\ saw[r].account \in Ids \cup {None} /\ saw[r].link \in Ids \cup {None}
           /\ saw[r].email \in Addresses \cup {None} /\ saw[r].made \in BOOLEAN /\ saw[r].vouched \in BOOLEAN
BY DEF TypeOK, Saw

LEMMA SawType ==
    ASSUME TypeOK, NEW r \in Requests, CallFits(r), Proceed(r)
    PROVE  saw' \in [Requests -> Saw]
<1> USE SawFields, SawExcept
<1>1. saw \in [Requests -> Saw] /\ r \in Ids
  BY DEF TypeOK, Ids
<1>2. ASSUME NEW x \in Saw, Know(r, x)
      PROVE  saw' \in [Requests -> Saw]
  BY <1>1, <1>2 DEF Know
<1>3. CASE Register(r) \/ CreateAccount(r)
  BY <1>1, <1>2, <1>3 DEF Register, CreateAccount
<1>4. CASE Find(r) \/ Match(r)
  BY <1>1, <1>2, <1>4 DEF Find, Match, AccountsAt
<1>5. CASE Spend(r)
  <2>1. token[call[r].with].of \in Ids \cup {None} \/ call[r].with \notin Requests
    BY DEF TypeOK, Token
  <2>2. call[r].with \in Requests
    BY <1>5 DEF Spend, CallFits
  <2>3. saw' = saw \/ Know(r, [Nothing EXCEPT !.account = token[call[r].with].of])
    BY <1>5 DEF Spend
  <2>4. [Nothing EXCEPT !.account = token[call[r].with].of] \in Saw
    BY <2>1, <2>2
  <2> QED BY <1>1, <1>2, <2>3, <2>4
<1>6. CASE ClaimState(r)
  <2>1. call[r].with \in Requests
    BY <1>6 DEF ClaimState, CallFits
  <2>2. flow[call[r].with].link \in Ids \cup {None}
    BY <2>1 DEF TypeOK, Flow
  <2> DEFINE x == [Nothing EXCEPT !.link = flow[call[r].with].link]
  <2>3. saw' = saw \/ Know(r, x)
    BY <1>6 DEF ClaimState
  <2>4. x \in Saw
    BY ONLY <2>2, SawLinked
  <2> HIDE DEF x
  <2> QED BY <1>1, <1>2, <2>3, <2>4
<1>7. CASE Fetch(r)
  <2>1. call[r].profile \in Profiles
    BY <1>7 DEF Fetch, CallFits
  <2>2. PICK c \in Claims[call[r].profile] : Know(r, [saw[r] EXCEPT !.email = c.email, !.vouched = c.verified])
    BY <1>7 DEF Fetch
  <2>3. c \in [email: Addresses \cup {"none"}, verified: BOOLEAN]
    BY <2>1, WhatIsClaimed
  <2>4. c.email \in Addresses \cup {None} /\ c.verified \in BOOLEAN
    BY <2>3 DEF None
  <2> QED BY <1>2, <2>2, <2>4
<1>8. CASE ResolveAccount(r) \/ Bind(r) \/ Winner(r)
  <2>1. call[r].profile \in Profiles
    BY <1>8 DEF ResolveAccount, Bind, Winner, CallFits
  <2>2. connection[call[r].profile] \in Ids \cup {None}
    BY <2>1 DEF TypeOK
  <2> QED BY <1>1, <1>2, <1>8, <2>2 DEF ResolveAccount, Bind, Winner
<1>9. CASE \/ Login(r) \/ Mint(r) \/ Mail(r) \/ Mark(r) \/ SetPassword(r) \/ Sweep(r) \/ BeginFlow(r)
           \/ Taken(r) \/ InsertConnection(r) \/ Dedupe(r) \/ ReadUser(r) \/ CheckUnlink(r) \/ Unlink(r)
  BY <1>1, <1>9 DEF Login, Mint, Mail, Mark, SetPassword, Sweep, BeginFlow, Taken, InsertConnection,
                    Dedupe, ReadUser, CheckUnlink, Unlink
<1> QED BY <1>3, <1>4, <1>5, <1>6, <1>7, <1>8, <1>9 DEF Proceed

\* A request moves to a step of its own.
LEMMA StepType ==
    ASSUME TypeOK, NEW r \in Requests, NEW step \in Steps, Goto(r, step)
    PROVE  pc' \in [Requests -> Steps]
BY DEF TypeOK, Goto

LEMMA PlaceType ==
    ASSUME TypeOK, NEW r \in Requests, Proceed(r)
    PROVE  pc' \in [Requests -> Steps] /\ call' = call
<1>1. CASE Register(r) \/ Login(r) \/ Find(r) \/ Mint(r) \/ Mail(r) \/ Spend(r) \/ Mark(r) \/ SetPassword(r)
  <2>1. \E step \in {"done", "mint", "mail", "set", "mark", "sweep"} : Goto(r, step)
    BY <1>1 DEF Register, Login, Find, Mint, Mail, Spend, Mark, SetPassword, Answer
  <2>2. call' = call
    BY <1>1 DEF Register, Login, Find, Mint, Mail, Spend, Mark, SetPassword
  <2> QED BY <2>1, <2>2, StepType DEF Steps
<1>2. CASE Sweep(r) \/ BeginFlow(r) \/ ClaimState(r) \/ Fetch(r) \/ ResolveAccount(r) \/ Match(r) \/ Taken(r)
  <2>1. \E step \in {"done", "fetch", "resolve", "bind", "match", "taken", "create"} : Goto(r, step)
    BY <1>2 DEF Sweep, BeginFlow, ClaimState, Fetch, ResolveAccount, Match, Taken, Answer
  <2>2. call' = call
    BY <1>2 DEF Sweep, BeginFlow, ClaimState, Fetch, ResolveAccount, Match, Taken
  <2> QED BY <2>1, <2>2, StepType DEF Steps
<1>3. CASE CreateAccount(r) \/ Bind(r) \/ InsertConnection(r) \/ Winner(r) \/ Dedupe(r) \/ ReadUser(r)
           \/ CheckUnlink(r) \/ Unlink(r)
  <2>1. \E step \in {"done", "bind", "read", "insert", "winner", "dedupe", "delete"} : Goto(r, step)
    BY <1>3 DEF CreateAccount, Bind, InsertConnection, Winner, Dedupe, ReadUser, CheckUnlink, Unlink, Answer
  <2>2. call' = call
    BY <1>3 DEF CreateAccount, Bind, InsertConnection, Winner, Dedupe, ReadUser, CheckUnlink, Unlink
  <2> QED BY <2>1, <2>2, StepType DEF Steps
<1> QED BY <1>1, <1>2, <1>3 DEF Proceed

\* A session is issued at five steps, to the account the request knows, made or
\* was asked about.
LEMMA SessionStep ==
    ASSUME NEW r \in Requests, Proceed(r)
    PROVE  \/ UNCHANGED session
           \/ Register(r) /\ ~RequireVerified /\ Answer(r, r)
           \/ Login(r) /\ Answer(r, call[r].who) /\ MayEnter(call[r].who)
           \/ (Mark(r) \/ Sweep(r)) /\ Answer(r, saw[r].account)
           \/ ReadUser(r) /\ Answer(r, saw[r].account) /\ MayEnter(saw[r].account)
<1>1. CASE Register(r) \/ Login(r) \/ Mark(r) \/ Sweep(r) \/ ReadUser(r)
  BY <1>1 DEF Register, Login, Mark, Sweep, ReadUser
<1>2. CASE Find(r) \/ Mint(r) \/ Mail(r) \/ Spend(r) \/ SetPassword(r) \/ BeginFlow(r) \/ ClaimState(r) \/ Fetch(r)
  BY <1>2 DEF Find, Mint, Mail, Spend, SetPassword, BeginFlow, ClaimState, Fetch
<1>3. CASE \/ ResolveAccount(r) \/ Match(r) \/ Taken(r) \/ CreateAccount(r) \/ Bind(r) \/ InsertConnection(r)
           \/ Winner(r) \/ Dedupe(r) \/ CheckUnlink(r) \/ Unlink(r)
  BY <1>3 DEF ResolveAccount, Match, Taken, CreateAccount, Bind, InsertConnection, Winner, Dedupe,
              CheckUnlink, Unlink
<1> QED BY <1>1, <1>2, <1>3 DEF Proceed

LEMMA SessionType ==
    ASSUME TypeOK, NEW r \in Requests, CallFits(r), Proceed(r)
    PROVE  session' \in [Requests -> Ids \cup {None}]
<1>1. ASSUME NEW a \in Ids \cup {None}, Answer(r, a)
      PROVE  session' \in [Requests -> Ids \cup {None}]
  BY <1>1 DEF TypeOK, Answer
<1>2. r \in Ids /\ saw[r].account \in Ids \cup {None}
  BY SawFields DEF Ids
<1>3. Login(r) => call[r].who \in Ids
  BY DEF Login, CallFits, At
<1>4. session \in [Requests -> Ids \cup {None}]
  BY DEF TypeOK
<1> QED BY <1>1, <1>2, <1>3, <1>4, SessionStep

LEMMA HistoryType ==
    ASSUME TypeOK, NEW r \in Requests, Proceed(r)
    PROVE  failed' \subseteq Requests /\ UNCHANGED <<together, before>>
<1>1. CASE Register(r) \/ Login(r) \/ Find(r) \/ Mint(r) \/ Mail(r) \/ Spend(r) \/ Mark(r) \/ SetPassword(r)
  BY <1>1 DEF TypeOK, history, Register, Login, Find, Mint, Mail, Spend, Mark, SetPassword
<1>2. CASE Sweep(r) \/ Dedupe(r)
  BY <1>2 DEF TypeOK, history, Sweep, Dedupe, Overlooked
<1>3. CASE BeginFlow(r) \/ ClaimState(r) \/ Fetch(r) \/ ResolveAccount(r) \/ Match(r) \/ Taken(r)
  BY <1>3 DEF TypeOK, history, BeginFlow, ClaimState, Fetch, ResolveAccount, Match, Taken
<1>4. CASE CreateAccount(r) \/ Bind(r) \/ InsertConnection(r) \/ Winner(r) \/ ReadUser(r)
           \/ CheckUnlink(r) \/ Unlink(r)
  BY <1>4 DEF TypeOK, history, CreateAccount, Bind, InsertConnection, Winner, ReadUser, CheckUnlink, Unlink
<1> QED BY <1>1, <1>2, <1>3, <1>4 DEF Proceed

\* What becomes of the accounts: one that was made stays made, one that is there
\* stays confirmed, and a request makes no account but its own and takes out no
\* other.
LEMMA UserStep ==
    ASSUME TypeOK, NEW r \in Requests, CallFits(r), Knows(r), Fresh(r), Proceed(r)
    PROVE  /\ user' \in [Ids -> User]
           /\ \A a \in Ids :
                /\ Made(a) => Made(a)' /\ (Live(a)' => Live(a))
                /\ Made(a) /\ Live(a)' /\ user[a].verified => user'[a].verified
                /\ Made(a)' => Made(a) \/ (a = r /\ saw'[r].made)
                /\ Live(a) => Live(a)' \/ (a = r /\ Dedupe(r) /\ Forget(r))
<1> DEFINE Goal ==
        /\ user' \in [Ids -> User]
        /\ \A a \in Ids :
             /\ Made(a) => Made(a)' /\ (Live(a)' => Live(a))
             /\ Made(a) /\ Live(a)' /\ user[a].verified => user'[a].verified
             /\ Made(a)' => Made(a) \/ (a = r /\ saw'[r].made)
             /\ Live(a) => Live(a)' \/ (a = r /\ Dedupe(r) /\ Forget(r))
<1> SUFFICES Goal
  OBVIOUS
<1> HIDE DEF Goal
<1>0. user \in [Ids -> User] /\ r \in Ids
  BY DEF TypeOK, Ids
<1>1. ASSUME UNCHANGED user PROVE Goal
  BY <1>0, <1>1 DEF Goal, Made, Live
<1>2. ASSUME NEW u \in User, u.state = "live", user' = [user EXCEPT ![r] = u], ~Made(r), saw'[r].made
      PROVE  Goal
  BY <1>0, <1>2 DEF Goal, Made, Live
<1>3. CASE Register(r)
  <2>1. call[r].address \in Addresses /\ pc[r] = "create"
    BY <1>3 DEF Register, CallFits, At
  <2>2. ~Made(r)
    BY <2>1 DEF Fresh
  <2>3. NewUser(call[r].address, TRUE, FALSE) \in User /\ NewUser(call[r].address, TRUE, FALSE).state = "live"
    BY <2>1 DEF NewUser, User, Identities
  <2>4. UNCHANGED user \/ (/\ user' = [user EXCEPT ![r] = NewUser(call[r].address, TRUE, FALSE)]
                           /\ Know(r, [Nothing EXCEPT !.account = r, !.made = TRUE]))
    BY <1>3 DEF Register
  <2>5. Know(r, [Nothing EXCEPT !.account = r, !.made = TRUE]) => saw'[r].made
    BY DEF Know, Nothing, TypeOK
  <2> QED BY <1>1, <1>2, <2>2, <2>3, <2>4, <2>5
<1>4. CASE CreateAccount(r)
  <2> DEFINE u == NewUser(Identity(r), FALSE, saw[r].vouched /\ saw[r].email # None)
  <2>1. call[r].profile \in Profiles /\ pc[r] = "create"
    BY <1>4 DEF CreateAccount, CallFits, At
  <2>2. ~Made(r)
    BY <2>1 DEF Fresh
  <2>3. u \in User /\ u.state = "live"
    <3>1. Identity(r) \in Identities
      BY <2>1, SawFields DEF Identity, Identities
    <3>2. (saw[r].vouched /\ saw[r].email # None) \in BOOLEAN
      OBVIOUS
    <3> QED BY <3>1, <3>2 DEF NewUser, User
  <2>4. UNCHANGED user \/ (/\ user' = [user EXCEPT ![r] = u]
                           /\ Know(r, [saw[r] EXCEPT !.account = r, !.made = TRUE]))
    BY <1>4 DEF CreateAccount
  <2>5. Know(r, [saw[r] EXCEPT !.account = r, !.made = TRUE]) => saw'[r].made
    BY SawFields DEF Know, TypeOK, Saw
  <2> HIDE DEF u
  <2> QED BY <1>1, <1>2, <2>2, <2>3, <2>4, <2>5
<1>5. CASE Mark(r) \/ SetPassword(r)
  <2> DEFINE a == saw[r].account
  <2>1. a \in Ids /\ Made(a)
    BY <1>5, SawFields DEF Mark, SetPassword, Knows, NeedsAccount
  <2>2. \/ user' = [user EXCEPT ![a].verified = @ \/ Live(a)]
        \/ user' = [user EXCEPT ![a].verified = @ \/ Live(a), ![a].password = @ \/ Live(a)]
    BY <1>5 DEF Mark, SetPassword
  <2>3. Live(a) \in BOOLEAN
    BY DEF Live
  <2> HIDE DEF a
  <2>4. CASE user' = [user EXCEPT ![a].verified = @ \/ Live(a)]
    BY <1>0, <2>1, <2>3, <2>4 DEF Goal, User, Made, Live
  <2>5. CASE user' = [user EXCEPT ![a].verified = @ \/ Live(a), ![a].password = @ \/ Live(a)]
    BY <1>0, <2>1, <2>3, <2>5 DEF Goal, User, Made, Live
  <2> QED BY <2>2, <2>4, <2>5
<1>6. CASE Dedupe(r)
  <2>1. CASE Forget(r)
    <3>1. user' = [user EXCEPT ![r] = [NoUser EXCEPT !.state = "gone"]]
      BY <2>1 DEF Forget
    <3>2. [NoUser EXCEPT !.state = "gone"] \in User /\ [NoUser EXCEPT !.state = "gone"].state = "gone"
      BY DEF NoUser, User
    <3>3. saw'[r].made
      BY <1>6 DEF Dedupe, Fresh
    <3> QED BY <1>0, <1>6, <2>1, <3>1, <3>2, <3>3 DEF Goal, Made, Live
  <2> QED BY <1>1, <1>6, <2>1 DEF Dedupe, rows
<1>7. CASE \/ Login(r) \/ Find(r) \/ Mint(r) \/ Mail(r) \/ Spend(r) \/ Sweep(r) \/ BeginFlow(r) \/ ClaimState(r)
           \/ Fetch(r) \/ ResolveAccount(r) \/ Match(r) \/ Taken(r) \/ Bind(r) \/ InsertConnection(r)
           \/ Winner(r) \/ ReadUser(r) \/ CheckUnlink(r) \/ Unlink(r)
  <2>1. UNCHANGED user
    BY <1>7 DEF rows, Login, Find, Mint, Mail, Spend, Sweep, BeginFlow, ClaimState, Fetch, ResolveAccount,
                Match, Taken, Bind, InsertConnection, Winner, ReadUser, CheckUnlink, Unlink
  <2> QED BY <1>1, <2>1
<1> QED BY <1>3, <1>4, <1>5, <1>6, <1>7 DEF Proceed

\* What refers to an account still refers to one that is there.
LEMMA ConnectionStep ==
    ASSUME TypeOK, NEW r \in Requests, CallFits(r), Knows(r), Fresh(r), Proceed(r)
    PROVE  /\ connection' \in [Profiles -> Ids \cup {None}]
           /\ \A k \in Profiles : connection'[k] # None => user'[connection'[k]].state = "live"
<1> DEFINE Goal ==
        /\ connection' \in [Profiles -> Ids \cup {None}]
        /\ \A k \in Profiles : connection'[k] # None => user'[connection'[k]].state = "live"
<1> SUFFICES Goal
  OBVIOUS
<1>1. /\ connection \in [Profiles -> Ids \cup {None}]
      /\ \A k \in Profiles : connection[k] # None => connection[k] \in Ids /\ Live(connection[k])
  BY DEF TypeOK
<1>2. \A a \in Ids : Live(a) => Live(a)' \/ (a = r /\ Dedupe(r) /\ Forget(r))
  BY UserStep
<1> HIDE DEF Goal, Live
<1>3. CASE Dedupe(r) /\ Forget(r)
  <2>1. connection' = [k \in Profiles |-> IF connection[k] = r THEN None ELSE connection[k]]
    BY <1>3 DEF Forget
  <2>2. \A k \in Profiles : connection'[k] # None => connection[k] # r /\ connection'[k] = connection[k]
    BY <2>1
  <2> QED BY <1>1, <1>2, <2>1, <2>2 DEF Goal, Live
<1>4. CASE ~(Dedupe(r) /\ Forget(r))
  <2>1. \A a \in Ids : Live(a) => Live(a)'
    BY <1>2, <1>4
  <2>2. CASE UNCHANGED connection
    BY <1>1, <2>1, <2>2 DEF Goal, Live
  <2>3. CASE InsertConnection(r)
    <3>1. saw[r].account \in Ids \cup {None} /\ saw[r].account # None
      BY <2>3, SawFields DEF InsertConnection, Knows, NeedsAccount, At
    <3>2. UNCHANGED connection \/ (/\ Live(saw[r].account)
                                   /\ connection' = [connection EXCEPT ![call[r].profile] = saw[r].account])
      BY <2>3 DEF InsertConnection
    <3>5. CASE Live(saw[r].account) /\ connection' = [connection EXCEPT ![call[r].profile] = saw[r].account]
      <4> DEFINE a == saw[r].account
      <4>1. a \in Ids /\ Live(a) /\ connection' = [connection EXCEPT ![call[r].profile] = a]
        BY <3>1, <3>5
      <4> HIDE DEF a
      <4>2. \A k \in Profiles : connection'[k] = connection[k] \/ connection'[k] = a
        BY <1>1, <4>1
      <4>3. \A k \in Profiles : connection'[k] # None => connection'[k] \in Ids /\ Live(connection'[k])
        BY <1>1, <4>1, <4>2
      <4> QED BY <1>1, <2>1, <4>1, <4>3 DEF Goal, Live
    <3> QED BY <2>2, <3>2, <3>5
  <2>4. CASE Unlink(r)
    <3>1. connection' = [k \in Profiles |-> IF k \in Matching(r) THEN None ELSE connection[k]]
      BY <2>4 DEF Unlink
    <3> QED BY <1>1, <2>1, <3>1 DEF Goal, Live
  <2>5. CASE \/ Register(r) \/ Login(r) \/ Find(r) \/ Mint(r) \/ Mail(r) \/ Spend(r) \/ Mark(r) \/ SetPassword(r)
             \/ Sweep(r) \/ BeginFlow(r) \/ ClaimState(r) \/ Fetch(r) \/ ResolveAccount(r) \/ Match(r) \/ Taken(r)
             \/ CreateAccount(r) \/ Bind(r) \/ Winner(r) \/ Dedupe(r) \/ ReadUser(r) \/ CheckUnlink(r)
    <3>1. UNCHANGED connection
      BY <1>4, <2>5 DEF rows, Register, Login, Find, Mint, Mail, Spend, Mark, SetPassword, Sweep, BeginFlow,
                  ClaimState, Fetch, ResolveAccount, Match, Taken, CreateAccount, Bind, Winner, Dedupe,
                  ReadUser, CheckUnlink
    <3> QED BY <2>2, <3>1
  <2> QED BY <2>3, <2>4, <2>5 DEF Proceed
<1> QED BY <1>3, <1>4

\* What becomes of a link: it is mailed by the request that minted it as its
\* last step, and never comes back once it was used.
LEMMA TokenStep ==
    ASSUME TypeOK, NEW r \in Requests, CallFits(r), Knows(r), Fresh(r), Proceed(r)
    PROVE  /\ token' \in [Requests -> Token]
           /\ \A t \in Requests :
                /\ token'[t].of # None => user'[token'[t].of].state = "live"
                /\ token'[t].state = "mailed" =>
                      \/ token[t].state = "mailed" /\ ~(Spend(r) /\ call[r].with = t)
                      \/ t = r /\ pc[r] = "mail" /\ pc'[r] = "done"
<1> DEFINE Goal ==
        /\ token' \in [Requests -> Token]
        /\ \A t \in Requests :
             /\ token'[t].of # None => user'[token'[t].of].state = "live"
             /\ token'[t].state = "mailed" =>
                   \/ token[t].state = "mailed" /\ ~(Spend(r) /\ call[r].with = t)
                   \/ t = r /\ pc[r] = "mail" /\ pc'[r] = "done"
<1> SUFFICES Goal
  OBVIOUS
<1>1. /\ token \in [Requests -> Token]
      /\ \A t \in Requests : token[t].of # None => token[t].of \in Ids /\ Live(token[t].of)
  BY DEF TypeOK, Token
<1>2. \A a \in Ids : Live(a) => Live(a)' \/ (a = r /\ Dedupe(r) /\ Forget(r))
  BY UserStep
<1> HIDE DEF Goal, Live
<1>3. CASE Dedupe(r) /\ Forget(r)
  <2>1. token' = [t \in Requests |-> IF token[t].of = r THEN NoToken ELSE token[t]]
    BY <1>3 DEF Forget
  <2>2. NoToken \in Token /\ NoToken.of = None /\ NoToken.state # "mailed"
    BY DEF NoToken, Token
  <2>3. pc[r] = "dedupe"
    BY <1>3 DEF Dedupe
  <2>4. \A t \in Requests : token'[t] = NoToken \/ (token'[t] = token[t] /\ token[t].of # r)
    BY <2>1
  <2> QED BY <1>1, <1>2, <2>1, <2>2, <2>3, <2>4 DEF Goal, Live, Spend
<1>4. CASE ~(Dedupe(r) /\ Forget(r))
  <2>1. \A a \in Ids : Live(a) => Live(a)'
    BY <1>2, <1>4
  <2>2. CASE UNCHANGED token /\ ~Spend(r)
    BY <1>1, <2>1, <2>2 DEF Goal, Live
  <2>3. CASE Mint(r)
    <3>1. saw[r].account \in Ids
      BY <2>3, SawFields DEF Mint, Knows, NeedsAccount
    <3>2. UNCHANGED token
          \/ (/\ Live(saw[r].account)
              /\ token' = [token EXCEPT ![r] = [kind |-> Kind(r), of |-> saw[r].account, state |-> "minted"]])
      BY <2>3 DEF Mint
    <3>3. [kind |-> Kind(r), of |-> saw[r].account, state |-> "minted"] \in Token
      BY <3>1 DEF Token, Kind
    <3>4. pc[r] = "mint"
      BY <2>3 DEF Mint
    <3> DEFINE a == saw[r].account
               k == Kind(r)
    <3> HIDE DEF a, k
    <3>6. CASE token' = [token EXCEPT ![r] = [kind |-> k, of |-> a, state |-> "minted"]] /\ Live(a) /\ a \in Ids
      BY <1>1, <2>1, <3>3, <3>4, <3>6 DEF Goal, Live, Spend, a, k
    <3> QED BY <2>2, <3>1, <3>2, <3>4, <3>6 DEF Spend, a, k
  <2>4. CASE Mail(r)
    <3>1. token' = [token EXCEPT ![r].state = IF @ = "minted" THEN "mailed" ELSE @]
      BY <2>4 DEF Mail
    <3>2. pc[r] = "mail" /\ pc'[r] = "done"
      BY <2>4 DEF Mail, Goto, TypeOK
    <3> QED BY <1>1, <2>1, <3>1, <3>2 DEF Goal, Live, Spend, Token
  <2>5. CASE Spend(r)
    <3>1. call[r].with \in Requests
      BY <2>5 DEF Spend, CallFits
    <3> DEFINE t == call[r].with
    <3>2. \/ token[t].state = "mailed" /\ token' = [token EXCEPT ![t].state = "used"]
          \/ token[t].state # "mailed" /\ UNCHANGED token
      BY <2>5 DEF Spend, Unspent
    <3> QED BY <1>1, <2>1, <3>1, <3>2 DEF Goal, Live, Token
  <2>6. CASE Sweep(r)
    <3>1. UNCHANGED token \/ token' = [t \in Requests |-> SweepOne(t, saw[r].account)]
      BY <2>6 DEF Sweep
    <3>2. pc[r] = "sweep"
      BY <2>6 DEF Sweep
    <3>3. CASE token' = [t \in Requests |-> SweepOne(t, saw[r].account)]
      <4>1. \A t \in Requests : token'[t] = token[t] \/ token'[t] = [token[t] EXCEPT !.state = "used"]
        BY <3>3 DEF SweepOne
      <4>2. \A t \in Requests : /\ token'[t] \in Token /\ token'[t].of = token[t].of
                                /\ token'[t].state = "mailed" => token[t].state = "mailed"
        <5>1. \A x \in Token : LET y == [x EXCEPT !.state = "used"]
                              IN y \in Token /\ y.of = x.of /\ y.state = "used"
          BY DEF Token
        <5> QED BY <1>1, <4>1, <5>1
      <4>3. token' \in [Requests -> Token]
        BY <3>3, <4>2
      <4> QED BY <1>1, <2>1, <3>2, <4>2, <4>3 DEF Goal, Live, Spend
    <3> QED BY <2>2, <3>1, <3>2, <3>3 DEF Spend
  <2>7. CASE \/ Register(r) \/ Login(r) \/ Find(r) \/ Mark(r) \/ SetPassword(r) \/ BeginFlow(r)
             \/ ClaimState(r) \/ Fetch(r) \/ ResolveAccount(r) \/ Match(r) \/ Taken(r) \/ CreateAccount(r)
             \/ Bind(r) \/ InsertConnection(r) \/ Winner(r) \/ Dedupe(r) \/ ReadUser(r) \/ CheckUnlink(r)
             \/ Unlink(r)
    <3>1. UNCHANGED token /\ pc[r] # "spend"
      BY <1>4, <2>7 DEF rows, At, Register, Login, Find, Mark, SetPassword, BeginFlow, ClaimState, Fetch,
                  ResolveAccount, Match, Taken, CreateAccount, Bind, InsertConnection, Winner, Dedupe,
                  ReadUser, CheckUnlink, Unlink
    <3> QED BY <2>2, <3>1 DEF Spend
  <2> QED BY <2>3, <2>4, <2>5, <2>6, <2>7 DEF Proceed
<1> QED BY <1>3, <1>4

\* What becomes of a sign-in: it is opened by the last step of the request that
\* begins it and never comes back once it was claimed.
LEMMA FlowStep ==
    ASSUME TypeOK, NEW r \in Requests, CallFits(r), Knows(r), Proceed(r)
    PROVE  /\ flow' \in [Requests -> Flow]
           /\ \A f \in Requests :
                /\ flow'[f].link \in {None, flow[f].link} \/ (f = r /\ flow'[f].link = call[r].who)
                /\ flow'[f].state = "open" =>
                      \/ flow[f].state = "open" /\ ~(ClaimState(r) /\ call[r].with = f)
                      \/ f = r /\ pc[r] = "insert" /\ pc'[r] = "done"
<1> DEFINE Goal ==
        /\ flow' \in [Requests -> Flow]
        /\ \A f \in Requests :
             /\ flow'[f].link \in {None, flow[f].link} \/ (f = r /\ flow'[f].link = call[r].who)
             /\ flow'[f].state = "open" =>
                   \/ flow[f].state = "open" /\ ~(ClaimState(r) /\ call[r].with = f)
                   \/ f = r /\ pc[r] = "insert" /\ pc'[r] = "done"
<1> SUFFICES Goal
  OBVIOUS
<1>1. flow \in [Requests -> Flow]
  BY DEF TypeOK
<1> HIDE DEF Goal
<1>2. CASE UNCHANGED flow /\ ~ClaimState(r)
  BY <1>1, <1>2 DEF Goal
<1>3. CASE BeginFlow(r)
  <2>1. call[r].who \in Ids \cup {None}
    BY DEF TypeOK, Call
  <2>2. call[r].profile \in Profiles
    BY <1>3 DEF BeginFlow, At, CallFits
  <2> DEFINE new == [provider |-> ProviderOf[call[r].profile], link |-> call[r].who, state |-> "open"]
  <2>3. new \in Flow
    BY <2>1, <2>2 DEF Flow, Providers
  <2>4. flow' = [flow EXCEPT ![r] = new] /\ pc[r] = "insert" /\ pc'[r] = "done"
    BY <1>3 DEF BeginFlow, At, Goto, TypeOK
  <2>5. new.link = call[r].who
    OBVIOUS
  <2> HIDE DEF new
  <2> QED BY <1>1, <2>3, <2>4, <2>5 DEF Goal, ClaimState
<1>4. CASE ClaimState(r)
  <2>1. call[r].with \in Requests
    BY <1>4 DEF ClaimState, CallFits
  <2> DEFINE f == call[r].with
  <2>2. \/ flow[f].state = "open" /\ flow' = [flow EXCEPT ![f].state = "used"]
        \/ flow[f].state # "open" /\ UNCHANGED flow
    BY <1>4 DEF ClaimState
  <2> QED BY <1>1, <2>1, <2>2 DEF Goal, Flow
<1>5. CASE Dedupe(r)
  <2>1. pc[r] # "claim"
    BY <1>5 DEF Dedupe
  <2>2. CASE Forget(r)
    <3>1. flow' = [f \in Requests |-> IF flow[f].link = r THEN NoFlow ELSE flow[f]]
      BY <2>2 DEF Forget
    <3>2. NoFlow \in Flow /\ NoFlow.link = None /\ NoFlow.state # "open"
      BY DEF NoFlow, Flow
    <3> QED BY <1>1, <2>1, <3>1, <3>2 DEF Goal, ClaimState
  <2> QED BY <1>2, <1>5, <2>1, <2>2 DEF Dedupe, rows, ClaimState
<1>6. CASE \/ Register(r) \/ Login(r) \/ Find(r) \/ Mint(r) \/ Mail(r) \/ Spend(r) \/ Mark(r) \/ SetPassword(r)
           \/ Sweep(r) \/ Fetch(r) \/ ResolveAccount(r) \/ Match(r) \/ Taken(r)
           \/ CreateAccount(r) \/ Bind(r) \/ InsertConnection(r) \/ Winner(r) \/ ReadUser(r) \/ CheckUnlink(r)
           \/ Unlink(r)
  <2>1. UNCHANGED flow /\ pc[r] # "claim"
    BY <1>6 DEF rows, At, Register, Login, Find, Mint, Mail, Spend, Mark, SetPassword, Sweep, Fetch,
                ResolveAccount, Match, Taken, CreateAccount, Bind, InsertConnection, Winner, ReadUser,
                CheckUnlink, Unlink
  <2> QED BY <1>2, <2>1 DEF ClaimState
<1> QED BY <1>3, <1>4, <1>5, <1>6 DEF Proceed

LEMMA ProceedType ==
    ASSUME TypeOK, NEW r \in Requests, CallFits(r), Knows(r), Fresh(r), Proceed(r)
    PROVE  TypeOK'
<1>1. user' \in [Ids -> User]
  BY UserStep
<1>2. pc' \in [Requests -> Steps] /\ call' \in [Requests -> Call]
  BY PlaceType DEF TypeOK
<1>3. failed' \subseteq Requests /\ together' \subseteq SUBSET Requests /\ before' \in [Requests -> SUBSET Requests]
  BY HistoryType DEF TypeOK
<1> QED BY <1>1, <1>2, <1>3, ConnectionStep, TokenStep, FlowStep, SawType, SessionType DEF TypeOK, Live

-----------------------------------------------------------------------------
(* The steps of a request.                                                 *)

\* A request moves itself alone, and only while it runs.
LEMMA Alone ==
    ASSUME TypeOK, NEW r \in Requests, CallFits(r), Proceed(r)
    PROVE  /\ pc[r] \notin {"idle", "done"}
           /\ \A s \in Requests \ {r} : pc'[s] = pc[s] /\ saw'[s] = saw[s] /\ session'[s] = session[s]
<1> USE DEF TypeOK, Goto, Know, Answer, At
<1>1. CASE Register(r) \/ Login(r) \/ Find(r) \/ Mint(r) \/ Mail(r) \/ Spend(r) \/ Mark(r) \/ SetPassword(r)
  BY <1>1 DEF Register, Login, Find, Mint, Mail, Spend, Mark, SetPassword
<1>2. CASE Sweep(r) \/ BeginFlow(r) \/ ClaimState(r) \/ Fetch(r) \/ ResolveAccount(r) \/ Match(r) \/ Taken(r)
  BY <1>2 DEF Sweep, BeginFlow, ClaimState, Fetch, ResolveAccount, Match, Taken
<1>3. CASE CreateAccount(r) \/ Bind(r) \/ InsertConnection(r) \/ Winner(r) \/ Dedupe(r) \/ ReadUser(r)
           \/ CheckUnlink(r) \/ Unlink(r)
  BY <1>3 DEF CreateAccount, Bind, InsertConnection, Winner, Dedupe, ReadUser, CheckUnlink, Unlink
<1> QED BY <1>1, <1>2, <1>3 DEF Proceed

LEMMA FitsStep ==
    ASSUME TypeOK, NEW r \in Requests, CallFits(r), Proceed(r)
    PROVE  CallFits(r)'
<1>0. call' = call
  BY PlaceType
<1> USE <1>0 DEF CallFits, Goto, Answer, At, TypeOK
<1>1. CASE Register(r) \/ Login(r) \/ Find(r) \/ Mint(r) \/ Mail(r)
  BY <1>1 DEF Register, Login, Find, Mint, Mail
<1>2. CASE Spend(r) \/ Mark(r) \/ SetPassword(r) \/ Sweep(r)
  BY <1>2 DEF Spend, Mark, SetPassword, Sweep
<1>3. CASE BeginFlow(r) \/ ClaimState(r) \/ Fetch(r) \/ ResolveAccount(r) \/ Match(r) \/ Taken(r)
  BY <1>3 DEF BeginFlow, ClaimState, Fetch, ResolveAccount, Match, Taken
<1>4. CASE CreateAccount(r) \/ Bind(r) \/ InsertConnection(r) \/ Winner(r) \/ Dedupe(r) \/ ReadUser(r)
           \/ CheckUnlink(r) \/ Unlink(r)
  BY <1>4 DEF CreateAccount, Bind, InsertConnection, Winner, Dedupe, ReadUser, CheckUnlink, Unlink
<1> QED BY <1>1, <1>2, <1>3, <1>4 DEF Proceed

LEMMA NamedStep ==
    ASSUME TypeOK, NEW r \in Requests, CallFits(r), Knows(r), Proceed(r), NEW t \in Requests, Named(t)
    PROVE  Named(t)'
<1> USE DEF Named
<1>1. token[t] \in Token
  BY DEF TypeOK
<1>2. CASE UNCHANGED token
  BY <1>2
<1>3. CASE Mint(r)
  <2>1. saw[r].account # None
    BY <1>3 DEF Mint, Knows, NeedsAccount
  <2>2. token' = token \/ token' = [token EXCEPT ![r] = [kind |-> Kind(r), of |-> saw[r].account, state |-> "minted"]]
    BY <1>3 DEF Mint
  <2> QED BY <2>1, <2>2 DEF TypeOK
<1>4. CASE Mail(r) \/ Spend(r)
  <2>1. \/ token' = token
        \/ token' = [token EXCEPT ![r].state = IF @ = "minted" THEN "mailed" ELSE @]
        \/ token' = [token EXCEPT ![call[r].with].state = "used"]
    BY <1>4 DEF Mail, Spend
  <2> QED BY <1>1, <2>1 DEF TypeOK, Token
<1>5. CASE Sweep(r)
  <2>1. token'[t] = token[t] \/ token'[t] = [token[t] EXCEPT !.state = "used"]
    BY <1>5 DEF Sweep, SweepOne
  <2> QED BY <1>1, <2>1 DEF Token
<1>6. CASE Dedupe(r)
  <2>1. token'[t] \in {token[t], NoToken}
    BY <1>6 DEF Dedupe, Forget, rows
  <2> QED BY <2>1 DEF NoToken
<1>7. CASE \/ Register(r) \/ Login(r) \/ Find(r) \/ Mark(r) \/ SetPassword(r) \/ BeginFlow(r)
           \/ ClaimState(r) \/ Fetch(r) \/ ResolveAccount(r) \/ Match(r) \/ Taken(r) \/ CreateAccount(r)
           \/ Bind(r) \/ InsertConnection(r) \/ Winner(r) \/ ReadUser(r) \/ CheckUnlink(r) \/ Unlink(r)
  <2>1. UNCHANGED token
    BY <1>7 DEF rows, Register, Login, Find, Mark, SetPassword, BeginFlow, ClaimState, Fetch,
                ResolveAccount, Match, Taken, CreateAccount, Bind, InsertConnection, Winner, ReadUser,
                CheckUnlink, Unlink
  <2> QED BY <1>2, <2>1
<1> QED BY <1>3, <1>4, <1>5, <1>6, <1>7 DEF Proceed

\* The account a request learns of is one that was made, or its own.
LEMMA Learns ==
    ASSUME TypeOK, NEW r \in Requests, CallFits(r), \A q \in Requests : Knows(q) /\ Named(q), Proceed(r)
    PROVE  /\ saw'[r].account \in {None, r} \/ Made(saw'[r].account)
           /\ saw'[r].account = r => Made(r) \/ Register(r) \/ CreateAccount(r)
           /\ saw'[r].link = None \/ Made(saw'[r].link)
           /\ NeedsAccount(r)' => saw'[r].account # None
<1> DEFINE Goal ==
        /\ saw'[r].account \in {None, r} \/ Made(saw'[r].account)
        /\ saw'[r].account = r => Made(r) \/ Register(r) \/ CreateAccount(r)
        /\ saw'[r].link = None \/ Made(saw'[r].link)
        /\ NeedsAccount(r)' => saw'[r].account # None
<1> SUFFICES Goal
  OBVIOUS
<1> HIDE DEF Goal
<1>0. /\ pc \in [Requests -> Steps] /\ saw \in [Requests -> Saw] /\ saw[r] \in Saw
      /\ Knows(r) /\ r \in Ids /\ r # None
  BY NoneIsNobody DEF TypeOK, Ids
<1>1. ASSUME saw'[r] = saw[r], NeedsAccount(r)' => NeedsAccount(r)
      PROVE  Goal
  BY <1>0, <1>1 DEF Goal, Knows, NeedsAccount
<1>2. ASSUME NEW a \in Ids, Made(a), saw'[r].account = a, saw'[r].link = None \/ saw'[r].link = saw[r].link
      PROVE  Goal
  BY <1>0, <1>2, NoneIsNobody DEF Goal, Knows
<1>3. call' = call
  BY PlaceType
<1>4. CASE Register(r) \/ CreateAccount(r)
  <2>1. \/ saw' = saw /\ pc'[r] = "done"
        \/ Know(r, [Nothing EXCEPT !.account = r, !.made = TRUE])
        \/ Know(r, [saw[r] EXCEPT !.account = r, !.made = TRUE])
    BY <1>0, <1>4 DEF Register, CreateAccount, Goto
  <2>2. CASE saw' = saw /\ pc'[r] = "done"
    BY <1>1, <2>2 DEF NeedsAccount
  <2>3. CASE \/ Know(r, [Nothing EXCEPT !.account = r, !.made = TRUE])
             \/ Know(r, [saw[r] EXCEPT !.account = r, !.made = TRUE])
    <3>1. saw'[r].account = r /\ (saw'[r].link = None \/ saw'[r].link = saw[r].link)
      BY <1>0, <2>3 DEF Know, Nothing, Saw
    <3> QED BY <1>0, <1>4, <3>1 DEF Goal, Knows
  <2> QED BY <2>1, <2>2, <2>3
<1>5. CASE Find(r) \/ Match(r)
  <2>1. CASE saw' = saw
    <3>1. ~NeedsAccount(r)' \/ \E a \in Ids : Live(a) /\ saw'[r].account = a
      BY <1>0, <1>5, <2>1 DEF Find, Match, Goto, NeedsAccount, AccountsAt, Know, Nothing, Saw
    <3> QED BY <1>1, <1>2, <2>1, <3>1 DEF Made, Live
  <2>2. CASE saw' # saw
    <3>1. PICK a \in Ids : Live(a) /\ (Know(r, [Nothing EXCEPT !.account = a]) \/ Know(r, [saw[r] EXCEPT !.account = a]))
      BY <1>5, <2>2 DEF Find, Match, AccountsAt
    <3>2. saw'[r].account = a /\ (saw'[r].link = None \/ saw'[r].link = saw[r].link)
      BY <1>0, <3>1 DEF Know, Nothing, Saw
    <3> QED BY <1>2, <3>1, <3>2 DEF Made, Live
  <2> QED BY <2>1, <2>2
<1>6. CASE Spend(r)
  <2>1. call[r].with \in Requests
    BY <1>6 DEF Spend, CallFits
  <2> DEFINE t == call[r].with
             a == token[t].of
  <2>2. CASE token[t].state = "mailed"
    <3>1. Know(r, [Nothing EXCEPT !.account = a])
      BY <1>6, <2>2 DEF Spend, Unspent
    <3>2. a \in Ids /\ Live(a)
      BY <2>1, <2>2 DEF TypeOK, Token, Named
    <3> HIDE DEF a
    <3>3. saw'[r].account = a /\ saw'[r].link = None
      BY <1>0, <3>1 DEF Know, Nothing
    <3> QED BY <1>2, <3>2, <3>3 DEF Made, Live
  <2>3. CASE token[t].state # "mailed"
    <3>1. saw' = saw /\ pc'[r] = "done"
      BY <1>0, <1>6, <2>3 DEF Spend, Unspent, Goto
    <3> QED BY <1>1, <3>1 DEF NeedsAccount
  <2> QED BY <2>2, <2>3
<1>7. CASE ClaimState(r)
  <2>1. call[r].with \in Requests
    BY <1>7 DEF ClaimState, CallFits
  <2> DEFINE l == flow[call[r].with].link
  <2>2. l = None \/ Made(l)
    BY <2>1 DEF Knows
  <2>3. \/ saw' = saw /\ pc'[r] = "done"
        \/ Know(r, [Nothing EXCEPT !.link = l]) /\ pc'[r] = "fetch"
    BY <1>0, <1>7 DEF ClaimState, Goto
  <2> HIDE DEF l
  <2>4. Know(r, [Nothing EXCEPT !.link = l]) => saw'[r].account = None /\ saw'[r].link = l
    BY <1>0 DEF Know, Nothing
  <2> QED BY <1>0, <1>1, <2>2, <2>3, <2>4 DEF Goal, NeedsAccount
<1>8. CASE Fetch(r)
  <2>1. pc'[r] = "resolve" /\ saw'[r].account = saw[r].account /\ saw'[r].link = saw[r].link
    BY <1>0, <1>8 DEF Fetch, Goto, Know, Saw
  <2> QED BY <1>0, <2>1 DEF Goal, NeedsAccount, Knows
<1>9. CASE ResolveAccount(r) \/ Bind(r) \/ Winner(r)
  <2>1. call[r].profile \in Profiles
    BY <1>9 DEF ResolveAccount, Bind, Winner, CallFits
  <2> DEFINE owner == connection[call[r].profile]
  <2>2. owner # None => owner \in Ids /\ Made(owner)
    BY <2>1 DEF TypeOK, Made, Live
  <2>3. saw[r].link # None => saw[r].link \in Ids /\ Made(saw[r].link)
    BY <1>0, SawFields DEF Knows
  <2>4. \/ saw' = saw /\ (pc'[r] \in {"done", "match"} \/ (pc'[r] = "insert" /\ pc[r] = "bind"))
        \/ \E a \in {owner, saw[r].link} \ {None} : Know(r, [saw[r] EXCEPT !.account = a])
    BY <1>0, <1>9 DEF ResolveAccount, Bind, Winner, Goto
  <2>5. CASE saw' = saw /\ (pc'[r] \in {"done", "match"} \/ (pc'[r] = "insert" /\ pc[r] = "bind"))
    BY <1>1, <2>5 DEF NeedsAccount
  <2>6. CASE \E a \in {owner, saw[r].link} \ {None} : Know(r, [saw[r] EXCEPT !.account = a])
    <3>1. PICK a \in {owner, saw[r].link} \ {None} : Know(r, [saw[r] EXCEPT !.account = a])
      BY <2>6
    <3>2. a \in Ids /\ Made(a)
      BY <2>2, <2>3, <3>1
    <3>3. saw'[r].account = a /\ saw'[r].link = saw[r].link
      BY <1>0, <3>1 DEF Know, Saw
    <3> QED BY <1>2, <3>2, <3>3
  <2> QED BY <2>4, <2>5, <2>6
<1>10. CASE \/ Login(r) \/ Mint(r) \/ Mail(r) \/ Mark(r) \/ SetPassword(r) \/ Sweep(r) \/ BeginFlow(r)
            \/ Taken(r) \/ InsertConnection(r) \/ Dedupe(r) \/ ReadUser(r) \/ CheckUnlink(r) \/ Unlink(r)
  <2>1. saw' = saw
    BY <1>10 DEF Login, Mint, Mail, Mark, SetPassword, Sweep, BeginFlow, Taken, InsertConnection, Dedupe,
                ReadUser, CheckUnlink, Unlink
  <2>2. NeedsAccount(r)' => NeedsAccount(r)
    BY <1>0, <1>3, <1>10 DEF NeedsAccount, At, Goto, Answer, Login, Mint, Mail, Mark, SetPassword, Sweep,
                BeginFlow, Taken, InsertConnection, Dedupe, ReadUser, CheckUnlink, Unlink
  <2> QED BY <1>1, <2>1, <2>2
<1> QED BY <1>4, <1>5, <1>6, <1>7, <1>8, <1>9, <1>10 DEF Proceed

-----------------------------------------------------------------------------
(* The invariant, step by step.                                            *)

RequestInv ==
    \A q \in Requests : CallFits(q) /\ Knows(q) /\ Named(q) /\ Fresh(q)

LEMMA MakesItsOwn ==
    ASSUME TypeOK, NEW r \in Requests, Knows(r), Register(r) \/ CreateAccount(r)
    PROVE  /\ saw'[r].account = r => Made(r)'
           /\ Register(r) /\ ~RequireVerified /\ session' # session => Made(r)'
<1>1. r \in Ids /\ user \in [Ids -> User]
  BY DEF TypeOK, Ids
<1>2. ASSUME NEW u, u.state = "live", user' = [user EXCEPT ![r] = u]
      PROVE  Made(r)'
  BY <1>1, <1>2 DEF Made
<1>3. ASSUME saw' = saw, user' = user
      PROVE  saw'[r].account = r => Made(r)'
  BY <1>1, <1>3, NoneIsNobody DEF Knows, Made
<1>4. CASE Register(r)
  <2>1. \/ saw' = saw /\ user' = user /\ session' = session
        \/ user' = [user EXCEPT ![r] = NewUser(call[r].address, TRUE, FALSE)]
    BY <1>4 DEF Register
  <2>2. NewUser(call[r].address, TRUE, FALSE).state = "live"
    BY DEF NewUser
  <2> QED BY <1>2, <1>3, <2>1, <2>2
<1>5. CASE CreateAccount(r)
  <2> DEFINE u == NewUser(Identity(r), FALSE, saw[r].vouched /\ saw[r].email # None)
  <2>1. (saw' = saw /\ user' = user) \/ user' = [user EXCEPT ![r] = u]
    BY <1>5 DEF CreateAccount
  <2>3. u.state = "live"
    BY DEF NewUser
  <2> HIDE DEF u
  <2>2. session' = session
    BY <1>5 DEF CreateAccount
  <2> QED BY <1>2, <1>3, <1>5, <2>1, <2>2, <2>3 DEF CreateAccount, Register, At
<1> QED BY <1>4, <1>5

LEMMA KnowsStep ==
    ASSUME TypeOK, RequestInv, NEW r \in Requests, Proceed(r), NEW q \in Requests
    PROVE  Knows(q)'
<1>0. CallFits(r) /\ Knows(r) /\ Knows(q) /\ Fresh(r) /\ call' = call
  BY PlaceType DEF RequestInv
<1>1. /\ saw[q].account \in Ids \cup {None} /\ saw[q].link \in Ids \cup {None}
      /\ flow[q].link \in Ids \cup {None} /\ session[q] \in Ids \cup {None}
      /\ call[q].who \in Ids \cup {None} /\ call[r].who \in Ids \cup {None}
  BY SawFields DEF TypeOK, Flow, Call
<1>2. \A a \in Ids : Made(a) => Made(a)'
  BY <1>0, UserStep
<1>3. call'[q].who # None => user'[call'[q].who].state # "none"
  BY <1>0, <1>1, <1>2 DEF Knows, Made
<1>4. flow'[q].link # None => user'[flow'[q].link].state # "none"
  <2>1. flow'[q].link \in {None, flow[q].link} \/ (q = r /\ flow'[q].link = call[r].who)
    BY <1>0, FlowStep
  <2> QED BY <1>0, <1>1, <1>2, <2>1 DEF Knows, Made
<1>5. session'[q] # None => user'[session'[q]].state # "none" /\ pc'[q] = "done"
  <2>1. CASE q # r
    <3>1. session'[q] = session[q] /\ pc'[q] = pc[q]
      BY <1>0, <2>1, Alone
    <3> QED BY <1>0, <1>1, <1>2, <3>1 DEF Knows, Made
  <2>2. CASE q = r
    <3>1. pc[r] # "done"
      BY <1>0, Alone
    <3>2. session[r] = None
      BY <1>0, <3>1 DEF Knows
    <3>3. ASSUME NEW a, a \in Ids => user'[a].state # "none", Answer(r, a)
          PROVE  session'[r] # None => user'[session'[r]].state # "none" /\ pc'[r] = "done"
      <4>1. session'[r] = a /\ pc'[r] = "done"
        BY <3>3 DEF Answer, Goto, TypeOK
      <4>2. session'[r] \in Ids \cup {None}
        BY <1>0, SessionType
      <4> QED BY <3>3, <4>1, <4>2
    <3>4. CASE Register(r) /\ ~RequireVerified /\ Answer(r, r)
      <4>1. session' = session \/ Made(r)'
        BY <1>0, <3>4, MakesItsOwn
      <4> QED BY <2>2, <3>2, <3>3, <3>4, <4>1 DEF Made
    <3>5. CASE Answer(r, call[r].who)
      BY <1>0, <1>1, <1>2, <2>2, <3>3, <3>5, NoneIsNobody DEF Knows, Made
    <3>6. CASE Answer(r, saw[r].account)
      BY <1>0, <1>1, <1>2, <2>2, <3>3, <3>6, NoneIsNobody DEF Knows, Made
    <3> QED BY <1>0, <2>2, <3>2, <3>4, <3>5, <3>6, SessionStep
  <2> QED BY <2>1, <2>2
<1>6. saw'[q].account # None => user'[saw'[q].account].state # "none"
  <2>1. CASE q # r
    BY <1>0, <1>1, <1>2, <2>1, Alone DEF Knows, Made
  <2>2. CASE q = r
    <3>1. saw'[r].account \in {None, r} \/ Made(saw'[r].account)
      BY Learns DEF RequestInv
    <3>2. saw'[r].account = r => Made(r) \/ Register(r) \/ CreateAccount(r)
      BY Learns DEF RequestInv
    <3>3. saw'[r].account \in Ids \cup {None} /\ r \in Ids
      BY <1>0, SawType DEF Saw, Ids
    <3>4. Register(r) \/ CreateAccount(r) => (saw'[r].account = r => Made(r)')
      BY <1>0, MakesItsOwn
    <3> QED BY <1>2, <2>2, <3>1, <3>2, <3>3, <3>4 DEF Made
  <2> QED BY <2>1, <2>2
<1>7. saw'[q].link # None => user'[saw'[q].link].state # "none"
  <2>1. CASE q # r
    BY <1>0, <1>1, <1>2, <2>1, Alone DEF Knows, Made
  <2>2. CASE q = r
    <3>1. saw'[r].link = None \/ Made(saw'[r].link)
      BY Learns DEF RequestInv
    <3>2. saw'[r].link \in Ids \cup {None}
      BY <1>0, SawType DEF Saw
    <3> QED BY <1>2, <2>2, <3>1, <3>2 DEF Made
  <2> QED BY <2>1, <2>2
<1>8. NeedsAccount(q)' => saw'[q].account # None
  <2>1. CASE q # r
    BY <1>0, <2>1, Alone DEF Knows, NeedsAccount
  <2>2. CASE q = r
    BY <2>2, Learns DEF RequestInv
  <2> QED BY <2>1, <2>2
<1> QED BY <1>3, <1>4, <1>5, <1>6, <1>7, <1>8 DEF Knows, Made

LEMMA FreshStep ==
    ASSUME TypeOK, RequestInv, NEW r \in Requests, Proceed(r), NEW q \in Requests
    PROVE  Fresh(q)'
<1>0. CallFits(r) /\ Knows(r) /\ Fresh(r) /\ Fresh(q) /\ q \in Ids
  BY DEF RequestInv, Ids
<1>1. Made(q)' => Made(q) \/ (q = r /\ saw'[r].made)
  BY <1>0, UserStep
<1>2. CASE q # r
  BY <1>0, <1>1, <1>2, Alone DEF Fresh
<1>3. CASE q = r
  <2> USE DEF Goto, Know, At, Saw, Nothing, Answer
  <2>0. pc \in [Requests -> Steps] /\ saw \in [Requests -> Saw] /\ saw[r] \in Saw
    BY DEF TypeOK
  <2> DEFINE Goal ==
        /\ saw[r].made => saw'[r].made
        /\ pc'[r] \in {"idle", "find", "spend", "claim", "fetch", "resolve", "match", "taken", "create"}
                => ~saw'[r].made
        /\ pc'[r] = "dedupe" => saw'[r].made
  <2> SUFFICES Goal
    BY <1>0, <1>1, <1>3 DEF Fresh
  <2>1. CASE Register(r) \/ Find(r) \/ Spend(r)
    BY <1>0, <2>0, <2>1 DEF Fresh, Register, Find, Spend
  <2>2. CASE Login(r) \/ Mint(r) \/ Mail(r) \/ Mark(r) \/ SetPassword(r) \/ Sweep(r) \/ BeginFlow(r)
    BY <1>0, <2>0, <2>2 DEF Fresh, Login, Mint, Mail, Mark, SetPassword, Sweep, BeginFlow
  <2>3. CASE ClaimState(r)
    <3>1. pc[r] = "claim" /\ ~saw[r].made /\ pc'[r] # "dedupe"
      BY <1>0, <2>0, <2>3 DEF Fresh, ClaimState
    <3> DEFINE l == flow[call[r].with].link
    <3>2. saw' = saw \/ Know(r, [Nothing EXCEPT !.link = l])
      BY <2>3 DEF ClaimState
    <3> HIDE DEF l
    <3>3. ~saw'[r].made
      BY <2>0, <3>1, <3>2
    <3> QED BY <3>1, <3>3
  <2>6. CASE Fetch(r)
    <3>1. PICK c \in Claims[call[r].profile] : Know(r, [saw[r] EXCEPT !.email = c.email, !.vouched = c.verified])
      BY <2>6 DEF Fetch
    <3>2. saw'[r].made = saw[r].made
      BY <2>0, <3>1
    <3>3. pc[r] = "fetch" /\ pc'[r] = "resolve"
      BY <2>0, <2>6 DEF Fetch
    <3> QED BY <1>0, <3>2, <3>3 DEF Fresh
  <2>8. CASE Taken(r)
    BY <1>0, <2>0, <2>8 DEF Fresh, Taken
  <2>7. CASE ResolveAccount(r) \/ Match(r)
    BY <1>0, <2>0, <2>7 DEF Fresh, ResolveAccount, Match
  <2>4. CASE CreateAccount(r)
    BY <1>0, <2>0, <2>4 DEF Fresh, CreateAccount
  <2>9. CASE Bind(r) \/ InsertConnection(r)
    BY <1>0, <2>0, <2>9 DEF Fresh, Bind, InsertConnection
  <2>10. CASE Winner(r)
    BY <1>0, <2>0, <2>10 DEF Fresh, Winner
  <2>5. CASE Dedupe(r) \/ ReadUser(r) \/ CheckUnlink(r) \/ Unlink(r)
    BY <1>0, <2>0, <2>5 DEF Fresh, Dedupe, ReadUser, CheckUnlink, Unlink
  <2> QED BY <2>1, <2>2, <2>3, <2>4, <2>5, <2>6, <2>7, <2>8, <2>9, <2>10 DEF Proceed
<1> QED BY <1>2, <1>3

LEMMA ToSweep ==
    ASSUME TypeOK, NEW r \in Requests, Proceed(r), pc'[r] = "sweep"
    PROVE  SetPassword(r)
<1> USE DEF TypeOK, Goto, Answer
<1>1. ASSUME Register(r) \/ Login(r) \/ Find(r) \/ Mint(r) \/ Mail(r) \/ Spend(r) \/ Mark(r) \/ Sweep(r)
      PROVE  FALSE
  BY <1>1 DEF Register, Login, Find, Mint, Mail, Spend, Mark, Sweep
<1>2. ASSUME BeginFlow(r) \/ ClaimState(r) \/ Fetch(r) \/ ResolveAccount(r) \/ Match(r) \/ Taken(r)
      PROVE  FALSE
  BY <1>2 DEF BeginFlow, ClaimState, Fetch, ResolveAccount, Match, Taken
<1>3. ASSUME \/ CreateAccount(r) \/ Bind(r) \/ InsertConnection(r) \/ Winner(r) \/ Dedupe(r) \/ ReadUser(r)
             \/ CheckUnlink(r) \/ Unlink(r)
      PROVE  FALSE
  BY <1>3 DEF CreateAccount, Bind, InsertConnection, Winner, Dedupe, ReadUser, CheckUnlink, Unlink
<1> QED BY <1>1, <1>2, <1>3 DEF Proceed

LEMMA MarkConfirms ==
    ASSUME user \in [Ids -> User], NEW a \in Ids,
           \/ user' = [user EXCEPT ![a].verified = @ \/ Live(a)]
           \/ user' = [user EXCEPT ![a].verified = @ \/ Live(a), ![a].password = @ \/ Live(a)]
    PROVE  user'[a].state = "live" => user'[a].verified
<1>1. Live(a) \in BOOLEAN /\ user[a] \in User
  BY DEF Live
<1>2. CASE Live(a)
  <2> DEFINE v == user[a].verified \/ Live(a)
             w == user[a].password \/ Live(a)
  <2>1. v
    BY <1>2
  <2>2. \/ user' = [user EXCEPT ![a].verified = v]
        \/ user' = [user EXCEPT ![a].verified = v, ![a].password = w]
    OBVIOUS
  <2> HIDE DEF v, w
  <2>3. user'[a].verified = v
    BY <1>1, <2>2 DEF User
  <2> QED BY <2>1, <2>3
<1>3. CASE ~Live(a)
  <2>1. user'[a].state = user[a].state
    BY <1>1 DEF User
  <2> QED BY <1>3, <2>1 DEF Live
<1> QED BY <1>2, <1>3

\* A session is of a confirmed account, or of none that is there.
LEMMA ConfirmedStep ==
    ASSUME TypeOK, RequestInv, \A q \in Requests : Confirmed(q), NEW r \in Requests, Proceed(r), NEW q \in Requests
    PROVE  Confirmed(q)'
<1> SUFFICES ASSUME RequireVerified PROVE Confirmed(q)'
  BY DEF Confirmed
<1>0. CallFits(r) /\ Knows(r) /\ Knows(q) /\ Fresh(r) /\ Confirmed(q) /\ Confirmed(r)
  BY DEF RequestInv
<1>1. \A a \in Ids : Made(a) /\ (Live(a) => user[a].verified) => (Live(a)' => user'[a].verified)
  BY <1>0, UserStep
<1>2. saw[q].account \in Ids \cup {None} /\ session[q] \in Ids \cup {None} /\ session' \in [Requests -> Ids \cup {None}]
  BY <1>0, SawFields, SessionType DEF TypeOK
<1>3. CASE q # r
  <2>1. session'[q] = session[q] /\ pc'[q] = pc[q] /\ saw'[q] = saw[q]
    BY <1>0, <1>3, Alone
  <2>2. pc[q] = "sweep" => saw[q].account # None
    BY <1>0 DEF Knows, NeedsAccount
  <2> QED BY <1>0, <1>1, <1>2, <2>1, <2>2 DEF Confirmed, Knows, Live
<1>4. CASE q = r
  <2> DEFINE a == saw[r].account
  <2>1. session[r] = None
    BY <1>0, Alone DEF Knows
  <2>2. Login(r) /\ MayEnter(call[r].who) => call[r].who \in Ids /\ user[call[r].who].verified /\ user' = user
    BY <1>0 DEF Login, MayEnter, CallFits, At, rows
  <2>3. Mark(r) \/ SetPassword(r) => a \in Ids /\ (user'[a].state = "live" => user'[a].verified) /\ saw' = saw
    <3>1. Mark(r) \/ SetPassword(r) => a \in Ids /\ saw' = saw
      BY <1>0, SawFields DEF Mark, SetPassword, Knows, NeedsAccount
    <3>2. Mark(r) \/ SetPassword(r) =>
            \/ user' = [user EXCEPT ![a].verified = @ \/ Live(a)]
            \/ user' = [user EXCEPT ![a].verified = @ \/ Live(a), ![a].password = @ \/ Live(a)]
      BY DEF Mark, SetPassword
    <3> HIDE DEF a
    <3>3. user \in [Ids -> User]
      BY DEF TypeOK
    <3> QED BY <3>1, <3>2, <3>3, MarkConfirms
  <2>4. Sweep(r) => a \in Ids /\ (Live(a) => user[a].verified) /\ user' = user
    BY <1>0, SawFields DEF Sweep, Confirmed, Knows, NeedsAccount
  <2>5. ReadUser(r) /\ MayEnter(a) => user[a].verified /\ user' = user
    BY DEF ReadUser, MayEnter, rows
  <2>6. session'[r] # None
            => \/ session'[r] = call[r].who /\ Login(r) /\ MayEnter(call[r].who)
               \/ session'[r] = a /\ (Mark(r) \/ Sweep(r) \/ (ReadUser(r) /\ MayEnter(a)))
    BY <2>1, SessionStep DEF Answer, TypeOK
  <2>7. session'[r] # None /\ user'[session'[r]].state = "live" => user'[session'[r]].verified
    BY <2>2, <2>3, <2>4, <2>5, <2>6 DEF Live
  <2>8. pc'[r] = "sweep" => SetPassword(r)
    BY ToSweep
  <2>9. pc'[r] = "sweep" /\ user'[saw'[r].account].state = "live" => user'[saw'[r].account].verified
    BY <2>3, <2>8
  <2> QED BY <1>4, <2>7, <2>9 DEF Confirmed, Live
<1> QED BY <1>3, <1>4

LEMMA EndedStep ==
    ASSUME TypeOK, RequestInv, \A q \in Requests : Ended(q), NEW r \in Requests, Proceed(r), NEW q \in Requests
    PROVE  Ended(q)'
<1>0. CallFits(r) /\ Knows(r) /\ Fresh(r) /\ Ended(q) /\ call' = call
  BY PlaceType DEF RequestInv
<1>1. \A s \in Requests : pc[s] = "done" => pc'[s] = "done"
  BY <1>0, Alone
<1>2. token'[q].state = "mailed" => pc'[q] = "done"
  BY <1>0, <1>1, TokenStep DEF Ended
<1>3. flow'[q].state = "open" => pc'[q] = "done"
  BY <1>0, <1>1, FlowStep DEF Ended
<1>4. call[q].with \in Requests \cup {None} /\ None \notin Requests
  BY NoneIsNobody DEF TypeOK, Call, Ids
<1>5. call'[q].with # None => pc'[call'[q].with] = "done" /\ call'[q].op \in {"verify", "reset", "callback"}
  BY <1>0, <1>1, <1>4 DEF Ended
<1> QED BY <1>2, <1>3, <1>5 DEF Ended

\* What a request newly counts as having spent was unspent until now.
LEMMA SpendStep ==
    ASSUME TypeOK, NEW r \in Requests, CallFits(r), Knows(r), Proceed(r), Spent(r)'
    PROVE  \/ Spent(r)
           \/ Spend(r) /\ call[r].op \in {"verify", "reset"} /\ token[call[r].with].state = "mailed"
           \/ ClaimState(r) /\ call[r].op = "callback" /\ flow[call[r].with].state = "open"
<1>0. call' = call /\ pc[r] # "done"
  BY PlaceType, Alone
<1>1. call[r].op \in {"verify", "reset", "callback"}
  BY <1>0 DEF Spent
<1>2. CASE pc[r] \notin {"spend", "claim", "done"}
  BY <1>1, <1>2 DEF Spent
<1>3. CASE pc[r] = "spend"
  <2>1. Spend(r)
    BY <1>3 DEF Proceed, At, Register, Login, Find, Mint, Mail, Mark, SetPassword, Sweep, BeginFlow,
                ClaimState, Fetch, ResolveAccount, Match, Taken, CreateAccount, Bind, InsertConnection,
                Winner, Dedupe, ReadUser, CheckUnlink, Unlink
  <2>2. call[r].op \in {"verify", "reset"}
    BY <1>1, <1>3 DEF CallFits
  <2>3. session[r] = None /\ session' = session
    BY <1>0, <2>1 DEF Knows, Spend
  <2>4. token[call[r].with].state # "mailed" => pc'[r] = "done"
    BY <2>1 DEF Spend, Unspent, Goto, TypeOK
  <2> QED BY <2>1, <2>2, <2>3, <2>4 DEF Spent
<1>4. CASE pc[r] = "claim"
  <2>1. ClaimState(r)
    BY <1>4 DEF Proceed, At, Register, Login, Find, Mint, Mail, Spend, Mark, SetPassword, Sweep, BeginFlow,
                Fetch, ResolveAccount, Match, Taken, CreateAccount, Bind, InsertConnection,
                Winner, Dedupe, ReadUser, CheckUnlink, Unlink
  <2>2. call[r].op = "callback"
    BY <1>1, <1>4 DEF CallFits
  <2>3. session[r] = None /\ session' = session
    BY <1>0, <2>1 DEF Knows, ClaimState
  <2>4. flow[call[r].with].state # "open" => pc'[r] = "done"
    BY <2>1 DEF ClaimState, Goto, TypeOK
  <2> QED BY <2>1, <2>2, <2>3, <2>4 DEF Spent
<1> QED BY <1>0, <1>2, <1>3, <1>4

SpentInv ==
    /\ \A q \in Requests : Ended(q) /\ SpentIsUsed(q)
    /\ \A q, s \in Requests : SpentOnce(q, s)

LEMMA SpentIsUsedStep ==
    ASSUME TypeOK, RequestInv, SpentInv, NEW r \in Requests, Proceed(r), NEW q \in Requests
    PROVE  SpentIsUsed(q)'
<1> SUFFICES ASSUME Spent(q)' PROVE SpentIsUsed(q)'
  BY DEF SpentIsUsed
<1>0. CallFits(r) /\ Knows(r) /\ Fresh(r) /\ CallFits(q) /\ Ended(q) /\ SpentIsUsed(q) /\ call' = call
  BY PlaceType DEF RequestInv, SpentInv
<1> DEFINE t == call[q].with
<1>1. t \in Requests /\ pc[t] = "done"
  BY <1>0, NoneIsNobody DEF CallFits, Ended, Spent, Ids
<1>2. token'[t].state = "mailed" => token[t].state = "mailed" /\ ~(Spend(r) /\ call[r].with = t)
  BY <1>0, <1>1, TokenStep
<1>3. flow'[t].state = "open" => flow[t].state = "open" /\ ~(ClaimState(r) /\ call[r].with = t)
  BY <1>0, <1>1, FlowStep
<1>4. CASE Spent(q)
  BY <1>0, <1>2, <1>3, <1>4 DEF SpentIsUsed
<1>5. CASE ~Spent(q)
  <2>1. q = r
    BY <1>0, <1>5, Alone DEF Spent
  <2>2. \/ Spend(r) /\ call[r].op \in {"verify", "reset"}
        \/ ClaimState(r) /\ call[r].op = "callback"
    BY <1>0, <1>5, <2>1, SpendStep
  <2> QED BY <1>0, <1>2, <1>3, <2>1, <2>2 DEF SpentIsUsed
<1> QED BY <1>4, <1>5

LEMMA SpentOnceStep ==
    ASSUME TypeOK, RequestInv, SpentInv, NEW r \in Requests, Proceed(r),
           NEW q \in Requests, NEW s \in Requests
    PROVE  SpentOnce(q, s)'
<1>0. CallFits(r) /\ Knows(r) /\ call' = call
  BY PlaceType DEF RequestInv
<1>1. \A p \in Requests \ {r} : Spent(p)' => Spent(p)
  BY <1>0, Alone DEF Spent
<1>2. ASSUME NEW p \in Requests, p # r, Spent(p), Spent(r)',
             call[p].op = call[r].op, call[p].with = call[r].with
      PROVE  FALSE
  <2>1. SpentIsUsed(p) /\ SpentOnce(p, r)
    BY DEF SpentInv
  <2> QED BY <1>0, <1>2, <2>1, SpendStep DEF SpentIsUsed, SpentOnce
<1> SUFFICES ASSUME Spent(q)', Spent(s)', call[q].op = call[s].op, call[q].with = call[s].with, q # s
             PROVE  FALSE
  BY <1>0 DEF SpentOnce
<1>3. CASE q # r /\ s # r
  BY <1>1, <1>3 DEF SpentInv, SpentOnce
<1>4. CASE q = r \/ s = r
  BY <1>1, <1>2, <1>4
<1> QED BY <1>3, <1>4

-----------------------------------------------------------------------------
(* Everything that is not a step of a request that runs.                   *)

LEMMA InitInv == Init => AccountsInv
<1> SUFFICES ASSUME Init PROVE AccountsInv
  OBVIOUS
<1>1. TypeOK
  BY InitType
<1> SUFFICES ASSUME NEW r \in Requests
             PROVE  /\ CallFits(r) /\ Knows(r) /\ Named(r) /\ Fresh(r)
                    /\ Confirmed(r) /\ Ended(r) /\ SpentIsUsed(r) /\ ~Spent(r)
  BY <1>1 DEF AccountsInv, SpentOnce
<1>2. r \notin People /\ r \in Ids
  BY ConstantsAssumption DEF Ids
<1>3. CASE r \in DOMAIN Begun
  <2>1. pc[r] = "done" /\ call[r] = [NoCall EXCEPT !.op = "begin"] /\ saw[r] = Nothing
        /\ session[r] = None /\ token[r] = NoToken /\ ~Made(r)
    BY <1>2, <1>3 DEF Init, Made, NoUser
  <2>2. flow[r].link # None => flow[r].link \in People
    BY <1>3, ConstantsAssumption DEF Init, None
  <2>3. \A a \in People : Made(a)
    BY DEF Init, Made, Ids
  <2>4. call[r].op = "begin" /\ call[r].who = None /\ call[r].with = None
    BY <2>1 DEF NoCall
  <2> QED BY <2>1, <2>2, <2>3, <2>4 DEF CallFits, Knows, NeedsAccount, Named, Fresh, Confirmed, Ended,
            SpentIsUsed, Spent, Nothing, NoToken
<1>4. CASE r \notin DOMAIN Begun
  <2>1. pc[r] = "idle" /\ call[r] = NoCall /\ saw[r] = Nothing /\ flow[r] = NoFlow
        /\ session[r] = None /\ token[r] = NoToken /\ ~Made(r)
    BY <1>2, <1>4 DEF Init, Made, NoUser
  <2>4. call[r].op = "none" /\ call[r].who = None /\ call[r].with = None
    BY <2>1 DEF NoCall, None
  <2> QED BY <2>1, <2>4 DEF CallFits, Knows, NeedsAccount, Named, Fresh, Confirmed, Ended,
            SpentIsUsed, Spent, Nothing, NoToken, NoFlow
<1> QED BY <1>3, <1>4

\* A request begins: it knows nothing yet and has spent nothing.
LEMMA BeginInv ==
    ASSUME AccountsInv, NEW r \in Requests, NEW c \in Call,
           NEW step \in {"create", "find", "enter", "spend", "insert", "claim", "check"}, Begin(r, c, step),
           CallFits(r)',
           step = "insert" => c.op = "begin",
           c.op \in {"verify", "reset", "callback"} => step \in {"spend", "claim"},
           c.who # None => Made(c.who),
           c.with # None => pc[c.with] = "done" /\ c.op \in {"verify", "reset", "callback"}
    PROVE  AccountsInv'
<1>1. TypeOK /\ TypeOK'
  BY BeginType DEF AccountsInv, Steps
<1>2. /\ user' = user /\ connection' = connection /\ token' = token /\ flow' = flow
      /\ saw' = saw /\ session' = session
      /\ pc[r] = "idle" /\ pc'[r] = step /\ call'[r] = c
      /\ \A q \in Requests \ {r} : pc'[q] = pc[q] /\ call'[q] = call[q]
  BY <1>1 DEF Begin, rows, Goto, TypeOK
<1>3. /\ session[r] = None /\ ~saw[r].made /\ token[r].state # "mailed" /\ flow[r].state # "open"
      /\ CallFits(r) /\ Knows(r) /\ Named(r) /\ Fresh(r) /\ Confirmed(r)
  BY <1>2 DEF AccountsInv, Knows, Fresh, Ended
<1>4. ~Spent(r)'
  BY <1>2, <1>3 DEF Spent
<1>5. ASSUME NEW q \in Requests
      PROVE  /\ CallFits(q)' /\ Knows(q)' /\ Named(q)' /\ Fresh(q)' /\ Confirmed(q)' /\ Ended(q)'
             /\ SpentIsUsed(q)' /\ (Spent(q)' => Spent(q))
  <2>1. CASE q = r
    <3>1. Knows(q)'
      BY <1>2, <1>3, <2>1 DEF Knows, Made, NeedsAccount
    <3>2. Named(q)' /\ Fresh(q)' /\ Confirmed(q)'
      BY <1>2, <1>3, <2>1 DEF Named, Fresh, Made, Confirmed, Live
    <3>3. Ended(q)'
      <4>1. c.with # None => c.with \in Requests \ {r}
        BY <1>2 DEF Call
      <4> QED BY <1>2, <1>3, <2>1, <4>1 DEF Ended
    <3> QED BY <1>4, <2>1, <3>1, <3>2, <3>3 DEF SpentIsUsed
  <2>2. CASE q # r
    <3>0. pc'[q] = pc[q] /\ call'[q] = call[q]
      BY <1>2, <2>2
    <3>1. CallFits(q)' /\ Knows(q)' /\ Named(q)'
      BY <1>2, <3>0 DEF AccountsInv, CallFits, Knows, Made, NeedsAccount, Named
    <3>2. Fresh(q)' /\ Confirmed(q)'
      BY <1>2, <3>0 DEF AccountsInv, Fresh, Made, Confirmed, Live
    <3>3. call[q].with \in Requests \cup {None}
      BY <1>1 DEF TypeOK, Call
    <3>4. Ended(q)'
      <4>1. Ended(q) /\ (call[q].with # None => call[q].with # r)
        BY <1>2 DEF AccountsInv, Ended
      <4> QED BY <1>2, <3>0, <3>3, <4>1 DEF Ended
    <3>5. Spent(q)' = Spent(q) /\ SpentIsUsed(q)'
      BY <1>2, <3>0 DEF AccountsInv, Spent, SpentIsUsed
    <3> QED BY <3>1, <3>2, <3>4, <3>5
  <2> QED BY <2>1, <2>2
<1>6. \A q, s \in Requests : SpentOnce(q, s)'
  BY <1>2, <1>4, <1>5 DEF AccountsInv, SpentOnce
<1> QED BY <1>1, <1>5, <1>6 DEF AccountsInv

\* What arrives fits, and refers to accounts and links that were made.
LEMMA ArriveInv ==
    ASSUME AccountsInv, NEW r \in Requests, Arrive(r)
    PROVE  AccountsInv'
<1> USE DEF Call, NoCall, Operations
<1>0. TypeOK /\ None \notin Ids /\ pc \in [Requests -> Steps] /\ call \in [Requests -> Call]
  BY NoneIsNobody DEF AccountsInv, TypeOK
<1>1. ASSUME NEW e \in Addresses,
             \/ Begin(r, [NoCall EXCEPT !.op = "register", !.address = e], "create")
             \/ Begin(r, [NoCall EXCEPT !.op = "forgot", !.address = e], "find")
             \/ Begin(r, [NoCall EXCEPT !.op = "resend", !.address = e], "find")
      PROVE  AccountsInv'
  <2>1. PICK op \in {"register", "forgot", "resend"}, step \in {"create", "find"} :
            /\ Begin(r, [NoCall EXCEPT !.op = op, !.address = e], step)
            /\ step = "create" <=> op = "register"
    BY <1>1
  <2>2. call'[r].op = op /\ call'[r].address = e /\ pc'[r] = step
    BY <1>0, <2>1 DEF Begin, Goto
  <2>3. CallFits(r)'
    BY <2>1, <2>2 DEF CallFits
  <2> QED BY <1>1, <2>3, BeginInv
<1>2. ASSUME NEW a \in Ids, Live(a), Begin(r, [NoCall EXCEPT !.op = "login", !.who = a], "enter")
      PROVE  AccountsInv'
  <2>1. CallFits(r)'
    BY <1>0, <1>2 DEF Begin, CallFits, Goto
  <2> QED BY <1>2, <2>1, BeginInv DEF Live, Made
<1>3. ASSUME NEW a \in Ids, Live(a), NEW k \in Profiles,
             Begin(r, [NoCall EXCEPT !.op = "unlink", !.who = a, !.profile = k], "check")
      PROVE  AccountsInv'
  <2>1. CallFits(r)'
    BY <1>0, <1>3 DEF Begin, CallFits, Goto
  <2> QED BY <1>3, <2>1, BeginInv DEF Live, Made
<1>4. ASSUME NEW t \in Requests, Usable(t),
             \/ Begin(r, [NoCall EXCEPT !.op = "verify", !.with = t], "spend")
             \/ Begin(r, [NoCall EXCEPT !.op = "reset", !.with = t], "spend")
      PROVE  AccountsInv'
  <2>1. CallFits(r)'
    <3>1. PICK op \in {"verify", "reset"} : Begin(r, [NoCall EXCEPT !.op = op, !.with = t], "spend")
      BY <1>4
    <3>2. call'[r].op = op /\ call'[r].with = t /\ pc'[r] = "spend"
      BY <1>0, <3>1 DEF Begin, Goto
    <3> QED BY <3>2 DEF CallFits
  <2>2. pc[t] = "done"
    BY <1>4 DEF AccountsInv, Usable, Ended
  <2> QED BY <1>4, <2>1, <2>2, BeginInv
<1>5. ASSUME NEW k \in Profiles, NEW a \in Ids \cup {None}, a # None => Live(a),
             Begin(r, [NoCall EXCEPT !.op = "begin", !.who = a, !.profile = k], "insert")
      PROVE  AccountsInv'
  <2>1. CallFits(r)'
    BY <1>0, <1>5 DEF Begin, CallFits, Goto
  <2> QED BY <1>5, <2>1, BeginInv DEF Live, Made
<1>6. ASSUME NEW k \in Profiles, NEW f \in Requests, flow[f].state = "open",
             Begin(r, [NoCall EXCEPT !.op = "callback", !.with = f, !.profile = k], "claim")
      PROVE  AccountsInv'
  <2>1. CallFits(r)'
    BY <1>0, <1>6 DEF Begin, CallFits, Goto
  <2>2. pc[f] = "done"
    BY <1>6 DEF AccountsInv, Ended
  <2> QED BY <1>6, <2>1, <2>2, BeginInv
<1> QED BY <1>1, <1>2, <1>3, <1>4, <1>5, <1>6 DEF Arrive

LEMMA ProceedInv ==
    ASSUME AccountsInv, NEW r \in Requests, Proceed(r)
    PROVE  AccountsInv'
<1>0. TypeOK /\ RequestInv /\ SpentInv /\ \A q \in Requests : Confirmed(q) /\ Ended(q)
  BY DEF AccountsInv, RequestInv, SpentInv
<1>1. CallFits(r) /\ Knows(r) /\ Fresh(r) /\ call' = call
  BY <1>0, PlaceType DEF RequestInv
<1>2. TypeOK'
  BY <1>0, <1>1, ProceedType
<1>3. \A q \in Requests : CallFits(q)'
  <2>1. ASSUME NEW q \in Requests, q # r
        PROVE  CallFits(q)'
    BY <1>0, <1>1, <2>1, Alone DEF RequestInv, CallFits
  <2> QED BY <1>0, <1>1, <2>1, FitsStep
<1>4. \A q \in Requests : Knows(q)' /\ Fresh(q)'
  BY <1>0, KnowsStep, FreshStep
<1>5. \A q \in Requests : Named(q)'
  BY <1>0, <1>1, NamedStep DEF RequestInv
<1>6. \A q \in Requests : Confirmed(q)' /\ Ended(q)'
  BY <1>0, ConfirmedStep, EndedStep
<1>7. \A q \in Requests : SpentIsUsed(q)'
  BY <1>0, SpentIsUsedStep
<1>8. \A q, s \in Requests : SpentOnce(q, s)'
  BY <1>0, SpentOnceStep
<1> QED BY <1>2, <1>3, <1>4, <1>5, <1>6, <1>7, <1>8 DEF AccountsInv

\* A request that is cut off is over, and was never answered.
LEMMA FailInv ==
    ASSUME AccountsInv, NEW r \in Requests, Fail(r)
    PROVE  AccountsInv'
<1>1. /\ user' = user /\ connection' = connection /\ token' = token /\ flow' = flow
      /\ call' = call /\ saw' = saw /\ session' = session
      /\ pc[r] \notin {"idle", "done"} /\ pc'[r] = "done"
      /\ \A q \in Requests \ {r} : pc'[q] = pc[q]
  BY DEF AccountsInv, Fail, rows, Running, Goto, TypeOK
<1>2. TypeOK'
  BY DEF AccountsInv, Fail, rows, Goto, TypeOK, Live, Steps
<1>3. ASSUME NEW q \in Requests
      PROVE  /\ CallFits(q)' /\ Knows(q)' /\ Named(q)' /\ Fresh(q)' /\ Confirmed(q)' /\ Ended(q)'
             /\ SpentIsUsed(q)' /\ (Spent(q)' => Spent(q))
  <2>0. pc'[q] = pc[q] \/ (q = r /\ pc'[q] = "done")
    BY <1>1
  <2>1. CallFits(q)'
    BY <1>1, <2>0 DEF AccountsInv, CallFits
  <2>2. Knows(q)' /\ Named(q)'
    BY <1>1, <2>0 DEF AccountsInv, Knows, Made, NeedsAccount, Named
  <2>3. Fresh(q)' /\ Confirmed(q)'
    BY <1>1, <2>0 DEF AccountsInv, Fresh, Made, Confirmed, Live
  <2>4. call[q].with \in Requests \cup {None}
    BY DEF AccountsInv, TypeOK, Call
  <2>5. Ended(q)'
    BY <1>1, <2>0, <2>4 DEF AccountsInv, Ended
  <2>6. Spent(q)' => Spent(q)
    BY <1>1, <2>0 DEF Spent
  <2>7. SpentIsUsed(q)'
    BY <1>1, <2>6 DEF AccountsInv, SpentIsUsed
  <2> QED BY <2>1, <2>2, <2>3, <2>5, <2>6, <2>7
<1>4. \A q, s \in Requests : SpentOnce(q, s)'
  BY <1>1, <1>3 DEF AccountsInv, SpentOnce
<1> QED BY <1>2, <1>3, <1>4 DEF AccountsInv

\* A link or a sign-in that lapses can no longer be spent.
LEMMA LapseInv ==
    ASSUME AccountsInv, NEW t \in Requests, Lapse(t)
    PROVE  AccountsInv'
<1>1. /\ user' = user /\ connection' = connection
      /\ pc' = pc /\ call' = call /\ saw' = saw /\ session' = session
  BY DEF Lapse
<1>3. /\ token' \in [Requests -> Token] /\ flow' \in [Requests -> Flow]
      /\ \A q \in Requests :
            /\ token'[q].of = token[q].of /\ flow'[q].link = flow[q].link
            /\ token'[q].state = token[q].state \/ (token[q].state = "mailed" /\ token'[q].state = "expired")
            /\ flow'[q].state = flow[q].state \/ (flow[q].state = "open" /\ flow'[q].state = "expired")
  <2>0. token \in [Requests -> Token] /\ flow \in [Requests -> Flow]
    BY DEF AccountsInv, TypeOK
  <2>1. CASE token[t].state = "mailed" /\ token' = [token EXCEPT ![t].state = "expired"] /\ flow' = flow
    <3>1. token' \in [Requests -> Token]
      BY <2>0, <2>1 DEF Token
    <3>2. \A q \in Requests :
            /\ token'[q].of = token[q].of
            /\ token'[q].state = token[q].state \/ (token[q].state = "mailed" /\ token'[q].state = "expired")
      BY <2>0, <2>1 DEF Token
    <3> QED BY <2>0, <2>1, <3>1, <3>2
  <2>2. CASE flow[t].state = "open" /\ flow' = [flow EXCEPT ![t].state = "expired"] /\ token' = token
    <3>1. flow' \in [Requests -> Flow]
      BY <2>0, <2>2 DEF Flow
    <3>2. \A q \in Requests :
            /\ flow'[q].link = flow[q].link
            /\ flow'[q].state = flow[q].state \/ (flow[q].state = "open" /\ flow'[q].state = "expired")
      BY <2>0, <2>2 DEF Flow
    <3> QED BY <2>0, <2>2, <3>1, <3>2
  <2> QED BY <2>1, <2>2 DEF Lapse
<1>2. TypeOK'
  BY <1>1, <1>3 DEF AccountsInv, Lapse, history, TypeOK, Live
<1>4. ASSUME NEW q \in Requests
      PROVE  /\ CallFits(q)' /\ Knows(q)' /\ Named(q)' /\ Fresh(q)' /\ Confirmed(q)' /\ Ended(q)'
             /\ SpentIsUsed(q)' /\ (Spent(q)' => Spent(q))
  <2>1. CallFits(q)' /\ Knows(q)' /\ Named(q)'
    BY <1>1, <1>3 DEF AccountsInv, CallFits, Knows, Made, NeedsAccount, Named
  <2>2. Fresh(q)' /\ Confirmed(q)' /\ Ended(q)'
    BY <1>1, <1>3 DEF AccountsInv, Fresh, Made, Confirmed, Live, Ended
  <2>3. Spent(q)' => Spent(q)
    BY <1>1 DEF Spent
  <2>4. Spent(q) => call[q].with \in Requests
    BY NoneIsNobody DEF AccountsInv, Spent, CallFits
  <2>5. SpentIsUsed(q)'
    BY <1>1, <1>3, <2>3, <2>4 DEF AccountsInv, SpentIsUsed
  <2> QED BY <2>1, <2>2, <2>3, <2>5
<1>5. \A q, s \in Requests : SpentOnce(q, s)'
  BY <1>1, <1>4 DEF AccountsInv, SpentOnce
<1> QED BY <1>2, <1>4, <1>5 DEF AccountsInv

LEMMA SameInv ==
    ASSUME AccountsInv, UNCHANGED vars
    PROVE  AccountsInv'
<1> USE DEF AccountsInv, vars, rows
<1>1. TypeOK'
  BY DEF TypeOK, Live
<1>2. \A q \in Requests : CallFits(q)' /\ Knows(q)' /\ Named(q)' /\ Fresh(q)'
  BY DEF CallFits, Knows, Made, NeedsAccount, Named, Fresh
<1>3. \A q \in Requests : Confirmed(q)' /\ Ended(q)' /\ SpentIsUsed(q)'
  BY DEF Confirmed, Live, Ended, SpentIsUsed, Spent
<1>4. \A q, s \in Requests : SpentOnce(q, s)'
  BY DEF SpentOnce, Spent
<1> QED BY <1>1, <1>2, <1>3, <1>4

LEMMA AccountsInvStep ==
    ASSUME AccountsInv, [Next]_vars
    PROVE  AccountsInv'
<1>1. ASSUME NEW r \in Requests, Arrive(r) \/ Proceed(r) \/ Fail(r) \/ Lapse(r)
      PROVE  AccountsInv'
  BY <1>1, ArriveInv, ProceedInv, FailInv, LapseInv
<1>2. CASE UNCHANGED vars
  BY <1>2, SameInv
<1> QED BY <1>1, <1>2 DEF Next

-----------------------------------------------------------------------------
(* The theorems.                                                           *)

\* The invariant: what every request may know, hold and have spent, whoever else
\* runs (the handlers of email_auth.rs, auth_routes.rs and oauth_routes.rs).
THEOREM AccountsInvariant == Spec => []AccountsInv
<1>1. Init => AccountsInv
  BY InitInv
<1>2. AccountsInv /\ [Next]_vars => AccountsInv'
  BY AccountsInvStep
<1> QED BY <1>1, <1>2, PTL DEF Spec

\* What refers to an account refers to one that is there: connections and links
\* go with the account a lost sign-in takes back out (the foreign keys).
COROLLARY TypesCorrect == Spec => []TypeOK
<1>1. AccountsInv => TypeOK
  BY DEF AccountsInv
<1> QED BY <1>1, AccountsInvariant, PTL

\* Where an address must be confirmed, every door into an account asks for it
\* (auth_routes.rs login, email_auth.rs verify_email and reset_password,
\* oauth_routes.rs callback).
THEOREM ConfirmedSessions == Spec => []NoSessionUnverified
<1>1. AccountsInv => NoSessionUnverified
  BY DEF AccountsInv, Confirmed, NoSessionUnverified
<1> QED BY <1>1, AccountsInvariant, PTL

\* A link or a redirect admits one request, as it is claimed in the UPDATE
\* (email_auth.rs spend_token, oauth_routes.rs claim_state).
THEOREM AdmittedOnce == Spec => []AdmitsOnce
<1>1. AccountsInv => AdmitsOnce
  <2> SUFFICES ASSUME AccountsInv, NEW r \in Requests, NEW s \in Requests,
                      call[r].with # None, call[r].with = call[s].with, call[r].op = call[s].op,
                      session[r] # None, session[s] # None
               PROVE  r = s
    BY DEF AdmitsOnce
  <2>1. Spent(r) /\ Spent(s)
    BY DEF AccountsInv, Ended, Spent
  <2> QED BY <2>1 DEF AccountsInv, SpentOnce
<1> QED BY <1>1, AccountsInvariant, PTL

-----------------------------------------------------------------------------
(* What runs at the same time.                                             *)

\* Requests that run at once are known to have.
RanTogether == \A r, s \in Requests : Running(r) /\ Running(s) /\ r # s => Overlapped(r, s)

\* A request that does not start, go on or get cut off stays where it is.
Stands(q) == pc'[q] = pc[q] /\ call'[q] = call[q]
Starts(q) ==
    /\ pc[q] = "idle" /\ pc'[q] \in {"create", "find", "enter", "spend", "insert", "claim", "check"}
    /\ call'[q].op = "callback" => pc'[q] = "claim"
    /\ call'[q].op = "unlink" => pc'[q] = "check"
    /\ before'[q] = {s \in Requests : pc[s] = "done"}
CutOff(q) == Running(q) /\ pc'[q] = "done" /\ q \in failed' /\ call'[q] = call[q]

\* Whatever is not a statement of a handler changes no account and no
\* connection, and leaves no link usable that was not.
Quiet ==
    /\ user' = user /\ connection' = connection /\ saw' = saw /\ session' = session
    /\ failed \subseteq failed' /\ together \subseteq together'
    /\ \A q \in Requests : ((Stands(q) \/ CutOff(q)) /\ before'[q] = before[q]) \/ Starts(q)
    /\ \A t \in Requests : token'[t] = token[t] \/ token'[t].state = "expired"

LEMMA ArriveQuiet ==
    ASSUME AccountsInv, NEW r \in Requests, Arrive(r)
    PROVE  Quiet /\ together' = together \cup {{r, s} : s \in {s \in Requests : Running(s)}} /\ Starts(r)
                 /\ \A q \in Requests \ {r} : Stands(q)
<1> DEFINE Goal ==
        Quiet /\ together' = together \cup {{r, s} : s \in {s \in Requests : Running(s)}} /\ Starts(r)
              /\ \A q \in Requests \ {r} : Stands(q)
<1>0. pc \in [Requests -> Steps] /\ call \in [Requests -> Call] /\ before \in [Requests -> SUBSET Requests]
  BY DEF AccountsInv, TypeOK
<1>1. ASSUME NEW c \in Call, NEW step \in {"create", "find", "enter", "spend", "insert", "claim", "check"},
             Begin(r, c, step), c.op = "callback" => step = "claim", c.op = "unlink" => step = "check"
      PROVE  Goal
  <2> DEFINE pairs == {{r, s} : s \in {s \in Requests : Running(s)}}
             over == {s \in Requests : pc[s] = "done"}
  <2>1. /\ together' = together \cup pairs /\ before' = [before EXCEPT ![r] = over]
        /\ call' = [call EXCEPT ![r] = c] /\ pc' = [pc EXCEPT ![r] = step] /\ pc[r] = "idle"
        /\ UNCHANGED <<user, connection, token, flow, saw, session, failed>>
    BY <1>1 DEF Begin, Goto, rows
  <2> HIDE DEF pairs
  <2>2. Starts(r)
    BY <1>0, <1>1, <2>1 DEF Starts
  <2>3. \A q \in Requests \ {r} : Stands(q) /\ before'[q] = before[q]
    BY <1>0, <2>1 DEF Stands
  <2> QED BY <2>1, <2>2, <2>3 DEF Quiet, pairs
<1> HIDE DEF Goal
<1>2. Goal
  <2> USE DEF Call, NoCall, Operations
  <2>1. ASSUME NEW e \in Addresses,
               \/ Begin(r, [NoCall EXCEPT !.op = "register", !.address = e], "create")
               \/ Begin(r, [NoCall EXCEPT !.op = "forgot", !.address = e], "find")
               \/ Begin(r, [NoCall EXCEPT !.op = "resend", !.address = e], "find")
        PROVE  Goal
    BY <1>1, <2>1
  <2>2. ASSUME NEW a \in Ids, Begin(r, [NoCall EXCEPT !.op = "login", !.who = a], "enter")
        PROVE  Goal
    BY <1>1, <2>2
  <2>3. ASSUME NEW a \in Ids, NEW k \in Profiles,
               Begin(r, [NoCall EXCEPT !.op = "unlink", !.who = a, !.profile = k], "check")
        PROVE  Goal
    BY <1>1, <2>3
  <2>4. ASSUME NEW t \in Requests,
               \/ Begin(r, [NoCall EXCEPT !.op = "verify", !.with = t], "spend")
               \/ Begin(r, [NoCall EXCEPT !.op = "reset", !.with = t], "spend")
        PROVE  Goal
    BY <1>1, <2>4
  <2>5. ASSUME NEW k \in Profiles, NEW a \in Ids \cup {None},
               Begin(r, [NoCall EXCEPT !.op = "begin", !.who = a, !.profile = k], "insert")
        PROVE  Goal
    BY <1>1, <2>5
  <2>6. ASSUME NEW k \in Profiles, NEW f \in Requests,
               Begin(r, [NoCall EXCEPT !.op = "callback", !.with = f, !.profile = k], "claim")
        PROVE  Goal
    BY <1>1, <2>6
  <2> QED BY <2>1, <2>2, <2>3, <2>4, <2>5, <2>6 DEF Arrive
<1> QED BY <1>2 DEF Goal

LEMMA RestQuiet ==
    ASSUME AccountsInv, NEW r \in Requests, Fail(r) \/ Lapse(r) \/ UNCHANGED vars
    PROVE  Quiet /\ UNCHANGED <<together, before>> /\ \A q \in Requests : Stands(q) \/ CutOff(q)
<1>0. /\ pc \in [Requests -> Steps] /\ token \in [Requests -> Token]
  BY DEF AccountsInv, TypeOK
<1>1. CASE UNCHANGED vars
  BY <1>1 DEF vars, rows, Quiet, Stands
<1>2. CASE Fail(r)
  <2>1. CutOff(r) /\ \A q \in Requests \ {r} : Stands(q)
    BY <1>0, <1>2 DEF Fail, Goto, CutOff, Stands
  <2> QED BY <1>2, <2>1 DEF Fail, Quiet, rows
<1>3. CASE Lapse(r)
  <2>1. \A q \in Requests : Stands(q)
    BY <1>3 DEF Lapse, Stands
  <2>2. \A t \in Requests : token'[t] = token[t] \/ token'[t].state = "expired"
    BY <1>0, <1>3 DEF Lapse, Token
  <2> QED BY <1>3, <2>1, <2>2 DEF Lapse, Quiet, history
<1> QED BY <1>1, <1>2, <1>3

\* Every step is a statement of a handler or quiet.
LEMMA QuietStep ==
    ASSUME AccountsInv, [Next]_vars
    PROVE  Quiet \/ \E r \in Requests : Proceed(r)
<1>1. CASE UNCHANGED vars
  BY <1>1 DEF vars, rows, Quiet, Stands
<1>2. ASSUME NEW r \in Requests, Arrive(r) \/ Fail(r) \/ Lapse(r)
      PROVE  Quiet
  BY <1>2, ArriveQuiet, RestQuiet
<1> QED BY <1>1, <1>2 DEF Next

LEMMA RanTogetherStep ==
    ASSUME AccountsInv, RanTogether, [Next]_vars
    PROVE  RanTogether'
<1>1. ASSUME \A q \in Requests : Running(q)' => Running(q), together' = together
      PROVE  RanTogether'
  BY <1>1 DEF RanTogether, Overlapped
<1>2. ASSUME NEW r \in Requests, Proceed(r)
      PROVE  RanTogether'
  <2>1. TypeOK /\ CallFits(r)
    BY DEF AccountsInv
  <2>2. \A q \in Requests : Running(q)' => Running(q)
    BY <1>2, <2>1, Alone DEF Running
  <2> QED BY <1>1, <1>2, <2>1, <2>2, HistoryType
<1>3. ASSUME NEW r \in Requests, Arrive(r)
      PROVE  RanTogether'
  <2>1. /\ together' = together \cup {{r, s} : s \in {s \in Requests : Running(s)}}
        /\ \A q \in Requests \ {r} : pc'[q] = pc[q]
    BY <1>3, ArriveQuiet DEF Stands
  <2>2. ASSUME NEW q \in Requests, NEW s \in Requests, Running(q)', Running(s)', q # s
        PROVE  Overlapped(q, s)'
    <3>1. CASE q # r /\ s # r
      BY <2>1, <2>2, <3>1 DEF RanTogether, Overlapped, Running
    <3>2. CASE q = r
      <4>1. Running(s)
        BY <2>1, <2>2, <3>2 DEF Running
      <4> QED BY <2>1, <3>2, <4>1 DEF Overlapped
    <3>3. CASE s = r
      <4>1. Running(q)
        BY <2>1, <2>2, <3>3 DEF Running
      <4>2. {r, q} = {q, s}
        BY <3>3
      <4> QED BY <2>1, <4>1, <4>2 DEF Overlapped
    <3> QED BY <3>1, <3>2, <3>3
  <2> QED BY <2>2 DEF RanTogether
<1>4. ASSUME NEW r \in Requests, Fail(r) \/ Lapse(r) \/ UNCHANGED vars
      PROVE  RanTogether'
  <2>1. together' = together /\ \A q \in Requests : pc'[q] = pc[q] \/ pc'[q] = "done"
    BY <1>4, RestQuiet DEF Stands, CutOff
  <2> QED BY <1>1, <2>1 DEF Running
<1>5. UNCHANGED vars => RanTogether'
  BY <1>1 DEF vars, Running
<1> QED BY <1>2, <1>3, <1>4, <1>5 DEF Next

\* Of two requests that run at the same time each knows that they do: what the
\* properties say of sign-ins and removals that overlap covers every race.
THEOREM RunningOverlap == Spec => []RanTogether
<1>1. Init => RanTogether
  BY DEF Init, RanTogether, Running
<1>2. AccountsInv /\ RanTogether /\ [Next]_vars => RanTogether'
  BY RanTogetherStep
<1> QED BY <1>1, <1>2, AccountsInvariant, PTL DEF Spec

-----------------------------------------------------------------------------
(* A reset retires older links.                                            *)

\* The requests that had ended when one began are over.
Past == \A r \in Requests : \A t \in before[r] : pc[t] = "done"

LEMMA PastStep ==
    ASSUME AccountsInv, Past, [Next]_vars
    PROVE  Past'
<1>0. /\ before \in [Requests -> SUBSET Requests] /\ before' \in [Requests -> SUBSET Requests]
      /\ TypeOK /\ \A q \in Requests : CallFits(q)
  <2>1. AccountsInv'
    BY AccountsInvStep
  <2> QED BY <2>1 DEF AccountsInv, TypeOK
<1>1. \A q \in Requests : pc[q] = "done" => pc'[q] = "done"
  <2>1. CASE Quiet
    BY <2>1 DEF Quiet, Stands, CutOff, Starts
  <2>2. ASSUME NEW r \in Requests, Proceed(r)
        PROVE  \A q \in Requests : pc[q] = "done" => pc'[q] = "done"
    BY <1>0, <2>2, Alone
  <2> QED BY <2>1, <2>2, QuietStep
<1>2. \A r \in Requests : before'[r] = before[r] \/ before'[r] = {s \in Requests : pc[s] = "done"}
  <2>1. CASE Quiet
    BY <2>1 DEF Quiet, Starts
  <2>2. ASSUME NEW r \in Requests, Proceed(r)
        PROVE  before' = before
    BY <1>0, <2>2, HistoryType
  <2> QED BY <2>1, <2>2, QuietStep
<1> QED BY <1>0, <1>1, <1>2 DEF Past

\* A link that another request was given is not usable again.
LEMMA TokenKept ==
    ASSUME TypeOK, NEW r \in Requests, CallFits(r), Proceed(r), NEW t \in Requests, pc[t] = "done"
    PROVE  token'[t] = token[t] \/ token'[t].state = "used"
<1>0. token \in [Requests -> Token]
  BY DEF TypeOK
<1>1. pc[r] # "done"
  BY Alone
<1>2. CASE Mint(r) \/ Mail(r)
  <2>1. \A x \in Requests \ {r} : token'[x] = token[x]
    BY <1>0, <1>2 DEF Mint, Mail
  <2> QED BY <1>1, <2>1
<1>3. CASE Spend(r)
  <2>1. call[r].with \in Requests
    BY <1>3 DEF Spend, CallFits
  <2>2. token' = token \/ token' = [token EXCEPT ![call[r].with].state = "used"]
    BY <1>3 DEF Spend
  <2> QED BY <1>0, <2>1, <2>2 DEF Token
<1>4. CASE Sweep(r)
  <2>1. token'[t] = token[t] \/ token'[t] = [token[t] EXCEPT !.state = "used"]
    BY <1>4 DEF Sweep, SweepOne
  <2>2. token[t] \in Token
    BY <1>0
  <2> QED BY <2>1, <2>2 DEF Token
<1>5. CASE Dedupe(r)
  <2>1. token'[t] \in {token[t], NoToken}
    BY <1>5 DEF Dedupe, Forget, rows
  <2> QED BY <2>1 DEF NoToken
<1>6. CASE \/ Register(r) \/ Login(r) \/ Find(r) \/ Mark(r) \/ SetPassword(r) \/ BeginFlow(r)
           \/ ClaimState(r) \/ Fetch(r) \/ ResolveAccount(r) \/ Match(r) \/ Taken(r) \/ CreateAccount(r)
           \/ Bind(r) \/ InsertConnection(r) \/ Winner(r) \/ ReadUser(r) \/ CheckUnlink(r) \/ Unlink(r)
  BY <1>6 DEF rows, Register, Login, Find, Mark, SetPassword, BeginFlow, ClaimState, Fetch,
              ResolveAccount, Match, Taken, CreateAccount, Bind, InsertConnection, Winner, ReadUser,
              CheckUnlink, Unlink
<1> QED BY <1>2, <1>3, <1>4, <1>5, <1>6 DEF Proceed

\* What the handlers fail to do stays on record.
LEMMA FailedGrows ==
    ASSUME TypeOK, NEW r \in Requests, CallFits(r), Proceed(r)
    PROVE  failed \subseteq failed'
<1>1. CASE Sweep(r) \/ Dedupe(r)
  BY <1>1 DEF Sweep, Dedupe, Overlooked, history
<1>2. CASE Register(r) \/ Login(r) \/ Find(r) \/ Mint(r) \/ Mail(r) \/ Spend(r) \/ Mark(r) \/ SetPassword(r)
  BY <1>2 DEF history, Register, Login, Find, Mint, Mail, Spend, Mark, SetPassword
<1>3. CASE BeginFlow(r) \/ ClaimState(r) \/ Fetch(r) \/ ResolveAccount(r) \/ Match(r) \/ Taken(r)
  BY <1>3 DEF history, BeginFlow, ClaimState, Fetch, ResolveAccount, Match, Taken
<1>4. CASE CreateAccount(r) \/ Bind(r) \/ InsertConnection(r) \/ Winner(r) \/ ReadUser(r)
           \/ CheckUnlink(r) \/ Unlink(r)
  BY <1>4 DEF history, CreateAccount, Bind, InsertConnection, Winner, ReadUser, CheckUnlink, Unlink
<1> QED BY <1>1, <1>2, <1>3, <1>4 DEF Proceed

\* The session of a reset comes from the statement that sweeps.
LEMMA ResetSweeps ==
    ASSUME AccountsInv, NEW r \in Requests, Proceed(r), call[r].op = "reset", session'[r] # None
    PROVE  \/ r \in failed'
           \/ token' = [t \in Requests |-> SweepOne(t, saw[r].account)] /\ session'[r] = saw[r].account
<1>1. /\ CallFits(r) /\ session[r] = None /\ session \in [Requests -> Ids \cup {None}]
  BY Alone DEF AccountsInv, Knows, TypeOK
<1>2. pc[r] \in {"spend", "set", "sweep", "done"}
  BY <1>1 DEF CallFits
<1>3. Sweep(r) /\ Answer(r, saw[r].account)
  BY <1>1, <1>2, SessionStep DEF Register, Login, Mark, ReadUser, At
<1> QED BY <1>1, <1>3 DEF Sweep, Overlooked, Answer

LEMMA RetiresStep ==
    ASSUME AccountsInv, Past, ResetRetiresOlderLinks, [Next]_vars
    PROVE  ResetRetiresOlderLinks'
<1>0. /\ TypeOK /\ before \in [Requests -> SUBSET Requests] /\ token \in [Requests -> Token]
      /\ \A q \in Requests : CallFits(q) /\ Knows(q)
  BY DEF AccountsInv, TypeOK
<1>1. Past' /\ before' \in [Requests -> SUBSET Requests] /\ \A q \in Requests : Knows(q)'
  BY PastStep, AccountsInvStep DEF AccountsInv, TypeOK
<1> SUFFICES ASSUME NEW r \in Requests, NEW t \in Requests,
                    call'[r].op = "reset", pc'[r] = "done", session'[r] # None, r \notin failed',
                    t \in before'[r], token'[t].kind = "reset", token'[t].of = session'[r],
                    token'[t].state = "mailed"
             PROVE  FALSE
  BY DEF ResetRetiresOlderLinks, Usable
<1>2. ASSUME call[r].op = "reset", pc[r] = "done", session[r] = session'[r], failed \subseteq failed',
             before[r] = before'[r], token'[t] = token[t] \/ token'[t].state \in {"used", "expired"}
      PROVE  FALSE
  BY <1>2 DEF ResetRetiresOlderLinks, Usable
<1>3. CASE Quiet
  <2>1. session[r] # None /\ pc[r] = "done"
    BY <1>0, <1>3 DEF Quiet, Knows
  <2>2. Stands(r) /\ before'[r] = before[r]
    BY <1>3, <2>1 DEF Quiet, CutOff, Starts, Running
  <2> QED BY <1>2, <1>3, <2>1, <2>2 DEF Quiet, Stands
<1>4. ASSUME NEW q \in Requests, Proceed(q)
      PROVE  FALSE
  <2>0. call' = call /\ before' = before /\ failed \subseteq failed'
    BY <1>0, <1>4, PlaceType, HistoryType, FailedGrows
  <2>1. CASE q # r
    <3>1. pc'[r] = pc[r] /\ session'[r] = session[r]
      BY <1>0, <1>4, <2>1, Alone
    <3>2. pc[t] = "done"
      BY <2>0 DEF Past
    <3> QED BY <1>0, <1>2, <1>4, <2>0, <3>1, <3>2, TokenKept
  <2>2. CASE q = r
    <3>1. token' = [x \in Requests |-> SweepOne(x, saw[r].account)] /\ session'[r] = saw[r].account
      BY <1>4, <2>0, <2>2, ResetSweeps
    <3>2. token'[t] = SweepOne(t, saw[r].account) /\ token[t] \in Token
      BY <1>0, <3>1
    <3>3. token[t].kind = token'[t].kind /\ token[t].of = token'[t].of
      BY <3>2 DEF SweepOne, Token
    <3> QED BY <3>1, <3>2, <3>3 DEF SweepOne, Token
  <2> QED BY <2>1, <2>2
<1> QED BY <1>3, <1>4, QuietStep

\* A reset retires every older link of its account, unless the statement that
\* does so failed (email_auth.rs reset_password).
THEOREM ResetsRetire == Spec => []ResetRetiresOlderLinks
<1>1. Init => Past /\ ResetRetiresOlderLinks
  BY DEF Init, Past, ResetRetiresOlderLinks
<1>2. AccountsInv /\ Past /\ ResetRetiresOlderLinks /\ [Next]_vars => (Past /\ ResetRetiresOlderLinks)'
  BY PastStep, RetiresStep
<1> QED BY <1>1, <1>2, AccountsInvariant, PTL DEF Spec

-----------------------------------------------------------------------------
(* A link ends with its owner.                                             *)

\* What once overlapped has overlapped for good.
LEMMA RacesStay ==
    ASSUME AccountsInv, [Next]_vars
    PROVE  /\ \A q \in Requests : Raced(q) => Raced(q)'
           /\ \A a : TwoRemovals(a) => TwoRemovals(a)'
<1>1. together \subseteq together' /\ \A q \in Requests : pc[q] # "idle" => call'[q] = call[q]
  <2>1. ASSUME NEW r \in Requests, Proceed(r)
        PROVE  together' = together /\ call' = call
    BY <2>1, PlaceType, HistoryType DEF AccountsInv
  <2>2. CASE Quiet
    BY <2>2 DEF Quiet, Stands, CutOff, Starts
  <2> QED BY <2>1, <2>2, QuietStep
<1>2. \A q \in Requests : call[q].op \in {"callback", "unlink"} => call'[q] = call[q]
  BY <1>1 DEF AccountsInv, CallFits
<1>3. ASSUME NEW q \in Requests, Raced(q)
      PROVE  Raced(q)'
  <2>1. PICK s \in Requests : s # q /\ IsCallback(s) /\ Overlapped(q, s) /\ call[s].profile = call[q].profile
    BY <1>3 DEF Raced
  <2>2. call'[q] = call[q] /\ call'[s] = call[s]
    BY <1>2, <1>3, <2>1 DEF Raced, IsCallback
  <2> QED BY <1>1, <1>3, <2>1, <2>2 DEF Raced, Overlapped, IsCallback
<1>4. ASSUME NEW a, TwoRemovals(a)
      PROVE  TwoRemovals(a)'
  <2>1. PICK q, s \in Requests : /\ q # s /\ Overlapped(q, s)
                                 /\ call[q].op = "unlink" /\ call[q].who = a
                                 /\ call[s].op = "unlink" /\ call[s].who = a
    BY <1>4 DEF TwoRemovals
  <2>2. call'[q] = call[q] /\ call'[s] = call[s]
    BY <1>2, <2>1
  <2> QED BY <1>1, <2>1, <2>2 DEF TwoRemovals, Overlapped
<1> QED BY <1>3, <1>4

\* The steps of a sign-in.
LEMMA CallbackSteps ==
    ASSUME NEW r \in Requests, CallFits(r), IsCallback(r), Proceed(r)
    PROVE  \/ ClaimState(r) \/ Fetch(r) \/ ResolveAccount(r) \/ Match(r) \/ Taken(r) \/ CreateAccount(r)
           \/ Bind(r) \/ InsertConnection(r) \/ Winner(r) \/ Dedupe(r) \/ ReadUser(r)
<1>1. /\ call[r].op = "callback"
      /\ pc[r] \notin {"find", "mint", "mail", "spend", "mark", "set", "sweep", "check", "delete"}
  BY DEF IsCallback, CallFits
<1>2. ~(Register(r) \/ Login(r) \/ Find(r) \/ Mint(r) \/ Mail(r) \/ Spend(r))
  BY <1>1 DEF At, Register, Login, Find, Mint, Mail, Spend
<1>3. ~(Mark(r) \/ SetPassword(r) \/ Sweep(r) \/ BeginFlow(r) \/ CheckUnlink(r) \/ Unlink(r))
  BY <1>1 DEF At, Mark, SetPassword, Sweep, BeginFlow, CheckUnlink, Unlink
<1> QED BY <1>2, <1>3 DEF Proceed

\* A connection is made by a sign-in with its profile, and goes with an unlink or
\* with the account it leads to.
LEMMA ConnectionChange ==
    ASSUME TypeOK, NEW r \in Requests, CallFits(r), Proceed(r), NEW k \in Profiles, connection'[k] # connection[k]
    PROVE  \/ /\ InsertConnection(r) /\ IsCallback(r) /\ k = call[r].profile /\ pc'[r] = "read"
              /\ connection[k] = None /\ connection'[k] = saw[r].account
           \/ Unlink(r) /\ k \in Matching(r) /\ connection'[k] = None
           \/ Dedupe(r) /\ Forget(r) /\ connection[k] = r /\ connection'[k] = None
<1>0. connection \in [Profiles -> Ids \cup {None}] /\ pc \in [Requests -> Steps]
  BY DEF TypeOK
<1>1. CASE InsertConnection(r)
  <2>1. call[r].op = "callback" /\ connection[call[r].profile] = None /\ pc'[r] = "read"
        /\ connection' = [connection EXCEPT ![call[r].profile] = saw[r].account]
    BY <1>0, <1>1 DEF InsertConnection, At, Goto
  <2> QED BY <1>0, <1>1, <2>1 DEF IsCallback
<1>2. CASE Unlink(r)
  BY <1>2 DEF Unlink
<1>3. CASE Dedupe(r)
  BY <1>3 DEF Dedupe, Forget, rows
<1>4. CASE \/ Register(r) \/ Login(r) \/ Find(r) \/ Mint(r) \/ Mail(r) \/ Spend(r) \/ Mark(r) \/ SetPassword(r)
           \/ Sweep(r) \/ BeginFlow(r) \/ ClaimState(r) \/ Fetch(r) \/ ResolveAccount(r) \/ Match(r) \/ Taken(r)
           \/ CreateAccount(r) \/ Bind(r) \/ Winner(r) \/ ReadUser(r) \/ CheckUnlink(r)
  BY <1>4 DEF rows, Register, Login, Find, Mint, Mail, Spend, Mark, SetPassword, Sweep, BeginFlow,
              ClaimState, Fetch, ResolveAccount, Match, Taken, CreateAccount, Bind, Winner,
              ReadUser, CheckUnlink
<1> QED BY <1>1, <1>2, <1>3, <1>4 DEF Proceed

\* A sign-in that ran alone with its profile sees its connection made by nobody
\* else while it runs.
LEMMA NobodyElseBinds ==
    ASSUME AccountsInv, RanTogether, NEW q \in Requests, Proceed(q),
           NEW r \in Requests \ {q}, IsCallback(r), Running(r), ~Raced(r)
    PROVE  connection'[call[r].profile] \in {None, connection[call[r].profile]}
<1> DEFINE k == call[r].profile
<1>1. TypeOK /\ CallFits(q) /\ k \in Profiles /\ Running(q)
  BY Alone, NoneIsNobody DEF AccountsInv, CallFits, IsCallback, Running
<1>2. InsertConnection(q) /\ IsCallback(q) /\ k = call[q].profile => Raced(r)
  BY <1>1 DEF RanTogether, Raced
<1> QED BY <1>1, <1>2, ConnectionChange

\* Linking, a sign-in acts for the account that began it.
LinkKept(r) ==
    IsCallback(r) /\ saw[r].link # None =>
        \/ Raced(r)
        \/ pc[r] \in {"claim", "fetch", "resolve"}
        \/ /\ pc[r] \in {"bind", "insert", "winner"} /\ saw[r].account = saw[r].link
           /\ connection[call[r].profile] \in {None, saw[r].link}
        \/ pc[r] \in {"dedupe", "read"} /\ saw[r].account = saw[r].link
        \/ pc[r] = "done" /\ session[r] \in {None, saw[r].link}

LEMMA LinkKeptByItself ==
    ASSUME AccountsInv, NEW r \in Requests, LinkKept(r), ~Raced(r)', Proceed(r)
    PROVE  LinkKept(r)'
<1>0. /\ TypeOK /\ CallFits(r) /\ Knows(r) /\ call' = call /\ ~Raced(r)
      /\ pc \in [Requests -> Steps] /\ saw \in [Requests -> Saw] /\ saw[r] \in Saw
      /\ session \in [Requests -> Ids \cup {None}]
  <2>1. [Next]_vars
    BY DEF Next
  <2> QED BY <2>1, PlaceType, RacesStay DEF AccountsInv, TypeOK
<1> SUFFICES ASSUME IsCallback(r), saw'[r].link # None
             PROVE  LinkKept(r)'
  BY <1>0 DEF LinkKept, IsCallback
<1> DEFINE k == call[r].profile
<1>1. session[r] = None /\ k \in Profiles /\ connection[k] \in Ids \cup {None}
  BY <1>0, Alone DEF Knows, IsCallback, CallFits, TypeOK
<1>2. CASE ClaimState(r)
  <2>1. pc'[r] \in {"fetch", "done"} /\ session' = session
    BY <1>0, <1>2 DEF ClaimState, Goto
  <2> QED BY <1>0, <1>1, <2>1 DEF LinkKept
<1>3. CASE Fetch(r)
  <2>1. pc'[r] = "resolve"
    BY <1>0, <1>3 DEF Fetch, Goto
  <2> QED BY <2>1 DEF LinkKept
<1>4. CASE ResolveAccount(r)
  <2>1. connection' = connection /\ session' = session /\ saw[r].link # None
    BY <1>0, <1>4 DEF ResolveAccount, rows, Know, Saw
  <2>2. \/ pc'[r] = "done"
        \/ pc'[r] = "bind" /\ saw'[r].link = saw[r].link /\ saw'[r].account = saw[r].link
           /\ connection[k] \in {None, saw[r].link}
    BY <1>0, <1>4, <2>1 DEF ResolveAccount, LinksAnothers, Goto, Know, Saw
  <2> QED BY <1>0, <1>1, <2>1, <2>2 DEF LinkKept
<1>5. CASE Match(r) \/ Taken(r) \/ CreateAccount(r)
  <2>1. saw'[r].link = saw[r].link /\ pc[r] \in {"match", "taken", "create"}
    BY <1>0, <1>5 DEF Match, Taken, CreateAccount, Know, Saw, At
  <2> QED BY <1>0, <2>1 DEF LinkKept
<1>6. CASE Bind(r) \/ Winner(r)
  <2>1. pc[r] \in {"bind", "winner"} /\ connection' = connection /\ session' = session
    BY <1>6 DEF Bind, Winner, rows
  <2>2. saw[r].link # None /\ saw'[r].link = saw[r].link
    BY <1>0, <1>6 DEF Bind, Winner, Know, Saw
  <2>3. saw[r].account = saw[r].link /\ connection[k] \in {None, saw[r].link}
    BY <1>0, <2>1, <2>2 DEF LinkKept
  <2>4. \/ pc'[r] = "done"
        \/ pc'[r] \in {"insert", "dedupe", "read"} /\ saw'[r].account = saw[r].link
    BY <1>0, <1>6, <2>3 DEF Bind, Winner, Goto, Know, Saw
  <2> QED BY <1>0, <1>1, <2>1, <2>2, <2>3, <2>4 DEF LinkKept
<1>7. CASE InsertConnection(r)
  <2>1. pc[r] = "insert" /\ saw' = saw /\ session' = session /\ pc'[r] \in {"winner", "done", "read"}
        /\ (pc'[r] = "winner" => connection' = connection)
    BY <1>0, <1>7 DEF InsertConnection, At, Goto
  <2> QED BY <1>0, <1>1, <2>1 DEF LinkKept
<1>8. CASE Dedupe(r) \/ ReadUser(r)
  <2>1. /\ pc[r] \in {"dedupe", "read"} /\ saw' = saw
        /\ \/ pc'[r] = "read"
           \/ pc'[r] = "done" /\ session'[r] \in {None, saw[r].account}
    BY <1>0, <1>1, <1>8 DEF Dedupe, ReadUser, Answer, Goto
  <2>2. saw[r].account = saw[r].link
    BY <1>0, <2>1 DEF LinkKept
  <2> QED BY <1>0, <2>1, <2>2 DEF LinkKept
<1> QED BY <1>0, <1>2, <1>3, <1>4, <1>5, <1>6, <1>7, <1>8, CallbackSteps

LEMMA LinkKeptStep ==
    ASSUME AccountsInv, RanTogether, NEW r \in Requests, LinkKept(r), [Next]_vars
    PROVE  LinkKept(r)'
<1>0. TypeOK /\ CallFits(r) /\ Knows(r)
  BY DEF AccountsInv
<1> SUFFICES ASSUME ~Raced(r)', ~Raced(r)
             PROVE  LinkKept(r)'
  BY RacesStay DEF LinkKept
<1>1. CASE Quiet
  <2>1. saw' = saw /\ session' = session /\ connection' = connection
    BY <1>1 DEF Quiet
  <2>2. CASE Stands(r)
    BY <2>1, <2>2 DEF Stands, LinkKept, IsCallback
  <2>3. CASE Starts(r)
    BY <2>3 DEF Starts, LinkKept, IsCallback
  <2>4. CASE CutOff(r)
    BY <1>0, <2>1, <2>4 DEF CutOff, Running, Knows, LinkKept
  <2> QED BY <1>1, <2>2, <2>3, <2>4 DEF Quiet
<1>2. ASSUME NEW q \in Requests, Proceed(q)
      PROVE  LinkKept(r)'
  <2>1. CASE q = r
    BY <1>2, <2>1, LinkKeptByItself
  <2>2. CASE q # r
    <3>1. /\ call' = call /\ pc'[r] = pc[r] /\ saw'[r] = saw[r] /\ session'[r] = session[r]
      BY <1>0, <1>2, <2>2, Alone, PlaceType DEF AccountsInv
    <3>2. IsCallback(r) /\ Running(r) => connection'[call[r].profile] \in {None, connection[call[r].profile]}
      BY <1>2, <2>2, NobodyElseBinds
    <3> QED BY <3>1, <3>2 DEF LinkKept, IsCallback, Running
  <2> QED BY <2>1, <2>2
<1> QED BY <1>1, <1>2, QuietStep

LinksKept == \A r \in Requests : LinkKept(r)

\* A sign-in begun from a session ends in that session's account or in none,
\* unless another with the same profile ran (oauth_routes.rs callback).
THEOREM LinksEndRight == Spec => []LinkEndsWithItsOwner
<1>1. Init => LinksKept
  BY DEF Init, LinksKept, LinkKept, Nothing
<1>2. AccountsInv /\ RanTogether /\ LinksKept /\ [Next]_vars => LinksKept'
  BY LinkKeptStep DEF LinksKept
<1>3. AccountsInv /\ LinksKept => LinkEndsWithItsOwner
  BY DEF AccountsInv, Knows, LinksKept, LinkKept, LinkEndsWithItsOwner
<1> QED BY <1>1, <1>2, <1>3, AccountsInvariant, RunningOverlap, PTL DEF Spec

-----------------------------------------------------------------------------
(* A way in is left.                                                       *)

\* An account made with a password has one.
HasPassword(r) == ~IsCallback(r) /\ Live(r) => user[r].password

LeadsNowhere(r) == connection[call[r].profile] = None

\* Unless it races, a sign-in makes an account for a profile that leads to
\* nobody, and connects the two before it ends.
MadeWays(r) ==
    IsCallback(r) /\ ~Raced(r) =>
        /\ pc[r] \in {"match", "taken", "create"} => LeadsNowhere(r)
        /\ saw[r].made =>
              /\ pc[r] \notin {"winner", "dedupe"}
              /\ pc[r] \in {"bind", "insert"} => Live(r) /\ saw[r].account = r /\ LeadsNowhere(r)
              /\ pc[r] = "read" => ~Live(r) \/ WayIn(r) \/ TwoRemovals(r)

\* What an unlink found is still so when it deletes.
Checked(u) ==
    call[u].op = "unlink" /\ pc[u] = "delete" =>
        ~Live(call[u].who) \/ LeavesAWayIn(u) \/ TwoRemovals(call[u].who)

WaysInv ==
    /\ WayInUnlessRaced
    /\ \A r \in Requests : HasPassword(r) /\ MadeWays(r) /\ Checked(r)

\* A password stays as long as its account; a new account has one, or is a
\* sign-in's that has yet to connect it.
LEMMA PasswordStep ==
    ASSUME TypeOK, NEW r \in Requests, CallFits(r), Knows(r), Fresh(r), Proceed(r), NEW a \in Ids, Live(a)'
    PROVE  /\ Live(a) /\ user[a].password => user'[a].password
           /\ ~Live(a) => /\ a = r /\ ~saw[r].made
                          /\ \/ user'[a].password
                             \/ CreateAccount(r) /\ pc'[r] = "bind" /\ saw'[r].account = r
<1> DEFINE Goal ==
        /\ Live(a) /\ user[a].password => user'[a].password
        /\ ~Live(a) => /\ a = r /\ ~saw[r].made
                       /\ \/ user'[a].password
                          \/ CreateAccount(r) /\ pc'[r] = "bind" /\ saw'[r].account = r
<1> SUFFICES Goal
  OBVIOUS
<1> HIDE DEF Goal
<1>0. /\ user \in [Ids -> User] /\ r \in Ids /\ pc \in [Requests -> Steps] /\ saw \in [Requests -> Saw]
      /\ saw[r] \in Saw
  BY DEF TypeOK, Ids
<1>1. ASSUME user'[a] = user[a] PROVE Goal
  BY <1>1 DEF Goal, Live
<1>2. CASE Register(r)
  <2>1. ~saw[r].made /\ ~Made(r)
    BY <1>2 DEF Register, At, Fresh
  <2>2. user' = user \/ user' = [user EXCEPT ![r] = NewUser(call[r].address, TRUE, FALSE)]
    BY <1>2 DEF Register
  <2>3. NewUser(call[r].address, TRUE, FALSE).password
    BY DEF NewUser
  <2> QED BY <1>0, <1>1, <2>1, <2>2, <2>3 DEF Goal, Live, Made
<1>3. CASE CreateAccount(r)
  <2> DEFINE u == NewUser(Identity(r), FALSE, saw[r].vouched /\ saw[r].email # None)
  <2>1. ~saw[r].made /\ ~Made(r)
    BY <1>3 DEF CreateAccount, At, Fresh
  <2>2. \/ user' = user
        \/ /\ user' = [user EXCEPT ![r] = u]
           /\ Know(r, [saw[r] EXCEPT !.account = r, !.made = TRUE]) /\ pc'[r] = "bind"
    BY <1>0, <1>3 DEF CreateAccount, Goto
  <2>3. Know(r, [saw[r] EXCEPT !.account = r, !.made = TRUE]) => saw'[r].account = r
    BY <1>0 DEF Know, Saw
  <2> HIDE DEF u
  <2> QED BY <1>0, <1>1, <1>3, <2>1, <2>2, <2>3 DEF Goal, Live, Made
<1>4. CASE Mark(r) \/ SetPassword(r)
  <2> DEFINE b == saw[r].account
  <2>1. b \in Ids
    BY <1>4, SawFields DEF Mark, SetPassword, Knows, NeedsAccount
  <2>2. \/ user' = [user EXCEPT ![b].verified = @ \/ Live(b)]
        \/ user' = [user EXCEPT ![b].verified = @ \/ Live(b), ![b].password = @ \/ Live(b)]
    BY <1>4 DEF Mark, SetPassword
  <2>3. Live(b) \in BOOLEAN
    BY DEF Live
  <2> HIDE DEF b
  <2>4. CASE user' = [user EXCEPT ![b].verified = @ \/ Live(b)]
    BY <1>0, <2>1, <2>3, <2>4 DEF Goal, User, Live
  <2>5. CASE user' = [user EXCEPT ![b].verified = @ \/ Live(b), ![b].password = @ \/ Live(b)]
    BY <1>0, <2>1, <2>3, <2>5 DEF Goal, User, Live
  <2> QED BY <2>2, <2>4, <2>5
<1>5. CASE Dedupe(r)
  <2>1. CASE Forget(r)
    <3>1. user' = [user EXCEPT ![r] = [NoUser EXCEPT !.state = "gone"]]
      BY <2>1 DEF Forget
    <3>2. a # r
      BY <1>0, <3>1 DEF Live, NoUser
    <3> QED BY <1>0, <1>1, <3>1, <3>2
  <2> QED BY <1>1, <1>5, <2>1 DEF Dedupe, rows
<1>6. CASE \/ Login(r) \/ Find(r) \/ Mint(r) \/ Mail(r) \/ Spend(r) \/ Sweep(r) \/ BeginFlow(r) \/ ClaimState(r)
           \/ Fetch(r) \/ ResolveAccount(r) \/ Match(r) \/ Taken(r) \/ Bind(r) \/ InsertConnection(r)
           \/ Winner(r) \/ ReadUser(r) \/ CheckUnlink(r) \/ Unlink(r)
  <2>1. UNCHANGED user
    BY <1>6 DEF rows, Login, Find, Mint, Mail, Spend, Sweep, BeginFlow, ClaimState, Fetch, ResolveAccount,
                Match, Taken, Bind, InsertConnection, Winner, ReadUser, CheckUnlink, Unlink
  <2> QED BY <1>1, <2>1
<1> QED BY <1>2, <1>3, <1>4, <1>5, <1>6 DEF Proceed

\* What an unlink leaves alone stays connected.
LEMMA StaysConnected ==
    ASSUME TypeOK, NEW r \in Requests, CallFits(r), Proceed(r), NEW a \in Ids, Live(a)',
           NEW k \in Profiles, connection[k] = a
    PROVE  connection'[k] = a \/ (Unlink(r) /\ k \in Matching(r))
<1>1. Forget(r) => user'[r].state # "live"
  <2>1. Forget(r) => user'[r] = [NoUser EXCEPT !.state = "gone"]
    BY DEF Forget, TypeOK, Ids
  <2> QED BY <2>1 DEF NoUser
<1>2. Forget(r) => a # r
  BY <1>1 DEF Live
<1> QED BY <1>2, ConnectionChange, NoneIsNobody

\* An account is left without a way in by two removals at once only.
LEMMA WayInKept ==
    ASSUME AccountsInv, NEW r \in Requests, Proceed(r), Checked(r), NEW a \in Ids, Live(a), Live(a)', WayIn(a)
    PROVE  WayIn(a)' \/ TwoRemovals(a)
<1>0. TypeOK /\ CallFits(r) /\ Knows(r) /\ Fresh(r) /\ a # None
  BY NoneIsNobody DEF AccountsInv
<1>1. CASE user[a].password
  BY <1>0, <1>1, PasswordStep DEF WayIn
<1>2. CASE ~user[a].password /\ Unlink(r) /\ call[r].who = a
  <2>1. ~TwoRemovals(a) => LeavesAWayIn(r)
    BY <1>0, <1>2 DEF Checked, Unlink, CallFits
  <2>2. ASSUME NEW k \in ConnectionsOf(a) \ Matching(r)
        PROVE  connection'[k] = a
    BY <1>0, <2>2, StaysConnected DEF ConnectionsOf
  <2> QED BY <1>2, <2>1, <2>2 DEF LeavesAWayIn, WayIn, ConnectionsOf
<1>3. CASE ~user[a].password /\ ~(Unlink(r) /\ call[r].who = a)
  <2>1. PICK k \in Profiles : connection[k] = a
    BY <1>3 DEF WayIn, ConnectionsOf
  <2>2. ~(Unlink(r) /\ k \in Matching(r))
    BY <1>3, <2>1 DEF Matching, ConnectionsOf
  <2>3. connection'[k] = a
    BY <1>0, <2>1, <2>2, StaysConnected
  <2> QED BY <2>3 DEF WayIn, ConnectionsOf
<1> QED BY <1>1, <1>2, <1>3

LEMMA CheckedStep ==
    ASSUME AccountsInv, RanTogether, NEW r \in Requests, Proceed(r), NEW u \in Requests, Checked(u)
    PROVE  Checked(u)'
<1> DEFINE a == call[u].who
<1>0. /\ TypeOK /\ CallFits(r) /\ Knows(r) /\ Fresh(r) /\ call' = call /\ [Next]_vars
      /\ CallFits(u) /\ Knows(u)
  BY PlaceType DEF AccountsInv, Next
<1> SUFFICES ASSUME call[u].op = "unlink", pc'[u] = "delete", Live(a)', ~TwoRemovals(a)
             PROVE  LeavesAWayIn(u)'
  BY <1>0, RacesStay DEF Checked
<1>1. a \in Ids /\ a # None /\ Live(a)
  <2>1. a \in Ids /\ a # None
    BY <1>0, NoneIsNobody DEF CallFits
  <2>2. Made(a)
    BY <1>0, <2>1 DEF Knows
  <2> QED BY <1>0, <2>1, <2>2, UserStep
<1>2. CASE u = r
  <2>1. CheckUnlink(r)
    <3>1. pc[r] \in {"check", "delete"}
      BY <1>0, <1>2, Alone DEF CallFits
    <3>2. Unlink(r) => pc'[r] = "done"
      BY <1>0 DEF Unlink, Goto, TypeOK
    <3> QED BY <1>2, <3>1, <3>2 DEF Proceed, Register, Login, Find, Mint, Mail, Spend, Mark, SetPassword, Sweep,
          BeginFlow, ClaimState, Fetch, ResolveAccount, Match, Taken, CreateAccount, Bind, InsertConnection,
          Winner, Dedupe, ReadUser, At
  <2>2. LeavesAWayIn(r) /\ UNCHANGED rows
    BY <1>0, <1>2, <2>1 DEF CheckUnlink, Goto, TypeOK
  <2> QED BY <1>0, <1>2, <2>2 DEF LeavesAWayIn, rows, ConnectionsOf, Matching
<1>3. CASE u # r
  <2>1. pc[u] = "delete" /\ LeavesAWayIn(u)
    BY <1>0, <1>1, <1>3, Alone DEF Checked
  <2>2. ~(Unlink(r) /\ call[r].who = a)
    <3>1. Unlink(r) /\ call[r].who = a => Overlapped(u, r) /\ call[r].op = "unlink"
      BY <1>0, <1>3, <2>1 DEF RanTogether, Running, Unlink, CallFits
    <3> QED BY <1>3, <3>1 DEF TwoRemovals
  <2>3. CASE user[a].password
    BY <1>0, <1>1, <2>3, PasswordStep DEF LeavesAWayIn
  <2>4. CASE ~user[a].password
    <3>1. PICK k \in ConnectionsOf(a) \ Matching(u) : TRUE
      BY <2>1, <2>4 DEF LeavesAWayIn
    <3>2. k \in Profiles /\ connection[k] = a /\ ProviderOf[k] # ProviderOf[call[u].profile]
      BY <3>1 DEF ConnectionsOf, Matching
    <3>3. connection'[k] = a
      BY <1>0, <1>1, <2>2, <3>2, StaysConnected DEF Matching, ConnectionsOf
    <3>4. k \in ConnectionsOf(a)' \ Matching(u)'
      BY <1>0, <3>2, <3>3 DEF ConnectionsOf, Matching
    <3> QED BY <1>0, <3>4 DEF LeavesAWayIn
  <2> QED BY <2>3, <2>4
<1> QED BY <1>2, <1>3

\* A sign-in, by its own steps.
LEMMA MadeWaysByItself ==
    ASSUME AccountsInv, NEW r \in Requests, MadeWays(r), ~Raced(r)', Proceed(r)
    PROVE  MadeWays(r)'
<1>0. /\ TypeOK /\ CallFits(r) /\ Knows(r) /\ Fresh(r) /\ call' = call /\ ~Raced(r) /\ r \in Ids /\ r # None
      /\ pc \in [Requests -> Steps] /\ saw \in [Requests -> Saw] /\ saw[r] \in Saw /\ user \in [Ids -> User]
  <2>1. [Next]_vars
    BY DEF Next
  <2> QED BY <2>1, PlaceType, RacesStay, NoneIsNobody DEF AccountsInv, TypeOK, Ids
<1> SUFFICES ASSUME IsCallback(r)
             PROVE  MadeWays(r)'
  BY <1>0 DEF MadeWays, IsCallback
<1> DEFINE k == call[r].profile
<1>1. k \in Profiles /\ connection \in [Profiles -> Ids \cup {None}]
  BY <1>0 DEF IsCallback, CallFits, TypeOK
<1>2. CASE ClaimState(r) \/ Fetch(r) \/ ReadUser(r)
  <2>1. pc'[r] \in {"fetch", "done", "resolve"}
    BY <1>0, <1>2 DEF ClaimState, Fetch, ReadUser, Answer, Goto
  <2> QED BY <2>1 DEF MadeWays
<1>3. CASE ResolveAccount(r)
  <2>1. ~saw[r].made /\ saw'[r].made = saw[r].made
    BY <1>0, <1>3 DEF Fresh, ResolveAccount, Know, Saw
  <2>2. pc'[r] \in {"done", "bind"} \/ (pc'[r] = "match" /\ connection'[k] = None)
    BY <1>0, <1>3 DEF ResolveAccount, Goto, rows
  <2> QED BY <1>0, <2>1, <2>2 DEF MadeWays, LeadsNowhere
<1>4. CASE Match(r) \/ Taken(r)
  <2>1. ~saw[r].made /\ saw'[r].made = saw[r].made
    BY <1>0, <1>4 DEF Fresh, Match, Taken, Know, Saw
  <2>2. pc'[r] \in {"bind", "taken", "create", "done"} /\ connection' = connection
    BY <1>0, <1>4 DEF Match, Taken, Goto, rows
  <2>3. connection[k] = None
    BY <1>0, <1>4 DEF Match, Taken, MadeWays, LeadsNowhere
  <2> QED BY <1>0, <2>1, <2>2, <2>3 DEF MadeWays, LeadsNowhere
<1>5. CASE CreateAccount(r)
  <2>1. pc[r] = "create" /\ connection' = connection /\ connection[k] = None
    BY <1>0, <1>5 DEF CreateAccount, At, MadeWays, LeadsNowhere
  <2> DEFINE u == NewUser(Identity(r), FALSE, saw[r].vouched /\ saw[r].email # None)
  <2>2. \/ pc'[r] = "done"
        \/ pc'[r] = "bind" /\ user' = [user EXCEPT ![r] = u] /\ Know(r, [saw[r] EXCEPT !.account = r, !.made = TRUE])
    BY <1>0, <1>5 DEF CreateAccount, Goto
  <2>3. Know(r, [saw[r] EXCEPT !.account = r, !.made = TRUE]) => saw'[r].account = r
    BY <1>0 DEF Know, Saw
  <2>4. u.state = "live"
    BY DEF NewUser
  <2> HIDE DEF u
  <2>5. pc'[r] = "done" \/ (pc'[r] = "bind" /\ saw'[r].account = r /\ Live(r)')
    BY <1>0, <2>2, <2>3, <2>4 DEF Live
  <2> QED BY <1>0, <2>1, <2>5 DEF MadeWays, LeadsNowhere
<1>6. CASE Bind(r)
  <2>1. pc[r] = "bind" /\ connection' = connection /\ user' = user /\ saw'[r].made = saw[r].made
    BY <1>0, <1>6 DEF Bind, rows, Know, Saw
  <2>2. \/ pc'[r] = "insert" /\ saw' = saw
        \/ pc'[r] = "read" /\ connection[k] # None
    BY <1>0, <1>6 DEF Bind, Goto
  <2> QED BY <1>0, <2>1, <2>2 DEF MadeWays, LeadsNowhere, Live
<1>7. CASE InsertConnection(r)
  <2>1. pc[r] = "insert" /\ saw' = saw
    BY <1>7 DEF InsertConnection, At
  <2>2. \/ pc'[r] = "winner" /\ connection[k] # None
        \/ pc'[r] = "done"
        \/ pc'[r] = "read" /\ connection'[k] = saw[r].account
    BY <1>0, <1>1, <1>7 DEF InsertConnection, Goto
  <2>3. saw[r].made => saw[r].account = r /\ connection[k] = None
    BY <1>0, <2>1 DEF MadeWays, LeadsNowhere
  <2> QED BY <1>0, <1>1, <2>1, <2>2, <2>3 DEF MadeWays, WayIn, ConnectionsOf
<1>8. CASE Winner(r) \/ Dedupe(r)
  <2>1. pc[r] \in {"winner", "dedupe"} /\ saw'[r].made = saw[r].made /\ pc'[r] \in {"done", "dedupe", "read"}
        /\ (pc'[r] = "dedupe" => saw[r].made)
    BY <1>0, <1>8 DEF Winner, Dedupe, Know, Saw, Goto
  <2>2. ~saw[r].made
    BY <1>0, <2>1 DEF MadeWays
  <2> QED BY <1>0, <2>1, <2>2 DEF MadeWays
<1> QED BY <1>0, <1>2, <1>3, <1>4, <1>5, <1>6, <1>7, <1>8, CallbackSteps

\* And by the steps of the others.
LEMMA MadeWaysByOthers ==
    ASSUME AccountsInv, RanTogether, NEW q \in Requests, Proceed(q), Checked(q),
           NEW r \in Requests \ {q}, MadeWays(r), ~Raced(r)'
    PROVE  MadeWays(r)'
<1>0. /\ TypeOK /\ CallFits(q) /\ Knows(q) /\ Fresh(q) /\ call' = call /\ ~Raced(r) /\ r \in Ids /\ r # None
      /\ pc'[r] = pc[r] /\ saw'[r] = saw[r] /\ [Next]_vars
  <2>1. [Next]_vars /\ TypeOK /\ CallFits(q)
    BY DEF Next, AccountsInv
  <2> QED BY <2>1, Alone, PlaceType, RacesStay, NoneIsNobody DEF AccountsInv, Ids
<1> SUFFICES ASSUME IsCallback(r), Running(r)
             PROVE  MadeWays(r)'
  BY <1>0 DEF MadeWays, IsCallback, Running
<1>1. connection'[call[r].profile] \in {None, connection[call[r].profile]}
  BY <1>0, NobodyElseBinds
<1>2. LeadsNowhere(r) => LeadsNowhere(r)'
  BY <1>0, <1>1 DEF LeadsNowhere
<1>3. Live(r) => Live(r)'
  BY <1>0, UserStep
<1>4. Live(r)' => Live(r)
  BY <1>0, PasswordStep
<1>5. Live(r) /\ WayIn(r) => WayIn(r)' \/ TwoRemovals(r)'
  BY <1>0, <1>3, WayInKept, RacesStay
<1>6. TwoRemovals(r) => TwoRemovals(r)'
  BY <1>0, RacesStay
<1> QED BY <1>0, <1>2, <1>3, <1>4, <1>5, <1>6 DEF MadeWays, IsCallback

\* A sign-in ends once the account it made can be entered.
LEMMA EndsWithAWayIn ==
    ASSUME AccountsInv, NEW r \in Requests, Proceed(r), HasPassword(r), MadeWays(r),
           ~Raced(r), ~TwoRemovals(r), pc'[r] = "done", Live(r)'
    PROVE  WayIn(r)'
<1>0. /\ TypeOK /\ CallFits(r) /\ Knows(r) /\ Fresh(r) /\ call' = call /\ r \in Ids
      /\ pc \in [Requests -> Steps]
  BY PlaceType DEF AccountsInv, TypeOK, Ids
<1>1. CASE ~Live(r)
  <2>1. ~CreateAccount(r) \/ pc'[r] # "bind"
    OBVIOUS
  <2> QED BY <1>0, <1>1, <2>1, PasswordStep DEF WayIn
<1>2. CASE Live(r) /\ ~IsCallback(r)
  BY <1>0, <1>2, PasswordStep DEF HasPassword, WayIn
<1>3. CASE Live(r) /\ IsCallback(r)
  <2>1. saw[r].made
    BY <1>0, <1>3 DEF Fresh, Made, Live
  <2>2. pc[r] \in {"bind", "insert", "winner", "dedupe", "read"}
    BY <1>0, <1>3, <2>1, Alone DEF Fresh, CallFits, IsCallback
  <2>3. pc[r] \notin {"winner", "dedupe"}
    BY <1>3, <2>1 DEF MadeWays
  <2>4. pc[r] # "bind"
    <3>1. Bind(r) => pc'[r] # "done"
      BY <1>0 DEF Bind, Goto
    <3> QED BY <1>0, <1>3, <3>1, CallbackSteps DEF ClaimState, Fetch, ResolveAccount, Match, Taken, CreateAccount,
              InsertConnection, Winner, Dedupe, ReadUser, At
  <2>5. pc[r] # "insert"
    <3>1. pc[r] = "insert" => saw[r].account = r /\ connection[call[r].profile] = None
      BY <1>3, <2>1 DEF MadeWays, LeadsNowhere
    <3>2. InsertConnection(r) /\ pc[r] = "insert" => pc'[r] # "done"
      BY <1>0, <1>3, <3>1 DEF InsertConnection, Goto
    <3> QED BY <1>0, <1>3, <3>2, CallbackSteps DEF ClaimState, Fetch, ResolveAccount, Match, Taken, CreateAccount,
              Bind, Winner, Dedupe, ReadUser, At
  <2>6. pc[r] = "read" /\ ReadUser(r)
    BY <1>0, <1>3, <2>2, <2>3, <2>4, <2>5, CallbackSteps DEF ClaimState, Fetch, ResolveAccount, Match, Taken,
       CreateAccount, Bind, InsertConnection, Winner, Dedupe, At
  <2>7. WayIn(r)
    BY <1>3, <2>1, <2>6 DEF MadeWays
  <2> QED BY <2>6, <2>7 DEF ReadUser, rows, WayIn, ConnectionsOf
<1> QED BY <1>1, <1>2, <1>3

LEMMA WayInStep ==
    ASSUME AccountsInv, WaysInv, NEW r \in Requests, Proceed(r)
    PROVE  WayInUnlessRaced'
<1>0. /\ TypeOK /\ CallFits(r) /\ Knows(r) /\ Fresh(r) /\ call' = call /\ [Next]_vars /\ failed \subseteq failed'
      /\ pc \in [Requests -> Steps]
  <2>1. TypeOK /\ CallFits(r)
    BY DEF AccountsInv
  <2> QED BY <2>1, PlaceType, FailedGrows DEF AccountsInv, TypeOK, Next
<1> SUFFICES ASSUME NEW a \in Ids, Live(a)', ~WayIn(a)', ~TwoRemovals(a)',
                    a \in Requests => pc'[a] \in {"idle", "done"} /\ a \notin failed' /\ ~Raced(a)'
             PROVE  FALSE
  BY DEF WayInUnlessRaced, Running
<1>1. ~TwoRemovals(a) /\ (a \in Requests => a \notin failed /\ ~Raced(a))
  BY <1>0, RacesStay
<1>2. Live(a) => ~WayIn(a)
  BY <1>0, <1>1, WayInKept DEF WaysInv
<1>3. CASE a = r
  <2>1. pc'[r] = "done"
    <3>1. pc'[r] # "idle"
      <4>1. AccountsInv' /\ call[r].op # "none"
        BY <1>0, AccountsInvStep, Alone DEF CallFits
      <4> QED BY <1>0, <4>1 DEF AccountsInv, CallFits
    <3> QED BY <1>3, <3>1
  <2> QED BY <1>1, <1>3, <2>1, EndsWithAWayIn DEF WaysInv
<1>4. CASE a # r
  <2>1. Live(a)
    BY <1>0, <1>4, PasswordStep
  <2>2. a \in Requests /\ Running(a)
    BY <1>1, <1>2, <2>1 DEF WaysInv, WayInUnlessRaced
  <2> QED BY <1>0, <1>4, <2>2, Alone DEF Running
<1> QED BY <1>3, <1>4

LEMMA WaysInvStep ==
    ASSUME AccountsInv, RanTogether, WaysInv, [Next]_vars
    PROVE  WaysInv'
<1>1. CASE Quiet
  <2>0. /\ user' = user /\ connection' = connection /\ saw' = saw /\ failed \subseteq failed'
        /\ \A q \in Requests : Stands(q) \/ CutOff(q) \/ Starts(q)
        /\ \A q \in Requests : CallFits(q)
    BY <1>1 DEF Quiet, AccountsInv
  <2>1. ASSUME NEW q \in Requests
        PROVE  HasPassword(q)' /\ MadeWays(q)' /\ Checked(q)'
    <3>0. HasPassword(q) /\ MadeWays(q) /\ Checked(q) /\ (Raced(q) => Raced(q)') /\ \A a : TwoRemovals(a) => TwoRemovals(a)'
      BY RacesStay DEF WaysInv
    <3>1. CASE Starts(q)
      <4>1. HasPassword(q)'
        BY <2>0, <3>0, <3>1 DEF Starts, HasPassword, IsCallback, CallFits, Live
      <4>2. MadeWays(q)' /\ Checked(q)'
        BY <3>1 DEF Starts, MadeWays, IsCallback, Checked
      <4> QED BY <4>1, <4>2
    <3>2. CASE Stands(q) \/ CutOff(q)
      <4>0. call'[q] = call[q] /\ (pc'[q] = pc[q] \/ pc'[q] = "done")
        BY <3>2 DEF Stands, CutOff
      <4>1. HasPassword(q)'
        BY <2>0, <3>0, <4>0 DEF HasPassword, IsCallback, Live
      <4>2. MadeWays(q)'
        BY <2>0, <3>0, <4>0 DEF MadeWays, IsCallback, LeadsNowhere, Live, WayIn, ConnectionsOf
      <4>3. Checked(q)'
        BY <2>0, <3>0, <4>0 DEF Checked, Live, LeavesAWayIn, ConnectionsOf, Matching
      <4> QED BY <4>1, <4>2, <4>3
    <3> QED BY <2>0, <3>1, <3>2
  <2>2. ASSUME NEW a \in Ids, Live(a)', ~WayIn(a)'
        PROVE  (a \in Requests /\ (Running(a)' \/ a \in failed' \/ Raced(a)')) \/ TwoRemovals(a)'
    <3>1. Live(a) /\ ~WayIn(a)
      BY <2>0, <2>2 DEF Live, WayIn, ConnectionsOf
    <3>2. (a \in Requests /\ (Running(a) \/ a \in failed \/ Raced(a))) \/ TwoRemovals(a)
      BY <3>1 DEF WaysInv, WayInUnlessRaced
    <3>3. a \in Requests /\ Running(a) => Running(a)' \/ a \in failed'
      BY <2>0 DEF Stands, CutOff, Starts, Running
    <3> QED BY <2>0, <3>2, <3>3, RacesStay
  <2> QED BY <2>1, <2>2 DEF WaysInv, WayInUnlessRaced
<1>2. ASSUME NEW r \in Requests, Proceed(r)
      PROVE  WaysInv'
  <2>0. TypeOK /\ CallFits(r) /\ Knows(r) /\ Fresh(r) /\ call' = call
    BY <1>2, PlaceType DEF AccountsInv
  <2>1. ASSUME NEW q \in Requests
        PROVE  HasPassword(q)'
    <3>1. q \in Ids /\ (CreateAccount(r) => IsCallback(r))
      BY DEF Ids, CreateAccount, At, IsCallback
    <3> QED BY <1>2, <2>0, <3>1, PasswordStep DEF WaysInv, HasPassword, IsCallback
  <2>2. ASSUME NEW q \in Requests
        PROVE  MadeWays(q)'
    <3>1. CASE Raced(q)'
      BY <3>1 DEF MadeWays
    <3>2. CASE ~Raced(q)'
      BY <1>2, <3>2, MadeWaysByItself, MadeWaysByOthers DEF WaysInv
    <3> QED BY <3>1, <3>2
  <2>3. \A q \in Requests : Checked(q)'
    BY <1>2, CheckedStep DEF WaysInv
  <2> QED BY <1>2, <2>1, <2>2, <2>3, WayInStep DEF WaysInv
<1> QED BY <1>1, <1>2, QuietStep

\* An account keeps a way in: what unlink checked still holds when it deletes,
\* and a sign-in connects the account it made, races apart (oauth_routes.rs
\* callback, insert_connection and unlink).
THEOREM WaysInStay == Spec => []WayInUnlessRaced
<1>1. Init => WaysInv
  <2> SUFFICES ASSUME Init PROVE WaysInv
    OBVIOUS
  <2>1. ASSUME NEW r \in Requests
        PROVE  HasPassword(r) /\ MadeWays(r) /\ Checked(r)
    <3>1. r \in Ids /\ r \notin People /\ pc[r] \in {"idle", "done"}
      BY ConstantsAssumption DEF Init, Ids
    <3> QED BY <3>1 DEF Init, HasPassword, Live, NoUser, MadeWays, Checked
  <2>2. ASSUME NEW a \in Ids, Live(a)
        PROVE  WayIn(a)
    <3>1. a \in People
      BY <2>2 DEF Init, Live, NoUser
    <3>2. CASE a \notin Keyless
      BY <3>1, <3>2 DEF Init, WayIn, Ids
    <3>3. CASE a \in Keyless
      <4>1. PICK k \in DOMAIN Linked : Linked[k] = a
        BY <3>3, ConstantsAssumption
      <4>2. k \in Profiles /\ connection[k] = a
        BY <4>1, ConstantsAssumption DEF Init
      <4> QED BY <4>2 DEF WayIn, ConnectionsOf
    <3> QED BY <3>2, <3>3
  <2> QED BY <2>1, <2>2 DEF WaysInv, WayInUnlessRaced
<1>2. AccountsInv /\ RanTogether /\ WaysInv /\ [Next]_vars => WaysInv'
  BY WaysInvStep
<1>3. WaysInv => WayInUnlessRaced
  BY DEF WaysInv
<1> QED BY <1>1, <1>2, <1>3, AccountsInvariant, RunningOverlap, PTL DEF Spec
====
