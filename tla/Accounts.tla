---- MODULE Accounts ----
(***************************************************************************)
(* How a person gets into their account: a password, a link sent to their  *)
(* address, or a sign-in at a provider; and how the ways in are added and  *)
(* removed.                                                                *)
(*                                                                         *)
(* A request is a handler and each of its statements is a step. Unique     *)
(* columns (a user's address, a connection's provider_key) and the claim   *)
(* of a token or of a sign-in are decided by the database in one step;     *)
(* what a handler read before is as old as the steps since make it.        *)
(***************************************************************************)
EXTENDS Naturals, FiniteSets

CONSTANTS Requests,         \* the requests ever made
          People,           \* accounts that exist at the start
          Keyless,          \* those of them without a password
          Addresses,        \* addresses mail can be sent to
          AddressOf,        \* the address each of People registered with
          Profiles,         \* accounts people have at providers
          ProviderOf,       \* the provider of each
          Claims,           \* what the provider may say of each: address and whether verified
          Linked,           \* connections at the start: the owner of some of Profiles
          Begun,            \* sign-ins begun before: [provider, link] of some of Requests
          Offered,          \* the operations the application offers
          RequireVerified,  \* [auth] require_email_verification
          MaxFaults         \* bound on requests a crash or an error ends midway

Operations == {"register", "login", "forgot", "resend", "verify", "reset", "begin", "callback", "unlink"}
Ids == People \cup Requests             \* an account made by a request bears its name
Identities == Addresses \cup Profiles   \* a profile without an address stands for one

ASSUME ConstantsAssumption ==
    /\ People \cap Requests = {} /\ "none" \notin Ids \cup Identities
    /\ Addresses \cap Profiles = {} /\ Keyless \subseteq People
    /\ AddressOf \in [People -> Addresses]
    /\ \A p, q \in People : AddressOf[p] = AddressOf[q] => p = q
    /\ DOMAIN ProviderOf = Profiles
    /\ \A k \in Profiles : Claims[k] \subseteq [email: Addresses \cup {"none"}, verified: BOOLEAN]
    /\ DOMAIN Linked \subseteq Profiles /\ \A k \in DOMAIN Linked : Linked[k] \in People
    /\ \A p \in Keyless : \E k \in DOMAIN Linked : Linked[k] = p
    /\ DOMAIN Begun \subseteq Requests
    /\ \A f \in DOMAIN Begun :
          Begun[f] \in [provider: {ProviderOf[k] : k \in Profiles}, link: People \cup {"none"}]
    /\ Offered \subseteq Operations
    /\ RequireVerified \in BOOLEAN /\ MaxFaults \in Nat

Providers == {ProviderOf[k] : k \in Profiles}

VARIABLES user,         \* the accounts
          connection,   \* oauth_connection: the owner of each profile
          token,        \* auth_token rows, by the request that minted them
          flow,         \* oauth_state rows, by the request that began them
          pc,           \* where a request stands
          call,         \* what it was asked
          saw,          \* what it knows: the account, whether it made it, the profile's claim
          session,      \* whose session it answered with
          failed,       \* requests that ended midway
          together,     \* history: pairs of requests that ran at the same time
          before        \* history: the requests that had ended when one began

rows == <<user, connection, token, flow>>
vars == <<user, connection, token, flow, pc, call, saw, session, failed, together, before>>

None == "none"
User == [state: {"none", "live", "gone"}, address: Identities \cup {None}, password: BOOLEAN, verified: BOOLEAN]
Token == [kind: {"none", "verify", "reset"}, of: Ids \cup {None}, state: {"minted", "mailed", "used", "expired"}]
Flow == [provider: Providers \cup {None}, link: Ids \cup {None}, state: {"none", "open", "used", "expired"}]
Call == [op: Operations \cup {None}, who: Ids \cup {None}, address: Addresses \cup {None},
         with: Requests \cup {None}, profile: Profiles \cup {None}]
Saw == [account: Ids \cup {None}, made: BOOLEAN, email: Addresses \cup {None}, vouched: BOOLEAN, link: Ids \cup {None}]
Steps == {"idle", "done", "find", "create", "mint", "mail", "spend", "mark", "set", "sweep", "enter",
          "claim", "fetch", "resolve", "match", "taken", "bind", "insert", "winner", "dedupe", "read",
          "check", "delete"}

Live(a) == user[a].state = "live"

TypeOK ==
    /\ user \in [Ids -> User]
    /\ connection \in [Profiles -> Ids \cup {None}]
    /\ token \in [Requests -> Token]
    /\ flow \in [Requests -> Flow]
    /\ pc \in [Requests -> Steps]
    /\ call \in [Requests -> Call]
    /\ saw \in [Requests -> Saw]
    /\ session \in [Requests -> Ids \cup {None}]
    /\ failed \subseteq Requests
    /\ together \subseteq SUBSET Requests
    /\ before \in [Requests -> SUBSET Requests]
    \* what refers to an account refers to one that is there
    /\ \A k \in Profiles : connection[k] # None => Live(connection[k])
    /\ \A t \in Requests : token[t].of # None => Live(token[t].of)

NoUser == [state |-> "none", address |-> None, password |-> FALSE, verified |-> FALSE]
NoToken == [kind |-> "none", of |-> None, state |-> "used"]
NoFlow == [provider |-> None, link |-> None, state |-> "none"]
NoCall == [op |-> None, who |-> None, address |-> None, with |-> None, profile |-> None]
Nothing == [account |-> None, made |-> FALSE, email |-> None, vouched |-> FALSE, link |-> None]

Init ==
    /\ user = [a \in Ids |-> IF a \in People
                             THEN [state |-> "live", address |-> AddressOf[a],
                                   password |-> a \notin Keyless, verified |-> TRUE]
                             ELSE NoUser]
    /\ connection = [k \in Profiles |-> IF k \in DOMAIN Linked THEN Linked[k] ELSE None]
    /\ token = [r \in Requests |-> NoToken]
    /\ flow = [r \in Requests |-> IF r \in DOMAIN Begun
                                  THEN [provider |-> Begun[r].provider, link |-> Begun[r].link, state |-> "open"]
                                  ELSE NoFlow]
    /\ pc = [r \in Requests |-> IF r \in DOMAIN Begun THEN "done" ELSE "idle"]
    /\ call = [r \in Requests |-> IF r \in DOMAIN Begun THEN [NoCall EXCEPT !.op = "begin"] ELSE NoCall]
    /\ saw = [r \in Requests |-> Nothing]
    /\ session = [r \in Requests |-> None]
    /\ failed = {} /\ together = {}
    /\ before = [r \in Requests |-> {}]

----------------------------------------------------------------------------
AccountsAt(address) == {a \in Ids : Live(a) /\ user[a].address = address}
SignedIn(a) == a \in People \/ \E r \in Requests : session[r] = a
Usable(t) == token[t].kind # "none" /\ token[t].state = "mailed"
ConnectionsOf(a) == {k \in Profiles : connection[k] = a}

Running(r) == pc[r] \notin {"idle", "done"}
At(r, op, step) == call[r].op = op /\ pc[r] = step
Goto(r, step) == pc' = [pc EXCEPT ![r] = step]
Answer(r, a) == session' = [session EXCEPT ![r] = a] /\ Goto(r, "done")
Know(r, what) == saw' = [saw EXCEPT ![r] = what]

history == <<failed, together, before>>

\* A statement fails whose error is not looked at.
Overlooked(r) ==
    /\ Cardinality(failed) < MaxFaults
    /\ failed' = failed \cup {r}
    /\ UNCHANGED <<together, before>>

Begin(r, c, step) ==
    /\ pc[r] = "idle" /\ c.op \in Offered
    /\ call' = [call EXCEPT ![r] = c]
    /\ Goto(r, step)
    /\ together' = together \cup {{r, s} : s \in {s \in Requests : Running(s)}}
    /\ before' = [before EXCEPT ![r] = {s \in Requests : pc[s] = "done"}]
    /\ UNCHANGED <<rows, saw, session, failed>>

Arrive(r) ==
    \/ \E e \in Addresses :
          \/ Begin(r, [NoCall EXCEPT !.op = "register", !.address = e], "create")
          \/ Begin(r, [NoCall EXCEPT !.op = "forgot", !.address = e], "find")
          \/ Begin(r, [NoCall EXCEPT !.op = "resend", !.address = e], "find")
    \/ \E a \in Ids :
          \/ Live(a) /\ user[a].password /\ Begin(r, [NoCall EXCEPT !.op = "login", !.who = a], "enter")
          \/ /\ Live(a) /\ SignedIn(a)
             /\ \E k \in Profiles : Begin(r, [NoCall EXCEPT !.op = "unlink", !.who = a, !.profile = k], "check")
    \/ \E t \in Requests :
          \/ Usable(t) /\ token[t].kind = "verify" /\ Begin(r, [NoCall EXCEPT !.op = "verify", !.with = t], "spend")
          \/ Usable(t) /\ token[t].kind = "reset" /\ Begin(r, [NoCall EXCEPT !.op = "reset", !.with = t], "spend")
    \/ \E k \in Profiles, a \in Ids \cup {None} :
          /\ a # None => Live(a) /\ SignedIn(a)
          /\ Begin(r, [NoCall EXCEPT !.op = "begin", !.who = a, !.profile = k], "insert")
    \/ \E k \in Profiles, f \in Requests :
          /\ flow[f].state = "open" /\ flow[f].provider = ProviderOf[k]
          /\ Begin(r, [NoCall EXCEPT !.op = "callback", !.with = f, !.profile = k], "claim")

----------------------------------------------------------------------------
(* Registration, login and the links sent by mail.                         *)

NewUser(identity, password, verified) ==
    [state |-> "live", address |-> identity, password |-> password, verified |-> verified]

\* The address is unique.
Register(r) ==
    /\ At(r, "register", "create")
    /\ IF AccountsAt(call[r].address) # {}
       THEN Goto(r, "done") /\ UNCHANGED <<user, saw, session>>
       ELSE /\ user' = [user EXCEPT ![r] = NewUser(call[r].address, TRUE, FALSE)]
            /\ Know(r, [Nothing EXCEPT !.account = r, !.made = TRUE])
            /\ IF RequireVerified THEN Goto(r, "mint") /\ UNCHANGED session ELSE Answer(r, r)
    /\ UNCHANGED <<connection, token, flow, call, history>>

EnterUnconfirmed(a) == TRUE
MayEnter(a) == RequireVerified => user[a].verified

Login(r) ==
    /\ At(r, "login", "enter")
    /\ IF Live(call[r].who) /\ MayEnter(call[r].who)
       THEN Answer(r, call[r].who) ELSE Goto(r, "done") /\ UNCHANGED session
    /\ UNCHANGED <<rows, call, saw, history>>

\* A reset goes to any account at the address, a new confirmation to one not confirmed.
Find(r) ==
    /\ pc[r] = "find"
    /\ \/ \E a \in AccountsAt(call[r].address) :
             /\ call[r].op = "resend" => ~user[a].verified
             /\ Know(r, [Nothing EXCEPT !.account = a]) /\ Goto(r, "mint")
       \/ /\ \A a \in AccountsAt(call[r].address) : call[r].op = "resend" /\ user[a].verified
          /\ Goto(r, "done") /\ UNCHANGED saw
    /\ UNCHANGED <<rows, call, session, history>>

Kind(r) == IF call[r].op = "forgot" THEN "reset" ELSE "verify"

\* The token refers to the account.
Mint(r) ==
    /\ pc[r] = "mint"
    /\ IF Live(saw[r].account)
       THEN /\ token' = [token EXCEPT ![r] = [kind |-> Kind(r), of |-> saw[r].account, state |-> "minted"]]
            /\ Goto(r, "mail")
       ELSE Goto(r, "done") /\ UNCHANGED token
    /\ UNCHANGED <<user, connection, flow, call, saw, session, history>>

Mail(r) ==
    /\ pc[r] = "mail"
    /\ token' = [token EXCEPT ![r].state = IF @ = "minted" THEN "mailed" ELSE @]
    /\ Goto(r, "done")
    /\ UNCHANGED <<user, connection, flow, call, saw, session, history>>

Lapse(t) ==
    /\ \/ token[t].state = "mailed" /\ token' = [token EXCEPT ![t].state = "expired"] /\ UNCHANGED flow
       \/ flow[t].state = "open" /\ flow' = [flow EXCEPT ![t].state = "expired"] /\ UNCHANGED token
    /\ UNCHANGED <<user, connection, pc, call, saw, session, history>>

\* The claim is the UPDATE: of two requests with one link, one finds it unused.
UnspentUnclaimed(t) == token[t].state \in {"mailed", "used"}
Unspent(t) == token[t].state = "mailed"

Spend(r) ==
    /\ pc[r] = "spend"
    /\ LET t == call[r].with
       IN IF Unspent(t)
          THEN /\ token' = [token EXCEPT ![t].state = "used"]
               /\ Know(r, [Nothing EXCEPT !.account = token[t].of])
               /\ Goto(r, IF call[r].op = "reset" THEN "set" ELSE "mark")
          ELSE Goto(r, "done") /\ UNCHANGED <<token, saw>>
    /\ UNCHANGED <<user, connection, flow, call, session, history>>

\* An account deleted meanwhile is not updated; its session is issued all the same.
Mark(r) ==
    /\ pc[r] = "mark"
    /\ user' = [user EXCEPT ![saw[r].account].verified = @ \/ Live(saw[r].account)]
    /\ Answer(r, saw[r].account)
    /\ UNCHANGED <<connection, token, flow, call, saw, history>>

SetPassword(r) ==
    /\ pc[r] = "set"
    /\ LET a == saw[r].account
       IN user' = [user EXCEPT ![a].verified = @ \/ Live(a), ![a].password = @ \/ Live(a)]
    /\ Goto(r, "sweep")
    /\ UNCHANGED <<connection, token, flow, call, saw, session, history>>

\* Every other reset still out for the account is spent.
SweepNone(t, a) == token[t]
SweepOne(t, a) ==
    IF token[t].kind = "reset" /\ token[t].of = a /\ token[t].state # "expired"
    THEN [token[t] EXCEPT !.state = "used"] ELSE token[t]

Sweep(r) ==
    /\ pc[r] = "sweep"
    /\ \/ token' = [t \in Requests |-> SweepOne(t, saw[r].account)] /\ UNCHANGED history
       \/ Overlooked(r) /\ UNCHANGED token
    /\ Answer(r, saw[r].account)
    /\ UNCHANGED <<user, connection, flow, call, saw>>

----------------------------------------------------------------------------
(* Signing in at a provider.                                               *)

\* A sign-in begun from a session will link; the session is read now.
BeginFlow(r) ==
    /\ At(r, "begin", "insert")
    /\ flow' = [flow EXCEPT ![r] = [provider |-> ProviderOf[call[r].profile], link |-> call[r].who, state |-> "open"]]
    /\ Goto(r, "done")
    /\ UNCHANGED <<user, connection, token, call, saw, session, history>>

ClaimState(r) ==
    /\ pc[r] = "claim"
    /\ LET f == call[r].with
       IN IF flow[f].state = "open"
          THEN /\ flow' = [flow EXCEPT ![f].state = "used"]
               /\ Know(r, [Nothing EXCEPT !.link = flow[f].link])
               /\ Goto(r, "fetch")
          ELSE Goto(r, "done") /\ UNCHANGED <<flow, saw>>
    /\ UNCHANGED <<user, connection, token, call, session, history>>

\* What the provider says of the profile today.
Fetch(r) ==
    /\ pc[r] = "fetch"
    /\ \E c \in Claims[call[r].profile] :
          Know(r, [saw[r] EXCEPT !.email = c.email, !.vouched = c.verified])
    /\ Goto(r, "resolve")
    /\ UNCHANGED <<rows, call, session, history>>

\* Signed in as one person, finishing a link that belongs to another.
LinksAnyway(r) == FALSE
LinksAnothers(r) ==
    connection[call[r].profile] # None /\ saw[r].link \notin {None, connection[call[r].profile]}

\* Returning, linking, or somebody this sign-in has yet to find.
ResolveAccount(r) ==
    /\ pc[r] = "resolve"
    /\ LET owner == connection[call[r].profile]
           link == saw[r].link
       IN \/ LinksAnothers(r) /\ Goto(r, "done") /\ UNCHANGED saw
          \/ /\ owner # None /\ ~LinksAnothers(r)
             /\ Know(r, [saw[r] EXCEPT !.account = owner]) /\ Goto(r, "bind")
          \/ /\ owner = None /\ link # None
             /\ Know(r, [saw[r] EXCEPT !.account = link]) /\ Goto(r, "bind")
          \/ owner = None /\ link = None /\ Goto(r, "match") /\ UNCHANGED saw
    /\ UNCHANGED <<rows, call, session, history>>

\* Only an address the provider verified leads to an account that has it.
Match(r) ==
    /\ pc[r] = "match"
    /\ \/ \E a \in AccountsAt(saw[r].email) :
             saw[r].vouched /\ Know(r, [saw[r] EXCEPT !.account = a]) /\ Goto(r, "bind")
       \/ (~saw[r].vouched \/ AccountsAt(saw[r].email) = {}) /\ Goto(r, "taken") /\ UNCHANGED saw
    /\ UNCHANGED <<rows, call, session, history>>

Identity(r) == IF saw[r].email # None THEN saw[r].email ELSE call[r].profile

\* The address is somebody's: refused, with advice.
Taken(r) ==
    /\ pc[r] = "taken"
    /\ Goto(r, IF AccountsAt(Identity(r)) # {} THEN "done" ELSE "create")
    /\ UNCHANGED <<rows, call, saw, session, history>>

CreateAccount(r) ==
    /\ At(r, "callback", "create")
    /\ IF AccountsAt(Identity(r)) # {}
       THEN Goto(r, "done") /\ UNCHANGED <<user, saw>>
       ELSE /\ user' = [user EXCEPT ![r] = NewUser(Identity(r), FALSE, saw[r].vouched /\ saw[r].email # None)]
            /\ Know(r, [saw[r] EXCEPT !.account = r, !.made = TRUE])
            /\ Goto(r, "bind")
    /\ UNCHANGED <<connection, token, flow, call, session, history>>

\* The connection may be there by now: its owner is who signs in.
Bind(r) ==
    /\ pc[r] = "bind"
    /\ LET owner == connection[call[r].profile]
       IN IF owner # None THEN Know(r, [saw[r] EXCEPT !.account = owner]) /\ Goto(r, "read")
                          ELSE Goto(r, "insert") /\ UNCHANGED saw
    /\ UNCHANGED <<rows, call, session, history>>

\* provider_key is unique, and the owner must exist.
InsertConnection(r) ==
    /\ At(r, "callback", "insert")
    /\ LET k == call[r].profile
       IN \/ connection[k] # None /\ Goto(r, "winner") /\ UNCHANGED connection
          \/ connection[k] = None /\ ~Live(saw[r].account) /\ Goto(r, "done") /\ UNCHANGED connection
          \/ /\ connection[k] = None /\ Live(saw[r].account)
             /\ connection' = [connection EXCEPT ![k] = saw[r].account] /\ Goto(r, "read")
    /\ UNCHANGED <<user, token, flow, call, saw, session, history>>

\* The race is lost: the connection's owner signs in, unless it is gone again.
Winner(r) ==
    /\ pc[r] = "winner"
    /\ LET owner == connection[call[r].profile]
       IN \/ owner = None /\ Goto(r, "done") /\ UNCHANGED saw
          \/ /\ owner # None
             /\ Know(r, [saw[r] EXCEPT !.account = owner])
             /\ Goto(r, IF saw[r].made /\ owner # r THEN "dedupe" ELSE "read")
    /\ UNCHANGED <<rows, call, session, history>>

\* Deleting an account takes its connections and tokens with it.
ForgetTheRowAlone(a) ==
    /\ user' = [user EXCEPT ![a] = [NoUser EXCEPT !.state = "gone"]]
    /\ UNCHANGED <<connection, token, flow>>
Forget(a) ==
    /\ user' = [user EXCEPT ![a] = [NoUser EXCEPT !.state = "gone"]]
    /\ connection' = [k \in Profiles |-> IF connection[k] = a THEN None ELSE connection[k]]
    /\ token' = [t \in Requests |-> IF token[t].of = a THEN NoToken ELSE token[t]]
    /\ flow' = [f \in Requests |-> IF flow[f].link = a THEN NoFlow ELSE flow[f]]

Dedupe(r) ==
    /\ pc[r] = "dedupe"
    /\ \/ Forget(r) /\ UNCHANGED history
       \/ Overlooked(r) /\ UNCHANGED rows
    /\ Goto(r, "read")
    /\ UNCHANGED <<call, saw, session>>

ReadUser(r) ==
    /\ pc[r] = "read"
    /\ IF Live(saw[r].account) /\ MayEnter(saw[r].account)
       THEN Answer(r, saw[r].account) ELSE Goto(r, "done") /\ UNCHANGED session
    /\ UNCHANGED <<rows, call, saw, history>>

----------------------------------------------------------------------------
(* Unlinking a provider.                                                   *)

Matching(r) == {k \in ConnectionsOf(call[r].who) : ProviderOf[k] = ProviderOf[call[r].profile]}

\* Some way in is left without the provider.
LeavesWhatItRemoves(r) == user[call[r].who].password \/ ConnectionsOf(call[r].who) # {}
LeavesAWayIn(r) ==
    user[call[r].who].password \/ ConnectionsOf(call[r].who) \ Matching(r) # {}

CheckUnlink(r) ==
    /\ pc[r] = "check"
    /\ Goto(r, IF Live(call[r].who) /\ Matching(r) # {} /\ LeavesAWayIn(r) THEN "delete" ELSE "done")
    /\ UNCHANGED <<rows, call, saw, session, history>>

Unlink(r) ==
    /\ pc[r] = "delete"
    /\ connection' = [k \in Profiles |-> IF k \in Matching(r) THEN None ELSE connection[k]]
    /\ Goto(r, "done")
    /\ UNCHANGED <<user, token, flow, call, saw, session, history>>

----------------------------------------------------------------------------
\* The process stops, a statement, the provider or the mailer fails, a hook rejects.
Fail(r) ==
    /\ Running(r) /\ Cardinality(failed) < MaxFaults
    /\ failed' = failed \cup {r}
    /\ Goto(r, "done")
    /\ UNCHANGED <<rows, call, saw, session, together, before>>

Proceed(r) ==
    \/ Register(r) \/ Login(r) \/ Find(r) \/ Mint(r) \/ Mail(r)
    \/ Spend(r) \/ Mark(r) \/ SetPassword(r) \/ Sweep(r)
    \/ BeginFlow(r) \/ ClaimState(r) \/ Fetch(r) \/ ResolveAccount(r) \/ Match(r) \/ Taken(r)
    \/ CreateAccount(r) \/ Bind(r) \/ InsertConnection(r) \/ Winner(r) \/ Dedupe(r) \/ ReadUser(r)
    \/ CheckUnlink(r) \/ Unlink(r)

Next == \E r \in Requests : Arrive(r) \/ Proceed(r) \/ Fail(r) \/ Lapse(r)

Spec == Init /\ [][Next]_vars

----------------------------------------------------------------------------
(* Properties.                                                             *)

Overlapped(r, s) == {r, s} \in together
IsCallback(r) == call[r].op = "callback"

\* Where an address must be confirmed, nobody holds a session for an account
\* whose address is not, whichever door they came through. (A session may
\* outlive the account.)
NoSessionUnverified ==
    RequireVerified => \A r \in Requests :
        session[r] # None /\ Live(session[r]) => user[session[r]].verified

\* A link or a provider's redirect admits one request, however often it is
\* clicked (email_auth.rs spend_token, oauth_routes.rs claim_state).
AdmitsOnce ==
    \A r, s \in Requests :
        /\ call[r].with # None /\ call[r].with = call[s].with /\ call[r].op = call[s].op
        /\ session[r] # None /\ session[s] # None
        => r = s

\* A password reset retires every reset link the account was sent before the
\* reset began (email_auth.rs reset_password), unless the statement that does so
\* failed, which the reset does not look at.
ResetRetiresOlderLinks ==
    \A r, t \in Requests :
        /\ call[r].op = "reset" /\ pc[r] = "done" /\ session[r] # None /\ r \notin failed
        /\ t \in before[r] /\ token[t].kind = "reset" /\ token[t].of = session[r]
        => ~Usable(t)

\* Another sign-in with the same profile ran at the same time.
Raced(r) ==
    /\ IsCallback(r)
    /\ \E s \in Requests : s # r /\ IsCallback(s) /\ Overlapped(r, s) /\ call[s].profile = call[r].profile

\* A sign-in begun from a session ends in that account's session or in none,
\* unless another sign-in with the same profile ran at the same time.
LinkEndsWithItsOwner ==
    \A r \in Requests :
        IsCallback(r) /\ saw[r].link # None /\ session[r] # None => session[r] = saw[r].link \/ Raced(r)

WayIn(a) == user[a].password \/ ConnectionsOf(a) # {}

\* Two requests removed a way into the account at the same time.
TwoRemovals(a) ==
    \E r, s \in Requests :
        /\ r # s /\ Overlapped(r, s)
        /\ \A u \in {r, s} : call[u].op = "unlink" /\ call[u].who = a

\* An account can be entered, by password or by a provider, unless the request
\* that made it is running, was cut off or raced, or two requests removed its
\* ways in at once.
WayInUnlessRaced ==
    \A a \in Ids : Live(a) /\ ~WayIn(a) =>
        \/ a \in Requests /\ (Running(a) \/ a \in failed \/ Raced(a))
        \/ TwoRemovals(a)

\* What the code says of a lost race (oauth_routes.rs 708-715): the loser uses
\* the winner's account, and takes its own back out again if it had just
\* created one.
LoserLeavesNothing ==
    \A r \in Requests :
        IsCallback(r) /\ pc[r] = "done" /\ saw[r].made /\ r \notin failed
            => saw[r].account = r \/ ~Live(r)
====
