---- MODULE Organizations ----
(***************************************************************************)
(* Who is in an organisation and with which roles: memberships, further    *)
(* roles, invitations, accounts and the organisation each account gets.    *)
(*                                                                         *)
(* A request loads its caller once, looks at the rows it is about to       *)
(* change, and changes them in statements of their own: nothing holds a    *)
(* transaction or a constraint over the look and the write, so a step of   *)
(* any other request may fall between two steps of one.                    *)
(*                                                                         *)
(* One shared organisation, the team, is modelled with all its rows; every *)
(* other organisation is the place of one person and only its existence    *)
(* and its owner's membership are kept.                                    *)
(***************************************************************************)
EXTENDS Naturals, FiniteSets

CONSTANTS People,       \* everybody who may have an account
          Requests,     \* the requests ever made
          Admins,       \* people who are admins of the team at the start
          Plain,        \* people who are plain members of it at the start
          Standing,     \* links that stand at the start: some requests' invitees
          Offered,      \* the operations the application offers
          Given,        \* the roles an invitation or an addition names
          MaxFaults     \* bound on requests a crash or an error ends midway

Roles == {"admin", "member"}

\* Operations that may take an admin's role away.
Removals == {"drop", "setRole", "regrant", "ungrant"}
Operations == Removals \cup
    {"invite", "accept", "add", "grant", "revoke", "register", "found", "leave"}

ASSUME ConstantsAssumption ==
    /\ People \cap Requests = {}
    /\ {"team", "nobody"} \cap (People \cup Requests) = {}
    /\ Admins \subseteq People /\ Plain \subseteq People /\ Admins \cap Plain = {}
    /\ DOMAIN Standing \subseteq Requests
    /\ \A i \in DOMAIN Standing : Standing[i] \in People
    /\ \A i, j \in DOMAIN Standing : Standing[i] = Standing[j] => i = j
    /\ Offered \subseteq Operations
    /\ Given \subseteq Roles
    /\ MaxFaults \in Nat

\* A row made by a request bears its name, one of the start its person's.
Ids == People \cup Requests
Team == "team"

VARIABLES accounts,     \* people with a row in user
          place,        \* the organisation a person began with, or a request founded
          team,         \* whether the team's own row exists
          members,      \* the team's membership rows
          grants,       \* the team's membership_role rows
          links,        \* invitation rows, by the request that wrote them
          pc,           \* where a request stands
          call,         \* what it was asked
          saw,          \* organisations an account deletion read beforehand
          failed,       \* requests that ended midway, or whose best effort failed
          together,     \* history: pairs of requests that ran at the same time
          entered       \* history: requests that wrote a membership

rows == <<accounts, place, team, members, grants, links>>
vars == <<accounts, place, team, members, grants, links,
          pc, call, saw, failed, together, entered>>

Membership == [id: Ids, user: People, role: Roles]
Grant == [id: Requests, member: Ids, role: Roles]
Link == [to: People \cup {"nobody"}, role: Roles, state: {"none", "pending", "expired", "accepted", "gone"}, mailed: BOOLEAN]
Call == [op: Operations \cup {"none"}, by: People \cup {"nobody"}, whom: People \cup {"nobody"}, row: Ids \cup {"nobody"}, role: Roles]
Steps == {"idle", "done", "look", "clear", "insert", "mail", "unsend", "who", "signup", "home",
          "homeRole", "join", "enter", "stamp", "guard", "write", "gather", "erase", "discard"}

TypeOK ==
    /\ accounts \subseteq People
    /\ place \in [Ids -> {"none", "bare", "kept"}]
    /\ team \in BOOLEAN
    /\ members \subseteq Membership
    /\ grants \subseteq Grant
    /\ links \in [Requests -> Link]
    /\ pc \in [Requests -> Steps]
    /\ call \in [Requests -> Call]
    /\ saw \in [Requests -> SUBSET (Ids \cup {Team})]
    /\ failed \subseteq Requests
    /\ together \subseteq SUBSET Requests
    /\ entered \subseteq Requests
    \* a row refers to rows that are there
    /\ \A m \in members : m.user \in accounts
    /\ \A g \in grants : \E m \in members : m.id = g.member

NoLink == [to |-> "nobody", role |-> "member", state |-> "none", mailed |-> FALSE]
NoCall == [op |-> "none", by |-> "nobody", whom |-> "nobody", row |-> "nobody", role |-> "member"]

Init ==
    /\ accounts = Admins \cup Plain
    /\ place = [x \in Ids |-> IF x \in Admins \cup Plain THEN "kept" ELSE "none"]
    /\ team = TRUE
    /\ members = {[id |-> p, user |-> p, role |-> "admin"] : p \in Admins}
                 \cup {[id |-> p, user |-> p, role |-> "member"] : p \in Plain}
    /\ grants = {}
    /\ links = [r \in Requests |->
           IF r \in DOMAIN Standing
           THEN [to |-> Standing[r], role |-> "member", state |-> "pending", mailed |-> TRUE] ELSE NoLink]
    /\ pc = [r \in Requests |-> IF r \in DOMAIN Standing THEN "done" ELSE "idle"]
    /\ call = [r \in Requests |->
           IF r \in DOMAIN Standing THEN [NoCall EXCEPT !.op = "invite", !.whom = Standing[r]] ELSE NoCall]
    /\ saw = [r \in Requests |-> {}]
    /\ failed = {} /\ together = {} /\ entered = {}

----------------------------------------------------------------------------
(* What the rows say of a person.                                          *)

MembershipsOf(p) == {m \in members : m.user = p}
GrantsOf(p) == {g \in grants : \E m \in MembershipsOf(p) : m.id = g.member}

\* A request may take a person for an admin. The primary role is read from one
\* row; were there two, it would be either's.
MayAdminister(p) ==
    \/ \E m \in MembershipsOf(p) : m.role = "admin"
    \/ \E g \in GrantsOf(p) : g.role = "admin"

Running(r) == pc[r] \notin {"idle", "done"}
Pending(r) == links[r].state \in {"pending", "expired"}
OwnerOf(x) == IF x \in People THEN x ELSE call[x].by

Goto(r, step) == pc' = [pc EXCEPT ![r] = step]

\* A statement fails, and the request goes on as if it had found or done nothing.
Overlook(r, step) ==
    /\ Cardinality(failed) < MaxFaults
    /\ failed' = failed \cup {r}
    /\ Goto(r, step)

----------------------------------------------------------------------------
(* A request arrives: its caller is loaded and authorised once.            *)

Begin(r, c, step) ==
    /\ pc[r] = "idle" /\ c.op \in Offered
    /\ call' = [call EXCEPT ![r] = c]
    /\ Goto(r, step)
    /\ together' = together \cup {{r, s} : s \in {s \in Requests : Running(s)}}
    /\ UNCHANGED <<rows, saw, failed, entered>>

\* Only an admin of the team gets past the permission of these.
BeginAsAdmin(r) ==
    \E a \in accounts :
        /\ MayAdminister(a)
        /\ \/ \E p \in People, role \in Given :
                \/ Begin(r, [NoCall EXCEPT !.op = "invite", !.by = a, !.whom = p, !.role = role], "look")
                \/ Begin(r, [NoCall EXCEPT !.op = "add", !.by = a, !.whom = p, !.role = role], "look")
           \/ \E m \in members, role \in Roles :
                \/ Begin(r, [NoCall EXCEPT !.op = "drop", !.by = a, !.row = m.id], "guard")
                \/ Begin(r, [NoCall EXCEPT !.op = "setRole", !.by = a, !.row = m.id, !.role = role], "guard")
                \/ Begin(r, [NoCall EXCEPT !.op = "grant", !.by = a, !.row = m.id, !.role = role], "look")
           \/ \E g \in grants, role \in Roles :
                \/ Begin(r, [NoCall EXCEPT !.op = "ungrant", !.by = a, !.row = g.id], "guard")
                \/ Begin(r, [NoCall EXCEPT !.op = "regrant", !.by = a, !.row = g.id, !.role = role], "guard")
           \/ \E i \in {i \in Requests : Pending(i)} :
                Begin(r, [NoCall EXCEPT !.op = "revoke", !.by = a, !.row = i], "write")

\* The bearer of a live link, a newcomer, and anyone with an account.
BeginAsAnyone(r) ==
    \/ \E i \in {i \in Requests : links[i].state = "pending" /\ links[i].mailed} :
          Begin(r, [NoCall EXCEPT !.op = "accept", !.by = links[i].to, !.whom = links[i].to,
                                  !.row = i, !.role = links[i].role], "who")
    \/ \E p \in People : Begin(r, [NoCall EXCEPT !.op = "register", !.by = p, !.whom = p], "signup")
    \/ \E p \in accounts :
          \/ Begin(r, [NoCall EXCEPT !.op = "found", !.by = p], "home")
          \/ Begin(r, [NoCall EXCEPT !.op = "leave", !.by = p], "gather")

----------------------------------------------------------------------------
(* Inviting.                                                               *)

At(r, op, step) == call[r].op = op /\ pc[r] = step

NeverAMember(p) == FALSE
AlreadyAMember(p) == MembershipsOf(p) # {}

LookInvited(r) ==
    /\ At(r, "invite", "look")
    /\ Goto(r, IF AlreadyAMember(call[r].whom) THEN "done" ELSE "clear")
    /\ UNCHANGED <<rows, call, saw, failed, together, entered>>

\* A second invitation supersedes the first.
SupersededWhileValid(i, r) == links[i].state = "pending" /\ links[i].to = call[r].whom
Superseded(i, r) == Pending(i) /\ links[i].to = call[r].whom

Clear(r) ==
    /\ At(r, "invite", "clear")
    /\ links' = [i \in Requests |-> IF Superseded(i, r) THEN [links[i] EXCEPT !.state = "gone"]
                                                        ELSE links[i]]
    /\ Goto(r, "insert")
    /\ UNCHANGED <<accounts, place, team, members, grants, call, saw, failed, together, entered>>

InsertLink(r) ==
    /\ At(r, "invite", "insert")
    /\ IF team THEN /\ links' = [links EXCEPT ![r] = [to |-> call[r].whom, role |-> call[r].role,
                                                      state |-> "pending", mailed |-> FALSE]]
                    /\ Goto(r, "mail")
               ELSE Goto(r, "done") /\ UNCHANGED links
    /\ UNCHANGED <<accounts, place, team, members, grants, call, saw, failed, together, entered>>

\* The mailer takes the message or refuses it.
Mail(r) ==
    /\ At(r, "invite", "mail")
    /\ \/ links' = [links EXCEPT ![r].mailed = TRUE] /\ Goto(r, "done")
       \/ Goto(r, "unsend") /\ UNCHANGED links
    /\ UNCHANGED <<accounts, place, team, members, grants, call, saw, failed, together, entered>>

\* A row nobody was told about is not an invitation.
Unsend(r) ==
    /\ At(r, "invite", "unsend")
    /\ links' = [links EXCEPT ![r].state = "gone"]
    /\ Goto(r, "done")
    /\ UNCHANGED <<accounts, place, team, members, grants, call, saw, failed, together, entered>>

\* Revoking is deleting the row, whatever has become of it.
Revoke(r) ==
    /\ At(r, "revoke", "write")
    /\ links' = [links EXCEPT ![call[r].row].state = "gone"]
    /\ Goto(r, "done")
    /\ UNCHANGED <<accounts, place, team, members, grants, call, saw, failed, together, entered>>

\* The link's time runs out.
Expire(i) ==
    /\ links[i].state = "pending" /\ links[i].mailed
    /\ links' = [links EXCEPT ![i].state = "expired"]
    /\ UNCHANGED <<accounts, place, team, members, grants, pc, call, saw, failed, together, entered>>

----------------------------------------------------------------------------
(* Accepting, registering and founding.                                    *)

Who(r) ==
    /\ At(r, "accept", "who")
    /\ Goto(r, IF call[r].whom \in accounts THEN "join" ELSE "signup")
    /\ UNCHANGED <<rows, call, saw, failed, together, entered>>

\* The address is unique: the second account for it is refused.
SignUp(r) ==
    /\ pc[r] = "signup"
    /\ IF call[r].whom \in accounts THEN Goto(r, "done") /\ UNCHANGED accounts
                                    ELSE Goto(r, "home") /\ accounts' = accounts \cup {call[r].whom}
    /\ UNCHANGED <<place, team, members, grants, links, call, saw, failed, together, entered>>

\* The request founds an organisation: its caller's new one, or the newcomer's own.
AfterHome(r) == IF call[r].op = "accept" THEN "join" ELSE "done"

\* A newcomer's place is best effort: an error is logged and the request goes on.
Shrug(r) == Overlook(r, AfterHome(r)) /\ UNCHANGED place

Home(r) ==
    /\ pc[r] = "home"
    /\ \/ place' = [place EXCEPT ![r] = "bare"] /\ Goto(r, "homeRole") /\ UNCHANGED failed
       \/ Shrug(r)
    /\ UNCHANGED <<accounts, team, members, grants, links, call, saw, together, entered>>

\* The membership refers to the account, which may be gone by now.
HomeRole(r) ==
    /\ pc[r] = "homeRole"
    /\ \/ /\ place' = IF call[r].by \in accounts THEN [place EXCEPT ![r] = "kept"] ELSE place
          /\ Goto(r, AfterHome(r))
          /\ UNCHANGED failed
       \/ Shrug(r)
    /\ UNCHANGED <<accounts, team, members, grants, links, call, saw, together, entered>>

Join(r) ==
    /\ At(r, "accept", "join")
    /\ Goto(r, IF AlreadyAMember(call[r].whom) THEN "stamp" ELSE "enter")
    /\ UNCHANGED <<rows, call, saw, failed, together, entered>>

\* Adding by hand: the hook looks the person up, then for a membership.
LookAdded(r) ==
    /\ At(r, "add", "look")
    /\ Goto(r, IF call[r].whom \in accounts /\ ~AlreadyAMember(call[r].whom) THEN "enter" ELSE "done")
    /\ UNCHANGED <<rows, call, saw, failed, together, entered>>

\* Both doors write the row without another look.
Enter(r) ==
    /\ pc[r] = "enter"
    /\ IF call[r].whom \in accounts /\ team
       THEN /\ members' = members \cup {[id |-> r, user |-> call[r].whom, role |-> call[r].role]}
            /\ entered' = entered \cup {r}
            /\ Goto(r, IF call[r].op = "accept" THEN "stamp" ELSE "done")
       ELSE Goto(r, "done") /\ UNCHANGED <<members, entered>>
    /\ UNCHANGED <<accounts, place, team, grants, links, call, saw, failed, together>>

\* By id: the row may have been accepted, superseded or revoked meanwhile.
LeaveUnstamped(r) ==
    /\ At(r, "accept", "stamp")
    /\ Goto(r, "done")
    /\ UNCHANGED <<rows, call, saw, failed, together, entered>>

Stamp(r) ==
    /\ At(r, "accept", "stamp")
    /\ links' = [links EXCEPT ![call[r].row].state = IF @ = "gone" THEN "gone" ELSE "accepted"]
    /\ Goto(r, "done")
    /\ UNCHANGED <<accounts, place, team, members, grants, call, saw, failed, together, entered>>

----------------------------------------------------------------------------
(* Roles and removal.                                                      *)

\* The row is there, it is the caller's own, and it is what makes them admin.
OwnMembership(r) == \E m \in members : m.id = call[r].row /\ m.user = call[r].by
OwnAdminGrant(r) ==
    \E g \in grants : g.id = call[r].row /\ g.role = "admin" /\ g \in GrantsOf(call[r].by)

RemovesOwnMembership(r) == call[r].op = "drop" /\ OwnMembership(r)

RemovesOwnAdmin(r) ==
    \/ call[r].op = "drop" /\ OwnMembership(r)
    \/ call[r].op = "setRole" /\ call[r].role # "admin" /\ OwnMembership(r)
    \/ call[r].op = "ungrant" /\ OwnAdminGrant(r)
    \/ call[r].op = "regrant" /\ call[r].role # "admin" /\ OwnAdminGrant(r)

Guard(r) ==
    /\ pc[r] = "guard"
    /\ \/ Goto(r, IF RemovesOwnAdmin(r) THEN "done" ELSE "write") /\ UNCHANGED failed
       \/ Overlook(r, "write")
    /\ UNCHANGED <<rows, call, saw, together, entered>>

\* Grants go with the membership they belong to.
KeepGrants(gone) == grants
Without(gone) == {g \in grants : \E m \in members \ gone : m.id = g.member}

Drop(r) ==
    /\ At(r, "drop", "write")
    /\ LET gone == {m \in members : m.id = call[r].row}
       IN members' = members \ gone /\ grants' = Without(gone)
    /\ Goto(r, "done")
    /\ UNCHANGED <<accounts, place, team, links, call, saw, failed, together, entered>>

SetRole(r) ==
    /\ At(r, "setRole", "write")
    /\ members' = {IF m.id = call[r].row THEN [m EXCEPT !.role = call[r].role] ELSE m : m \in members}
    /\ Goto(r, "done")
    /\ UNCHANGED <<accounts, place, team, grants, links, call, saw, failed, together, entered>>

\* The primary role counts as a grant.
DuplicateRole(r) ==
    \/ \E m \in members : m.id = call[r].row /\ m.role = call[r].role
    \/ \E g \in grants : g.member = call[r].row /\ g.role = call[r].role

LookGranted(r) ==
    /\ At(r, "grant", "look")
    /\ \/ Goto(r, IF DuplicateRole(r) THEN "done" ELSE "insert") /\ UNCHANGED failed
       \/ Overlook(r, "insert")
    /\ UNCHANGED <<rows, call, saw, together, entered>>

InsertGrant(r) ==
    /\ At(r, "grant", "insert")
    /\ grants' = IF \E m \in members : m.id = call[r].row
                 THEN grants \cup {[id |-> r, member |-> call[r].row, role |-> call[r].role]} ELSE grants
    /\ Goto(r, "done")
    /\ UNCHANGED <<accounts, place, team, members, links, call, saw, failed, together, entered>>

\* An update of a grant is not checked for a duplicate.
Regrant(r) ==
    /\ At(r, "regrant", "write")
    /\ grants' = {IF g.id = call[r].row THEN [g EXCEPT !.role = call[r].role] ELSE g : g \in grants}
    /\ Goto(r, "done")
    /\ UNCHANGED <<accounts, place, team, members, links, call, saw, failed, together, entered>>

Ungrant(r) ==
    /\ At(r, "ungrant", "write")
    /\ grants' = {g \in grants : g.id # call[r].row}
    /\ Goto(r, "done")
    /\ UNCHANGED <<accounts, place, team, members, links, call, saw, failed, together, entered>>

----------------------------------------------------------------------------
(* Deleting an account, where the application lets its owner.              *)

GatherNothing(r) ==
    /\ At(r, "leave", "gather")
    /\ Goto(r, "erase")
    /\ UNCHANGED <<rows, call, saw, failed, together, entered>>

Gather(r) ==
    /\ At(r, "leave", "gather")
    /\ \/ /\ saw' = [saw EXCEPT ![r] = {x \in Ids : place[x] = "kept" /\ OwnerOf(x) = call[r].by}
                                       \cup {x \in {Team} : AlreadyAMember(call[r].by)}]
          /\ Goto(r, "erase") /\ UNCHANGED failed
       \/ Overlook(r, "erase") /\ UNCHANGED saw
    /\ UNCHANGED <<rows, call, together, entered>>

\* The row goes, and with it every membership and grant of the person.
Erase(r) ==
    /\ At(r, "leave", "erase")
    /\ accounts' = accounts \ {call[r].by}
    /\ members' = members \ MembershipsOf(call[r].by)
    /\ grants' = Without(MembershipsOf(call[r].by))
    /\ place' = [x \in Ids |-> IF place[x] = "kept" /\ OwnerOf(x) = call[r].by THEN "bare" ELSE place[x]]
    /\ Goto(r, IF call[r].by \in accounts /\ saw[r] # {} THEN "discard" ELSE "done")
    /\ UNCHANGED <<team, links, call, saw, failed, together, entered>>

\* Only an organisation without members goes, and only if nothing refers to it.
DesertedOrNot == TRUE
Deserted == members = {}
Unreferenced == \A i \in Requests : links[i].state \in {"none", "gone"}

Discard(r) ==
    /\ At(r, "leave", "discard")
    /\ \E o \in saw[r] :
          LET then == IF saw[r] = {o} THEN "done" ELSE "discard"
          IN /\ saw' = [saw EXCEPT ![r] = @ \ {o}]
             /\ \/ /\ o = Team /\ team' = (team /\ ~(Deserted /\ Unreferenced))
                   /\ Goto(r, then) /\ UNCHANGED <<place, failed>>
                \/ /\ o # Team /\ place' = [place EXCEPT ![o] = IF @ = "bare" THEN "none" ELSE @]
                   /\ Goto(r, then) /\ UNCHANGED <<team, failed>>
                \/ Overlook(r, then) /\ UNCHANGED <<team, place>>
    /\ UNCHANGED <<accounts, members, grants, links, call, together, entered>>

----------------------------------------------------------------------------
\* The process stops, the database refuses or a hook rejects: what was written stays.
Fail(r) ==
    /\ Running(r) /\ Cardinality(failed) < MaxFaults
    /\ failed' = failed \cup {r}
    /\ Goto(r, "done")
    /\ UNCHANGED <<rows, call, saw, together, entered>>

Proceed(r) ==
    \/ LookInvited(r) \/ Clear(r) \/ InsertLink(r) \/ Mail(r) \/ Unsend(r) \/ Revoke(r)
    \/ Who(r) \/ SignUp(r) \/ Home(r) \/ HomeRole(r) \/ Join(r) \/ LookAdded(r) \/ Enter(r) \/ Stamp(r)
    \/ Guard(r) \/ Drop(r) \/ SetRole(r) \/ LookGranted(r) \/ InsertGrant(r) \/ Regrant(r) \/ Ungrant(r)
    \/ Gather(r) \/ Erase(r) \/ Discard(r)

Next == \E r \in Requests :
    BeginAsAdmin(r) \/ BeginAsAnyone(r) \/ Proceed(r) \/ Fail(r) \/ Expire(r)

Spec == Init /\ [][Next]_vars

----------------------------------------------------------------------------
(* Properties.                                                             *)

Overlapped(r, s) == {r, s} \in together

\* The code looks before it writes a membership, by invitation and by hand
\* (email_auth.rs ensure_membership, builtins.rs organization_join). Whatever
\* the order of removals, invitations and additions, a person has two rows only
\* if the two requests that wrote them ran at the same time.
OneMembership ==
    \A m, n \in members : m.user = n.user /\ m.id # n.id => Overlapped(m.id, n.id)

\* A new invitation supersedes the ones before it, lapsed ones too
\* (email_auth.rs create_invitation): a person holds two links that were
\* neither used nor withdrawn only if they were made at the same time.
OneLiveLink ==
    \A i, j \in Requests :
        i # j /\ Pending(i) /\ Pending(j) /\ links[i].to = links[j].to => Overlapped(i, j)

\* A link lets its bearer in once: a second membership by the same link, say
\* after the first was removed, takes two requests at once, or a fault that
\* kept the first from marking the link as used.
LinkAdmitsOnce ==
    \A r, s \in entered :
        r # s /\ call[r].op = "accept" /\ call[s].op = "accept" /\ call[r].row = call[s].row
            => Overlapped(r, s) \/ {r, s} \cap failed # {}

\* The rule against removing one's own admin role keeps an admin in the team,
\* through any sequence of removals, demotions and grants, as long as no two
\* removals run at once, none met a fault (the look of the rule may fail, and is
\* then taken for a no) and nobody deletes an account.
AdminUnlessRaced ==
    (\A p \in People : ~MayAdminister(p)) /\ Admins # {} =>
        \/ \E r, s \in Requests : r # s /\ Overlapped(r, s) /\ {call[r].op, call[s].op} \subseteq Removals
        \/ \E r \in failed : call[r].op \in Removals
        \/ \E r \in Requests : call[r].op = "leave"

\* "Every organisation always has at least one administrator" (permissions.md),
\* as nobody may remove their own admin role. Two admins who remove each other at
\* once both pass the rule, and the team is left without one.
AlwaysAnAdmin == \E p \in People : MayAdminister(p)

\* An organisation without any member is explained: a request is still at it,
\* failed, or an account was deleted while an organisation of its was being made.
EmptyPlaceIsExplained ==
    \A x \in Ids : place[x] = "bare" =>
        \/ \E r \in Requests : r \in failed \/ (Running(r) /\ call[r].op \in {"found", "register", "accept", "leave"})
        \/ \E r, s \in Requests : Overlapped(r, s) /\ call[r].op = "leave"
                                  /\ call[s].op \in {"found", "register", "accept"}

\* A deletion of an account never takes an organisation somebody else is in,
\* nor one an invitation leads to.
WorkspaceKept == [][team /\ ~team' => members = {} /\ \A i \in Requests : ~Pending(i)]_vars
====
