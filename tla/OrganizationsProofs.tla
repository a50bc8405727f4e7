---- MODULE OrganizationsProofs ----
(***************************************************************************)
(* Memberships, links and organisations for every number of people and     *)
(* requests and every set of operations an application offers.             *)
(*                                                                         *)
(* The handlers look before they write and hold nothing in between.  What  *)
(* saves them is that a request which comes between another's look and     *)
(* write was running at the same time: each property has an invariant that *)
(* says of a request before its write that what it saw still stands, or    *)
(* that a request it overlapped with has changed it.                       *)
(***************************************************************************)
EXTENDS Organizations, TLAPS

\* Where a request of each kind may stand, and what its call carries.
CallFits(r) ==
    LET c == call[r] IN
    \/ c.op = "none" /\ pc[r] = "idle"
    \/ c.op = "invite" /\ c.whom \in People /\ pc[r] \in {"look", "clear", "insert", "mail", "unsend", "done"}
    \/ c.op = "add" /\ c.whom \in People /\ pc[r] \in {"look", "enter", "done"}
    \/ c.op \in Removals /\ c.by \in People /\ pc[r] \in {"guard", "write", "done"}
    \/ c.op = "grant" /\ c.row \in Ids /\ pc[r] \in {"look", "insert", "done"}
    \/ c.op = "revoke" /\ c.row \in Requests /\ pc[r] \in {"write", "done"}
    \/ /\ c.op = "accept" /\ c.by \in People /\ c.whom = c.by /\ c.row \in Requests
       /\ pc[r] \in {"who", "signup", "home", "homeRole", "join", "enter", "stamp", "done"}
    \/ /\ c.op = "register" /\ c.by \in People /\ c.whom = c.by
       /\ pc[r] \in {"signup", "home", "homeRole", "done"}
    \/ c.op = "found" /\ c.by \in People /\ pc[r] \in {"home", "homeRole", "done"}
    \/ c.op = "leave" /\ c.by \in People /\ pc[r] \in {"gather", "erase", "discard", "done"}

\* A link names whom it is for, and is written once.
LinkFits(i) ==
    /\ links[i].state # "none" =>
          /\ links[i].to \in People
          /\ call[i].op = "invite" /\ pc[i] \in {"mail", "unsend", "done"}
    /\ pc[i] \in {"mail", "unsend"} => links[i].state # "none"

\* Who accepts or revokes has a link that was written.
RowFits(r) == call[r].op \in {"accept", "revoke"} => links[call[r].row].state # "none"

\* Of two requests that run now, the later began while the other ran.
RanTogether == \A r, s \in Requests : r # s /\ Running(r) /\ Running(s) => Overlapped(r, s)

Base == TypeOK /\ RanTogether /\ \A r \in Requests : CallFits(r) /\ LinkFits(r) /\ RowFits(r)

Step(r) == BeginAsAdmin(r) \/ BeginAsAnyone(r) \/ Proceed(r) \/ Fail(r) \/ Expire(r)

LEMMA Names ==
    /\ "nobody" \notin People /\ "nobody" \notin Requests /\ "nobody" \notin Ids
    /\ Team \notin Ids /\ People \subseteq Ids /\ Requests \subseteq Ids /\ People \cap Requests = {}
BY ConstantsAssumption DEF Ids, Team

-----------------------------------------------------------------------------
(* What arrives.                                                           *)

\* What holds of a call when it is let in at a step.
Admissible(c, step) ==
    \/ c.op = "invite" /\ c.whom \in People /\ step = "look"
    \/ c.op = "add" /\ c.whom \in People /\ step = "look"
    \/ /\ c.op \in Removals /\ c.by \in People /\ MayAdminister(c.by) /\ step = "guard"
       /\ c.op \in {"drop", "setRole"} => \E m \in members : m.id = c.row
       /\ c.op \in {"regrant", "ungrant"} => \E g \in grants : g.id = c.row
    \/ c.op = "grant" /\ c.row \in Ids /\ step = "look"
    \/ c.op = "revoke" /\ c.row \in Requests /\ Pending(c.row) /\ step = "write"
    \/ /\ c.op = "accept" /\ c.by \in People /\ c.whom = c.by /\ c.row \in Requests
       /\ links[c.row].state = "pending" /\ step = "who"
    \/ c.op = "register" /\ c.by \in People /\ c.whom = c.by /\ step = "signup"
    \/ c.op = "found" /\ c.by \in accounts /\ step = "home"
    \/ c.op = "leave" /\ c.by \in accounts /\ step = "gather"

LEMMA Arrival ==
    ASSUME TypeOK, \A i \in Requests : LinkFits(i), NEW r \in Requests, BeginAsAdmin(r) \/ BeginAsAnyone(r)
    PROVE  \E c \in Call, step \in Steps : Admissible(c, step) /\ Begin(r, c, step)
<1> DEFINE Goal == \E c \in Call, step \in Steps : Admissible(c, step) /\ Begin(r, c, step)
<1> SUFFICES Goal
  OBVIOUS
<1>0. /\ accounts \subseteq People /\ Given \subseteq Roles
      /\ \A m \in members : m.id \in Ids
      /\ \A g \in grants : g.id \in Ids
      /\ \A i \in Requests : links[i].role \in Roles
  BY ConstantsAssumption, Names DEF TypeOK, Membership, Grant, Link
<1>1. ASSUME NEW c \in Call, NEW step \in Steps, Admissible(c, step), Begin(r, c, step)
      PROVE  Goal
  BY <1>1
<1> HIDE DEF Goal
<1> USE DEF Call, NoCall, Operations, Steps
<1>2. CASE BeginAsAdmin(r)
  <2>1. PICK a \in accounts :
        /\ MayAdminister(a)
        /\ \/ \E p \in People, role \in Given :
                \/ Begin(r, [NoCall EXCEPT !.op = "invite", !.by = a, !.whom = p, !.role = role], "look")
                \/ Begin(r, [NoCall EXCEPT !.op = "add", !.by = a, !.whom = p, !.role = role], "look")
           \/ \E m \in members, role \in Roles :
                \/ Begin(r, [NoCall EXCEPT !.op = "drop", !.by = a, !.row = m.id], "guard")
                \/ Begin(r, [NoCall EXCEPT !.op = "setRole", !.by = a, !.row = m.id, !.role = role], "guard")
                \/ Begin(r, [NoCall EXCEPT !.op = "grant", !.by = a, !.row = m.id, !.role = role], "look")
           \/ \E g \in grants, role \in Roles :
                \/ Begin(r, [NoCall EXCEPT !.op = "ungrant", !.by = a, !.row = g.id], "guard")
                \/ Begin(r, [NoCall EXCEPT !.op = "regrant", !.by = a, !.row = g.id, !.role = role], "guard")
           \/ \E i \in {i \in Requests : Pending(i)} :
                Begin(r, [NoCall EXCEPT !.op = "revoke", !.by = a, !.row = i], "write")
    BY <1>2 DEF BeginAsAdmin
  <2>2. a \in People /\ a \in People \cup {"nobody"}
    BY <1>0
  <2>3. ASSUME NEW p \in People, NEW role \in Given,
               \/ Begin(r, [NoCall EXCEPT !.op = "invite", !.by = a, !.whom = p, !.role = role], "look")
               \/ Begin(r, [NoCall EXCEPT !.op = "add", !.by = a, !.whom = p, !.role = role], "look")
        PROVE  Goal
    <3>1. PICK op \in {"invite", "add"} :
            Begin(r, [NoCall EXCEPT !.op = op, !.by = a, !.whom = p, !.role = role], "look")
      BY <2>3
    <3> DEFINE c == [NoCall EXCEPT !.op = op, !.by = a, !.whom = p, !.role = role]
    <3>2. c \in Call /\ c.op = op /\ c.whom = p
      BY <1>0, <2>2 DEF Roles, Removals
    <3> HIDE DEF c
    <3>3. Admissible(c, "look")
      BY <3>2 DEF Admissible
    <3> QED BY <1>1, <3>1, <3>2, <3>3 DEF c
  <2>4. ASSUME NEW m \in members, NEW role \in Roles,
               \/ Begin(r, [NoCall EXCEPT !.op = "drop", !.by = a, !.row = m.id], "guard")
               \/ Begin(r, [NoCall EXCEPT !.op = "setRole", !.by = a, !.row = m.id, !.role = role], "guard")
        PROVE  Goal
    <3> DEFINE d == [NoCall EXCEPT !.op = "drop", !.by = a, !.row = m.id]
               e == [NoCall EXCEPT !.op = "setRole", !.by = a, !.row = m.id, !.role = role]
    <3>4. d \in Call /\ d.op = "drop" /\ d.by = a /\ d.row = m.id
      BY <1>0, <2>2 DEF Roles, Removals
    <3>5. e \in Call /\ e.op = "setRole" /\ e.by = a /\ e.row = m.id
      BY <1>0, <2>2 DEF Roles, Removals
    <3>6. Begin(r, d, "guard") \/ Begin(r, e, "guard")
      BY <2>4
    <3> HIDE DEF d, e
    <3>1. PICK c \in {d, e} : Begin(r, c, "guard")
      BY <3>6
    <3>2. c \in Call /\ c.op \in {"drop", "setRole"} /\ c.by = a /\ c.row = m.id
      BY <3>4, <3>5
    <3>3. Admissible(c, "guard")
      BY <2>1, <2>2, <3>2 DEF Admissible, Removals
    <3> QED BY <1>1, <3>1, <3>2, <3>3
  <2>5. ASSUME NEW m \in members, NEW role \in Roles,
               Begin(r, [NoCall EXCEPT !.op = "grant", !.by = a, !.row = m.id, !.role = role], "look")
        PROVE  Goal
    <3> DEFINE c == [NoCall EXCEPT !.op = "grant", !.by = a, !.row = m.id, !.role = role]
    <3>2. c \in Call /\ c.op = "grant" /\ c.row = m.id
      BY <1>0, <2>2 DEF Roles, Removals
    <3> HIDE DEF c
    <3>3. Admissible(c, "look")
      BY <1>0, <3>2 DEF Admissible
    <3> QED BY <1>1, <2>5, <3>2, <3>3 DEF c
  <2>6. ASSUME NEW g \in grants, NEW role \in Roles,
               \/ Begin(r, [NoCall EXCEPT !.op = "ungrant", !.by = a, !.row = g.id], "guard")
               \/ Begin(r, [NoCall EXCEPT !.op = "regrant", !.by = a, !.row = g.id, !.role = role], "guard")
        PROVE  Goal
    <3> DEFINE d == [NoCall EXCEPT !.op = "ungrant", !.by = a, !.row = g.id]
               e == [NoCall EXCEPT !.op = "regrant", !.by = a, !.row = g.id, !.role = role]
    <3>4. d \in Call /\ d.op = "ungrant" /\ d.by = a /\ d.row = g.id
      BY <1>0, <2>2 DEF Roles, Removals
    <3>5. e \in Call /\ e.op = "regrant" /\ e.by = a /\ e.row = g.id
      BY <1>0, <2>2 DEF Roles, Removals
    <3>6. Begin(r, d, "guard") \/ Begin(r, e, "guard")
      BY <2>6
    <3> HIDE DEF d, e
    <3>1. PICK c \in {d, e} : Begin(r, c, "guard")
      BY <3>6
    <3>2. c \in Call /\ c.op \in {"ungrant", "regrant"} /\ c.by = a /\ c.row = g.id
      BY <3>4, <3>5
    <3>3. Admissible(c, "guard")
      BY <2>1, <2>2, <3>2 DEF Admissible, Removals
    <3> QED BY <1>1, <3>1, <3>2, <3>3
  <2>7. ASSUME NEW i \in Requests, Pending(i),
               Begin(r, [NoCall EXCEPT !.op = "revoke", !.by = a, !.row = i], "write")
        PROVE  Goal
    <3> DEFINE c == [NoCall EXCEPT !.op = "revoke", !.by = a, !.row = i]
    <3>2. c \in Call /\ c.op = "revoke" /\ c.row = i
      BY <2>2, Names DEF Roles
    <3> HIDE DEF c
    <3>3. Admissible(c, "write")
      BY <2>7, <3>2 DEF Admissible
    <3> QED BY <1>1, <2>7, <3>2, <3>3 DEF c
  <2> QED BY <2>1, <2>3, <2>4, <2>5, <2>6, <2>7
<1>3. CASE BeginAsAnyone(r)
  <2>1. ASSUME NEW i \in Requests, links[i].state = "pending",
               Begin(r, [NoCall EXCEPT !.op = "accept", !.by = links[i].to, !.whom = links[i].to,
                                       !.row = i, !.role = links[i].role], "who")
        PROVE  Goal
    <3> DEFINE c == [NoCall EXCEPT !.op = "accept", !.by = links[i].to, !.whom = links[i].to,
                                   !.row = i, !.role = links[i].role]
    <3>1. links[i].to \in People
      BY <2>1 DEF LinkFits
    <3>2. c \in Call /\ c.op = "accept" /\ c.row = i /\ c.by \in People /\ c.whom = c.by
      BY <1>0, <3>1, Names DEF Roles
    <3> HIDE DEF c
    <3>3. Admissible(c, "who")
      BY <2>1, <3>2 DEF Admissible
    <3> QED BY <1>1, <2>1, <3>2, <3>3 DEF c
  <2>2. ASSUME NEW p \in People, Begin(r, [NoCall EXCEPT !.op = "register", !.by = p, !.whom = p], "signup")
        PROVE  Goal
    <3> DEFINE c == [NoCall EXCEPT !.op = "register", !.by = p, !.whom = p]
    <3>2. c \in Call /\ c.op = "register" /\ c.by = p /\ c.whom = p
      BY DEF Roles
    <3> HIDE DEF c
    <3>3. Admissible(c, "signup")
      BY <3>2 DEF Admissible
    <3> QED BY <1>1, <2>2, <3>2, <3>3 DEF c
  <2>3. ASSUME NEW p \in accounts,
               \/ Begin(r, [NoCall EXCEPT !.op = "found", !.by = p], "home")
               \/ Begin(r, [NoCall EXCEPT !.op = "leave", !.by = p], "gather")
        PROVE  Goal
    <3>1. PICK op \in {"found", "leave"} :
            Begin(r, [NoCall EXCEPT !.op = op, !.by = p], IF op = "found" THEN "home" ELSE "gather")
      BY <2>3
    <3> DEFINE c == [NoCall EXCEPT !.op = op, !.by = p]
    <3>2. c \in Call /\ c.op = op /\ c.by = p
      BY <1>0 DEF Roles
    <3> HIDE DEF c
    <3>3. Admissible(c, IF op = "found" THEN "home" ELSE "gather")
      BY <3>2 DEF Admissible
    <3> QED BY <1>1, <3>1, <3>2, <3>3 DEF c
  <2> QED BY <1>3, <2>1, <2>2, <2>3 DEF BeginAsAnyone
<1> QED BY <1>2, <1>3

LEMMA BeginStep ==
    ASSUME TypeOK, NEW r \in Requests, NEW c \in Call, NEW step \in Steps, Begin(r, c, step)
    PROVE  /\ TypeOK' /\ UNCHANGED <<rows, saw, failed, entered>>
           /\ pc[r] = "idle" /\ pc'[r] = step /\ call'[r] = c
           /\ together' = together \cup {{r, s} : s \in {s \in Requests : Running(s)}}
           /\ \A s \in Requests \ {r} : pc'[s] = pc[s] /\ call'[s] = call[s]
<1>1. /\ UNCHANGED <<rows, saw, failed, entered>>
      /\ pc[r] = "idle" /\ pc'[r] = step /\ call'[r] = c
      /\ together' = together \cup {{r, s} : s \in {s \in Requests : Running(s)}}
      /\ \A s \in Requests \ {r} : pc'[s] = pc[s] /\ call'[s] = call[s]
      /\ pc' \in [Requests -> Steps] /\ call' \in [Requests -> Call]
  BY DEF TypeOK, Begin, Goto
<1>2. together' \subseteq SUBSET Requests
  BY <1>1 DEF TypeOK
<1>3. TypeOK'
  BY <1>1, <1>2 DEF TypeOK, rows
<1> QED BY <1>1, <1>3

-----------------------------------------------------------------------------
(* A step of a request that runs: where it goes.                           *)

LEMMA PlaceStep ==
    ASSUME TypeOK, NEW r \in Requests, Proceed(r) \/ Fail(r)
    PROVE  /\ Running(r) /\ call' = call /\ together' = together
           /\ pc' \in [Requests -> Steps] /\ \A s \in Requests \ {r} : pc'[s] = pc[s]
<1> DEFINE Goal == /\ Running(r) /\ call' = call /\ together' = together
                   /\ pc' \in [Requests -> Steps] /\ \A s \in Requests \ {r} : pc'[s] = pc[s]
<1> SUFFICES Goal
  OBVIOUS
<1>0. pc \in [Requests -> Steps]
  BY DEF TypeOK
<1>1. ASSUME NEW step \in Steps, Goto(r, step), pc[r] \notin {"idle", "done"}, call' = call, together' = together
      PROVE  Goal
  BY <1>0, <1>1 DEF Goto, Running
<1> HIDE DEF Goal
<1> USE DEF At, Steps, Overlook, rows
<1>2. CASE LookInvited(r) \/ Clear(r) \/ InsertLink(r) \/ Mail(r) \/ Unsend(r) \/ Revoke(r)
  BY <1>1, <1>2 DEF LookInvited, Clear, InsertLink, Mail, Unsend, Revoke
<1>3. CASE Who(r) \/ SignUp(r) \/ Home(r) \/ HomeRole(r) \/ Join(r) \/ LookAdded(r) \/ Enter(r) \/ Stamp(r)
  BY <1>1, <1>3 DEF Who, SignUp, Home, HomeRole, Join, LookAdded, Enter, Stamp, Shrug, AfterHome
<1>4. CASE Guard(r) \/ Drop(r) \/ SetRole(r) \/ LookGranted(r) \/ InsertGrant(r) \/ Regrant(r) \/ Ungrant(r)
  BY <1>1, <1>4 DEF Guard, Drop, SetRole, LookGranted, InsertGrant, Regrant, Ungrant
<1>5. CASE Gather(r) \/ Erase(r) \/ Discard(r) \/ Fail(r)
  BY <1>1, <1>5 DEF Gather, Erase, Discard, Fail, Running
<1> QED BY <1>2, <1>3, <1>4, <1>5 DEF Proceed

LEMMA FitsStep ==
    ASSUME TypeOK, NEW r \in Requests, CallFits(r), Proceed(r) \/ Fail(r)
    PROVE  CallFits(r)'
<1>0. call' = call /\ pc \in [Requests -> Steps] /\ Running(r)
  BY PlaceStep DEF TypeOK
<1> USE <1>0 DEF CallFits, Goto, At, Overlook, Running, Removals
<1>1. CASE LookInvited(r) \/ Clear(r) \/ InsertLink(r) \/ Mail(r) \/ Unsend(r) \/ Revoke(r)
  BY <1>1 DEF LookInvited, Clear, InsertLink, Mail, Unsend, Revoke
<1>2. CASE Who(r) \/ SignUp(r) \/ Home(r) \/ HomeRole(r)
  BY <1>2 DEF Who, SignUp, Home, HomeRole, Shrug, AfterHome
<1>3. CASE Join(r) \/ LookAdded(r) \/ Enter(r) \/ Stamp(r)
  BY <1>3 DEF Join, LookAdded, Enter, Stamp
<1>4. CASE Guard(r) \/ Drop(r) \/ SetRole(r) \/ LookGranted(r) \/ InsertGrant(r) \/ Regrant(r) \/ Ungrant(r)
  BY <1>4 DEF Guard, Drop, SetRole, LookGranted, InsertGrant, Regrant, Ungrant
<1>5. CASE Gather(r) \/ Erase(r) \/ Discard(r) \/ Fail(r)
  BY <1>5 DEF Gather, Erase, Discard, Fail
<1> QED BY <1>1, <1>2, <1>3, <1>4, <1>5 DEF Proceed

\* What becomes of the links: they are marked, and at one step one is written.
Marked(i) ==
    /\ links'[i].to = links[i].to
    /\ \/ links'[i].state = links[i].state
       \/ links[i].state # "none" /\ links'[i].state \in {"gone", "accepted"}
       \/ links[i].state = "pending" /\ links'[i].state = "expired"

Written(r) ==
    /\ InsertLink(r) /\ pc'[r] = "mail" /\ links[r].state = "none"
    /\ links'[r].state = "pending" /\ links'[r].to = call[r].whom
    /\ \A i \in Requests \ {r} : Marked(i)

LEMMA LinksStep ==
    ASSUME TypeOK, NEW r \in Requests, CallFits(r), LinkFits(r), RowFits(r), Proceed(r) \/ Fail(r) \/ Expire(r)
    PROVE  links' \in [Requests -> Link] /\ ((\A i \in Requests : Marked(i)) \/ Written(r))
<1> DEFINE Goal == links' \in [Requests -> Link] /\ ((\A i \in Requests : Marked(i)) \/ Written(r))
<1> SUFFICES Goal
  OBVIOUS
<1>0. links \in [Requests -> Link]
  BY DEF TypeOK
<1>1. CASE UNCHANGED links
  BY <1>0, <1>1 DEF Marked
<1>2. ASSUME NEW i \in Requests, NEW s \in {"gone", "accepted"}, links[i].state # "none",
             links' = [links EXCEPT ![i].state = s]
      PROVE  Goal
  BY <1>0, <1>2 DEF Marked, Link
<1>3. CASE Clear(r)
  <2>1. \A i \in Requests : [links[i] EXCEPT !.state = "gone"] \in Link
    BY <1>0 DEF Link
  <2>2. \A i \in Requests : links'[i] = IF Superseded(i, r) THEN [links[i] EXCEPT !.state = "gone"] ELSE links[i]
    BY <1>3 DEF Clear
  <2>3. links' \in [Requests -> Link]
    BY <1>0, <1>3, <2>1 DEF Clear
  <2>4. \A i \in Requests : Marked(i)
    BY <1>0, <2>2 DEF Marked, Link, Superseded, Pending
  <2> QED BY <2>3, <2>4
<1>4. CASE InsertLink(r)
  <2>1. CASE UNCHANGED links
    BY <1>1, <2>1
  <2>2. CASE links' # links
    <3> DEFINE l == [to |-> call[r].whom, role |-> call[r].role, state |-> "pending", mailed |-> FALSE]
    <3>1. links' = [links EXCEPT ![r] = l] /\ Goto(r, "mail") /\ At(r, "invite", "insert")
      BY <1>4, <2>2 DEF InsertLink
    <3>2. l \in Link /\ l.state = "pending" /\ l.to = call[r].whom
      BY DEF TypeOK, Link, Call
    <3> HIDE DEF l
    <3>3. links' \in [Requests -> Link] /\ links'[r] = l /\ \A i \in Requests \ {r} : links'[i] = links[i]
      BY <1>0, <3>1, <3>2
    <3>4. pc'[r] = "mail" /\ links[r].state = "none"
      BY <3>1 DEF TypeOK, Goto, At, LinkFits
    <3> QED BY <1>4, <3>2, <3>3, <3>4 DEF Written, Marked
  <2> QED BY <2>1, <2>2
<1>5. CASE Mail(r)
  <2>1. links' = links \/ links' = [links EXCEPT ![r].mailed = TRUE]
    BY <1>5 DEF Mail
  <2>2. CASE links' = [links EXCEPT ![r].mailed = TRUE]
    <3>1. [links[r] EXCEPT !.mailed = TRUE] \in Link
      BY <1>0 DEF Link
    <3>2. links' = [links EXCEPT ![r] = [links[r] EXCEPT !.mailed = TRUE]]
      BY <1>0, <2>2
    <3>3. links' \in [Requests -> Link]
      BY <1>0, <3>1, <3>2
    <3>4. \A i \in Requests : links'[i].to = links[i].to /\ links'[i].state = links[i].state
      BY <1>0, <3>2 DEF Link
    <3> QED BY <3>3, <3>4 DEF Marked
  <2> QED BY <1>1, <2>1, <2>2
<1>6. CASE Unsend(r)
  <2>1. links' = [links EXCEPT ![r].state = "gone"] /\ links[r].state # "none"
    BY <1>6 DEF Unsend, At, LinkFits
  <2> QED BY <1>2, <2>1
<1>7. CASE Revoke(r)
  <2>1. links' = [links EXCEPT ![call[r].row].state = "gone"] /\ links[call[r].row].state # "none"
    BY <1>7 DEF Revoke, At, RowFits
  <2>2. call[r].row \in Requests
    BY <1>7 DEF Revoke, At, CallFits, Removals
  <2> QED BY <1>2, <2>1, <2>2
<1>8. CASE Stamp(r)
  <2>1. call[r].row \in Requests /\ links[call[r].row].state # "none"
    BY <1>8 DEF Stamp, At, CallFits, RowFits, Removals
  <2> DEFINE s == IF links[call[r].row].state = "gone" THEN "gone" ELSE "accepted"
  <2>2. links' = [links EXCEPT ![call[r].row].state = s]
    BY <1>8 DEF Stamp
  <2>3. s \in {"gone", "accepted"}
    OBVIOUS
  <2> HIDE DEF s
  <2> QED BY <1>2, <2>1, <2>2, <2>3
<1>9. CASE Expire(r)
  <2>1. links' = [links EXCEPT ![r].state = "expired"] /\ links[r].state = "pending"
    BY <1>9 DEF Expire
  <2> QED BY <1>0, <2>1 DEF Marked, Link
<1>10. CASE \/ LookInvited(r) \/ Who(r) \/ SignUp(r) \/ Home(r) \/ HomeRole(r) \/ Join(r) \/ LookAdded(r)
            \/ Enter(r) \/ Guard(r) \/ Drop(r) \/ SetRole(r) \/ LookGranted(r) \/ InsertGrant(r)
            \/ Regrant(r) \/ Ungrant(r) \/ Gather(r) \/ Erase(r) \/ Discard(r) \/ Fail(r)
  <2>1. UNCHANGED links
    BY <1>10 DEF rows, LookInvited, Who, SignUp, Home, HomeRole, Join, LookAdded, Enter, Guard, Drop, SetRole,
                 LookGranted, InsertGrant, Regrant, Ungrant, Gather, Erase, Discard, Fail
  <2> QED BY <1>1, <2>1
<1> QED BY <1>3, <1>4, <1>5, <1>6, <1>7, <1>8, <1>9, <1>10 DEF Proceed

-----------------------------------------------------------------------------
(* Accounts, members and grants.                                           *)

\* What becomes of the memberships: rows go, change their role, or one is written.
MembersStay == \A m \in members' : \E n \in members : n.id = m.id /\ n.user = m.user

Entered(r) ==
    /\ Enter(r) /\ call[r].whom \in accounts /\ team
    /\ members' = members \cup {[id |-> r, user |-> call[r].whom, role |-> call[r].role]}
    /\ entered' = entered \cup {r} /\ UNCHANGED <<accounts, grants>>

LEMMA MembersStep ==
    ASSUME TypeOK, NEW r \in Requests, CallFits(r), Proceed(r) \/ Fail(r) \/ Expire(r)
    PROVE  /\ members' \subseteq Membership
           /\ Entered(r) \/ (MembersStay /\ entered' = entered)
<1> DEFINE Goal == /\ members' \subseteq Membership
                   /\ Entered(r) \/ (MembersStay /\ entered' = entered)
<1> SUFFICES Goal
  OBVIOUS
<1>0. members \subseteq Membership
  BY DEF TypeOK
<1>1. CASE members' \subseteq members /\ entered' = entered
  BY <1>0, <1>1 DEF MembersStay
<1>2. CASE Enter(r)
  <2>1. CASE UNCHANGED <<members, entered>>
    BY <1>1, <2>1
  <2>2. CASE ~UNCHANGED <<members, entered>>
    <3>1. Entered(r)
      BY <1>2, <2>2 DEF Enter, Entered
    <3>2. [id |-> r, user |-> call[r].whom, role |-> call[r].role] \in Membership
      <4>1. call[r] \in Call /\ call[r].whom \in People
        BY <3>1 DEF TypeOK, Entered
      <4> QED BY <4>1, Names DEF Membership, Call
    <3> QED BY <1>0, <3>1, <3>2 DEF Entered
  <2> QED BY <2>1, <2>2
<1>3. CASE SetRole(r)
  <2>1. call[r].role \in Roles /\ entered' = entered
    BY <1>3 DEF TypeOK, Call, SetRole
  <2>2. ASSUME NEW m \in members'
        PROVE  m \in Membership /\ \E n \in members : n.id = m.id /\ n.user = m.user
    <3>1. PICK n \in members : m = IF n.id = call[r].row THEN [n EXCEPT !.role = call[r].role] ELSE n
      BY <1>3, <2>2 DEF SetRole
    <3> QED BY <1>0, <2>1, <3>1 DEF Membership
  <2> QED BY <2>1, <2>2 DEF MembersStay
<1>4. CASE Drop(r) \/ Erase(r)
  <2>1. members' \subseteq members /\ entered' = entered
    BY <1>4 DEF Drop, Erase
  <2> QED BY <1>1, <2>1
<1>5. CASE \/ LookInvited(r) \/ Clear(r) \/ InsertLink(r) \/ Mail(r) \/ Unsend(r) \/ Revoke(r)
           \/ Who(r) \/ SignUp(r) \/ Home(r) \/ HomeRole(r) \/ Join(r) \/ LookAdded(r) \/ Stamp(r)
           \/ Guard(r) \/ LookGranted(r) \/ InsertGrant(r) \/ Regrant(r) \/ Ungrant(r)
           \/ Gather(r) \/ Discard(r) \/ Fail(r) \/ Expire(r)
  <2>1. members' = members /\ entered' = entered
    BY <1>5 DEF rows, LookInvited, Clear, InsertLink, Mail, Unsend, Revoke, Who, SignUp, Home, HomeRole,
                Join, LookAdded, Stamp, Guard, LookGranted, InsertGrant, Regrant, Ungrant, Gather, Discard,
                Fail, Expire
  <2> QED BY <1>1, <2>1
<1> QED BY <1>2, <1>3, <1>4, <1>5 DEF Proceed

\* Nobody is a member without an account: the account's row takes its memberships with it.
LEMMA AccountsStep ==
    ASSUME TypeOK, NEW r \in Requests, CallFits(r), Proceed(r) \/ Fail(r) \/ Expire(r)
    PROVE  accounts' \subseteq People /\ \A m \in members' : m.user \in accounts'
<1>0. accounts \subseteq People /\ \A m \in members : m.user \in accounts
  BY DEF TypeOK
<1>1. CASE accounts' = accounts
  <2>1. CASE Entered(r)
    BY <1>0, <1>1, <2>1 DEF Entered
  <2>2. CASE MembersStay
    BY <1>0, <1>1, <2>2 DEF MembersStay
  <2> QED BY <2>1, <2>2, MembersStep
<1>2. CASE SignUp(r)
  <2>1. call[r].whom \in People
    BY <1>2 DEF SignUp, CallFits, Removals
  <2>2. accounts' \in {accounts, accounts \cup {call[r].whom}} /\ members' = members
    BY <1>2 DEF SignUp
  <2> QED BY <1>0, <2>1, <2>2
<1>3. CASE Erase(r)
  BY <1>0, <1>3 DEF Erase, MembershipsOf
<1>4. CASE \/ LookInvited(r) \/ Clear(r) \/ InsertLink(r) \/ Mail(r) \/ Unsend(r) \/ Revoke(r)
           \/ Who(r) \/ Home(r) \/ HomeRole(r) \/ Join(r) \/ LookAdded(r) \/ Enter(r) \/ Stamp(r)
           \/ Guard(r) \/ Drop(r) \/ SetRole(r) \/ LookGranted(r) \/ InsertGrant(r) \/ Regrant(r)
           \/ Ungrant(r) \/ Gather(r) \/ Discard(r) \/ Fail(r) \/ Expire(r)
  <2>1. accounts' = accounts
    BY <1>4 DEF rows, LookInvited, Clear, InsertLink, Mail, Unsend, Revoke, Who, Home, HomeRole, Join,
                LookAdded, Enter, Stamp, Guard, Drop, SetRole, LookGranted, InsertGrant, Regrant, Ungrant,
                Gather, Discard, Fail, Expire
  <2> QED BY <1>1, <2>1
<1> QED BY <1>2, <1>3, <1>4 DEF Proceed

\* No grant outlives the membership it belongs to.
LEMMA GrantsStep ==
    ASSUME TypeOK, NEW r \in Requests, CallFits(r), Proceed(r) \/ Fail(r) \/ Expire(r)
    PROVE  grants' \subseteq Grant /\ \A g \in grants' : \E m \in members' : m.id = g.member
<1> DEFINE Goal == grants' \subseteq Grant /\ \A g \in grants' : \E m \in members' : m.id = g.member
<1> SUFFICES Goal
  OBVIOUS
<1>0. grants \subseteq Grant /\ (\A g \in grants : \E m \in members : m.id = g.member)
      /\ call[r].role \in Roles
  BY DEF TypeOK, Call
<1>1. CASE grants' \subseteq grants /\ members \subseteq members'
  BY <1>0, <1>1
<1>2. ASSUME NEW gone, members' = members \ gone, grants' = Without(gone)
      PROVE  Goal
  BY <1>0, <1>2 DEF Without
<1>3. CASE Drop(r)
  <2> DEFINE gone == {m \in members : m.id = call[r].row}
  <2>1. members' = members \ gone /\ grants' = Without(gone)
    BY <1>3 DEF Drop
  <2> HIDE DEF gone, Goal
  <2> QED BY <1>2, <2>1
<1>4. CASE Erase(r)
  <2> DEFINE gone == MembershipsOf(call[r].by)
  <2>1. members' = members \ gone /\ grants' = Without(gone)
    BY <1>4 DEF Erase
  <2> HIDE DEF gone, Goal
  <2> QED BY <1>2, <2>1
<1>5. CASE SetRole(r)
  <2>1. \A m \in members : \E n \in members' : n.id = m.id
    <3> SUFFICES ASSUME NEW m \in members
                 PROVE  \E n \in members' : n.id = m.id
      OBVIOUS
    <3>1. (IF m.id = call[r].row THEN [m EXCEPT !.role = call[r].role] ELSE m) \in members'
      BY <1>5 DEF SetRole
    <3>2. m \in Membership
      BY DEF TypeOK
    <3>3. [m EXCEPT !.role = call[r].role].id = m.id
      BY <3>2 DEF Membership
    <3> QED BY <3>1, <3>3
  <2>2. grants' = grants
    BY <1>5 DEF SetRole
  <2> QED BY <1>0, <2>1, <2>2
<1>6. CASE InsertGrant(r)
  <2> DEFINE new == [id |-> r, member |-> call[r].row, role |-> call[r].role]
  <2>1. members' = members
        /\ (grants' = grants \/ (grants' = grants \cup {new} /\ \E m \in members : m.id = call[r].row))
    BY <1>6 DEF InsertGrant
  <2>2. ASSUME NEW m \in members, m.id = call[r].row
        PROVE  new \in Grant /\ new.member = m.id
    BY <1>0, <2>2 DEF TypeOK, Membership, Grant
  <2> HIDE DEF new
  <2> QED BY <1>0, <2>1, <2>2
<1>7. CASE Regrant(r)
  <2>1. members' = members
    BY <1>7 DEF Regrant
  <2>2. ASSUME NEW g \in grants'
        PROVE  g \in Grant /\ \E h \in grants : h.member = g.member
    <3>1. PICK h \in grants : g = IF h.id = call[r].row THEN [h EXCEPT !.role = call[r].role] ELSE h
      BY <1>7, <2>2 DEF Regrant
    <3> QED BY <1>0, <3>1 DEF Grant
  <2> QED BY <1>0, <2>1, <2>2
<1>8. CASE Ungrant(r) \/ Enter(r)
  <2>1. grants' \subseteq grants /\ members \subseteq members'
    BY <1>8 DEF Ungrant, Enter
  <2> QED BY <1>1, <2>1
<1>9. CASE \/ LookInvited(r) \/ Clear(r) \/ InsertLink(r) \/ Mail(r) \/ Unsend(r) \/ Revoke(r)
           \/ Who(r) \/ SignUp(r) \/ Home(r) \/ HomeRole(r) \/ Join(r) \/ LookAdded(r) \/ Stamp(r)
           \/ Guard(r) \/ LookGranted(r) \/ Gather(r) \/ Discard(r) \/ Fail(r) \/ Expire(r)
  <2>1. grants' = grants /\ members' = members
    BY <1>9 DEF rows, LookInvited, Clear, InsertLink, Mail, Unsend, Revoke, Who, SignUp, Home, HomeRole,
                Join, LookAdded, Stamp, Guard, LookGranted, Gather, Discard, Fail, Expire
  <2> QED BY <1>1, <2>1
<1> QED BY <1>3, <1>4, <1>5, <1>6, <1>7, <1>8, <1>9 DEF Proceed

-----------------------------------------------------------------------------
(* Organisations, and what the histories record.                           *)

LEMMA RestStep ==
    ASSUME TypeOK, NEW r \in Requests, Proceed(r) \/ Fail(r) \/ Expire(r)
    PROVE  /\ place' \in [Ids -> {"none", "bare", "kept"}] /\ team' \in BOOLEAN
           /\ saw' \in [Requests -> SUBSET (Ids \cup {Team})]
           /\ failed' \subseteq Requests /\ failed \subseteq failed'
           /\ entered' \subseteq Requests
<1> DEFINE Goal == /\ place' \in [Ids -> {"none", "bare", "kept"}] /\ team' \in BOOLEAN
                   /\ saw' \in [Requests -> SUBSET (Ids \cup {Team})]
                   /\ failed' \subseteq Requests /\ failed \subseteq failed'
                   /\ entered' \subseteq Requests
<1> SUFFICES Goal
  OBVIOUS
<1>0. /\ place \in [Ids -> {"none", "bare", "kept"}] /\ team \in BOOLEAN
      /\ saw \in [Requests -> SUBSET (Ids \cup {Team})]
      /\ failed \subseteq Requests /\ entered \subseteq Requests
  BY DEF TypeOK
<1>1. failed' \in {failed, failed \cup {r}} \/ UNCHANGED failed
  BY DEF rows, Proceed, LookInvited, Clear, InsertLink, Mail, Unsend, Revoke, Who, SignUp, Home, HomeRole, Join,
         LookAdded, Enter, Stamp, Guard, Drop, SetRole, LookGranted, InsertGrant, Regrant, Ungrant, Gather,
         Erase, Discard, Fail, Expire, Shrug, Overlook
<1>2. failed' \subseteq Requests /\ failed \subseteq failed'
  BY <1>0, <1>1
<1> DEFINE Others == UNCHANGED <<place, team, saw>> /\ entered' \in {entered, entered \cup {r}}
<1>3. CASE Others
  BY <1>0, <1>2, <1>3
<1> HIDE DEF Others
<1>4. CASE \/ LookInvited(r) \/ Clear(r) \/ InsertLink(r) \/ Mail(r) \/ Unsend(r) \/ Revoke(r)
           \/ Who(r) \/ SignUp(r) \/ Join(r) \/ LookAdded(r) \/ Enter(r) \/ Stamp(r)
           \/ Guard(r) \/ Drop(r) \/ SetRole(r) \/ LookGranted(r) \/ InsertGrant(r) \/ Regrant(r)
           \/ Ungrant(r) \/ Fail(r) \/ Expire(r)
  <2>1. Others
    BY <1>4 DEF Others, rows, LookInvited, Clear, InsertLink, Mail, Unsend, Revoke, Who, SignUp, Join,
                LookAdded, Enter, Stamp, Guard, Drop, SetRole, LookGranted, InsertGrant, Regrant, Ungrant,
                Fail, Expire
  <2> QED BY <1>3, <2>1
<1>5. CASE Home(r) \/ HomeRole(r)
  <2>1. /\ place' \in {place, [place EXCEPT ![r] = "bare"], [place EXCEPT ![r] = "kept"]}
        /\ UNCHANGED <<team, saw, entered>>
    BY <1>5 DEF Home, HomeRole, Shrug
  <2>2. r \in Ids
    BY Names
  <2> QED BY <1>0, <1>2, <2>1, <2>2
<1>6. CASE Gather(r)
  <2> DEFINE found == {x \in Ids : place[x] = "kept" /\ OwnerOf(x) = call[r].by}
                      \cup {x \in {Team} : AlreadyAMember(call[r].by)}
  <2>1. saw' \in {saw, [saw EXCEPT ![r] = found]} /\ UNCHANGED <<place, team, entered>>
    BY <1>6 DEF Gather, rows
  <2>2. found \subseteq Ids \cup {Team}
    OBVIOUS
  <2> HIDE DEF found
  <2>3. saw' \in [Requests -> SUBSET (Ids \cup {Team})]
    BY <1>0, <2>1, <2>2
  <2> QED BY <1>0, <1>2, <2>1, <2>3
<1>7. CASE Erase(r)
  <2>1. place' \in [Ids -> {"none", "bare", "kept"}] /\ UNCHANGED <<team, saw, entered>>
    BY <1>0, <1>7 DEF Erase
  <2> QED BY <1>0, <1>2, <2>1
<1>8. CASE Discard(r)
  <2>1. PICK o \in saw[r] :
          /\ saw' = [saw EXCEPT ![r] = @ \ {o}]
          /\ \/ o = Team /\ team' = (team /\ ~(Deserted /\ Unreferenced)) /\ UNCHANGED place
             \/ o # Team /\ place' = [place EXCEPT ![o] = IF @ = "bare" THEN "none" ELSE @] /\ UNCHANGED team
             \/ UNCHANGED <<team, place>>
    BY <1>8 DEF Discard
  <2>2. saw' \in [Requests -> SUBSET (Ids \cup {Team})] /\ UNCHANGED entered
    BY <1>0, <1>8, <2>1 DEF Discard
  <2>3. team' \in BOOLEAN
    BY <1>0, <2>1
  <2>4. place' \in [Ids -> {"none", "bare", "kept"}]
    BY <1>0, <2>1
  <2> QED BY <1>0, <1>2, <2>2, <2>3, <2>4
<1> QED BY <1>4, <1>5, <1>6, <1>7, <1>8 DEF Proceed

LEMMA ExpireStep ==
    ASSUME NEW r \in Requests, Expire(r)
    PROVE  UNCHANGED <<accounts, place, team, members, grants, pc, call, saw, failed, together, entered>>
BY DEF Expire

LEMMA TypesStep ==
    ASSUME TypeOK, NEW r \in Requests, CallFits(r), LinkFits(r), RowFits(r), Proceed(r) \/ Fail(r) \/ Expire(r)
    PROVE  TypeOK'
<1>1. pc' \in [Requests -> Steps] /\ call' = call /\ together' = together
  BY PlaceStep, ExpireStep DEF TypeOK
<1>2. links' \in [Requests -> Link]
  BY LinksStep
<1>3. accounts' \subseteq People /\ \A m \in members' : m.user \in accounts'
  BY AccountsStep
<1>4. grants' \subseteq Grant /\ \A g \in grants' : \E m \in members' : m.id = g.member
  BY GrantsStep
<1>5. members' \subseteq Membership
  BY MembersStep
<1> QED BY <1>1, <1>2, <1>3, <1>4, <1>5, RestStep DEF TypeOK

\* The mail goes out for a link that was written just before, and the link is
\* withdrawn only after a mail that was refused.
LEMMA MailStep ==
    ASSUME TypeOK, NEW r \in Requests, CallFits(r), LinkFits(r), RowFits(r), Proceed(r) \/ Fail(r)
    PROVE  /\ pc'[r] = "mail" => Written(r)
           /\ pc'[r] = "unsend" => pc[r] = "mail"
           /\ pc[r] \in {"mail", "unsend"} => pc'[r] \in {"unsend", "done"}
<1> DEFINE Goal == /\ pc'[r] = "mail" => Written(r)
                   /\ pc'[r] = "unsend" => pc[r] = "mail"
                   /\ pc[r] \in {"mail", "unsend"} => pc'[r] \in {"unsend", "done"}
<1> SUFFICES Goal
  OBVIOUS
<1>0. pc \in [Requests -> Steps]
  BY DEF TypeOK
<1>1. CASE pc'[r] \notin {"mail", "unsend"} /\ pc[r] \notin {"mail", "unsend"}
  BY <1>1
<1> USE <1>0 DEF Goto, At, Overlook
<1>2. CASE InsertLink(r)
  <2>1. CASE UNCHANGED links
    <3>1. pc'[r] \in {"mail", "done"} /\ pc[r] = "insert" /\ (pc'[r] = "mail" => links'[r] # links[r])
      <4>1. links[r].state = "none"
        BY <1>2 DEF InsertLink, LinkFits
      <4>2. (Goto(r, "mail") /\ links'[r].state = "pending") \/ (Goto(r, "done") /\ UNCHANGED links)
        BY <1>2 DEF InsertLink, TypeOK
      <4> QED BY <1>2, <4>1, <4>2 DEF InsertLink
    <3> QED BY <2>1, <3>1
  <2>2. CASE ~UNCHANGED links
    <3>1. links'[r].state = "pending" /\ pc[r] = "insert" /\ pc'[r] = "mail" /\ links[r].state = "none"
      BY <1>2, <2>2 DEF InsertLink, TypeOK, LinkFits
    <3>2. Written(r)
      BY <3>1, LinksStep DEF Marked
    <3> QED BY <3>1, <3>2
  <2> QED BY <2>1, <2>2
<1>3. CASE Mail(r) \/ Unsend(r) \/ Fail(r)
  BY <1>3 DEF Mail, Unsend, Fail
<1>4. CASE \/ LookInvited(r) \/ Clear(r) \/ Revoke(r)
           \/ Who(r) \/ SignUp(r) \/ Home(r) \/ HomeRole(r) \/ Join(r) \/ LookAdded(r) \/ Enter(r) \/ Stamp(r)
  <2>1. pc'[r] \notin {"mail", "unsend"} /\ pc[r] \notin {"mail", "unsend"}
    BY <1>4 DEF LookInvited, Clear, Revoke, Who, SignUp, Home, HomeRole, Shrug, AfterHome, Join,
                LookAdded, Enter, Stamp
  <2> QED BY <1>1, <2>1
<1>5. CASE \/ Guard(r) \/ Drop(r) \/ SetRole(r) \/ LookGranted(r) \/ InsertGrant(r) \/ Regrant(r)
           \/ Ungrant(r) \/ Gather(r) \/ Erase(r) \/ Discard(r)
  <2>1. pc'[r] \notin {"mail", "unsend"} /\ pc[r] \notin {"mail", "unsend"}
    BY <1>5 DEF Guard, Drop, SetRole, LookGranted, InsertGrant, Regrant, Ungrant, Gather, Erase, Discard
  <2> QED BY <1>1, <2>1
<1> QED BY <1>2, <1>3, <1>4, <1>5 DEF Proceed

-----------------------------------------------------------------------------
(* The basics hold always.                                                 *)

LEMMA BaseAtStart == Init => Base
<1> SUFFICES ASSUME Init
             PROVE  Base
  OBVIOUS
<1> USE ConstantsAssumption, Names DEF Init, Roles, Operations, Removals
<1>1. call \in [Requests -> Call]
  <2>1. NoCall \in Call
    BY DEF NoCall, Call
  <2>2. ASSUME NEW p \in People
        PROVE  [NoCall EXCEPT !.op = "invite", !.whom = p] \in Call
    BY DEF NoCall, Call
  <2>3. \A r \in Requests :
            (IF r \in DOMAIN Standing THEN [NoCall EXCEPT !.op = "invite", !.whom = Standing[r]] ELSE NoCall) \in Call
    BY <2>1, <2>2
  <2> QED BY <2>3
<1>2. links \in [Requests -> Link]
  <2>1. NoLink \in Link
    BY DEF NoLink, Link
  <2>2. ASSUME NEW p \in People
        PROVE  [to |-> p, role |-> "member", state |-> "pending", mailed |-> TRUE] \in Link
    BY DEF Link
  <2>3. \A r \in Requests :
            (IF r \in DOMAIN Standing
             THEN [to |-> Standing[r], role |-> "member", state |-> "pending", mailed |-> TRUE] ELSE NoLink) \in Link
    BY <2>1, <2>2
  <2> QED BY <2>3
<1>3. members \subseteq Membership /\ \A m \in members : m.user \in accounts
  <2> SUFFICES ASSUME NEW m \in members
               PROVE  m \in Membership /\ m.user \in accounts
    OBVIOUS
  <2>1. PICK p \in Admins \cup Plain : m = [id |-> p, user |-> p, role |-> "admin"]
                                     \/ m = [id |-> p, user |-> p, role |-> "member"]
    OBVIOUS
  <2>2. p \in Ids /\ p \in People /\ p \in accounts
    OBVIOUS
  <2> HIDE DEF Init
  <2>3. m \in Membership /\ m.user = p
    BY <2>1, <2>2 DEF Membership
  <2> QED BY <2>2, <2>3
<1>4. TypeOK
  <2>1. place \in [Ids -> {"none", "bare", "kept"}] /\ pc \in [Requests -> Steps] /\ saw \in [Requests -> SUBSET (Ids \cup {Team})]
    BY DEF Steps
  <2> QED BY <1>1, <1>2, <1>3, <2>1 DEF TypeOK
<1>5. \A r \in Requests : ~Running(r)
  BY DEF Running
<1>6. ASSUME NEW r \in Requests
      PROVE  CallFits(r) /\ LinkFits(r) /\ RowFits(r)
  <2>1. /\ r \in DOMAIN Standing => /\ call[r].op = "invite" /\ call[r].whom \in People /\ pc[r] = "done"
                                    /\ links[r].to \in People
        /\ r \notin DOMAIN Standing => call[r].op = "none" /\ pc[r] = "idle" /\ links[r].state = "none"
    BY DEF NoCall, NoLink
  <2> QED BY <2>1 DEF CallFits, LinkFits, RowFits
<1> QED BY <1>4, <1>5, <1>6 DEF Base, RanTogether

LEMMA BaseAfterArrival ==
    ASSUME Base, NEW r \in Requests, NEW c \in Call, NEW step \in Steps, Admissible(c, step), Begin(r, c, step)
    PROVE  Base'
<1>0. TypeOK /\ RanTogether /\ \A i \in Requests : CallFits(i) /\ LinkFits(i) /\ RowFits(i)
  BY DEF Base
<1>1. /\ TypeOK' /\ UNCHANGED <<rows, saw, failed, entered>>
      /\ pc[r] = "idle" /\ pc'[r] = step /\ call'[r] = c
      /\ together' = together \cup {{r, s} : s \in {s \in Requests : Running(s)}}
      /\ \A s \in Requests \ {r} : pc'[s] = pc[s] /\ call'[s] = call[s]
  BY <1>0, BeginStep
<1>2. links' = links /\ links[r].state = "none"
  BY <1>0, <1>1 DEF rows, CallFits, LinkFits
<1>3. ASSUME NEW i \in Requests
      PROVE  CallFits(i)' /\ LinkFits(i)' /\ RowFits(i)'
  <2>1. CASE i = r
    <3>1. CallFits(r)'
      <4>1. accounts \subseteq People
        BY <1>0 DEF TypeOK
      <4>2. c.op = "grant" => c.row \in Ids
        BY DEF Admissible, Removals
      <4> QED BY <1>1, <4>1, <4>2 DEF CallFits, Admissible, Removals
    <3>2. LinkFits(r)'
      BY <1>1, <1>2 DEF LinkFits, Admissible
    <3>3. RowFits(r)'
      BY <1>1, <1>2 DEF RowFits, Admissible, Pending, Removals
    <3> QED BY <2>1, <3>1, <3>2, <3>3
  <2>2. CASE i # r
    BY <1>0, <1>1, <1>2, <2>2 DEF CallFits, LinkFits, RowFits
  <2> QED BY <2>1, <2>2
<1>4. RanTogether'
  <2> SUFFICES ASSUME NEW s \in Requests, NEW q \in Requests, s # q, Running(s)', Running(q)'
               PROVE  {s, q} \in together'
    BY DEF RanTogether, Overlapped
  <2>1. CASE s # r /\ q # r
    BY <1>0, <1>1, <2>1 DEF RanTogether, Running, Overlapped
  <2>2. CASE s = r
    BY <1>1, <2>2 DEF Running
  <2>3. CASE q = r
    <3>1. {r, s} \in together'
      BY <1>1, <2>3 DEF Running
    <3>2. {s, q} = {r, s}
      BY <2>3
    <3> QED BY <3>1, <3>2
  <2> QED BY <2>1, <2>2, <2>3
<1> QED BY <1>1, <1>3, <1>4 DEF Base

LEMMA BaseStep ==
    ASSUME Base, NEW r \in Requests, Proceed(r) \/ Fail(r)
    PROVE  Base'
<1>0. TypeOK /\ RanTogether /\ \A i \in Requests : CallFits(i) /\ LinkFits(i) /\ RowFits(i)
  BY DEF Base
<1>1. /\ Running(r) /\ call' = call /\ together' = together
      /\ \A s \in Requests \ {r} : pc'[s] = pc[s]
  BY <1>0, PlaceStep
<1>2. TypeOK'
  BY <1>0, TypesStep
<1>3. (\A i \in Requests : Marked(i)) \/ Written(r)
  BY <1>0, LinksStep
<1>4. \A i \in Requests : links[i].state # "none" => links'[i].state # "none" /\ links'[i].to = links[i].to
  BY <1>3 DEF Marked, Written
<1>5. ASSUME NEW i \in Requests
      PROVE  CallFits(i)' /\ LinkFits(i)' /\ RowFits(i)'
  <2>1. RowFits(i)'
    <3>1. call[i].op \in {"accept", "revoke"} => call[i].row \in Requests
      BY <1>0 DEF CallFits, Removals
    <3> QED BY <1>0, <1>1, <1>4, <3>1 DEF RowFits
  <2>2. CASE i = r
    <3>1. CallFits(r)'
      BY <1>0, FitsStep
    <3>2. LinkFits(r)'
      <4>1. /\ pc'[r] = "mail" => Written(r)
            /\ pc'[r] = "unsend" => pc[r] = "mail"
            /\ pc[r] \in {"mail", "unsend"} => pc'[r] \in {"unsend", "done"}
        BY <1>0, MailStep
      <4>2. CASE Written(r)
        <5>1. At(r, "invite", "insert") /\ call[r].whom \in People
          BY <1>0, <4>2 DEF Written, InsertLink, CallFits, Removals, At
        <5> QED BY <1>1, <4>2, <5>1 DEF Written, LinkFits, At
      <4>3. CASE ~Written(r)
        <5>1. Marked(r)
          BY <1>3, <4>3
        <5>2. pc'[r] # "idle"
          BY <1>0, <1>1, <3>1 DEF CallFits, Running, Removals
        <5>3. links'[r].state # "none" => links[r].state # "none"
          BY <5>1 DEF Marked
        <5>4. links'[r].state # "none" => links'[r].to \in People
          BY <1>0, <5>1, <5>3 DEF Marked, LinkFits
        <5>5. links[r].state # "none" => pc[r] \in {"mail", "unsend"}
          BY <1>0, <1>1 DEF LinkFits, Running
        <5>6. pc'[r] \in {"mail", "unsend"} => links'[r].state # "none"
          BY <1>0, <1>4, <4>1, <4>3 DEF LinkFits
        <5> QED BY <1>0, <1>1, <4>1, <5>3, <5>4, <5>5, <5>6 DEF LinkFits
      <4> QED BY <4>2, <4>3
    <3> QED BY <2>1, <2>2, <3>1, <3>2
  <2>3. CASE i # r
    <3>1. pc'[i] = pc[i] /\ Marked(i)
      BY <1>1, <1>3, <2>3 DEF Written
    <3>2. CallFits(i)'
      BY <1>0, <1>1, <3>1 DEF CallFits
    <3>3. LinkFits(i)'
      BY <1>0, <1>1, <1>4, <3>1 DEF LinkFits, Marked
    <3> QED BY <2>1, <3>2, <3>3
  <2> QED BY <2>2, <2>3
<1>6. RanTogether'
  <2>1. \A s \in Requests : Running(s)' => Running(s)
    BY <1>1 DEF Running
  <2> QED BY <1>0, <1>1, <2>1 DEF RanTogether, Overlapped
<1> QED BY <1>2, <1>5, <1>6 DEF Base

LEMMA BaseAfterExpiry ==
    ASSUME Base, NEW r \in Requests, Expire(r)
    PROVE  Base'
<1>0. TypeOK /\ RanTogether /\ \A i \in Requests : CallFits(i) /\ LinkFits(i) /\ RowFits(i)
  BY DEF Base
<1>1. UNCHANGED <<pc, call, together>>
  BY ExpireStep
<1>2. TypeOK'
  BY <1>0, TypesStep
<1>3. \A i \in Requests : links'[i].to = links[i].to /\ (links'[i].state = "none" <=> links[i].state = "none")
  BY <1>0 DEF Expire, TypeOK, Link
<1>4. \A i \in Requests : call[i].op \in {"accept", "revoke"} => call[i].row \in Requests
  BY <1>0 DEF CallFits, Removals
<1>5. \A i \in Requests : CallFits(i)' /\ LinkFits(i)' /\ RowFits(i)'
  BY <1>0, <1>1, <1>3, <1>4 DEF CallFits, LinkFits, RowFits
<1>6. RanTogether'
  BY <1>0, <1>1 DEF RanTogether, Running, Overlapped
<1> QED BY <1>2, <1>5, <1>6 DEF Base

LEMMA BaseStutter ==
    ASSUME Base, UNCHANGED vars
    PROVE  Base'
BY DEF Base, vars, TypeOK, RanTogether, Running, Overlapped, CallFits, LinkFits, RowFits, Steps, Call, Link,
       Membership, Grant

LEMMA BaseKept == Base /\ [Next]_vars => Base'
<1> SUFFICES ASSUME Base, [Next]_vars
             PROVE  Base'
  OBVIOUS
<1>1. CASE UNCHANGED vars
  BY <1>1, BaseStutter
<1>2. ASSUME NEW r \in Requests, BeginAsAdmin(r) \/ BeginAsAnyone(r)
      PROVE  Base'
  <2>1. PICK c \in Call, step \in Steps : Admissible(c, step) /\ Begin(r, c, step)
    BY <1>2, Arrival DEF Base
  <2> QED BY <2>1, BaseAfterArrival
<1>3. ASSUME NEW r \in Requests, Proceed(r) \/ Fail(r) \/ Expire(r)
      PROVE  Base'
  BY <1>3, BaseStep, BaseAfterExpiry
<1> QED BY <1>1, <1>2, <1>3 DEF Next

\* The basics every other invariant of this module rests on: types, no membership
\* without an account, no grant without a membership (the foreign keys hold through
\* every removal), and two requests that run at once are recorded as such.
THEOREM Basics == Spec => []Base
BY BaseAtStart, BaseKept, PTL DEF Spec

\* What the run organizations checks as its type invariant.
THEOREM TypesCorrect == Spec => []TypeOK
<1>1. Base => TypeOK
  BY DEF Base
<1> QED BY <1>1, Basics, PTL

-----------------------------------------------------------------------------
(* A step at large: an arrival, or a request or a link that moves.         *)

Arrives(r, c, step) == Admissible(c, step) /\ Begin(r, c, step)
Moves(r) == Proceed(r) \/ Fail(r) \/ Expire(r)

LEMMA StepKinds ==
    ASSUME Base, [Next]_vars
    PROVE  \/ UNCHANGED vars
           \/ \E r \in Requests, c \in Call, step \in Steps : Arrives(r, c, step)
           \/ \E r \in Requests : Moves(r)
<1>1. ASSUME NEW r \in Requests, BeginAsAdmin(r) \/ BeginAsAnyone(r)
      PROVE  \E c \in Call, step \in Steps : Arrives(r, c, step)
  BY <1>1, Arrival DEF Base, Arrives
<1> QED BY <1>1 DEF Next, Moves

\* What an arrival changes.
LEMMA ArrivalChanges ==
    ASSUME Base, NEW r \in Requests, NEW c \in Call, NEW step \in Steps, Arrives(r, c, step)
    PROVE  /\ UNCHANGED <<rows, saw, failed, entered>>
           /\ pc[r] = "idle" /\ pc'[r] = step /\ call'[r] = c
           /\ \A s \in Requests \ {r} : pc'[s] = pc[s] /\ call'[s] = call[s]
           /\ together \subseteq together'
           /\ \A s \in Requests : Running(s) => {r, s} \in together'
BY BeginStep DEF Base, Arrives

\* What the movement of a request leaves: nobody starts running, and two that run overlapped.
LEMMA MoveChanges ==
    ASSUME Base, NEW r \in Requests, Moves(r)
    PROVE  /\ call' = call /\ together' = together
           /\ \A s \in Requests \ {r} : pc'[s] = pc[s]
           /\ pc'[r] # pc[r] => Running(r)
           /\ \A s \in Requests : pc'[s] \notin {"idle", "done"} => Running(s)
<1>1. CASE Proceed(r) \/ Fail(r)
  BY <1>1, PlaceStep DEF Base, Running
<1>2. CASE Expire(r)
  BY <1>2, ExpireStep DEF Running
<1> QED BY <1>1, <1>2 DEF Moves

-----------------------------------------------------------------------------
(* One membership a person.                                                *)

\* Who is about to write a membership overlapped with the writers of those there are.
EnterKnows(r) ==
    pc[r] = "enter" => \A m \in members : m.user = call[r].whom /\ m.id # r => Overlapped(m.id, r)

MembersInv == OneMembership /\ \A r \in Requests : EnterKnows(r)

LEMMA EnterAfterLook ==
    ASSUME Base, NEW r \in Requests, Moves(r), pc'[r] = "enter"
    PROVE  members' = members /\ MembershipsOf(call[r].whom) = {}
<1>0. pc \in [Requests -> Steps]
  BY DEF Base, TypeOK
<1> USE <1>0 DEF Goto, At, Overlook
<1>1. CASE Join(r) \/ LookAdded(r)
  BY <1>1 DEF Join, LookAdded, AlreadyAMember, rows
<1>2. CASE Expire(r)
  BY <1>2 DEF Expire, Base, LinkFits
<1>3. CASE \/ LookInvited(r) \/ Clear(r) \/ InsertLink(r) \/ Mail(r) \/ Unsend(r) \/ Revoke(r)
           \/ Who(r) \/ SignUp(r) \/ Home(r) \/ HomeRole(r) \/ Enter(r) \/ Stamp(r)
  <2>1. pc'[r] # "enter"
    BY <1>3 DEF LookInvited, Clear, InsertLink, Mail, Unsend, Revoke, Who, SignUp, Home, HomeRole, Shrug,
                AfterHome, Enter, Stamp
  <2> QED BY <2>1
<1>4. CASE \/ Guard(r) \/ Drop(r) \/ SetRole(r) \/ LookGranted(r) \/ InsertGrant(r) \/ Regrant(r)
           \/ Ungrant(r) \/ Gather(r) \/ Erase(r) \/ Discard(r) \/ Fail(r)
  <2>1. pc'[r] # "enter"
    BY <1>4 DEF Guard, Drop, SetRole, LookGranted, InsertGrant, Regrant, Ungrant, Gather, Erase, Discard, Fail
  <2> QED BY <2>1
<1> QED BY <1>1, <1>2, <1>3, <1>4 DEF Moves, Proceed

LEMMA MembersKept == Base /\ Base' /\ MembersInv /\ [Next]_vars => MembersInv'
<1> SUFFICES ASSUME Base, Base', MembersInv, [Next]_vars
             PROVE  MembersInv'
  OBVIOUS
<1> USE DEF Overlapped
<1>1. CASE UNCHANGED vars
  BY <1>1 DEF vars, rows, MembersInv, OneMembership, EnterKnows
<1>2. ASSUME NEW r \in Requests, NEW c \in Call, NEW step \in Steps, Arrives(r, c, step)
      PROVE  MembersInv'
  <2>1. members' = members /\ together \subseteq together' /\ step # "enter"
        /\ \A s \in Requests : pc'[s] = "enter" => pc[s] = "enter" /\ call'[s] = call[s]
    BY <1>2, ArrivalChanges DEF rows, Arrives, Admissible
  <2> QED BY <2>1 DEF MembersInv, OneMembership, EnterKnows
<1>3. ASSUME NEW r \in Requests, Moves(r)
      PROVE  MembersInv'
  <2>1. /\ call' = call /\ together' = together
        /\ \A s \in Requests \ {r} : pc'[s] = pc[s]
    BY <1>3, MoveChanges
  <2>2. Entered(r) \/ MembersStay
    BY <1>3, MembersStep DEF Base, Moves
  <2>3. CASE MembersStay
    <3>1. OneMembership'
      BY <2>1, <2>3 DEF MembersInv, OneMembership, MembersStay
    <3>2. ASSUME NEW s \in Requests, pc'[s] = "enter"
          PROVE  EnterKnows(s)'
      <4>1. CASE pc[s] = "enter"
        BY <2>1, <2>3, <4>1 DEF MembersInv, EnterKnows, MembersStay
      <4>2. CASE pc[s] # "enter"
        <5>1. s = r /\ members' = members /\ MembershipsOf(call[r].whom) = {}
          BY <1>3, <2>1, <3>2, <4>2, EnterAfterLook
        <5> QED BY <2>1, <5>1 DEF EnterKnows, MembershipsOf
      <4> QED BY <4>1, <4>2
    <3> QED BY <3>1, <3>2 DEF MembersInv, EnterKnows
  <2>4. CASE Entered(r)
    <3> DEFINE new == [id |-> r, user |-> call[r].whom, role |-> call[r].role]
    <3>1. /\ members' = members \cup {new} /\ new.id = r /\ new.user = call[r].whom
          /\ pc[r] = "enter"
      BY <2>4 DEF Entered, Enter
    <3> HIDE DEF new
    <3>2. OneMembership'
      <4> SUFFICES ASSUME NEW m \in members', NEW n \in members', m.user = n.user, m.id # n.id
                   PROVE  {m.id, n.id} \in together'
        BY DEF OneMembership
      <4>1. CASE m \in members /\ n \in members
        BY <2>1, <4>1 DEF MembersInv, OneMembership
      <4>2. CASE m = new
        <5>1. n \in members /\ {n.id, r} \in together
          BY <3>1, <4>2 DEF MembersInv, EnterKnows
        <5>2. {m.id, n.id} = {n.id, r}
          BY <3>1, <4>2
        <5> QED BY <2>1, <5>1, <5>2
      <4>3. CASE n = new
        <5>1. m \in members /\ {m.id, r} \in together
          BY <3>1, <4>3 DEF MembersInv, EnterKnows
        <5> QED BY <2>1, <3>1, <4>3, <5>1
      <4> QED BY <3>1, <4>1, <4>2, <4>3
    <3>3. ASSUME NEW s \in Requests, pc'[s] = "enter"
          PROVE  EnterKnows(s)'
      <4>1. s # r /\ pc[s] = "enter"
        <5>1. pc'[r] # "enter"
          BY <2>4 DEF Entered, Enter, Goto, Base, TypeOK
        <5> QED BY <2>1, <3>3, <5>1
      <4>2. {r, s} \in together
        BY <3>1, <4>1 DEF Base, RanTogether, Running
      <4> QED BY <2>1, <3>1, <4>1, <4>2 DEF MembersInv, EnterKnows
    <3> QED BY <3>2, <3>3 DEF MembersInv, EnterKnows
  <2> QED BY <2>2, <2>3, <2>4
<1> QED BY <1>1, <1>2, <1>3, StepKinds

LEMMA MembersAtStart == Init => MembersInv
<1> SUFFICES ASSUME Init
             PROVE  MembersInv
  OBVIOUS
<1>1. \A r \in Requests : pc[r] # "enter"
  BY DEF Init
<1>2. ASSUME NEW m \in members
      PROVE  m.id = m.user
  <2>1. members = {[id |-> p, user |-> p, role |-> "admin"] : p \in Admins}
                  \cup {[id |-> p, user |-> p, role |-> "member"] : p \in Plain}
    BY DEF Init
  <2>2. PICK p \in Admins \cup Plain : m = [id |-> p, user |-> p, role |-> "admin"]
                                     \/ m = [id |-> p, user |-> p, role |-> "member"]
    BY <2>1
  <2> QED BY <2>2
<1> QED BY <1>1, <1>2 DEF MembersInv, OneMembership, EnterKnows

\* Two doors lead into a team, and neither holds anything between its look and its
\* write: a person is a member twice only if the two requests that wrote the rows
\* ran at once, however many removals and additions came before.
THEOREM OneMembershipAPerson == Spec => []OneMembership
<1>1. MembersInv => OneMembership
  BY DEF MembersInv
<1> QED BY <1>1, MembersAtStart, MembersKept, Basics, PTL DEF Spec

-----------------------------------------------------------------------------
(* One live link a person.                                                 *)

\* Who is about to write a link overlapped with the writers of those still live.
InsertKnows(r) ==
    At(r, "invite", "insert") =>
        \A i \in Requests : Pending(i) /\ links[i].to = call[r].whom /\ i # r => Overlapped(i, r)

LinksInv == OneLiveLink /\ \A r \in Requests : InsertKnows(r)

LEMMA InsertAfterClear ==
    ASSUME Base, NEW r \in Requests, Moves(r), call[r].op = "invite", pc'[r] = "insert"
    PROVE  pc[r] = "insert" \/ \A i \in Requests : ~(Pending(i)' /\ links'[i].to = call[r].whom)
<1>0. pc \in [Requests -> Steps] /\ links \in [Requests -> Link]
  BY DEF Base, TypeOK
<1> USE <1>0 DEF Goto, At, Overlook
<1>1. CASE Clear(r)
  <2>1. ASSUME NEW i \in Requests, Pending(i)', links'[i].to = call[r].whom
        PROVE  FALSE
    <3>1. links'[i] = IF Superseded(i, r) THEN [links[i] EXCEPT !.state = "gone"] ELSE links[i]
      BY <1>1 DEF Clear
    <3>2. ~Superseded(i, r)
      BY <2>1, <3>1 DEF Pending, Link
    <3> QED BY <2>1, <3>1, <3>2 DEF Pending, Superseded
  <2> QED BY <2>1
<1>2. CASE Expire(r)
  BY <1>2, ExpireStep
<1>3. CASE LookInvited(r) \/ InsertLink(r) \/ Mail(r) \/ Unsend(r) \/ Fail(r)
  BY <1>3 DEF LookInvited, InsertLink, Mail, Unsend, Fail
<1>4. CASE \/ Revoke(r)
           \/ Who(r) \/ SignUp(r) \/ Home(r) \/ HomeRole(r) \/ Join(r) \/ LookAdded(r) \/ Enter(r) \/ Stamp(r)
  <2>1. pc'[r] # "insert"
    BY <1>4 DEF Revoke, Who, SignUp, Home, HomeRole, Shrug, AfterHome, Join, LookAdded, Enter, Stamp
  <2> QED BY <2>1
<1>5. CASE \/ Guard(r) \/ Drop(r) \/ SetRole(r) \/ LookGranted(r) \/ InsertGrant(r) \/ Regrant(r)
           \/ Ungrant(r) \/ Gather(r) \/ Erase(r) \/ Discard(r)
  BY <1>5 DEF Guard, Drop, SetRole, LookGranted, InsertGrant, Regrant, Ungrant, Gather, Erase, Discard
<1> QED BY <1>1, <1>2, <1>3, <1>4, <1>5 DEF Moves, Proceed

LEMMA LinksKept == Base /\ Base' /\ LinksInv /\ [Next]_vars => LinksInv'
<1> SUFFICES ASSUME Base, Base', LinksInv, [Next]_vars
             PROVE  LinksInv'
  OBVIOUS
<1> USE DEF Overlapped
<1>1. CASE UNCHANGED vars
  BY <1>1 DEF vars, rows, LinksInv, OneLiveLink, InsertKnows, Pending, At
<1>2. ASSUME NEW r \in Requests, NEW c \in Call, NEW step \in Steps, Arrives(r, c, step)
      PROVE  LinksInv'
  <2>1. links' = links /\ together \subseteq together' /\ step # "insert"
        /\ \A s \in Requests : pc'[s] = "insert" => pc[s] = "insert" /\ call'[s] = call[s]
    BY <1>2, ArrivalChanges DEF rows, Arrives, Admissible
  <2> QED BY <2>1 DEF LinksInv, OneLiveLink, InsertKnows, Pending, At
<1>3. ASSUME NEW r \in Requests, Moves(r)
      PROVE  LinksInv'
  <2>1. /\ call' = call /\ together' = together
        /\ \A s \in Requests \ {r} : pc'[s] = pc[s]
    BY <1>3, MoveChanges
  <2>2. (\A i \in Requests : Marked(i)) \/ Written(r)
    BY <1>3, LinksStep DEF Base, Moves
  <2>3. ASSUME NEW i \in Requests, Marked(i)
        PROVE  links'[i].to = links[i].to /\ (Pending(i)' => Pending(i))
    BY <2>3 DEF Marked, Pending
  <2>4. CASE \A i \in Requests : Marked(i)
    <3>1. OneLiveLink'
      BY <2>1, <2>3, <2>4 DEF LinksInv, OneLiveLink
    <3>2. ASSUME NEW s \in Requests, At(s, "invite", "insert")'
          PROVE  InsertKnows(s)'
      <4>1. CASE pc[s] = "insert"
        <5>1. At(s, "invite", "insert")
          BY <2>1, <3>2, <4>1 DEF At
        <5> QED BY <2>1, <2>3, <2>4, <5>1 DEF LinksInv, InsertKnows
      <4>2. CASE pc[s] # "insert"
        <5>1. s = r /\ call[r].op = "invite" /\ pc'[r] = "insert"
          BY <2>1, <3>2, <4>2 DEF At
        <5>2. \A i \in Requests : ~(Pending(i)' /\ links'[i].to = call[r].whom)
          BY <1>3, <4>2, <5>1, InsertAfterClear
        <5> QED BY <2>1, <5>1, <5>2 DEF InsertKnows
      <4> QED BY <4>1, <4>2
    <3> QED BY <3>1, <3>2 DEF LinksInv, InsertKnows
  <2>5. CASE Written(r)
    <3>1. /\ At(r, "invite", "insert") /\ pc'[r] = "mail" /\ links'[r].to = call[r].whom
          /\ \A i \in Requests \ {r} : links'[i].to = links[i].to /\ (Pending(i)' => Pending(i))
      BY <2>3, <2>5 DEF Written, InsertLink
    <3>2. OneLiveLink'
      <4> SUFFICES ASSUME NEW i \in Requests, NEW j \in Requests, i # j, Pending(i)', Pending(j)',
                          links'[i].to = links'[j].to
                   PROVE  {i, j} \in together'
        BY DEF OneLiveLink
      <4>1. CASE i # r /\ j # r
        BY <2>1, <3>1, <4>1 DEF LinksInv, OneLiveLink
      <4>2. CASE i = r
        <5>1. {j, r} \in together /\ {i, j} = {j, r}
          BY <3>1, <4>2 DEF LinksInv, InsertKnows
        <5> QED BY <2>1, <5>1
      <4>3. CASE j = r
        BY <2>1, <3>1, <4>3 DEF LinksInv, InsertKnows
      <4> QED BY <4>1, <4>2, <4>3
    <3>3. ASSUME NEW s \in Requests, At(s, "invite", "insert")'
          PROVE  InsertKnows(s)'
      <4>1. s # r /\ At(s, "invite", "insert")
        BY <2>1, <3>1, <3>3 DEF At
      <4>2. {r, s} \in together
        BY <3>1, <4>1 DEF Base, RanTogether, Running, At
      <4> QED BY <2>1, <3>1, <4>1, <4>2 DEF LinksInv, InsertKnows
    <3> QED BY <3>2, <3>3 DEF LinksInv, InsertKnows
  <2> QED BY <2>2, <2>4, <2>5
<1> QED BY <1>1, <1>2, <1>3, StepKinds

LEMMA LinksAtStart == Init => LinksInv
<1> SUFFICES ASSUME Init
             PROVE  LinksInv
  OBVIOUS
<1>1. \A r \in Requests : pc[r] # "insert"
  BY DEF Init
<1>2. \A i \in Requests : Pending(i) => i \in DOMAIN Standing /\ links[i].to = Standing[i]
  BY DEF Init, Pending, NoLink
<1>3. OneLiveLink
  BY <1>2, ConstantsAssumption DEF OneLiveLink
<1> QED BY <1>1, <1>3 DEF LinksInv, InsertKnows, At

\* Inviting a person anew withdraws what they held, lapsed links too: of two links
\* that are neither used nor withdrawn, the requests that made them ran at once.
THEOREM OneLiveLinkAPerson == Spec => []OneLiveLink
<1>1. LinksInv => OneLiveLink
  BY DEF LinksInv
<1> QED BY <1>1, LinksAtStart, LinksKept, Basics, PTL DEF Spec

-----------------------------------------------------------------------------
(* A link admits once.                                                     *)

SameLink(r, s) == call[r].op = "accept" /\ call[s].op = "accept" /\ call[r].row = call[s].row

\* Who accepts overlapped with those the link has let in, or one of the two failed.
AdmitKnows(r) ==
    Running(r) => \A s \in entered : s # r /\ SameLink(r, s) => Overlapped(r, s) \/ s \in failed

\* Who has entered marks the link, and a marked link stays so.
Stamped(s) ==
    s \in entered =>
        \/ pc[s] = "stamp"
        \/ pc[s] = "done" /\ (call[s].op = "accept" /\ s \notin failed
                                  => links[call[s].row].state \in {"accepted", "gone"})

AdmissionInv == LinkAdmitsOnce /\ \A r \in Requests : AdmitKnows(r) /\ Stamped(r)

LEMMA AfterEntering ==
    ASSUME Base, NEW r \in Requests, Moves(r), pc[r] \in {"stamp", "done"}
    PROVE  /\ entered' = entered
           /\ \/ pc'[r] = pc[r]
              \/ pc'[r] = "done" /\ r \in failed'
              \/ pc'[r] = "done" /\ links'[call[r].row].state \in {"accepted", "gone"}
<1>0. pc \in [Requests -> Steps] /\ links \in [Requests -> Link]
  BY DEF Base, TypeOK
<1>1. CASE Expire(r)
  BY <1>1, ExpireStep
<1>2. CASE Fail(r)
  BY <1>0, <1>2 DEF Fail, Goto
<1>3. CASE Stamp(r)
  <2>1. call[r].row \in Requests
    BY <1>3 DEF Stamp, At, Base, CallFits, Removals
  <2> DEFINE s == IF links[call[r].row].state = "gone" THEN "gone" ELSE "accepted"
  <2>2. links' = [links EXCEPT ![call[r].row].state = s] /\ s \in {"accepted", "gone"}
    BY <1>3 DEF Stamp
  <2> HIDE DEF s
  <2>3. links'[call[r].row].state = s
    <3>1. links[call[r].row] \in Link
      BY <1>0, <2>1
    <3>2. links'[call[r].row] = [links[call[r].row] EXCEPT !.state = s]
      BY <1>0, <2>1, <2>2
    <3> QED BY <3>1, <3>2 DEF Link
  <2> QED BY <1>0, <1>3, <2>2, <2>3 DEF Stamp, Goto
<1>4. CASE \/ LookInvited(r) \/ Clear(r) \/ InsertLink(r) \/ Mail(r) \/ Unsend(r) \/ Revoke(r)
           \/ Who(r) \/ SignUp(r) \/ Home(r) \/ HomeRole(r) \/ Join(r) \/ LookAdded(r) \/ Enter(r)
  BY <1>4 DEF LookInvited, Clear, InsertLink, Mail, Unsend, Revoke, Who, SignUp, Home, HomeRole, Join,
              LookAdded, Enter, At
<1>5. CASE \/ Guard(r) \/ Drop(r) \/ SetRole(r) \/ LookGranted(r) \/ InsertGrant(r) \/ Regrant(r)
           \/ Ungrant(r) \/ Gather(r) \/ Erase(r) \/ Discard(r)
  BY <1>5 DEF Guard, Drop, SetRole, LookGranted, InsertGrant, Regrant, Ungrant, Gather, Erase, Discard, At
<1> QED BY <1>1, <1>2, <1>3, <1>4, <1>5 DEF Moves, Proceed

LEMMA AdmissionAfterArrival ==
    ASSUME Base, AdmissionInv, NEW r \in Requests, NEW c \in Call, NEW step \in Steps, Arrives(r, c, step)
    PROVE  AdmissionInv'
<1>1. /\ UNCHANGED <<links, failed, entered>> /\ together \subseteq together'
      /\ pc[r] = "idle" /\ call'[r] = c
      /\ \A s \in Requests \ {r} : pc'[s] = pc[s] /\ call'[s] = call[s]
      /\ \A s \in Requests : Running(s) => {r, s} \in together'
  BY ArrivalChanges DEF rows
<1>2. r \notin entered /\ entered \subseteq Requests
  BY <1>1 DEF AdmissionInv, Stamped, Base, TypeOK
<1>3. \A s \in Requests : Stamped(s)'
  BY <1>1, <1>2 DEF AdmissionInv, Stamped
<1>4. LinkAdmitsOnce'
  BY <1>1, <1>2 DEF AdmissionInv, LinkAdmitsOnce, Overlapped
<1>5. ASSUME NEW q \in Requests, Running(q)', NEW s \in entered', s # q, SameLink(q, s)'
      PROVE  Overlapped(q, s)' \/ s \in failed'
  <2>1. CASE q # r
    BY <1>1, <1>2, <1>5, <2>1 DEF AdmissionInv, AdmitKnows, SameLink, Running, Overlapped
  <2>2. CASE q = r
    <3>1. s \in Requests /\ s # r /\ s \in entered /\ c.op = "accept" /\ call[s].op = "accept" /\ call[s].row = c.row
      BY <1>1, <1>2, <1>5, <2>2 DEF SameLink
    <3>2. links[c.row].state = "pending"
      BY <3>1 DEF Arrives, Admissible, Removals
    <3>3. Running(s) \/ s \in failed
      BY <3>1, <3>2 DEF AdmissionInv, Stamped, Running
    <3> QED BY <1>1, <2>2, <3>1, <3>3 DEF Overlapped
  <2> QED BY <2>1, <2>2
<1> QED BY <1>3, <1>4, <1>5 DEF AdmissionInv, AdmitKnows

LEMMA AdmissionAfterMove ==
    ASSUME Base, Base', AdmissionInv, NEW r \in Requests, Moves(r)
    PROVE  AdmissionInv'
<1>0. /\ call' = call /\ together' = together
      /\ \A s \in Requests \ {r} : pc'[s] = pc[s]
      /\ \A s \in Requests : Running(s)' => Running(s)
  BY MoveChanges DEF Running
<1>1. failed \subseteq failed' /\ entered \subseteq Requests /\ entered' \subseteq Requests
  BY RestStep DEF Base, TypeOK, Moves
<1>2. Entered(r) \/ entered' = entered
  BY MembersStep DEF Base, Moves
<1>3. \A i \in Requests : links[i].state \in {"accepted", "gone"} => links'[i].state \in {"accepted", "gone"}
  BY LinksStep DEF Base, Moves, Marked, Written
<1>4. \A s \in Requests : call[s].op = "accept" => call[s].row \in Requests
  BY DEF Base, CallFits, Removals
<1>5. CASE Entered(r)
  <2>1. pc[r] = "enter" /\ Running(r) /\ entered' = entered \cup {r}
        /\ pc'[r] \in {"stamp", "done"} /\ (call[r].op = "accept" => pc'[r] = "stamp")
    <3>1. pc[r] = "enter" /\ Goto(r, IF call[r].op = "accept" THEN "stamp" ELSE "done")
      BY <1>5 DEF Entered, Enter
    <3> QED BY <1>5, <3>1 DEF Entered, Goto, Running, Base, TypeOK
  <2>2. \A s \in Requests : Stamped(s)'
    BY <1>0, <1>1, <1>3, <1>4, <2>1 DEF AdmissionInv, Stamped
  <2>3. ASSUME NEW q \in Requests, Running(q)', NEW s \in entered', s # q, SameLink(q, s)'
        PROVE  Overlapped(q, s)' \/ s \in failed'
    <3>1. CASE s = r
      BY <1>0, <2>1, <2>3, <3>1 DEF Base, RanTogether, Overlapped
    <3>2. CASE s \in entered
      BY <1>0, <1>1, <2>3, <3>2 DEF AdmissionInv, AdmitKnows, SameLink, Overlapped
    <3> QED BY <2>1, <3>1, <3>2
  <2>4. LinkAdmitsOnce'
    <3> SUFFICES ASSUME NEW q \in entered', NEW s \in entered', q # s, SameLink(q, s)
                 PROVE  {q, s} \in together \/ {q, s} \cap failed' # {}
      BY <1>0 DEF LinkAdmitsOnce, SameLink, Overlapped
    <3>1. CASE q \in entered /\ s \in entered
      BY <1>1, <3>1 DEF AdmissionInv, LinkAdmitsOnce, SameLink, Overlapped
    <3>2. CASE q = r
      BY <1>1, <2>1, <3>2 DEF AdmissionInv, AdmitKnows, Overlapped
    <3>3. CASE s = r
      <4>1. q \in entered /\ SameLink(r, q)
        BY <2>1, <3>3 DEF SameLink
      <4>2. {r, q} \in together \/ q \in failed
        BY <2>1, <3>3, <4>1 DEF AdmissionInv, AdmitKnows, Overlapped
      <4>3. {q, s} = {r, q}
        BY <3>3
      <4> QED BY <1>1, <4>2, <4>3
    <3> QED BY <2>1, <3>1, <3>2, <3>3
  <2> QED BY <2>2, <2>3, <2>4 DEF AdmissionInv, AdmitKnows
<1>6. CASE entered' = entered
  <2>1. ASSUME NEW s \in Requests, s \in entered
        PROVE  Stamped(s)'
    <3>1. CASE s # r
      BY <1>0, <1>1, <1>3, <1>4, <2>1, <3>1 DEF AdmissionInv, Stamped
    <3>2. CASE s = r
      <4>1. pc[r] \in {"stamp", "done"}
        BY <2>1, <3>2 DEF AdmissionInv, Stamped
      <4>2. \/ pc'[r] = pc[r]
            \/ pc'[r] = "done" /\ r \in failed'
            \/ pc'[r] = "done" /\ links'[call[r].row].state \in {"accepted", "gone"}
        BY <4>1, AfterEntering
      <4> QED BY <1>0, <1>1, <1>3, <1>4, <2>1, <3>2, <4>1, <4>2 DEF AdmissionInv, Stamped
    <3> QED BY <3>1, <3>2
  <2>2. LinkAdmitsOnce'
    BY <1>0, <1>1, <1>6 DEF AdmissionInv, LinkAdmitsOnce, Overlapped
  <2>3. \A q \in Requests : AdmitKnows(q)'
    BY <1>0, <1>1, <1>6 DEF AdmissionInv, AdmitKnows, SameLink, Overlapped
  <2> QED BY <1>6, <2>1, <2>2, <2>3 DEF AdmissionInv, Stamped
<1> QED BY <1>2, <1>5, <1>6

LEMMA AdmissionKept == Base /\ Base' /\ AdmissionInv /\ [Next]_vars => AdmissionInv'
<1> SUFFICES ASSUME Base, Base', AdmissionInv, [Next]_vars
             PROVE  AdmissionInv'
  OBVIOUS
<1>1. CASE UNCHANGED vars
  BY <1>1 DEF vars, rows, AdmissionInv, LinkAdmitsOnce, AdmitKnows, Stamped, SameLink, Running, Overlapped
<1> QED BY <1>1, StepKinds, AdmissionAfterArrival, AdmissionAfterMove

LEMMA AdmissionAtStart == Init => AdmissionInv
BY DEF Init, AdmissionInv, LinkAdmitsOnce, AdmitKnows, Stamped

\* A link that let somebody in lets nobody in again, after a removal for instance:
\* a second membership by it takes two requests at once or a fault that kept the
\* first from marking the link.
THEOREM LinkAdmitsOnceOnly == Spec => []LinkAdmitsOnce
<1>1. AdmissionInv => LinkAdmitsOnce
  BY DEF AdmissionInv
<1> QED BY <1>1, AdmissionAtStart, AdmissionKept, Basics, PTL DEF Spec

-----------------------------------------------------------------------------
(* An organisation somebody is in, or is invited to, is not deleted.       *)

\* Deleting an account may take organisations along, never one with a member or
\* with a link that is still live, whatever was read before the account went.
THEOREM WorkspaceIsKept == Spec => WorkspaceKept
<1>1. ASSUME NEW r \in Requests, NEW c \in Call, NEW step \in Steps, Arrives(r, c, step)
      PROVE  team' = team
  BY <1>1 DEF Arrives, Begin, rows
<1>2. ASSUME NEW r \in Requests, Moves(r), team, ~team'
      PROVE  Deserted /\ Unreferenced
  <2>1. CASE Discard(r)
    BY <1>2, <2>1 DEF Discard
  <2>2. CASE \/ LookInvited(r) \/ Clear(r) \/ InsertLink(r) \/ Mail(r) \/ Unsend(r) \/ Revoke(r)
             \/ Who(r) \/ SignUp(r) \/ Home(r) \/ HomeRole(r) \/ Join(r) \/ LookAdded(r) \/ Enter(r) \/ Stamp(r)
    BY <1>2, <2>2 DEF LookInvited, Clear, InsertLink, Mail, Unsend, Revoke, Who, SignUp, Home, HomeRole, Join,
                      LookAdded, Enter, Stamp, rows
  <2>3. CASE \/ Guard(r) \/ Drop(r) \/ SetRole(r) \/ LookGranted(r) \/ InsertGrant(r) \/ Regrant(r)
             \/ Ungrant(r) \/ Gather(r) \/ Erase(r) \/ Fail(r) \/ Expire(r)
    BY <1>2, <2>3 DEF Guard, Drop, SetRole, LookGranted, InsertGrant, Regrant, Ungrant, Gather, Erase, Fail,
                      Expire, rows
  <2> QED BY <1>2, <2>1, <2>2, <2>3 DEF Moves, Proceed
<1>3. Base /\ [Next]_vars => [team /\ ~team' => members = {} /\ \A i \in Requests : ~Pending(i)]_vars
  BY <1>1, <1>2, StepKinds DEF Deserted, Unreferenced, Pending
<1> QED BY <1>3, Basics, PTL DEF Spec, WorkspaceKept

-----------------------------------------------------------------------------
(* An admin stays.                                                         *)

\* The ids of rows are of requests that have written them: none is written anew.
IdsInv ==
    /\ \A m \in members : m.id \in People \cup entered
    /\ \A s \in entered : pc[s] \in {"stamp", "done"}
    /\ \A g \in grants : call[g.id].op = "grant" /\ pc[g.id] = "done"
    /\ \A r \in Requests :
          /\ call[r].op \in {"drop", "setRole"} => call[r].row \in People \cup entered
          /\ call[r].op \in {"regrant", "ungrant"} =>
                call[r].row \in Requests /\ call[call[r].row].op = "grant" /\ pc[call[r].row] = "done"

LEMMA GrantIds ==
    ASSUME Base, NEW r \in Requests, Moves(r)
    PROVE  \A g \in grants' : \/ \E h \in grants : h.id = g.id
                              \/ g.id = r /\ call[r].op = "grant" /\ pc'[r] = "done"
<1> DEFINE Goal == \A g \in grants' : \/ \E h \in grants : h.id = g.id
                                      \/ g.id = r /\ call[r].op = "grant" /\ pc'[r] = "done"
<1> SUFFICES Goal
  OBVIOUS
<1>1. CASE grants' \subseteq grants
  BY <1>1
<1>2. CASE InsertGrant(r)
  <2>1. pc'[r] = "done" /\ call[r].op = "grant"
    BY <1>2 DEF InsertGrant, At, Goto, Base, TypeOK
  <2>2. grants' \subseteq grants \cup {[id |-> r, member |-> call[r].row, role |-> call[r].role]}
    BY <1>2 DEF InsertGrant
  <2> QED BY <2>1, <2>2
<1>3. CASE Regrant(r)
  <2>1. ASSUME NEW g \in grants'
        PROVE  \E h \in grants : h.id = g.id
    <3>1. PICK h \in grants : g = IF h.id = call[r].row THEN [h EXCEPT !.role = call[r].role] ELSE h
      BY <1>3, <2>1 DEF Regrant
    <3>2. h \in Grant
      BY DEF Base, TypeOK
    <3> QED BY <3>1, <3>2 DEF Grant
  <2> QED BY <2>1
<1> HIDE DEF Goal
<1>4. CASE \/ LookInvited(r) \/ Clear(r) \/ InsertLink(r) \/ Mail(r) \/ Unsend(r) \/ Revoke(r)
           \/ Who(r) \/ SignUp(r) \/ Home(r) \/ HomeRole(r) \/ Join(r) \/ LookAdded(r) \/ Enter(r) \/ Stamp(r)
  BY <1>1, <1>4 DEF LookInvited, Clear, InsertLink, Mail, Unsend, Revoke, Who, SignUp, Home, HomeRole, Join,
                    LookAdded, Enter, Stamp, rows
<1>5. CASE \/ Guard(r) \/ Drop(r) \/ SetRole(r) \/ LookGranted(r) \/ Ungrant(r) \/ Gather(r) \/ Erase(r)
           \/ Discard(r) \/ Fail(r) \/ Expire(r)
  <2>1. grants' \subseteq grants
    BY <1>5 DEF Guard, Drop, SetRole, LookGranted, Ungrant, Gather, Erase, Discard, Fail, Expire, Without, rows
  <2> QED BY <1>1, <2>1
<1> QED BY <1>2, <1>3, <1>4, <1>5 DEF Moves, Proceed

LEMMA IdsKept == Base /\ Base' /\ IdsInv /\ [Next]_vars => IdsInv'
<1> SUFFICES ASSUME Base, Base', IdsInv, [Next]_vars
             PROVE  IdsInv'
  OBVIOUS
<1>0. /\ \A g \in grants : g.id \in Requests
      /\ entered \subseteq Requests /\ entered' \subseteq Requests
  BY DEF Base, TypeOK, Grant
<1>1. CASE UNCHANGED vars
  BY <1>1 DEF vars, rows, IdsInv
<1>2. ASSUME NEW r \in Requests, NEW c \in Call, NEW step \in Steps, Arrives(r, c, step)
      PROVE  IdsInv'
  <2>1. /\ UNCHANGED <<members, grants, entered>>
        /\ pc[r] = "idle" /\ call'[r] = c
        /\ \A s \in Requests \ {r} : pc'[s] = pc[s] /\ call'[s] = call[s]
    BY <1>2, ArrivalChanges DEF rows
  <2>2. /\ c.op \in {"drop", "setRole"} => \E m \in members : m.id = c.row
        /\ c.op \in {"regrant", "ungrant"} => \E g \in grants : g.id = c.row
    BY <1>2 DEF Arrives, Admissible, Removals
  <2>3. \A s \in Requests : pc[s] # "idle" => s # r
    BY <2>1
  <2>4. ASSUME NEW s \in Requests
        PROVE  /\ call'[s].op \in {"drop", "setRole"} => call'[s].row \in People \cup entered
               /\ call'[s].op \in {"regrant", "ungrant"} =>
                     call'[s].row \in Requests /\ call'[call'[s].row].op = "grant" /\ pc'[call'[s].row] = "done"
    <3>1. CASE s = r
      BY <1>0, <2>1, <2>2, <2>3, <3>1 DEF IdsInv
    <3>2. CASE s # r
      BY <2>1, <2>3, <3>2 DEF IdsInv
    <3> QED BY <3>1, <3>2
  <2> QED BY <1>0, <2>1, <2>3, <2>4 DEF IdsInv
<1>3. ASSUME NEW r \in Requests, Moves(r)
      PROVE  IdsInv'
  <2>1. /\ call' = call /\ \A s \in Requests \ {r} : pc'[s] = pc[s]
        /\ pc'[r] # pc[r] => Running(r)
    BY <1>3, MoveChanges
  <2>2. \A s \in Requests : pc[s] = "done" => pc'[s] = "done"
    BY <2>1 DEF Running
  <2>3. Entered(r) \/ (MembersStay /\ entered' = entered)
    BY <1>3, MembersStep DEF Base, Moves
  <2>4. entered \subseteq entered'
    BY <2>3 DEF Entered
  <2>5. \A m \in members' : m.id \in People \cup entered'
    <3>1. CASE Entered(r)
      <4>1. members' = members \cup {[id |-> r, user |-> call[r].whom, role |-> call[r].role]} /\ r \in entered'
        BY <3>1 DEF Entered
      <4> QED BY <2>4, <4>1 DEF IdsInv
    <3>2. CASE MembersStay
      BY <2>4, <3>2 DEF IdsInv, MembersStay
    <3> QED BY <2>3, <3>1, <3>2
  <2>6. \A s \in entered' : pc'[s] \in {"stamp", "done"}
    <3>1. CASE Entered(r)
      <4>1. pc'[r] \in {"stamp", "done"} /\ entered' = entered \cup {r}
        BY <3>1 DEF Entered, Enter, Goto, Base, TypeOK
      <4> QED BY <1>0, <2>1, <4>1 DEF IdsInv
    <3>2. CASE entered' = entered
      <4>1. r \in entered => pc'[r] \in {"stamp", "done"}
        BY <1>3, AfterEntering DEF IdsInv
      <4> QED BY <1>0, <2>1, <3>2, <4>1 DEF IdsInv
    <3> QED BY <2>3, <3>1, <3>2
  <2>7. \A g \in grants' : call'[g.id].op = "grant" /\ pc'[g.id] = "done"
    BY <1>0, <1>3, <2>1, <2>2, GrantIds DEF IdsInv
  <2> QED BY <2>1, <2>2, <2>4, <2>5, <2>6, <2>7 DEF IdsInv
<1> QED BY <1>1, <1>2, <1>3, StepKinds

\* No two removals ran at once, none met a fault, and nobody deleted an account.
Calm ==
    /\ Admins # {}
    /\ \A r \in Requests : call[r].op # "leave" /\ (call[r].op \in Removals => r \notin failed)
    /\ \A r, s \in Requests : r # s /\ {call[r].op, call[s].op} \subseteq Removals => ~Overlapped(r, s)

\* Who removes is an admin still, and when about to write has been kept from removing their own role.
RemoverStays(r) ==
    call[r].op \in Removals /\ Running(r) =>
        /\ MayAdminister(call[r].by)
        /\ pc[r] = "write" => ~RemovesOwnAdmin(r)

AdminInv ==
    /\ IdsInv
    /\ Calm => (\E p \in People : MayAdminister(p)) /\ \A r \in Requests : RemoverStays(r)

LEMMA CalmBefore == Base /\ [Next]_vars /\ Calm' => Calm
<1> SUFFICES ASSUME Base, [Next]_vars, Calm'
             PROVE  Calm
  OBVIOUS
<1>1. CASE UNCHANGED vars
  BY <1>1 DEF vars, Calm, Overlapped
<1>2. ASSUME NEW r \in Requests, NEW c \in Call, NEW step \in Steps, Arrives(r, c, step)
      PROVE  Calm
  <2>1. /\ failed' = failed /\ together \subseteq together' /\ call[r].op = "none"
        /\ \A s \in Requests \ {r} : call'[s] = call[s]
    BY <1>2, ArrivalChanges DEF rows, Base, CallFits, Removals
  <2> QED BY <2>1 DEF Calm, Overlapped, Removals
<1>3. ASSUME NEW r \in Requests, Moves(r)
      PROVE  Calm
  <2>1. call' = call /\ together' = together /\ failed \subseteq failed'
    BY <1>3, MoveChanges, RestStep DEF Base, Moves
  <2> QED BY <2>1 DEF Calm, Overlapped
<1> QED BY <1>1, <1>2, <1>3, StepKinds

\* A request that removes nothing only adds, and under an id of its own.
LEMMA OthersAdd ==
    ASSUME Base, IdsInv, NEW r \in Requests, Moves(r), call[r].op \notin Removals \cup {"leave"}
    PROVE  /\ members \subseteq members' /\ grants \subseteq grants'
           /\ \A m \in members' \ members : m.id = r /\ r \notin People \cup entered
           /\ \A g \in grants' \ grants : g.id = r /\ pc[r] # "done"
<1> DEFINE Goal == /\ members \subseteq members' /\ grants \subseteq grants'
                   /\ \A m \in members' \ members : m.id = r /\ r \notin People \cup entered
                   /\ \A g \in grants' \ grants : g.id = r /\ pc[r] # "done"
<1> SUFFICES Goal
  OBVIOUS
<1>0. CASE UNCHANGED <<members, grants>>
  BY <1>0
<1>1. CASE Entered(r)
  <2>1. /\ grants' = grants /\ pc[r] = "enter"
        /\ members' = members \cup {[id |-> r, user |-> call[r].whom, role |-> call[r].role]}
    BY <1>1 DEF Entered, Enter
  <2>2. r \notin People \cup entered
    BY <2>1, Names DEF IdsInv
  <2> QED BY <2>1, <2>2
<1>2. CASE InsertGrant(r)
  <2>1. /\ members' = members /\ pc[r] = "insert"
        /\ grants' = grants \/ grants' = grants \cup {[id |-> r, member |-> call[r].row, role |-> call[r].role]}
    BY <1>2 DEF InsertGrant, At
  <2> QED BY <2>1
<1> HIDE DEF Goal
<1>3. CASE Enter(r)
  <2>1. Entered(r) \/ UNCHANGED <<members, grants>>
    BY <1>3 DEF Enter, Entered
  <2> QED BY <1>0, <1>1, <2>1
<1>4. CASE \/ LookInvited(r) \/ Clear(r) \/ InsertLink(r) \/ Mail(r) \/ Unsend(r) \/ Revoke(r)
           \/ Who(r) \/ SignUp(r) \/ Home(r) \/ HomeRole(r) \/ Join(r) \/ LookAdded(r) \/ Stamp(r)
  <2>1. UNCHANGED <<members, grants>>
    BY <1>4 DEF LookInvited, Clear, InsertLink, Mail, Unsend, Revoke, Who, SignUp, Home, HomeRole, Join,
                LookAdded, Stamp, rows
  <2> QED BY <1>0, <2>1
<1>5. CASE Guard(r) \/ LookGranted(r) \/ Gather(r) \/ Discard(r) \/ Fail(r) \/ Expire(r)
  <2>1. UNCHANGED <<members, grants>>
    BY <1>5 DEF Guard, LookGranted, Gather, Discard, Fail, Expire, rows
  <2> QED BY <1>0, <2>1
<1>6. CASE Drop(r) \/ SetRole(r) \/ Regrant(r) \/ Ungrant(r) \/ Erase(r)
  BY <1>6 DEF Drop, SetRole, Regrant, Ungrant, Erase, At, Removals
<1> QED BY <1>2, <1>3, <1>4, <1>5, <1>6 DEF Moves, Proceed

\* Adding takes nothing from an admin, and gives a remover no row of theirs.
LEMMA AddingKeeps ==
    ASSUME members \subseteq members', grants \subseteq grants'
    PROVE  \A p : MayAdminister(p) => MayAdminister(p)'
BY DEF MayAdminister, MembershipsOf, GrantsOf

LEMMA AddingBlindsNoRule ==
    ASSUME Base, IdsInv, NEW r \in Requests, Moves(r), call[r].op \notin Removals \cup {"leave"},
           NEW s \in Requests, s # r, call[s].op \in Removals, ~RemovesOwnAdmin(s)
    PROVE  ~RemovesOwnAdmin(s)'
<1>1. /\ members \subseteq members' /\ grants \subseteq grants'
      /\ \A m \in members' \ members : m.id = r /\ r \notin People \cup entered
      /\ \A g \in grants' \ grants : g.id = r /\ pc[r] # "done"
      /\ call' = call
  BY OthersAdd, MoveChanges
<1>2. call[s].op \in {"drop", "setRole"} /\ OwnMembership(s)' => OwnMembership(s)
  BY <1>1 DEF OwnMembership, IdsInv
<1>3. ASSUME call[s].op \in {"regrant", "ungrant"}, OwnAdminGrant(s)'
      PROVE  OwnAdminGrant(s)
  <2>1. PICK g \in grants' : /\ g.id = call[s].row /\ g.role = "admin"
                             /\ \E m \in members' : m.user = call[s].by /\ m.id = g.member
    BY <1>1, <1>3 DEF OwnAdminGrant, GrantsOf, MembershipsOf
  <2>2. PICK m \in members' : m.user = call[s].by /\ m.id = g.member
    BY <2>1
  <2>3. g \in grants
    BY <1>1, <1>3, <2>1 DEF IdsInv
  <2>4. m \in members
    <3>1. PICK n \in members : n.id = g.member
      BY <2>3 DEF Base, TypeOK
    <3> QED BY <1>1, <2>2, <3>1 DEF IdsInv
  <2> QED BY <2>1, <2>2, <2>3, <2>4 DEF OwnAdminGrant, GrantsOf, MembershipsOf
<1> QED BY <1>1, <1>2, <1>3 DEF RemovesOwnAdmin

\* A removal looks, unless the look fails, and then writes.
LEMMA RemovalMove ==
    ASSUME Base, NEW r \in Requests, Moves(r), call[r].op \in Removals
    PROVE  \/ /\ UNCHANGED <<members, grants>>
              /\ pc'[r] = "write" => ~RemovesOwnAdmin(r) \/ r \in failed'
           \/ Drop(r) \/ SetRole(r) \/ Regrant(r) \/ Ungrant(r)
<1> DEFINE Still == /\ UNCHANGED <<members, grants>>
                    /\ pc'[r] = "write" => ~RemovesOwnAdmin(r) \/ r \in failed'
<1> SUFFICES Still \/ Drop(r) \/ SetRole(r) \/ Regrant(r) \/ Ungrant(r)
  OBVIOUS
<1>0. pc \in [Requests -> Steps] /\ CallFits(r)
  BY DEF Base, TypeOK
<1>1. CASE Guard(r) \/ Fail(r)
  BY <1>0, <1>1 DEF Guard, Fail, Goto, Overlook, rows
<1>2. CASE Expire(r)
  BY <1>2 DEF Expire, Base, LinkFits, Removals
<1> HIDE DEF Still
<1>3. CASE \/ LookInvited(r) \/ Clear(r) \/ InsertLink(r) \/ Mail(r) \/ Unsend(r) \/ Revoke(r)
           \/ Who(r) \/ Join(r) \/ LookAdded(r) \/ Stamp(r) \/ LookGranted(r) \/ InsertGrant(r)
           \/ Gather(r) \/ Erase(r) \/ Discard(r)
  BY <1>3 DEF LookInvited, Clear, InsertLink, Mail, Unsend, Revoke, Who, Join, LookAdded, Stamp, LookGranted,
              InsertGrant, Gather, Erase, Discard, At, Removals
<1>4. CASE SignUp(r) \/ Home(r) \/ HomeRole(r) \/ Enter(r)
  BY <1>0, <1>4 DEF SignUp, Home, HomeRole, Enter, CallFits, Removals
<1> QED BY <1>1, <1>2, <1>3, <1>4 DEF Moves, Proceed

\* The rule at work: what a request takes away that is not its caller's own admin
\* role leaves its caller an admin.
LEMMA RuleKeepsCaller ==
    ASSUME Base, NEW r \in Requests, Drop(r) \/ SetRole(r) \/ Regrant(r) \/ Ungrant(r),
           MayAdminister(call[r].by), ~RemovesOwnAdmin(r)
    PROVE  MayAdminister(call[r].by)' /\ pc'[r] = "done"
<1> DEFINE p == call[r].by
           Rules(ms, gs) == \E m \in ms : /\ m.user = p
                                          /\ \/ m.role = "admin"
                                             \/ \E g \in gs : g.member = m.id /\ g.role = "admin"
<1>0. call' = call /\ pc'[r] = "done"
  BY DEF Drop, SetRole, Regrant, Ungrant, Goto, Base, TypeOK
<1>1. Rules(members, grants)
  BY DEF MayAdminister, MembershipsOf, GrantsOf
<1>2. SUFFICES Rules(members', grants')
  BY <1>0 DEF MayAdminister, MembershipsOf, GrantsOf
<1>3. PICK m \in members : /\ m.user = p
                           /\ \/ m.role = "admin"
                              \/ \E g \in grants : g.member = m.id /\ g.role = "admin"
  BY <1>1
<1>4. m \in Membership /\ grants \subseteq Grant
  BY DEF Base, TypeOK
<1> DEFINE row == call[r].row
           role == call[r].role
<1>5. CASE Drop(r)
  <2>1. members' = {n \in members : n.id # row} /\ \A g \in grants : g.member # row => g \in grants'
    <3>1. ASSUME NEW g \in grants, g.member # row
          PROVE  g \in grants'
      <4>1. PICK n \in members : n.id = g.member
        BY DEF Base, TypeOK
      <4> QED BY <1>5, <3>1, <4>1 DEF Drop, Without
    <3> QED BY <1>5, <3>1 DEF Drop
  <2>2. m.id # row
    BY <1>3, <1>5 DEF Drop, At, RemovesOwnAdmin, OwnMembership
  <2> QED BY <1>3, <2>1, <2>2
<1>6. CASE SetRole(r)
  <2>1. /\ grants' = grants /\ call[r].op = "setRole"
        /\ (IF m.id = row THEN [m EXCEPT !.role = role] ELSE m) \in members'
    BY <1>6 DEF SetRole, At
  <2>2. CASE m.id # row
    BY <1>3, <2>1, <2>2
  <2>3. CASE m.id = row
    <3>1. role = "admin"
      BY <1>3, <2>1, <2>3 DEF RemovesOwnAdmin, OwnMembership
    <3>2. [m EXCEPT !.role = role].user = p /\ [m EXCEPT !.role = role].role = "admin"
      BY <1>3, <1>4, <3>1 DEF Membership
    <3> QED BY <2>1, <2>3, <3>2
  <2> QED BY <2>2, <2>3
<1>7. CASE Regrant(r) \/ Ungrant(r)
  <2>1. members' = members /\ At(r, IF Regrant(r) THEN "regrant" ELSE "ungrant", "write")
    BY <1>7 DEF Regrant, Ungrant
  <2>2. CASE m.role = "admin"
    BY <1>3, <2>1, <2>2
  <2>3. ASSUME NEW g \in grants, g.member = m.id, g.role = "admin"
        PROVE  \E h \in grants' : h.member = m.id /\ h.role = "admin"
    <3>1. g.id = row => OwnAdminGrant(r)
      BY <1>3, <2>3 DEF OwnAdminGrant, GrantsOf, MembershipsOf
    <3>2. CASE Ungrant(r)
      <4>1. call[r].op = "ungrant" /\ grants' = {h \in grants : h.id # row}
        BY <3>2 DEF Ungrant, At
      <4>2. g.id # row
        BY <3>1, <4>1 DEF RemovesOwnAdmin
      <4> QED BY <2>3, <4>1, <4>2
    <3>3. CASE Regrant(r)
      <4>1. /\ call[r].op = "regrant"
            /\ (IF g.id = row THEN [g EXCEPT !.role = role] ELSE g) \in grants'
        BY <3>3 DEF Regrant, At
      <4>2. g.id = row => role = "admin"
        BY <3>1, <4>1 DEF RemovesOwnAdmin
      <4>3. [g EXCEPT !.role = role].member = g.member /\ [g EXCEPT !.role = role].role = role
        BY <1>4 DEF Grant
      <4> QED BY <2>3, <4>1, <4>2, <4>3
    <3> QED BY <1>7, <3>2, <3>3
  <2> QED BY <1>3, <2>1, <2>2, <2>3
<1> QED BY <1>0, <1>5, <1>6, <1>7

LEMMA AdminKept == Base /\ Base' /\ AdminInv /\ [Next]_vars => AdminInv'
<1> SUFFICES ASSUME Base, Base', AdminInv, [Next]_vars
             PROVE  AdminInv'
  OBVIOUS
<1>0. IdsInv' /\ IdsInv /\ \A r \in Requests : CallFits(r)
  BY IdsKept DEF AdminInv, Base
<1> SUFFICES ASSUME Calm'
             PROVE  (\E p \in People : MayAdminister(p)') /\ \A r \in Requests : RemoverStays(r)'
  BY <1>0 DEF AdminInv
<1>1. Calm /\ (\E p \in People : MayAdminister(p)) /\ \A r \in Requests : RemoverStays(r)
  BY CalmBefore DEF AdminInv
<1> USE DEF Removals
<1>2. CASE UNCHANGED vars
  BY <1>1, <1>2 DEF vars, rows, RemoverStays, MayAdminister, MembershipsOf, GrantsOf, RemovesOwnAdmin,
                    OwnMembership, OwnAdminGrant, Running
<1>3. ASSUME NEW r \in Requests, NEW c \in Call, NEW step \in Steps, Arrives(r, c, step)
      PROVE  (\E p \in People : MayAdminister(p)') /\ \A s \in Requests : RemoverStays(s)'
  <2>1. /\ UNCHANGED <<members, grants>> /\ pc'[r] = step /\ call'[r] = c
        /\ \A s \in Requests \ {r} : pc'[s] = pc[s] /\ call'[s] = call[s]
    BY <1>3, ArrivalChanges DEF rows
  <2>2. \A p : MayAdminister(p) => MayAdminister(p)'
    BY <2>1, AddingKeeps
  <2>3. RemoverStays(r)'
    BY <1>3, <2>1, <2>2 DEF RemoverStays, Arrives, Admissible
  <2>4. ASSUME NEW s \in Requests, s # r
        PROVE  RemoverStays(s)'
    <3>1. RemovesOwnAdmin(s)' => RemovesOwnAdmin(s)
      BY <2>1, <2>4 DEF RemovesOwnAdmin, OwnMembership, OwnAdminGrant, GrantsOf, MembershipsOf
    <3> QED BY <1>1, <2>1, <2>2, <2>4, <3>1 DEF RemoverStays, Running
  <2> QED BY <1>1, <2>2, <2>3, <2>4
<1>4. ASSUME NEW r \in Requests, Moves(r)
      PROVE  (\E p \in People : MayAdminister(p)') /\ \A s \in Requests : RemoverStays(s)'
  <2>1. /\ call' = call /\ \A s \in Requests \ {r} : pc'[s] = pc[s]
        /\ \A s \in Requests : Running(s)' => Running(s)
    BY <1>4, MoveChanges DEF Running
  <2>2. CASE call[r].op \in Removals
    <3> HIDE DEF Removals
    <3>1. ASSUME NEW s \in Requests, s # r, call[s].op \in Removals, Running(s), Running(r)
          PROVE  FALSE
      BY <1>1, <2>2, <3>1 DEF Calm, Base, RanTogether
    <3>2. CASE /\ UNCHANGED <<members, grants>>
               /\ pc'[r] = "write" => ~RemovesOwnAdmin(r) \/ r \in failed'
      <4>1. \A p : MayAdminister(p) => MayAdminister(p)'
        BY <3>2, AddingKeeps
      <4>2. \A s \in Requests : RemovesOwnAdmin(s)' => RemovesOwnAdmin(s)
        BY <2>1, <3>2 DEF RemovesOwnAdmin, OwnMembership, OwnAdminGrant, GrantsOf, MembershipsOf
      <4>3. r \notin failed'
        BY <2>1, <2>2 DEF Calm
      <4> QED BY <1>1, <2>1, <3>2, <4>1, <4>2, <4>3 DEF RemoverStays
    <3>3. CASE Drop(r) \/ SetRole(r) \/ Regrant(r) \/ Ungrant(r)
      <4>1. pc[r] = "write"
        BY <3>3 DEF Drop, SetRole, Regrant, Ungrant, At
      <4>2. MayAdminister(call[r].by) /\ ~RemovesOwnAdmin(r) /\ Running(r)
        BY <1>1, <2>2, <4>1 DEF RemoverStays, Running
      <4>3. MayAdminister(call[r].by)' /\ pc'[r] = "done"
        BY <3>3, <4>2, RuleKeepsCaller
      <4>4. call[r].by \in People
        BY <1>0, <2>2 DEF CallFits, Removals
      <4>5. \E p \in People : MayAdminister(p)'
        BY <2>1, <4>3, <4>4
      <4>6. \A s \in Requests : RemoverStays(s)'
        BY <2>1, <3>1, <4>2, <4>3 DEF RemoverStays, Running
      <4> QED BY <4>5, <4>6
    <3> QED BY <1>4, <2>2, <3>2, <3>3, RemovalMove
  <2>3. CASE call[r].op \notin Removals
    <3> HIDE DEF Removals
    <3>1. call[r].op \notin Removals \cup {"leave"}
      BY <1>1, <2>3 DEF Calm
    <3>2. \A p : MayAdminister(p) => MayAdminister(p)'
      BY <1>0, <1>4, <3>1, OthersAdd, AddingKeeps
    <3>3. ASSUME NEW s \in Requests, call[s].op \in Removals, ~RemovesOwnAdmin(s)
          PROVE  ~RemovesOwnAdmin(s)'
      BY <1>0, <1>4, <2>3, <3>1, <3>3, AddingBlindsNoRule
    <3>4. ASSUME NEW s \in Requests, call[s].op \in Removals
          PROVE  pc'[s] = pc[s]
      BY <2>1, <2>3, <3>4
    <3> QED BY <1>1, <2>1, <3>2, <3>3, <3>4 DEF RemoverStays
  <2> QED BY <2>2, <2>3
<1> QED BY <1>2, <1>3, <1>4, StepKinds

LEMMA AdminAtStart == Init => AdminInv
<1> SUFFICES ASSUME Init
             PROVE  AdminInv
  OBVIOUS
<1>1. IdsInv
  <2>1. grants = {} /\ entered = {} /\ \A r \in Requests : call[r].op \in {"none", "invite"}
    BY DEF Init, NoCall
  <2>2. ASSUME NEW m \in members
        PROVE  m.id \in People
    <3>1. PICK p \in Admins \cup Plain : m = [id |-> p, user |-> p, role |-> "admin"]
                                       \/ m = [id |-> p, user |-> p, role |-> "member"]
      BY DEF Init
    <3> QED BY <3>1, ConstantsAssumption
  <2> QED BY <2>1, <2>2 DEF IdsInv
<1>2. ASSUME NEW p \in Admins
      PROVE  p \in People /\ MayAdminister(p)
  <2>1. [id |-> p, user |-> p, role |-> "admin"] \in members
    BY DEF Init
  <2> QED BY <2>1, ConstantsAssumption DEF MayAdminister, MembershipsOf
<1>3. \A r \in Requests : ~Running(r)
  BY DEF Init, Running
<1> QED BY <1>1, <1>2, <1>3 DEF AdminInv, Calm, RemoverStays

\* permissions.md's "always at least one administrator", with what it takes: as long
\* as no two removals run at once, none is hit by a fault and nobody deletes an
\* account, the team keeps an admin through every sequence of invitations,
\* additions, grants, demotions and removals.
THEOREM AdminStays == Spec => []AdminUnlessRaced
<1>1. Base /\ AdminInv => AdminUnlessRaced
  BY DEF AdminInv, Calm, AdminUnlessRaced, Base, TypeOK
<1> QED BY <1>1, AdminAtStart, AdminKept, Basics, PTL DEF Spec

-----------------------------------------------------------------------------
(* An organisation without members is explained.                           *)

Makers == {"found", "register", "accept"}

\* Nothing failed, and nobody deleted an account while an organisation was being made.
Undisturbed ==
    /\ failed = {}
    /\ \A r, s \in Requests : call[r].op = "leave" /\ call[s].op \in Makers => ~Overlapped(r, s)

\* Only a request that ran has founded, and a place that is kept has its owner.
OwnersInv ==
    /\ \A x \in Requests : place[x] # "none" => pc[x] # "idle"
    /\ \A x \in Ids : place[x] = "kept" => OwnerOf(x) \in accounts

\* Who makes an organisation has an account.
MakerStays(r) == pc[r] \in {"home", "homeRole"} => call[r].by \in accounts

\* Who deletes an account has seen every organisation it owns.
DeleterSaw(r) ==
    pc[r] = "erase" => \A x \in Ids : place[x] = "kept" /\ OwnerOf(x) = call[r].by => x \in saw[r]

\* What is bare is about to get its owner, or about to be discarded.
BareKnown(x) ==
    place[x] = "bare" =>
        \/ x \in Requests /\ pc[x] = "homeRole"
        \/ \E s \in Requests : pc[s] = "discard" /\ x \in saw[s]

PlacesInv ==
    /\ OwnersInv
    /\ Undisturbed => /\ \A r \in Requests : MakerStays(r) /\ DeleterSaw(r)
                      /\ \A x \in Ids : BareKnown(x)

LEMMA UndisturbedBefore == Base /\ [Next]_vars /\ Undisturbed' => Undisturbed
<1> SUFFICES ASSUME Base, [Next]_vars, Undisturbed'
             PROVE  Undisturbed
  OBVIOUS
<1>1. CASE UNCHANGED vars
  BY <1>1 DEF vars, Undisturbed, Overlapped
<1>2. ASSUME NEW r \in Requests, NEW c \in Call, NEW step \in Steps, Arrives(r, c, step)
      PROVE  Undisturbed
  <2>1. /\ failed' = failed /\ together \subseteq together' /\ call[r].op = "none"
        /\ \A s \in Requests \ {r} : call'[s] = call[s]
    BY <1>2, ArrivalChanges DEF rows, Base, CallFits, Removals
  <2> QED BY <2>1 DEF Undisturbed, Overlapped, Makers
<1>3. ASSUME NEW r \in Requests, Moves(r)
      PROVE  Undisturbed
  <2>1. call' = call /\ together' = together /\ failed \subseteq failed'
    BY <1>3, MoveChanges, RestStep DEF Base, Moves
  <2> QED BY <2>1 DEF Undisturbed, Overlapped
<1> QED BY <1>1, <1>2, <1>3, StepKinds

\* The steps that found, keep, empty or discard an organisation, and the others.
AtPlaces == {"home", "homeRole", "erase", "discard"}

Aside(r) ==
    /\ UNCHANGED <<accounts, place, saw>>
    /\ pc'[r] = pc[r] \/ (pc[r] \notin AtPlaces /\ pc'[r] \notin AtPlaces) \/ r \in failed'

LEMMA PlaceKinds ==
    ASSUME Base, NEW r \in Requests, Moves(r)
    PROVE  Aside(r) \/ SignUp(r) \/ Home(r) \/ HomeRole(r) \/ Gather(r) \/ Erase(r) \/ Discard(r)
<1>0. pc \in [Requests -> Steps]
  BY DEF Base, TypeOK
<1> USE <1>0 DEF Aside, AtPlaces, Goto, At, Overlook, rows
<1>1. CASE LookInvited(r) \/ Clear(r) \/ InsertLink(r) \/ Mail(r) \/ Unsend(r) \/ Revoke(r)
  BY <1>1 DEF LookInvited, Clear, InsertLink, Mail, Unsend, Revoke
<1>2. CASE Who(r) \/ Join(r) \/ LookAdded(r) \/ Enter(r) \/ Stamp(r)
  BY <1>2 DEF Who, Join, LookAdded, Enter, Stamp
<1>3. CASE Guard(r) \/ Drop(r) \/ SetRole(r) \/ LookGranted(r) \/ InsertGrant(r) \/ Regrant(r) \/ Ungrant(r)
  BY <1>3 DEF Guard, Drop, SetRole, LookGranted, InsertGrant, Regrant, Ungrant
<1>4. CASE Fail(r)
  BY <1>4 DEF Fail
<1>5. CASE Expire(r)
  BY <1>5, ExpireStep
<1> QED BY <1>1, <1>2, <1>3, <1>4, <1>5 DEF Moves, Proceed

\* What becomes of organisations: they stay or go, or the request founds one, gives
\* one to an account that is there, or empties those of an account it deletes.
LEMMA OwnersStep ==
    ASSUME Base, NEW r \in Requests, Moves(r)
    PROVE  \/ /\ accounts \subseteq accounts'
              /\ \A x \in Ids : place'[x] = place[x] \/ (place[x] = "bare" /\ place'[x] = "none")
           \/ /\ accounts' = accounts /\ pc[r] \in {"home", "homeRole"}
              /\ \A x \in Ids \ {r} : place'[x] = place[x]
              /\ place'[r] = "kept" => call[r].by \in accounts
           \/ Erase(r)
<1>0. place \in [Ids -> {"none", "bare", "kept"}] /\ r \in Ids
  BY Names DEF Base, TypeOK
<1>1. CASE Aside(r) \/ Gather(r)
  BY <1>1 DEF Aside, Gather, rows
<1>2. CASE SignUp(r)
  <2>1. accounts \subseteq accounts' /\ place' = place
    BY <1>2 DEF SignUp
  <2> QED BY <2>1
<1>3. CASE Home(r)
  BY <1>0, <1>3 DEF Home, Shrug
<1>4. CASE HomeRole(r)
  <2>1. /\ accounts' = accounts /\ pc[r] = "homeRole"
        /\ place' = place \/ (place' = [place EXCEPT ![r] = "kept"] /\ call[r].by \in accounts)
    BY <1>4 DEF HomeRole, Shrug
  <2> QED BY <1>0, <2>1
<1>5. CASE Discard(r)
  <2>1. PICK o \in saw[r] : place' = place \/ (o # Team /\ place' = [place EXCEPT ![o] = IF @ = "bare" THEN "none" ELSE @])
    BY <1>5 DEF Discard
  <2>2. o \in Ids \/ o = Team
    BY DEF Base, TypeOK
  <2>3. accounts' = accounts
    BY <1>5 DEF Discard
  <2> QED BY <1>0, <2>1, <2>2, <2>3
<1> QED BY <1>1, <1>2, <1>3, <1>4, <1>5, PlaceKinds

LEMMA OwnersKept == Base /\ Base' /\ OwnersInv /\ [Next]_vars => OwnersInv'
<1> SUFFICES ASSUME Base, Base', OwnersInv, [Next]_vars
             PROVE  OwnersInv'
  OBVIOUS
<1>0. Ids = People \cup Requests /\ People \cap Requests = {}
  BY Names DEF Ids
<1>1. CASE UNCHANGED vars
  BY <1>1 DEF vars, rows, OwnersInv, OwnerOf
<1>2. ASSUME NEW r \in Requests, NEW c \in Call, NEW step \in Steps, Arrives(r, c, step)
      PROVE  OwnersInv'
  <2>1. /\ UNCHANGED <<accounts, place>> /\ pc[r] = "idle" /\ pc'[r] = step
        /\ \A s \in Requests \ {r} : pc'[s] = pc[s] /\ call'[s] = call[s]
    BY <1>2, ArrivalChanges DEF rows
  <2>2. place[r] = "none" /\ \A x \in Ids : place[x] = "kept" => x # r
    BY <2>1 DEF OwnersInv
  <2> QED BY <1>0, <2>1, <2>2 DEF OwnersInv, OwnerOf
<1>3. ASSUME NEW r \in Requests, Moves(r)
      PROVE  OwnersInv'
  <2>1. call' = call /\ \A s \in Requests \ {r} : pc'[s] = pc[s]
    BY <1>3, MoveChanges
  <2>2. \A x : OwnerOf(x)' = OwnerOf(x)
    BY <2>1 DEF OwnerOf
  <2>3. \A s \in Requests : pc[s] # "idle" => pc'[s] # "idle"
    BY <2>1 DEF Base, CallFits, Removals
  <2>4. CASE /\ accounts \subseteq accounts'
             /\ \A x \in Ids : place'[x] = place[x] \/ (place[x] = "bare" /\ place'[x] = "none")
    BY <1>0, <2>2, <2>3, <2>4 DEF OwnersInv
  <2>5. CASE /\ accounts' = accounts /\ pc[r] \in {"home", "homeRole"}
             /\ \A x \in Ids \ {r} : place'[x] = place[x]
             /\ place'[r] = "kept" => call[r].by \in accounts
    <3>1. OwnerOf(r) = call[r].by
      BY <1>0 DEF OwnerOf
    <3> QED BY <1>0, <2>2, <2>3, <2>5, <3>1 DEF OwnersInv
  <2>6. CASE Erase(r)
    <3>1. /\ accounts' = accounts \ {call[r].by}
          /\ \A x \in Ids : place'[x] = IF place[x] = "kept" /\ OwnerOf(x) = call[r].by THEN "bare" ELSE place[x]
      BY <2>6 DEF Erase
    <3> QED BY <1>0, <2>2, <2>3, <3>1 DEF OwnersInv
  <2> QED BY <1>3, <2>4, <2>5, <2>6, OwnersStep
<1> QED BY <1>1, <1>2, <1>3, StepKinds

\* Undisturbed, an organisation is founded and given to its owner, and an account's
\* deletion goes from what it saw to what it discards.
Settled ==
    /\ Undisturbed
    /\ \A r \in Requests : MakerStays(r) /\ DeleterSaw(r)
    /\ \A x \in Ids : BareKnown(x)

LEMMA SettledAfterArrival ==
    ASSUME Base, OwnersInv, Settled, Undisturbed',
           NEW r \in Requests, NEW c \in Call, NEW step \in Steps, Arrives(r, c, step)
    PROVE  Settled'
<1>1. /\ UNCHANGED <<accounts, place, saw>> /\ pc[r] = "idle" /\ pc'[r] = step /\ call'[r] = c
      /\ \A s \in Requests \ {r} : pc'[s] = pc[s] /\ call'[s] = call[s]
  BY ArrivalChanges DEF rows
<1>2. step \notin {"homeRole", "erase", "discard"} /\ (step = "home" => c.by \in accounts)
  BY DEF Arrives, Admissible
<1>3. \A x \in Ids : place[x] = "kept" => OwnerOf(x)' = OwnerOf(x)
  BY <1>1, Names DEF OwnersInv, OwnerOf, Ids
<1>4. \A s \in Requests : MakerStays(s)'
  BY <1>1, <1>2 DEF Settled, MakerStays
<1>5. \A s \in Requests : DeleterSaw(s)'
  BY <1>1, <1>2, <1>3 DEF Settled, DeleterSaw
<1>6. \A x \in Ids : BareKnown(x)'
  BY <1>1 DEF Settled, BareKnown
<1> QED BY <1>4, <1>5, <1>6 DEF Settled

LEMMA SettledAfterMove ==
    ASSUME Base, Base', OwnersInv, Settled, Undisturbed', NEW r \in Requests, Moves(r)
    PROVE  Settled'
<1>0. /\ call' = call /\ \A s \in Requests \ {r} : pc'[s] = pc[s]
      /\ pc \in [Requests -> Steps] /\ saw \in [Requests -> SUBSET (Ids \cup {Team})]
      /\ place \in [Ids -> {"none", "bare", "kept"}] /\ r \in Ids /\ Requests \subseteq Ids
  BY MoveChanges, Names DEF Base, TypeOK
<1>1. failed' = {}
  BY DEF Undisturbed
<1>2. \A x : OwnerOf(x)' = OwnerOf(x)
  BY <1>0 DEF OwnerOf
<1>3. CallFits(r)
  BY DEF Base
<1>4. CASE Aside(r)
  <2>1. \A s \in Requests : pc'[s] \in AtPlaces \/ pc[s] \in AtPlaces => pc'[s] = pc[s]
    BY <1>0, <1>1, <1>4 DEF Aside
  <2>2. UNCHANGED <<accounts, place, saw>>
    BY <1>4 DEF Aside
  <2>3. \A s \in Requests : MakerStays(s)' /\ DeleterSaw(s)'
    BY <1>0, <1>2, <2>1, <2>2 DEF Settled, MakerStays, DeleterSaw, AtPlaces
  <2>4. \A x \in Ids : BareKnown(x)'
    BY <2>1, <2>2 DEF Settled, BareKnown, AtPlaces
  <2> QED BY <2>3, <2>4 DEF Settled
<1>5. CASE SignUp(r)
  <2>1. /\ UNCHANGED <<place, saw>> /\ accounts \subseteq accounts' /\ pc[r] = "signup"
        /\ pc'[r] \in {"home", "done"} /\ (pc'[r] = "home" => call[r].whom \in accounts')
    BY <1>0, <1>5 DEF SignUp, Goto
  <2>2. call[r].whom = call[r].by
    BY <1>3, <2>1 DEF CallFits, Removals
  <2>3. \A s \in Requests : MakerStays(s)' /\ DeleterSaw(s)'
    BY <1>0, <1>2, <2>1, <2>2 DEF Settled, MakerStays, DeleterSaw
  <2>4. \A x \in Ids : BareKnown(x)'
    BY <1>0, <2>1 DEF Settled, BareKnown
  <2> QED BY <2>3, <2>4 DEF Settled
<1>6. CASE Home(r)
  <2>1. /\ UNCHANGED <<accounts, saw>> /\ pc[r] = "home" /\ pc'[r] = "homeRole"
        /\ place' = [place EXCEPT ![r] = "bare"]
    BY <1>0, <1>1, <1>6 DEF Home, Shrug, Overlook, Goto
  <2>2. \A s \in Requests : MakerStays(s)' /\ DeleterSaw(s)'
    BY <1>0, <1>2, <2>1 DEF Settled, MakerStays, DeleterSaw
  <2>3. \A x \in Ids : BareKnown(x)'
    BY <1>0, <2>1 DEF Settled, BareKnown
  <2> QED BY <2>2, <2>3 DEF Settled
<1>7. CASE HomeRole(r)
  <2>1. UNCHANGED <<accounts, saw>> /\ pc[r] = "homeRole" /\ pc'[r] \in {"join", "done"}
    BY <1>0, <1>7 DEF HomeRole, Shrug, Overlook, Goto, AfterHome
  <2>2. call[r].by \in accounts
    BY <2>1 DEF Settled, MakerStays
  <2>3. place' = [place EXCEPT ![r] = "kept"]
    BY <1>1, <1>7, <2>2 DEF HomeRole, Shrug, Overlook
  <2>4. \A s \in Requests : MakerStays(s)'
    BY <1>0, <2>1 DEF Settled, MakerStays
  <2>5. ASSUME NEW s \in Requests, pc'[s] = "erase"
        PROVE  DeleterSaw(s)'
    <3>1. s # r /\ pc[s] = "erase" /\ call[s].op = "leave" /\ Running(s)
      BY <1>0, <2>1, <2>5 DEF Base, CallFits, Running, Removals
    <3>2. call[r].op \in Makers /\ Running(r)
      BY <1>3, <2>1 DEF CallFits, Running, Removals, Makers
    <3>3. {s, r} \in together
      BY <3>1, <3>2 DEF Base, RanTogether, Overlapped
    <3> QED BY <3>1, <3>2, <3>3 DEF Settled, Undisturbed, Overlapped
  <2>6. \A x \in Ids : BareKnown(x)'
    BY <1>0, <2>1, <2>3 DEF Settled, BareKnown
  <2> QED BY <2>4, <2>5, <2>6 DEF Settled, DeleterSaw
<1>8. CASE Gather(r)
  <2> DEFINE found == {x \in Ids : place[x] = "kept" /\ OwnerOf(x) = call[r].by}
                      \cup {x \in {Team} : AlreadyAMember(call[r].by)}
  <2>1. /\ UNCHANGED <<accounts, place>> /\ pc[r] = "gather" /\ pc'[r] = "erase"
        /\ saw' = [saw EXCEPT ![r] = found]
    BY <1>0, <1>1, <1>8 DEF Gather, Overlook, Goto, At, rows
  <2>2. \A x \in Ids : place[x] = "kept" /\ OwnerOf(x) = call[r].by => x \in found
    OBVIOUS
  <2> HIDE DEF found
  <2>3. saw'[r] = found /\ \A s \in Requests \ {r} : saw'[s] = saw[s]
    BY <1>0, <2>1
  <2>4. \A s \in Requests : MakerStays(s)' /\ DeleterSaw(s)'
    BY <1>0, <1>2, <2>1, <2>2, <2>3 DEF Settled, MakerStays, DeleterSaw
  <2>5. \A x \in Ids : BareKnown(x)'
    BY <1>0, <2>1, <2>3 DEF Settled, BareKnown
  <2> QED BY <2>4, <2>5 DEF Settled
<1>9. CASE Erase(r)
  <2>1. /\ accounts' = accounts \ {call[r].by} /\ saw' = saw
        /\ call[r].op = "leave" /\ pc[r] = "erase"
        /\ pc'[r] = IF call[r].by \in accounts /\ saw[r] # {} THEN "discard" ELSE "done"
        /\ \A x \in Ids : place'[x] = IF place[x] = "kept" /\ OwnerOf(x) = call[r].by THEN "bare" ELSE place[x]
    BY <1>0, <1>9 DEF Erase, At, Goto
  <2>2. ASSUME NEW s \in Requests
        PROVE  pc[s] \notin {"home", "homeRole"}
    <3>1. ASSUME pc[s] \in {"home", "homeRole"}
          PROVE  FALSE
      <4>1. call[s].op \in Makers /\ Running(s) /\ Running(r) /\ s # r
        BY <2>1, <3>1 DEF Base, CallFits, Running, Removals, Makers
      <4>2. {r, s} \in together
        BY <4>1 DEF Base, RanTogether, Overlapped
      <4> QED BY <2>1, <4>1, <4>2 DEF Settled, Undisturbed, Overlapped
    <3> QED BY <3>1
  <2>3. \A s \in Requests : MakerStays(s)'
    BY <1>0, <2>1, <2>2 DEF MakerStays
  <2>4. \A s \in Requests : DeleterSaw(s)'
    BY <1>0, <1>2, <2>1 DEF Settled, DeleterSaw
  <2>5. ASSUME NEW x \in Ids, place'[x] = "bare"
        PROVE  BareKnown(x)'
    <3>1. CASE place[x] = "bare"
      <4>1. PICK s \in Requests : pc[s] = "discard" /\ x \in saw[s]
        BY <2>2, <3>1 DEF Settled, BareKnown
      <4> QED BY <1>0, <2>1, <4>1 DEF BareKnown
    <3>2. CASE place[x] # "bare"
      <4>1. place[x] = "kept" /\ OwnerOf(x) = call[r].by
        BY <2>1, <2>5, <3>2
      <4>2. x \in saw[r] /\ call[r].by \in accounts
        BY <2>1, <4>1 DEF Settled, DeleterSaw, OwnersInv
      <4> QED BY <2>1, <4>2 DEF BareKnown
    <3> QED BY <3>1, <3>2
  <2> QED BY <2>3, <2>4, <2>5 DEF Settled, BareKnown
<1>10. CASE Discard(r)
  <2>1. /\ pc[r] = "discard" /\ accounts' = accounts
        /\ \E o \in saw[r] :
              /\ saw' = [saw EXCEPT ![r] = @ \ {o}]
              /\ pc'[r] = IF saw[r] = {o} THEN "done" ELSE "discard"
              /\ \/ o = Team /\ place' = place
                 \/ o # Team /\ place' = [place EXCEPT ![o] = IF @ = "bare" THEN "none" ELSE @]
    BY <1>0, <1>1, <1>10 DEF Discard, At, Goto, Overlook
  <2>2. PICK o \in saw[r] :
           /\ saw' = [saw EXCEPT ![r] = @ \ {o}]
           /\ pc'[r] = IF saw[r] = {o} THEN "done" ELSE "discard"
           /\ \/ o = Team /\ place' = place
              \/ o # Team /\ place' = [place EXCEPT ![o] = IF @ = "bare" THEN "none" ELSE @]
    BY <2>1
  <2>3. saw'[r] = saw[r] \ {o} /\ \A s \in Requests \ {r} : saw'[s] = saw[s]
    BY <1>0, <2>2
  <2>4. o \in Ids \cup {Team} /\ Team \notin Ids
    BY <1>0, Names
  <2>5. /\ \A x \in Ids : place'[x] = place[x] \/ (place[x] = "bare" /\ place'[x] = "none")
        /\ o \in Ids => place'[o] # "bare"
    BY <1>0, <2>2, <2>4
  <2>6. \A s \in Requests : MakerStays(s)' /\ DeleterSaw(s)'
    BY <1>0, <1>2, <2>1, <2>2, <2>3, <2>5 DEF Settled, MakerStays, DeleterSaw
  <2>7. ASSUME NEW x \in Ids, place'[x] = "bare"
        PROVE  BareKnown(x)'
    <3>1. place[x] = "bare" /\ x # o
      BY <2>5, <2>7
    <3>2. CASE x \in Requests /\ pc[x] = "homeRole"
      BY <1>0, <2>1, <3>2 DEF BareKnown
    <3>3. ASSUME NEW s \in Requests, pc[s] = "discard", x \in saw[s]
          PROVE  pc'[s] = "discard" /\ x \in saw'[s]
      BY <1>0, <2>2, <2>3, <3>1, <3>3
    <3> QED BY <3>1, <3>2, <3>3 DEF Settled, BareKnown
  <2> QED BY <2>6, <2>7 DEF Settled, BareKnown
<1> QED BY <1>4, <1>5, <1>6, <1>7, <1>8, <1>9, <1>10, PlaceKinds

LEMMA PlacesKept == Base /\ Base' /\ PlacesInv /\ [Next]_vars => PlacesInv'
<1> SUFFICES ASSUME Base, Base', PlacesInv, [Next]_vars, Undisturbed'
             PROVE  Settled'
  BY OwnersKept DEF PlacesInv, Settled
<1>0. OwnersInv /\ Settled
  BY UndisturbedBefore DEF PlacesInv, Settled
<1>1. CASE UNCHANGED vars
  BY <1>0, <1>1 DEF vars, rows, Settled, Undisturbed, Overlapped, MakerStays, DeleterSaw, BareKnown, OwnerOf
<1> QED BY <1>0, <1>1, StepKinds, SettledAfterArrival, SettledAfterMove

LEMMA PlacesAtStart == Init => PlacesInv
<1> SUFFICES ASSUME Init
             PROVE  PlacesInv
  OBVIOUS
<1>1. /\ \A x \in Ids : place[x] # "bare" /\ (place[x] = "kept" => x \in People /\ x \in accounts)
      /\ \A r \in Requests : pc[r] \in {"idle", "done"} /\ place[r] = "none"
  BY Names, ConstantsAssumption DEF Init
<1> QED BY <1>1 DEF PlacesInv, OwnersInv, OwnerOf, MakerStays, DeleterSaw, BareKnown

\* No organisation is left without a member by a race of its founding with anything
\* but the deletion of an account: an empty one has a request at it still, or one
\* failed, or an account was deleted while an organisation was being made.
THEOREM EmptyPlacesExplained == Spec => []EmptyPlaceIsExplained
<1>1. Base /\ PlacesInv => EmptyPlaceIsExplained
  <2> SUFFICES ASSUME Base, PlacesInv, NEW x \in Ids, place[x] = "bare",
                      \A r \in Requests : r \notin failed,
                      \A r, s \in Requests : ~(Overlapped(r, s) /\ call[r].op = "leave"
                                               /\ call[s].op \in {"found", "register", "accept"})
               PROVE  \E r \in Requests : Running(r) /\ call[r].op \in {"found", "register", "accept", "leave"}
    BY DEF EmptyPlaceIsExplained
  <2>1. Undisturbed
    BY DEF Base, TypeOK, Undisturbed, Makers
  <2>2. (x \in Requests /\ pc[x] = "homeRole") \/ \E s \in Requests : pc[s] = "discard"
    BY <2>1 DEF PlacesInv, BareKnown
  <2> QED BY <2>2 DEF Base, CallFits, Running, Removals
<1> QED BY <1>1, PlacesAtStart, PlacesKept, Basics, PTL DEF Spec
====
