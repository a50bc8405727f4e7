---- MODULE Access ----
(***************************************************************************)
(* Who may do what to which rows (apiplant-server/src/crud.rs, state.rs).  *)
(*                                                                         *)
(* A policy is a record [level, role, class], a rule [policy, effect], the *)
(* permission of an action a sequence of rules. A caller is a record       *)
(* [known, user, roles, header, lock, borrowed]: the roles held in each    *)
(* organisation the caller belongs to, the organisation a request names,   *)
(* the one an impersonated session is locked to, whether the session is    *)
(* borrowed. A resource is a record [kind, owned]: "scoped" to an          *)
(* organisation, or "organization", "user" or another "global" table, with *)
(* or without an owner column.                                             *)
(***************************************************************************)
EXTENDS Naturals, Sequences

CONSTANTS Class,            \* the class of each organisation
          Others,           \* who else belongs to each organisation
          BackOffice,       \* [organization] global_admin_role, a policy
          None              \* no organisation, no lock, no class

ASSUME AccessAssumption == DOMAIN Others = DOMAIN Class /\ None \notin DOMAIN Class

Orgs == DOMAIN Class
Admin == "admin"

Belongs(c, org) == c.known /\ org \in DOMAIN c.roles

\* An admin of an organisation holds every role in it.
HasRole(c, org, role) == role \in c.roles[org] \/ Admin \in c.roles[org]
InClass(org, class) == class = None \/ Class[org] = class

\* Whoever the deployment names as its administrators, by any organisation of
\* theirs, but never in a borrowed session.
IsGlobalAdmin(c) ==
    /\ c.known /\ ~c.borrowed /\ BackOffice.level # "private"
    /\ \E org \in DOMAIN c.roles :
          /\ InClass(org, BackOffice.class)
          /\ BackOffice.level = "role" => HasRole(c, org, BackOffice.role)

\* The lock of a session answers, else the header, if the caller may stand there.
ActiveOrg(c) ==
    IF ~c.known THEN None
    ELSE IF c.lock # None THEN c.lock
    ELSE IF IsGlobalAdmin(c) \/ Belongs(c, c.header) THEN c.header ELSE None

\* The caller is a member of the organisation the request is about.
Inside(c) == ActiveOrg(c) # None /\ Belongs(c, ActiveOrg(c))

----------------------------------------------------------------------------
(* An answer: a refusal, or the filters the query is scoped by.            *)

Refused(why) == [ok |-> FALSE, why |-> why, filters |-> {}]
Granted(filters) == [ok |-> TRUE, why |-> "granted", filters |-> filters]

Is(column, value) == [column |-> column, values |-> {value}, exact |-> TRUE]
OneOf(column, values) == [column |-> column, values |-> values, exact |-> FALSE]

Forbidden(c) == Refused(IF c.known THEN "forbidden" ELSE "unauthenticated")

OwnerColumn(r) == IF r.owned THEN "owner" ELSE "id"
OwnRows(c, r) == {Is(OwnerColumn(r), c.user)}
ThisOrg(c) == {Is("org", ActiveOrg(c))}

\* Mutant: a scoped query for an owner's rows finds them in every organisation.
OwnRowsOfOrgMerged(c, r) == OwnRows(c, r)

OwnRowsOfOrg(c, r) == ThisOrg(c) \cup OwnRows(c, r)

AuthorizeOrgScoped(p, c, r) ==
    IF p.level = "private" THEN Refused("absent")
    ELSE IF ~c.known THEN Refused("unauthenticated")
    ELSE IF ~Inside(c) \/ ~InClass(ActiveOrg(c), p.class) THEN Refused("forbidden")
    ELSE IF p.level = "role" /\ ~HasRole(c, ActiveOrg(c), p.role) THEN Refused("forbidden")
    ELSE IF p.level = "owner" /\ ~HasRole(c, ActiveOrg(c), Admin) THEN Granted(OwnRowsOfOrg(c, r))
    ELSE Granted(ThisOrg(c))

\* A class on such a level asks for a selected organisation of that class.
ClassSelected(p, c) ==
    p.class # None /\ p.level \in {"public", "authenticated", "owner"} =>
        Inside(c) /\ InClass(ActiveOrg(c), p.class)

\* On `organization` a member or a role narrows the rows; elsewhere it is a gate.
AuthorizeGlobal(p, c, r) ==
    IF ~ClassSelected(p, c) THEN Forbidden(c)
    ELSE IF p.level = "private" THEN Refused("absent")
    ELSE IF p.level = "public" THEN Granted({})
    ELSE IF ~c.known THEN Refused("unauthenticated")
    ELSE IF p.level = "authenticated" THEN Granted({})
    ELSE IF p.level = "owner" THEN Granted(OwnRows(c, r))
    ELSE IF r.kind = "organization"
         THEN Granted({OneOf("id", {org \in DOMAIN c.roles :
                  InClass(org, p.class) /\ (p.level = "role" => HasRole(c, org, p.role))})})
    ELSE IF p.level = "member" /\ p.class = None THEN Granted({})
    ELSE IF ~Inside(c) \/ ~InClass(ActiveOrg(c), p.class) THEN Refused("forbidden")
    ELSE IF p.level = "role" /\ ~HasRole(c, ActiveOrg(c), p.role) THEN Refused("forbidden")
    ELSE Granted({})

AuthorizePolicy(p, c, r) ==
    IF r.kind = "scoped" THEN AuthorizeOrgScoped(p, c, r) ELSE AuthorizeGlobal(p, c, r)

----------------------------------------------------------------------------
(* A set of rules: a denial first, then what is allowed, then what is      *)
(* allowed for one's own rows.                                             *)

\* Mutant: the role every admin has by being one counts for a denial.
DeniesWhomItMatches(p, c, r) == AuthorizePolicy(p, c, r).ok

\* A denial of a role is about those who were given it, in the organisation
\* they selected.
Denies(p, c, r) ==
    /\ AuthorizePolicy(p, c, r).ok
    /\ p.level = "role" => Inside(c) /\ p.role \in c.roles[ActiveOrg(c)]

\* An admin of the organisation is not narrowed to their own rows in it.
OwnerNarrowing(c, r) ==
    IF ~c.known THEN {}
    ELSE IF r.kind = "scoped" /\ (~Inside(c) \/ HasRole(c, ActiveOrg(c), Admin)) THEN {}
    ELSE OwnRows(c, r)

Yes(set) == {i \in DOMAIN set : set[i].effect # "deny"}

\* Mutant: the narrower clauses are tried first.
OwnPrecedes(set, i, j) == IF set[i].effect = set[j].effect THEN i < j ELSE set[i].effect = "own"

\* What is allowed is tried before what is allowed for one's own rows.
Precedes(set, i, j) == IF set[i].effect = set[j].effect THEN i < j ELSE set[i].effect = "allow"

First(set, S) == CHOOSE i \in S : \A j \in S \ {i} : Precedes(set, i, j)

EveryRow == [policy |-> [level |-> "public", role |-> None, class |-> None], effect |-> "allow"]

\* The rule that answers the caller, with the answer it gives.
Select(set, c, r) ==
    LET Match(i) == AuthorizePolicy(set[i].policy, c, r)
        matching == {i \in Yes(set) : Match(i).ok}
        first == First(set, matching)
        Narrow(i) == IF set[i].effect = "own" THEN OwnerNarrowing(c, r) ELSE {}
        none  == [rule |-> EveryRow, answer |-> Refused("absent")]
    IN  IF Len(set) = 1 /\ set[1].policy.level = "private" THEN none
        ELSE IF IsGlobalAdmin(c)
             THEN [rule |-> EveryRow,
                   answer |-> Granted(IF r.kind = "scoped" /\ ActiveOrg(c) # None THEN ThisOrg(c) ELSE {})]
        ELSE IF \E i \in DOMAIN set : set[i].effect = "deny" /\ Denies(set[i].policy, c, r)
             THEN [none EXCEPT !.answer = Forbidden(c)]
        ELSE IF matching # {}
             THEN [rule |-> set[first],
                   answer |-> Granted(Match(first).filters \cup Narrow(first))]
        ELSE [none EXCEPT !.answer = IF Yes(set) = {} THEN Forbidden(c) ELSE Match(First(set, Yes(set)))]

\* Who belongs to an organisation, and whom a caller shares one with.
UsersOf(c, org) == Others[org] \cup (IF Belongs(c, org) THEN {c.user} ELSE {})
CoMembers(c) == {c.user} \cup UNION {UsersOf(c, org) : org \in DOMAIN c.roles}

\* An admin who asks for what is owned sees what their organisation's people
\* own; a member sees the users who share an organisation with them.
Scope(set, c, r) ==
    LET selected == Select(set, c, r)
        level    == IF selected.rule.effect = "own" THEN "owner" ELSE selected.rule.policy.level
        filters  == selected.answer.filters
        widened  == {f \in filters : ~(f.exact /\ f.column = OwnerColumn(r))}
                        \cup {OneOf(OwnerColumn(r), UsersOf(c, ActiveOrg(c)))}
    IN  IF ~selected.answer.ok \/ r.kind = "scoped" THEN selected.answer
        ELSE IF level = "owner" /\ Inside(c) /\ HasRole(c, ActiveOrg(c), Admin) THEN Granted(widened)
        ELSE IF level = "member" /\ r.kind = "user" THEN Granted(filters \cup {OneOf("id", CoMembers(c))})
        ELSE selected.answer

Admits(answer, row) == answer.ok /\ \A f \in answer.filters : row[f.column] \in f.values
====
