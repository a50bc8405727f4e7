---- MODULE Billing ----
(***************************************************************************)
(* Payments: checkouts that create a Stripe customer for an organisation,  *)
(* and the webhook that writes what Stripe reports into the tables.        *)
(*                                                                         *)
(* One organisation.  An object is a subscription, a payment or a customer *)
(* at Stripe; an event carries one version of one object.  A column that   *)
(* only copies the event is its version.  A handler is one request of the  *)
(* webhook, a buyer one request of the checkout; each step between two     *)
(* awaits of the code is an action.                                        *)
(***************************************************************************)
EXTENDS Naturals, FiniteSets

CONSTANTS
    Customers,     \* ids Stripe may give to the customers it creates
    Objects,       \* the objects the events are about
    Kind,          \* [Objects -> Kinds]
    PaysFor,       \* the subscription a payment is for, itself for a one-off
    Events,        \* the events Stripe has to deliver
    Object,        \* [Events -> Objects]
    Version,       \* [Events -> Nat \ {0}]: its place in the history of the object
    Payer,         \* [Events -> Customers]
    Tagged,        \* the events whose metadata names the organisation
    Buyers,        \* the checkouts
    Handlers,      \* the webhook requests served at a time
    MaxDuplicates, \* bound: deliveries Stripe makes although none was missed
    MaxFaults      \* bound: failed statements, lost answers and crashes

\* A keyed payment carries an intent id, a keyless one does not.
Kinds == {"customer", "subscription", "keyed", "keyless"}
Payment(o) == Kind[o] \in {"keyed", "keyless"}

ASSUME BillingAssumption ==
    /\ Kind \in [Objects -> Kinds]
    /\ PaysFor \in [Objects -> Objects]
    /\ Object \in [Events -> Objects]
    /\ Version \in [Events -> Nat \ {0}]
    /\ Payer \in [Events -> Customers]
    /\ Tagged \subseteq Events
    /\ MaxDuplicates \in Nat
    /\ MaxFaults \in Nat

NoCustomer == "no customer"
NoEvent    == "no event"
ASSUME NobodyAssumption == NoCustomer \notin Customers /\ NoEvent \notin Events

VARIABLES
    made,        \* customers Stripe has created
    indexed,     \* those its search finds
    opened,      \* customers with a checkout session
    sent,        \* events that have happened at Stripe
    acked,       \* events answered with 200
    duplicates,  \* deliveries made although none was missed
    customers,   \* billing_customer: the Stripe ids on file
    ledger,      \* billing_event: "absent", "open", "failed" or "processed"
    row,         \* billing_subscription, billing_payment: the version, 0 for none
    linked,      \* payments whose row names their subscription
    buyer,       \* where each checkout is and the customer it works with
    handler,     \* where each webhook request is
    written,     \* history: how often the write of an event was executed
    faults

stripe == <<made, indexed, opened, sent>>
tables == <<customers, ledger, row, linked, written>>
vars   == <<stripe, acked, duplicates, tables, buyer, handler, faults>>

Idle == [at |-> "idle", event |-> NoEvent, link |-> FALSE, ok |-> FALSE]

Init ==
    /\ made = {} /\ indexed = {} /\ opened = {} /\ sent = {}
    /\ acked = {} /\ duplicates = 0
    /\ customers = {}
    /\ ledger = [e \in Events |-> "absent"]
    /\ row = [o \in Objects |-> 0]
    /\ linked = {}
    /\ buyer = [b \in Buyers |-> [at |-> "load", customer |-> NoCustomer]]
    /\ handler = [h \in Handlers |-> Idle]
    /\ written = [e \in Events |-> 0]
    /\ faults = 0

Fault == faults < MaxFaults /\ faults' = faults + 1

-----------------------------------------------------------------------------
(* Checkout: load the customer on file, else search Stripe, else create,   *)
(* open the session, and record a customer that was not on file.           *)

MoveBuyer(b, from, to, c) ==
    /\ buyer[b].at = from
    /\ buyer' = [buyer EXCEPT ![b] = [at |-> to, customer |-> c]]
    /\ UNCHANGED <<acked, duplicates, ledger, row, linked, handler, written>>

LoadCustomer(b) ==
    /\ IF customers = {} THEN MoveBuyer(b, "load", "search", NoCustomer)
       ELSE \E c \in customers : MoveBuyer(b, "load", "reuse", c)
    /\ UNCHANGED <<stripe, customers, faults>>

\* Mutant: a search that found nothing goes on without creating.
FindWithoutCreate(b) ==
    /\ IF indexed = {} THEN MoveBuyer(b, "search", "session", NoCustomer)
       ELSE \E c \in indexed : MoveBuyer(b, "search", "session", c)
    /\ UNCHANGED <<stripe, customers, faults>>

FindCustomer(b) ==
    /\ IF indexed = {} THEN MoveBuyer(b, "search", "create", NoCustomer)
       ELSE \E c \in indexed : MoveBuyer(b, "search", "session", c)
    /\ UNCHANGED <<stripe, customers, faults>>

\* A failed search is treated as one that found nothing.
FindFails(b) ==
    /\ Fault
    /\ MoveBuyer(b, "search", "create", NoCustomer)
    /\ UNCHANGED <<stripe, customers>>

CreateCustomer(b) ==
    \E c \in Customers \ made :
        /\ MoveBuyer(b, "create", "session", c)
        /\ made' = made \cup {c}
        /\ UNCHANGED <<indexed, opened, sent, customers, faults>>

OpenSession(b) ==
    LET c == buyer[b].customer IN
    /\ \/ MoveBuyer(b, "session", "record", c)
       \/ MoveBuyer(b, "reuse", "over", c)
    /\ opened' = opened \cup {c}
    /\ UNCHANGED <<made, indexed, sent, customers, faults>>

RecordCustomer(b) ==
    /\ MoveBuyer(b, "record", "over", buyer[b].customer)
    /\ customers' = customers \cup {buyer[b].customer}
    /\ UNCHANGED <<stripe, faults>>

\* A statement or a call to Stripe fails, or the process dies: the request
\* ends where it is.  A customer just made at Stripe may stay behind.
CheckoutEnds(b) ==
    /\ Fault
    /\ buyer[b].at # "over"
    /\ MoveBuyer(b, buyer[b].at, "over", buyer[b].customer)
    /\ UNCHANGED <<stripe, customers>>

-----------------------------------------------------------------------------
(* Stripe: its search index, what happens there, and its deliveries.       *)

Index ==
    /\ indexed # made
    /\ indexed' = made
    /\ UNCHANGED <<made, opened, sent, acked, duplicates, tables, buyer, handler, faults>>

Happen(e) ==
    /\ e \notin sent /\ Payer[e] \in opened
    /\ \A f \in Events : Object[f] = Object[e] /\ Version[f] < Version[e] => f \in sent
    /\ sent' = sent \cup {e}
    /\ UNCHANGED <<made, indexed, opened, acked, duplicates, tables, buyer, handler, faults>>

InFlight(e) == \E h \in Handlers : handler[h].event = e

\* Stripe delivers until it is answered 200, in any order, and sometimes again.
Deliver(h, e) ==
    /\ handler[h].at = "idle" /\ e \in sent
    /\ IF e \in acked \/ InFlight(e)
       THEN duplicates < MaxDuplicates /\ duplicates' = duplicates + 1
       ELSE UNCHANGED duplicates
    /\ handler' = [handler EXCEPT ![h] = [Idle EXCEPT !.at = "record", !.event = e]]
    /\ UNCHANGED <<stripe, acked, tables, buyer, faults>>

-----------------------------------------------------------------------------
(* The webhook.                                                            *)

Working(h) == handler[h].at # "idle"
Ev(h) == handler[h].event
Ob(h) == Object[handler[h].event]

MoveHandler(h, from, changed) ==
    /\ handler[h].at = from
    /\ handler' = [handler EXCEPT ![h] = changed]
    /\ UNCHANGED <<stripe, duplicates, buyer>>

GoTo(h, to) == [handler[h] EXCEPT !.at = to]

\* Mutant: the rows of RETURNING come back, so that a duplicate is dropped.
RawJsonOfReturning(isQuery, rows) == [type |-> "array", rows |-> rows]
\* Db::raw_json: the rows of a SELECT; of any other statement, RETURNING or
\* not, an object with the number of rows.
RawJson(isQuery, rows) == [type |-> IF isQuery THEN "array" ELSE "object", rows |-> rows]

\* record_delivery takes an empty array for a delivery seen before.
AlreadySeen(e) ==
    RawJson(FALSE, IF ledger[e] = "absent" THEN 1 ELSE 0) = [type |-> "array", rows |-> 0]

Record(h) ==
    LET e == Ev(h) IN
    /\ MoveHandler(h, "record",
        IF AlreadySeen(e) THEN [GoTo(h, "reply") EXCEPT !.ok = TRUE]
        ELSE GoTo(h, IF Kind[Object[e]] = "customer" THEN "write" ELSE "resolve"))
    /\ ledger' = [ledger EXCEPT ![e] = IF @ = "absent" THEN "open" ELSE @]
    /\ UNCHANGED <<acked, customers, row, linked, written, faults>>

\* The insert fails, or commits without an answer: Unrecorded, hence 500.
RecordFails(h) ==
    /\ Fault
    /\ MoveHandler(h, "record", GoTo(h, "reply"))
    /\ ledger' \in {ledger, [ledger EXCEPT ![Ev(h)] = IF @ = "absent" THEN "open" ELSE @]}
    /\ UNCHANGED <<acked, customers, row, linked, written>>

\* With no tenant there is nothing to write, and the delivery counts as applied.
WithTenant(h, found) ==
    IF ~found THEN [GoTo(h, "finish") EXCEPT !.ok = TRUE]
    ELSE GoTo(h, IF Payment(Ob(h)) THEN "lookup" ELSE "write")

Resolve(h) ==
    /\ MoveHandler(h, "resolve", WithTenant(h, Ev(h) \in Tagged \/ Payer[Ev(h)] \in customers))
    /\ UNCHANGED <<acked, tables, faults>>

\* resolve_org drops the error of its SELECT: no tenant.
ResolveFails(h) ==
    /\ Fault
    /\ Working(h) /\ Ev(h) \notin Tagged
    /\ MoveHandler(h, "resolve", WithTenant(h, FALSE))
    /\ UNCHANGED <<acked, tables>>

\* subscription_row_id, for a payment that names a subscription.
Lookup(h) ==
    /\ Working(h)
    /\ MoveHandler(h, "lookup", [GoTo(h, "write") EXCEPT !.link =
        PaysFor[Ob(h)] # Ob(h) /\ row[PaysFor[Ob(h)]] > 0])
    /\ UNCHANGED <<acked, tables, faults>>

\* row_id_by drops the error of its SELECT: no row.
LookupFails(h) ==
    /\ Fault
    /\ MoveHandler(h, "lookup", GoTo(h, "write"))
    /\ UNCHANGED <<acked, tables>>

\* Mutant: the conflict's update takes the subscription from the event too.
LinksOverwritten(h) == IF handler[h].link THEN linked \cup {Ob(h)} ELSE linked \ {Ob(h)}
\* On conflict the subscription a row names is left alone.
LinksAfter(h) ==
    LET o == Ob(h) IN
    IF handler[h].link /\ (row[o] = 0 \/ Kind[o] = "keyless") THEN linked \cup {o} ELSE linked

WriteRow(h) ==
    /\ row' = [row EXCEPT ![Ob(h)] = Version[Ev(h)]]
    /\ linked' = LinksAfter(h)
    /\ written' = [written EXCEPT ![Ev(h)] = @ + 1]
    /\ UNCHANGED customers

\* upsert_customer needs the tenant's id in the metadata.
WriteCustomer(h) ==
    /\ customers' = IF Ev(h) \in Tagged THEN customers \cup {Payer[Ev(h)]} ELSE customers
    /\ UNCHANGED <<row, linked, written>>

Applied(h) == IF Kind[Ob(h)] = "customer" THEN WriteCustomer(h) ELSE WriteRow(h)

Write(h) ==
    /\ Working(h)
    /\ MoveHandler(h, "write", [GoTo(h, "finish") EXCEPT !.ok = TRUE])
    /\ Applied(h)
    /\ UNCHANGED <<acked, ledger, faults>>

\* The statement fails, or commits without an answer.  upsert_customer drops the error.
WriteFails(h) ==
    /\ Fault
    /\ Working(h)
    /\ MoveHandler(h, "write", [GoTo(h, "finish") EXCEPT !.ok = Kind[Ob(h)] = "customer"])
    /\ Applied(h) \/ UNCHANGED <<customers, row, linked, written>>
    /\ UNCHANGED <<acked, ledger>>

\* Mutant: the row is stamped processed whatever the outcome.
ClosedAsProcessed(h) == [ledger EXCEPT ![Ev(h)] = "processed"]

\* A failure leaves processed_at as it is.
Closed(h) ==
    [ledger EXCEPT ![Ev(h)] =
        IF handler[h].ok THEN "processed" ELSE IF @ = "processed" THEN @ ELSE "failed"]

Finish(h) ==
    /\ MoveHandler(h, "finish", GoTo(h, "reply"))
    /\ ledger' = Closed(h)
    /\ UNCHANGED <<acked, customers, row, linked, written, faults>>

FinishFails(h) ==
    /\ Fault
    /\ MoveHandler(h, "finish", GoTo(h, "reply"))
    /\ ledger' = ledger
    /\ UNCHANGED <<acked, customers, row, linked, written>>

\* Mutant: an event that could not be applied is answered 200 as well.
AcceptsAll(h) == TRUE
\* 200 when applied, 500 when not.
Accepts(h) == handler[h].ok

Reply(h) ==
    /\ Working(h)
    /\ acked' = IF Accepts(h) THEN acked \cup {Ev(h)} ELSE acked
    /\ MoveHandler(h, "reply", Idle)
    /\ UNCHANGED <<tables, faults>>

\* The process dies, or the answer is lost.
CutOff(h) ==
    /\ Fault
    /\ Working(h)
    /\ MoveHandler(h, handler[h].at, Idle)
    /\ UNCHANGED <<acked, tables>>

-----------------------------------------------------------------------------
CheckoutStep(b) ==
    \/ LoadCustomer(b) \/ FindCustomer(b) \/ CreateCustomer(b)
    \/ OpenSession(b) \/ RecordCustomer(b)

HandlerStep(h) == Record(h) \/ Resolve(h) \/ Lookup(h) \/ Write(h) \/ Finish(h) \/ Reply(h)

HandlerFault(h) ==
    RecordFails(h) \/ ResolveFails(h) \/ LookupFails(h) \/ WriteFails(h) \/ FinishFails(h) \/ CutOff(h)

Next ==
    \/ \E b \in Buyers : CheckoutStep(b) \/ FindFails(b) \/ CheckoutEnds(b)
    \/ Index
    \/ \E e \in Events : Happen(e)
    \/ \E h \in Handlers, e \in Events : Deliver(h, e)
    \/ \E h \in Handlers : HandlerStep(h) \/ HandlerFault(h)

\* A request that is served goes on, and Stripe retries what was not answered.
Fairness ==
    /\ \A h \in Handlers : WF_vars(HandlerStep(h))
    /\ \A e \in Events : WF_vars(\E h \in Handlers : e \notin acked /\ Deliver(h, e))

Spec == Init /\ [][Next]_vars /\ Fairness

-----------------------------------------------------------------------------
(* Properties.                                                             *)

Stages == {"idle", "record", "resolve", "lookup", "write", "finish", "reply"}

\* The type of every variable.
TypeOK ==
    /\ indexed \subseteq made /\ made \subseteq Customers
    /\ opened \subseteq made /\ customers \subseteq opened
    /\ sent \subseteq Events /\ acked \subseteq sent
    /\ duplicates \in 0 .. MaxDuplicates
    /\ faults \in 0 .. MaxFaults
    /\ ledger \in [Events -> {"absent", "open", "failed", "processed"}]
    /\ row \in [Objects -> Nat]
    /\ linked \subseteq Objects
    /\ buyer \in [Buyers -> [at : {"load", "search", "create", "session", "reuse", "record", "over"},
                            customer : Customers \cup {NoCustomer}]]
    /\ handler \in [Handlers -> [at : Stages, event : Events \cup {NoEvent},
                                link : BOOLEAN, ok : BOOLEAN]]
    /\ written \in [Events -> Nat]

\* The events whose write is never given up on once they name their tenant.
Owed == {e \in Tagged : Kind[Object[e]] # "customer"}

\* Stripe is told 200, and so stops retrying, only when the subscription or the
\* payment was written: an event cut off by a crash between the ledger's insert
\* and the write is not mistaken for one already handled.
AcknowledgedIsWritten == \A e \in acked \cap Owed : written[e] > 0

\* The ledger says processed only of a delivery whose write was executed.
ProcessedIsWritten == \A e \in Owed : ledger[e] = "processed" => written[e] > 0

\* Why: a handler works on an event that happened, says ok only after the write,
\* and the customers it meets were opened by a checkout that made or found them.
CheckoutKnowsCustomer ==
    /\ \A b \in Buyers : buyer[b].at \in {"session", "reuse", "record"} => buyer[b].customer \in made
    /\ \A b \in Buyers : buyer[b].at = "record" => buyer[b].customer \in opened
    /\ \A e \in sent : Payer[e] \in opened
HandlersAreHonest ==
    \A h \in Handlers :
        /\ Working(h) => Ev(h) \in sent
        /\ handler[h].at \in {"record", "resolve", "lookup", "write"} => ~handler[h].ok
        /\ handler[h].ok /\ Working(h) /\ Ev(h) \in Owed => written[Ev(h)] > 0
BillingInv ==
    TypeOK /\ CheckoutKnowsCustomer /\ HandlersAreHonest /\ AcknowledgedIsWritten /\ ProcessedIsWritten

\* A row once written stays, and a payment that names its subscription goes on
\* naming it, whichever deliveries overwrite the row.
LinksAreKept == [][\A o \in Objects : row[o] > 0 => row'[o] > 0 /\ (o \in linked => o \in linked')]_vars

\* Every event that names its tenant is written in the end, although requests
\* fail and die, as long as Stripe goes on delivering.
EveryEventIsWritten == \A e \in Owed : e \in sent ~> written[e] > 0

(* What the documents say and the code does not do.                        *)

\* "Without this, a retried `invoice.paid` would add a second ledger row".
InvoiceIsWrittenOnce == \A e \in Events : Kind[Object[e]] = "keyless" => written[e] <= 1
====
