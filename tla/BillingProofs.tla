---- MODULE BillingProofs ----
(***************************************************************************)
(* The inductive invariant of Billing.  What it takes to see that a 200    *)
(* is only ever sent for a delivery that was written: a handler says ok    *)
(* only after its write, the write counts are never taken back, and the    *)
(* ledger's insert never reports a delivery as already seen.               *)
(***************************************************************************)
EXTENDS Billing, TLAPS

HandlerRecord == [at : Stages, event : Events \cup {NoEvent}, link : BOOLEAN, ok : BOOLEAN]
BuyerRecord   == [at : {"load", "search", "create", "session", "reuse", "record", "over"},
                  customer : Customers \cup {NoCustomer}]

-----------------------------------------------------------------------------
(* The initial state.                                                      *)

LEMMA InitInv == Init => BillingInv
<1>1. SUFFICES ASSUME Init PROVE BillingInv
  OBVIOUS
<1>2. TypeOK
  <2>1. handler \in [Handlers -> [at : Stages, event : Events \cup {NoEvent}, link : BOOLEAN, ok : BOOLEAN]]
    BY <1>1 DEF Init, Idle, Stages
  <2>2. buyer \in [Buyers -> [at : {"load", "search", "create", "session", "reuse", "record", "over"},
                             customer : Customers \cup {NoCustomer}]]
    BY <1>1 DEF Init
  <2>3. /\ ledger \in [Events -> {"absent", "open", "failed", "processed"}]
        /\ row \in [Objects -> Nat] /\ written \in [Events -> Nat]
    BY <1>1 DEF Init
  <2>4. duplicates \in 0 .. MaxDuplicates /\ faults \in 0 .. MaxFaults
    BY <1>1, BillingAssumption DEF Init
  <2>. QED
    BY <1>1, <2>1, <2>2, <2>3, <2>4 DEF Init, TypeOK
<1>3. CheckoutKnowsCustomer /\ AcknowledgedIsWritten /\ ProcessedIsWritten
  BY <1>1, BillingAssumption DEF Init, CheckoutKnowsCustomer, AcknowledgedIsWritten, ProcessedIsWritten, Owed
<1>4. HandlersAreHonest
  BY <1>1 DEF Init, HandlersAreHonest, Working, Idle
<1>. QED
  BY <1>2, <1>3, <1>4 DEF BillingInv

-----------------------------------------------------------------------------
(* A step of a checkout, or of Stripe, leaves the webhook alone.           *)

LEMMA WebhookFrame ==
  ASSUME BillingInv, UNCHANGED <<acked, ledger, written, handler>>, sent \subseteq sent'
  PROVE  HandlersAreHonest' /\ AcknowledgedIsWritten' /\ ProcessedIsWritten'
<1>1. HandlersAreHonest'
  BY DEF BillingInv, HandlersAreHonest, Working, Ev
<1>2. AcknowledgedIsWritten' /\ ProcessedIsWritten'
  BY DEF BillingInv, AcknowledgedIsWritten, ProcessedIsWritten
<1>. QED
  BY <1>1, <1>2

\* What CheckoutKnowsCustomer says of one record, after the step.
KnownNext(r) ==
    /\ r.at \in {"session", "reuse", "record"} => r.customer \in made'
    /\ r.at = "record" => r.customer \in opened'

LEMMA CheckoutFrame ==
  ASSUME BillingInv, NEW b \in Buyers, NEW r \in BuyerRecord,
         buyer' = [buyer EXCEPT ![b] = r], KnownNext(r),
         UNCHANGED <<sent, acked, duplicates, ledger, row, linked, handler, written>>,
         made \subseteq made', made' \subseteq Customers, UNCHANGED indexed,
         opened \subseteq opened', opened' \subseteq made',
         customers' \subseteq opened', faults' \in 0 .. MaxFaults
  PROVE  BillingInv'
<1>1. HandlersAreHonest' /\ AcknowledgedIsWritten' /\ ProcessedIsWritten'
  BY WebhookFrame
<1>2. TypeOK /\ CheckoutKnowsCustomer
  BY DEF BillingInv
<1>3. buyer' \in [Buyers -> BuyerRecord] /\ buyer'[b] = r
      /\ \A a \in Buyers \ {b} : buyer'[a] = buyer[a]
  BY <1>2 DEF TypeOK, BuyerRecord
<1>4. TypeOK'
  BY <1>2, <1>3 DEF TypeOK, BuyerRecord
<1>5. CheckoutKnowsCustomer'
  <2>1. \A e \in sent' : Payer[e] \in opened'
    BY <1>2 DEF CheckoutKnowsCustomer
  <2>2. \A a \in Buyers : KnownNext(buyer'[a])
    BY <1>2, <1>3 DEF CheckoutKnowsCustomer, KnownNext
  <2>. QED
    BY <2>1, <2>2 DEF CheckoutKnowsCustomer, KnownNext
<1>. QED
  BY <1>1, <1>4, <1>5 DEF BillingInv

LEMMA CheckoutInv ==
  ASSUME BillingInv, NEW b \in Buyers, CheckoutStep(b) \/ FindFails(b) \/ CheckoutEnds(b)
  PROVE  BillingInv'
<1>. DEFINE c == buyer[b].customer
            Move(to, d) == buyer' = [buyer EXCEPT ![b] = [at |-> to, customer |-> d]]
<1>1. TypeOK /\ CheckoutKnowsCustomer
  BY DEF BillingInv
<1>2. UNCHANGED <<sent, acked, duplicates, ledger, row, linked, handler, written, indexed>>
  BY DEF CheckoutStep, LoadCustomer, FindCustomer, FindFails, CreateCustomer, OpenSession,
         RecordCustomer, CheckoutEnds, MoveBuyer, stripe
<1>3. c \in Customers \cup {NoCustomer}
      /\ (buyer[b].at \in {"session", "reuse", "record"} => c \in made)
      /\ (buyer[b].at = "record" => c \in opened)
  BY <1>1 DEF TypeOK, CheckoutKnowsCustomer
<1>. HIDE DEF c
<1>4. \A to \in {"load", "search", "create", "session", "reuse", "record", "over"},
         d \in Customers \cup {NoCustomer} :
        /\ [at |-> to, customer |-> d] \in BuyerRecord
        /\ KnownNext([at |-> to, customer |-> d])
              <=> (to \in {"session", "reuse", "record"} => d \in made') /\ (to = "record" => d \in opened')
  BY DEF BuyerRecord, KnownNext
<1>5. faults' \in 0 .. MaxFaults
  BY <1>1, BillingAssumption DEF CheckoutStep, LoadCustomer, FindCustomer, FindFails, CreateCustomer,
     OpenSession, RecordCustomer, CheckoutEnds, Fault, TypeOK
<1>6. CASE LoadCustomer(b) \/ FindCustomer(b) \/ FindFails(b)
  <2>1. PICK to \in {"search", "create", "session", "reuse"}, d \in made \cup {NoCustomer} :
          Move(to, d) /\ (to \in {"session", "reuse"} => d \in made)
    BY <1>1, <1>6 DEF LoadCustomer, FindCustomer, FindFails, MoveBuyer, TypeOK
  <2>2. UNCHANGED <<made, opened, customers>>
    BY <1>6 DEF LoadCustomer, FindCustomer, FindFails, stripe
  <2>. QED
    BY <1>1, <1>2, <1>4, <1>5, <2>1, <2>2, CheckoutFrame DEF TypeOK
<1>7. CASE CreateCustomer(b)
  <2>1. PICK d \in Customers \ made : Move("session", d) /\ made' = made \cup {d}
    BY <1>7 DEF CreateCustomer, MoveBuyer
  <2>2. UNCHANGED <<opened, customers>>
    BY <1>7 DEF CreateCustomer
  <2>. QED
    BY <1>1, <1>2, <1>4, <1>5, <2>1, <2>2, CheckoutFrame DEF TypeOK
<1>8. CASE OpenSession(b)
  <2>1. PICK to \in {"record", "over"} : buyer[b].at \in {"session", "reuse"} /\ Move(to, c)
    BY <1>8 DEF OpenSession, MoveBuyer, c
  <2>2. opened' = opened \cup {c} /\ UNCHANGED <<made, customers>>
    BY <1>8 DEF OpenSession, c
  <2>. QED
    BY <1>1, <1>2, <1>3, <1>4, <1>5, <2>1, <2>2, CheckoutFrame DEF TypeOK
<1>9. CASE RecordCustomer(b)
  <2>1. Move("over", c) /\ buyer[b].at = "record"
    BY <1>9 DEF RecordCustomer, MoveBuyer, c
  <2>2. customers' = customers \cup {c} /\ UNCHANGED <<made, opened>>
    BY <1>9 DEF RecordCustomer, stripe, c
  <2>. QED
    BY <1>1, <1>2, <1>3, <1>4, <1>5, <2>1, <2>2, CheckoutFrame DEF TypeOK
<1>10. CASE CheckoutEnds(b)
  <2>1. Move("over", c) /\ UNCHANGED <<made, opened, customers>>
    BY <1>10 DEF CheckoutEnds, MoveBuyer, stripe, c
  <2>. QED
    BY <1>1, <1>2, <1>3, <1>4, <1>5, <2>1, CheckoutFrame DEF TypeOK
<1>. QED
  BY <1>6, <1>7, <1>8, <1>9, <1>10 DEF CheckoutStep

LEMMA IndexInv ==
  ASSUME BillingInv, Index
  PROVE  BillingInv'
<1>1. HandlersAreHonest' /\ AcknowledgedIsWritten' /\ ProcessedIsWritten'
  BY WebhookFrame DEF Index, tables
<1>2. TypeOK' /\ CheckoutKnowsCustomer'
  BY DEF Index, tables, BillingInv, TypeOK, CheckoutKnowsCustomer
<1>. QED
  BY <1>1, <1>2 DEF BillingInv

LEMMA HappenInv ==
  ASSUME BillingInv, NEW e \in Events, Happen(e)
  PROVE  BillingInv'
<1>1. HandlersAreHonest' /\ AcknowledgedIsWritten' /\ ProcessedIsWritten'
  BY WebhookFrame DEF Happen, tables
<1>2. TypeOK' /\ CheckoutKnowsCustomer'
  BY DEF Happen, tables, BillingInv, TypeOK, CheckoutKnowsCustomer
<1>. QED
  BY <1>1, <1>2 DEF BillingInv

-----------------------------------------------------------------------------
(* A step of one handler: what is left to show is about its own record.    *)

\* What HandlersAreHonest says of one record, after the step.
HonestNext(r) ==
    /\ r.at # "idle" => r.event \in sent
    /\ r.at \in {"record", "resolve", "lookup", "write"} => ~r.ok
    /\ r.ok /\ r.at # "idle" /\ r.event \in Owed => written'[r.event] > 0

LEMMA HandlerFrame ==
  ASSUME BillingInv, NEW h \in Handlers, NEW r \in HandlerRecord,
         handler' = [handler EXCEPT ![h] = r], HonestNext(r),
         UNCHANGED <<stripe, buyer>>,
         customers \subseteq customers', customers' \subseteq opened,
         ledger' \in [Events -> {"absent", "open", "failed", "processed"}],
         row' \in [Objects -> Nat], linked' \subseteq Objects,
         written' \in [Events -> Nat],
         \A e \in Events : written[e] > 0 => written'[e] > 0,
         duplicates' \in 0 .. MaxDuplicates, faults' \in 0 .. MaxFaults,
         acked' \subseteq sent,
         \A e \in (acked' \ acked) \cap Owed : written'[e] > 0,
         \A e \in Owed : ledger'[e] = "processed" => ledger[e] = "processed" \/ written'[e] > 0
  PROVE  BillingInv'
<1>1. TypeOK /\ CheckoutKnowsCustomer /\ HandlersAreHonest /\ AcknowledgedIsWritten /\ ProcessedIsWritten
  BY DEF BillingInv
<1>2. handler' \in [Handlers -> HandlerRecord] /\ handler'[h] = r
      /\ \A g \in Handlers \ {h} : handler'[g] = handler[g]
  BY <1>1 DEF TypeOK, HandlerRecord
<1>3. TypeOK'
  BY <1>1, <1>2 DEF TypeOK, HandlerRecord, stripe
<1>4. CheckoutKnowsCustomer'
  BY <1>1 DEF CheckoutKnowsCustomer, stripe
<1>5. HandlersAreHonest'
  <2>1. SUFFICES ASSUME NEW g \in Handlers
                 PROVE  /\ handler'[g].at # "idle" => handler'[g].event \in sent
                        /\ handler'[g].at \in {"record", "resolve", "lookup", "write"} => ~handler'[g].ok
                        /\ handler'[g].ok /\ handler'[g].at # "idle" /\ handler'[g].event \in Owed
                             => written'[handler'[g].event] > 0
    BY DEF HandlersAreHonest, Working, Ev, stripe
  <2>2. CASE g = h
    BY <1>2, <2>2 DEF HonestNext
  <2>3. CASE g # h
    BY <1>1, <1>2, <2>3 DEF HandlersAreHonest, Working, Ev, Owed, TypeOK
  <2>. QED
    BY <2>2, <2>3
<1>6. AcknowledgedIsWritten'
  BY <1>1 DEF AcknowledgedIsWritten, Owed, TypeOK
<1>7. ProcessedIsWritten'
  <2>1. SUFFICES ASSUME NEW e \in Owed, ledger'[e] = "processed"
                 PROVE  written'[e] > 0
    BY DEF ProcessedIsWritten
  <2>2. e \in Events
    BY BillingAssumption DEF Owed
  <2>. QED
    BY <1>1, <2>1, <2>2 DEF ProcessedIsWritten
<1>. QED
  BY <1>3, <1>4, <1>5, <1>6, <1>7 DEF BillingInv

LEMMA DeliverInv ==
  ASSUME BillingInv, NEW h \in Handlers, NEW e \in Events, Deliver(h, e)
  PROVE  BillingInv'
<1>. DEFINE r == [Idle EXCEPT !.at = "record", !.event = e]
<1>1. r \in HandlerRecord /\ HonestNext(r)
  BY DEF Deliver, HandlerRecord, Idle, Stages, HonestNext
<1>2. duplicates' \in 0 .. MaxDuplicates
  BY BillingAssumption DEF Deliver, BillingInv, TypeOK
<1>3. handler' = [handler EXCEPT ![h] = r]
  BY DEF Deliver
<1>. HIDE DEF r
<1>. QED
  BY <1>1, <1>2, <1>3, HandlerFrame DEF Deliver, tables, BillingInv, TypeOK

LEMMA StepInv ==
  ASSUME BillingInv, NEW h \in Handlers, HandlerStep(h) \/ HandlerFault(h)
  PROVE  BillingInv'
<1>1. TypeOK /\ HandlersAreHonest
  BY DEF BillingInv
<1>2. handler[h] \in HandlerRecord
  BY <1>1 DEF TypeOK, HandlerRecord
<1>3. handler[h].at # "idle" => handler[h].event \in sent /\ handler[h].event \in Events
                              /\ Object[handler[h].event] \in Objects
  BY <1>1, BillingAssumption DEF HandlersAreHonest, Working, Ev, TypeOK
<1>4. faults' \in 0 .. MaxFaults
  <2>1. CASE HandlerStep(h)
    BY <1>1, <2>1 DEF HandlerStep, Record, Resolve, Lookup, Write, Finish, Reply, TypeOK
  <2>2. CASE HandlerFault(h)
    <3>1. Fault
      BY <2>2 DEF HandlerFault, RecordFails, ResolveFails, LookupFails, WriteFails, FinishFails, CutOff
    <3>. QED
      BY <1>1, <3>1, BillingAssumption DEF Fault, TypeOK
  <2>. QED
    BY <2>1, <2>2
<1>5. ASSUME NEW to \in Stages, NEW ok \in BOOLEAN
      PROVE  /\ GoTo(h, to) \in HandlerRecord
             /\ GoTo(h, to).at = to /\ GoTo(h, to).event = handler[h].event
             /\ GoTo(h, to).ok = handler[h].ok
             /\ [GoTo(h, to) EXCEPT !.ok = ok] \in HandlerRecord
             /\ [GoTo(h, to) EXCEPT !.ok = ok].at = to
             /\ [GoTo(h, to) EXCEPT !.ok = ok].event = handler[h].event
             /\ [GoTo(h, to) EXCEPT !.ok = ok].ok = ok
  BY <1>2 DEF GoTo, HandlerRecord
<1>6. \A stage \in {"record", "resolve", "lookup", "write", "finish", "reply"} : stage # "idle" /\ stage \in Stages
  BY DEF Stages
<1>7. CASE Record(h) \/ RecordFails(h)
  <2>1. PICK to \in {"resolve", "write", "reply"} : handler' = [handler EXCEPT ![h] = GoTo(h, to)]
    <3>1. ~AlreadySeen(Ev(h))
      BY DEF AlreadySeen, RawJson
    <3>. QED
      BY <1>7, <3>1 DEF Record, RecordFails, MoveHandler
  <2>2. handler[h].at = "record" /\ UNCHANGED <<stripe, duplicates, buyer, acked, customers, row, linked, written>>
    BY <1>7 DEF Record, RecordFails, MoveHandler
  <2>3. HonestNext(GoTo(h, to)) /\ GoTo(h, to) \in HandlerRecord
    BY <1>1, <1>3, <1>5, <1>6, <2>1, <2>2 DEF HonestNext, HandlersAreHonest, Working, Ev
  <2>4. ledger' \in {ledger, [ledger EXCEPT ![Ev(h)] = IF @ = "absent" THEN "open" ELSE @]}
    BY <1>7 DEF Record, RecordFails
  <2>5. ledger' \in [Events -> {"absent", "open", "failed", "processed"}]
        /\ \A e \in Owed : ledger'[e] = "processed" => ledger[e] = "processed"
    <3>1. ledger \in [Events -> {"absent", "open", "failed", "processed"}] /\ Owed \subseteq Events
      BY <1>1, BillingAssumption DEF TypeOK, Owed
    <3>2. CASE ledger' = ledger
      BY <3>1, <3>2
    <3>3. CASE ledger' = [ledger EXCEPT ![Ev(h)] = IF @ = "absent" THEN "open" ELSE @]
      <4>1. \A e \in Events : ledger'[e] = ledger[e] \/ ledger'[e] = "open"
        BY <3>1, <3>3
      <4>2. DOMAIN ledger' = Events /\ ledger' = [e \in Events |-> ledger'[e]]
        BY <3>1, <3>3
      <4>. QED
        BY <3>1, <4>1, <4>2
    <3>. QED
      BY <2>4, <3>2, <3>3
  <2>. HIDE DEF GoTo
  <2>. QED
    BY <1>1, <1>4, <2>1, <2>2, <2>3, <2>5, HandlerFrame DEF TypeOK
<1>8. CASE Resolve(h) \/ ResolveFails(h) \/ Lookup(h) \/ LookupFails(h)
  <2>1. UNCHANGED <<stripe, duplicates, buyer, acked, tables>>
        /\ handler[h].at \in {"resolve", "lookup"}
    BY <1>8 DEF Resolve, ResolveFails, Lookup, LookupFails, MoveHandler
  <2>2. PICK r \in HandlerRecord : handler' = [handler EXCEPT ![h] = r] /\ HonestNext(r)
    <3>1. CASE Resolve(h) \/ ResolveFails(h)
      <4>1. PICK found \in BOOLEAN : handler' = [handler EXCEPT ![h] = WithTenant(h, found)]
                                     /\ (~found => Ev(h) \notin Tagged)
        BY <3>1 DEF Resolve, ResolveFails, MoveHandler
      <4>2. WithTenant(h, found) \in HandlerRecord /\ HonestNext(WithTenant(h, found))
        <5>1. CASE found
          BY <1>1, <1>3, <1>5, <1>6, <2>1, <5>1 DEF WithTenant, HonestNext, HandlersAreHonest, Working, Ev
        <5>2. CASE ~found
          BY <1>3, <1>5, <1>6, <2>1, <4>1, <5>2 DEF WithTenant, HonestNext, Owed, Ev
        <5>. QED
          BY <5>1, <5>2
      <4>. QED
        BY <4>1, <4>2
    <3>2. CASE Lookup(h) \/ LookupFails(h)
      <4>1. PICK l \in BOOLEAN : handler' = [handler EXCEPT ![h] = [GoTo(h, "write") EXCEPT !.link = l]]
        <5>1. CASE Lookup(h)
          BY <5>1 DEF Lookup, MoveHandler
        <5>2. CASE LookupFails(h)
          <6>1. GoTo(h, "write") = [GoTo(h, "write") EXCEPT !.link = handler[h].link]
                /\ handler[h].link \in BOOLEAN
            BY <1>2 DEF GoTo, HandlerRecord
          <6>. QED
            BY <5>2, <6>1 DEF LookupFails, MoveHandler
        <5>. QED
          BY <3>2, <5>1, <5>2
      <4>2. ~handler[h].ok
        BY <1>1, <2>1 DEF HandlersAreHonest
      <4>3. [GoTo(h, "write") EXCEPT !.link = l] \in HandlerRecord
            /\ HonestNext([GoTo(h, "write") EXCEPT !.link = l])
        BY <1>2, <1>3, <2>1, <4>2 DEF GoTo, HandlerRecord, HonestNext, Stages
      <4>. QED
        BY <4>1, <4>3
    <3>. QED
      BY <1>8, <3>1, <3>2
  <2>. QED
    BY <1>1, <1>4, <2>1, <2>2, HandlerFrame DEF TypeOK, tables
<1>9. CASE Write(h) \/ WriteFails(h)
  <2>1. /\ handler[h].at = "write"
        /\ UNCHANGED <<stripe, duplicates, buyer, acked, ledger>>
        /\ Applied(h) \/ UNCHANGED <<customers, row, linked, written>>
    BY <1>9 DEF Write, WriteFails, MoveHandler
  <2>2. PICK ok \in BOOLEAN : handler' = [handler EXCEPT ![h] = [GoTo(h, "finish") EXCEPT !.ok = ok]]
                              /\ (ok => Applied(h) \/ Kind[Ob(h)] = "customer")
    BY <1>9 DEF Write, WriteFails, MoveHandler
  <2>3. /\ customers \subseteq customers' /\ customers' \subseteq opened
        /\ row' \in [Objects -> Nat] /\ linked' \subseteq Objects /\ written' \in [Events -> Nat]
        /\ \A e \in Events : written[e] > 0 => written'[e] > 0
        /\ Applied(h) /\ Kind[Ob(h)] # "customer" => written'[Ev(h)] > 0
    <3>1. CASE Applied(h) /\ Kind[Ob(h)] = "customer"
      <4>1. Payer[Ev(h)] \in opened
        BY <1>3, <2>1 DEF BillingInv, CheckoutKnowsCustomer, Ev
      <4>. QED
        BY <1>1, <3>1, <4>1 DEF Applied, WriteCustomer, TypeOK
    <3>2. CASE Applied(h) /\ Kind[Ob(h)] # "customer"
      <4>1. WriteRow(h)
        BY <3>2 DEF Applied
      <4>2. Ev(h) \in Events /\ Ob(h) \in Objects /\ Version[Ev(h)] \in Nat
        BY <1>3, <2>1, BillingAssumption DEF Ev, Ob
      <4>3. written' = [written EXCEPT ![Ev(h)] = @ + 1]
        BY <4>1 DEF WriteRow
      <4>4. row' \in [Objects -> Nat]
        BY <1>1, <4>1, <4>2 DEF WriteRow, TypeOK
      <4>5. linked' \subseteq Objects
        BY <1>1, <4>1, <4>2 DEF WriteRow, LinksAfter, TypeOK
      <4>6. UNCHANGED customers
        BY <4>1 DEF WriteRow
      <4>. QED
        BY <1>1, <4>2, <4>3, <4>4, <4>5, <4>6 DEF TypeOK
    <3>3. CASE UNCHANGED <<customers, row, linked, written>> /\ ~Applied(h)
      BY <1>1, <3>3 DEF TypeOK
    <3>. QED
      BY <2>1, <3>1, <3>2, <3>3
  <2>4. [GoTo(h, "finish") EXCEPT !.ok = ok] \in HandlerRecord
        /\ HonestNext([GoTo(h, "finish") EXCEPT !.ok = ok])
    BY <1>3, <1>5, <1>6, <2>1, <2>2, <2>3 DEF HonestNext, Owed, Ev, Ob
  <2>. QED
    BY <1>1, <1>4, <2>1, <2>2, <2>3, <2>4, HandlerFrame DEF TypeOK
<1>10. CASE Finish(h) \/ FinishFails(h)
  <2>1. /\ handler[h].at = "finish"
        /\ UNCHANGED <<stripe, duplicates, buyer, acked, customers, row, linked, written>>
        /\ handler' = [handler EXCEPT ![h] = GoTo(h, "reply")]
        /\ ledger' = ledger \/ ledger' = Closed(h)
    BY <1>10 DEF Finish, FinishFails, MoveHandler
  <2>2. GoTo(h, "reply") \in HandlerRecord /\ HonestNext(GoTo(h, "reply"))
    BY <1>1, <1>3, <1>5, <1>6, <2>1 DEF HonestNext, HandlersAreHonest, Working, Ev
  <2>3. /\ ledger' \in [Events -> {"absent", "open", "failed", "processed"}]
        /\ \A e \in Owed : ledger'[e] = "processed" => ledger[e] = "processed" \/ written'[e] > 0
    <3>1. ledger \in [Events -> {"absent", "open", "failed", "processed"}] /\ Owed \subseteq Events
      BY <1>1, BillingAssumption DEF TypeOK, Owed
    <3>2. CASE ledger' = ledger
      BY <3>1, <3>2
    <3>3. CASE ledger' = Closed(h)
      <4>1. \A e \in Events : ledger'[e] \in {ledger[e], "failed"}
                             \/ (ledger'[e] = "processed" /\ e = Ev(h) /\ handler[h].ok)
        BY <3>1, <3>3 DEF Closed
      <4>2. DOMAIN ledger' = Events /\ ledger' = [e \in Events |-> ledger'[e]]
        BY <3>1, <3>3 DEF Closed
      <4>3. handler[h].ok /\ Ev(h) \in Owed => written'[Ev(h)] > 0
        BY <1>1, <2>1 DEF HandlersAreHonest, Working, Ev
      <4>. QED
        BY <3>1, <4>1, <4>2, <4>3
    <3>. QED
      BY <2>1, <3>2, <3>3
  <2>. QED
    BY <1>1, <1>4, <2>1, <2>2, <2>3, HandlerFrame DEF TypeOK
<1>11. CASE Reply(h) \/ CutOff(h)
  <2>1. /\ handler[h].at # "idle"
        /\ UNCHANGED <<stripe, duplicates, buyer, tables>>
        /\ handler' = [handler EXCEPT ![h] = Idle]
        /\ acked' = acked \/ (handler[h].ok /\ acked' = acked \cup {Ev(h)})
    BY <1>11 DEF Reply, CutOff, MoveHandler, Working, Accepts
  <2>2. Idle \in HandlerRecord /\ HonestNext(Idle)
    BY DEF Idle, HandlerRecord, HonestNext, Stages
  <2>3. acked' \subseteq sent /\ \A e \in (acked' \ acked) \cap Owed : written'[e] > 0
    BY <1>1, <1>3, <2>1 DEF TypeOK, HandlersAreHonest, Working, Ev, tables
  <2>. QED
    BY <1>1, <1>4, <2>1, <2>2, <2>3, HandlerFrame DEF TypeOK, tables
<1>. QED
  BY <1>7, <1>8, <1>9, <1>10, <1>11 DEF HandlerStep, HandlerFault

-----------------------------------------------------------------------------

LEMMA StutterInv ==
  ASSUME BillingInv, UNCHANGED vars
  PROVE  BillingInv'
<1>1. HandlersAreHonest' /\ AcknowledgedIsWritten' /\ ProcessedIsWritten'
  BY WebhookFrame DEF vars, stripe, tables
<1>2. TypeOK' /\ CheckoutKnowsCustomer'
  BY DEF BillingInv, vars, stripe, tables, TypeOK, CheckoutKnowsCustomer
<1>. QED
  BY <1>1, <1>2 DEF BillingInv

\* The invariant holds of every execution: Billing's state is what TypeOK says,
\* and its webhook never answers 200 for, nor marks processed, what it has not
\* written, however requests interleave, fail and die.
THEOREM BillingInvariant == Spec => []BillingInv
<1>1. BillingInv /\ [Next]_vars => BillingInv'
  BY CheckoutInv, IndexInv, HappenInv, DeliverInv, StepInv, StutterInv DEF Next
<1>. QED
  BY InitInv, <1>1, PTL DEF Spec

\* A delivery answered 200 that names its tenant was written.
THEOREM AcknowledgedAreWritten == Spec => []AcknowledgedIsWritten
<1>1. BillingInv => AcknowledgedIsWritten
  BY DEF BillingInv
<1>. QED
  BY BillingInvariant, <1>1, PTL

\* A delivery the ledger calls processed, and that names its tenant, was written.
THEOREM ProcessedAreWritten == Spec => []ProcessedIsWritten
<1>1. BillingInv => ProcessedIsWritten
  BY DEF BillingInv
<1>. QED
  BY BillingInvariant, <1>1, PTL

\* The rows of checkouts, customers, subscriptions and deliveries keep their
\* types for any number of workers, events and faults.
THEOREM TypesCorrect == Spec => []TypeOK
<1>1. BillingInv => TypeOK
  BY DEF BillingInv
<1>. QED
  BY BillingInvariant, <1>1, PTL

-----------------------------------------------------------------------------
(* Rows and the subscriptions they name.                                   *)

\* What the conflict clauses of the upserts keep.
LinksKept == \A o \in Objects : row[o] > 0 => row'[o] > 0 /\ (o \in linked => o \in linked')

LEMMA UntouchedLinks ==
  ASSUME UNCHANGED <<row, linked>>
  PROVE  LinksKept
BY DEF LinksKept

\* The one statement that writes rows writes a version, and adds to the links.
LEMMA AppliedLinks ==
  ASSUME BillingInv, NEW h \in Handlers, Working(h), Applied(h)
  PROVE  LinksKept
<1>1. CASE WriteCustomer(h)
  BY <1>1, UntouchedLinks DEF WriteCustomer
<1>2. CASE WriteRow(h)
  <2>1. Ev(h) \in Events
    BY DEF BillingInv, HandlersAreHonest, TypeOK
  <2>2. Version[Ev(h)] \in Nat \ {0}
    BY <2>1, BillingAssumption
  <2>3. row \in [Objects -> Nat] /\ row' = [row EXCEPT ![Ob(h)] = Version[Ev(h)]]
    BY <1>2 DEF WriteRow, BillingInv, TypeOK
  <2>4. linked \subseteq linked'
    BY <1>2 DEF WriteRow, LinksAfter
  <2>. QED
    BY <2>2, <2>3, <2>4 DEF LinksKept
<1>. QED
  BY <1>1, <1>2 DEF Applied

LEMMA LinksStep ==
  ASSUME BillingInv, [Next]_vars
  PROVE  LinksKept
<1>1. ASSUME NEW b \in Buyers, CheckoutStep(b) \/ FindFails(b) \/ CheckoutEnds(b)
      PROVE  LinksKept
  BY <1>1, UntouchedLinks DEF CheckoutStep, FindFails, CheckoutEnds, LoadCustomer, FindCustomer,
         CreateCustomer, OpenSession, RecordCustomer, MoveBuyer
<1>2. CASE Index \/ UNCHANGED vars \/ (\E e \in Events : Happen(e))
           \/ \E h \in Handlers, e \in Events : Deliver(h, e)
  BY <1>2, UntouchedLinks DEF Index, vars, tables, Happen, Deliver
<1>3. ASSUME NEW h \in Handlers, HandlerStep(h) \/ HandlerFault(h)
      PROVE  LinksKept
  <2>1. CASE Write(h) \/ WriteFails(h)
    BY <2>1, AppliedLinks, UntouchedLinks DEF Write, WriteFails
  <2>2. CASE Record(h) \/ Resolve(h) \/ Lookup(h) \/ Finish(h) \/ Reply(h) \/ RecordFails(h)
             \/ ResolveFails(h) \/ LookupFails(h) \/ FinishFails(h) \/ CutOff(h)
    BY <2>2, UntouchedLinks DEF Record, Resolve, Lookup, Finish, Reply, RecordFails, ResolveFails,
           LookupFails, FinishFails, CutOff, tables
  <2>. QED
    BY <1>3, <2>1, <2>2 DEF HandlerStep, HandlerFault
<1>. QED
  BY <1>1, <1>2, <1>3 DEF Next

\* However deliveries repeat, race and overtake each other, no row is taken out
\* again and a payment goes on naming the subscription it pays for.
THEOREM LinksStay == Spec => LinksAreKept
<1>1. BillingInv /\ [Next]_vars => [LinksKept]_vars
  BY LinksStep
<1>. QED
  BY BillingInvariant, <1>1, PTL DEF Spec, LinksAreKept, LinksKept
====
