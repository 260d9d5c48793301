---------------------------- MODULE WebhookProofs ----------------------------
(***************************************************************************)
(* What holds of webhook_events for any numbers of events, requests and    *)
(* cron passes, any bounds and any mixture of events.                      *)
(*                                                                         *)
(* AckInv is why an answer of 2xx is never empty: whatever a request has   *)
(* behind it when it confirms a row, or finds a row confirmed, was applied *)
(* or closed by the pass.  OnceInv is why nothing is made twice: an event  *)
(* that nobody interrupted is in the hands of one pass at most, and once   *)
(* made it is in those hands until its row is confirmed.  SubsInv is why a *)
(* tenant has one active subscription: while no two activations overlap, a *)
(* row nothing ended is active and is the only row of its subscription.    *)
(***************************************************************************)
EXTENDS WebhookEvents, TLAPS, SequenceTheorems, FiniteSetTheorems

SeenType ==
  [applied : SUBSET Events, unknown : SUBSET Events, swept : SUBSET Events,
   ended : SUBSET (Subs \cup {None}), interrupted : SUBSET Events,
   overlap : BOOLEAN, revived : BOOLEAN]

BudgetType == [faults : Nat, timeouts : Nat, passes : Nat]

\* Which events can be at which point of a delivery.
Placed(it) ==
  /\ it.pc # "off" => it.event \in Events
  /\ it.pc \in {"lookup", "store"} => it.event \notin Stripe
  /\ it.pc \in Applying \cup {"resolve", "insert", "existing", "reopen", "confirm", "fail"}
       => it.event \in Stripe
  /\ it.pc \in {"check", "upgrade", "deactivate", "create"}
       => type[it.event].sub \in Subs

\* What a cron pass has in hand at each of its points.
Handled(it) ==
  /\ it.pc = "off" => it.todo = {}
  /\ it.pc \in {"audit", "mark"} => it.event \in Events \ Stripe
  /\ it.pc = "fail" => it.event \in Events
  /\ \A t \in it.todo : /\ \A u \in it.todo : t.event = u.event => t = u
                        /\ it.pc \in {"audit", "mark", "fail"} => t.event # it.event

Tables ==
  /\ type \in [Events -> EventTypes]
  /\ \A e \in Events : type[e].kind \notin {"credits", "issue"} => type[e].sub \in Subs
  /\ row \in [Events -> RowType]
  /\ subs \in Seq(SubscriptionType)
  /\ plan \in {"trial", "paid"}
  /\ effects \in [Events -> Nat]
  /\ acked \subseteq Events
  /\ seen \in SeenType
  /\ budget \in BudgetType

Requests ==
  /\ delivery \in [Deliveries -> DeliveryType]
  /\ \A d \in Deliveries : Placed(delivery[d])

Batches ==
  /\ pass \in [Passes -> PassType]
  /\ \A p \in Passes : Handled(pass[p])

FitInv == Tables /\ Requests /\ Batches

LEMMA FitIsTyped == FitInv => TypeOK
  BY DEF FitInv, Tables, Requests, Batches, TypeOK

LEMMA Empties ==
  /\ NoDelivery \in DeliveryType /\ Placed(NoDelivery) /\ NoDelivery.pc = "off"
  /\ NoPass \in PassType /\ Handled(NoPass) /\ NoPass.pc = "off" /\ NoPass.todo = {}
  /\ NoRow \in RowType
<1>1. NoDelivery \in DeliveryType /\ NoDelivery.pc = "off"
  BY DEF NoDelivery, DeliveryType, DeliveryPcs
<1>2. NoPass \in PassType /\ NoPass.pc = "off" /\ NoPass.todo = {}
  BY DEF NoPass, PassType, PassPcs
<1>3. Placed(NoDelivery) BY <1>1 DEF Placed, Applying
<1>4. Handled(NoPass) BY <1>2 DEF Handled
<1> QED BY <1>1, <1>2, <1>3, <1>4 DEF NoRow, RowType

LEMMA InitFits == Init => FitInv
<1> SUFFICES ASSUME Init PROVE FitInv OBVIOUS
<1>1. PICK s \in Scenarios : type = s.type /\ budget = s.budget BY DEF Init
<1>2. /\ type \in [Events -> EventTypes] /\ budget \in BudgetType
      /\ \A e \in Events : type[e].kind \notin {"credits", "issue"} => type[e].sub \in Subs
  BY <1>1, WebhookConstants DEF BudgetType
<1>3. Tables
  BY <1>2, Empties DEF Init, Tables, Fresh, SeenType
<1>4. Requests /\ Batches BY Empties DEF Init, Requests, Batches
<1> QED BY <1>3, <1>4 DEF FitInv

-----------------------------------------------------------------------------
(* Types of the steps *)

DeliveryGoes(d, it) == delivery' = [delivery EXCEPT ![d] = it]
PassGoes(p, it) == pass' = [pass EXCEPT ![p] = it]

LEMMA DeliveryFits ==
  ASSUME Requests, UNCHANGED type, NEW d, NEW it \in DeliveryType, Placed(it),
         DeliveryGoes(d, it)
  PROVE  Requests'
<1>1. delivery' \in [Deliveries -> DeliveryType] BY DEF Requests, DeliveryGoes
<1>2. \A c \in Deliveries : delivery'[c] = it \/ delivery'[c] = delivery[c]
  BY DEF Requests, DeliveryGoes
<1>3. \A c \in Deliveries : Placed(delivery'[c]) BY <1>2 DEF Requests
<1>4. Stripe' = Stripe BY DEF Stripe
<1>5. \A c \in Deliveries : Placed(delivery[c])' BY <1>3, <1>4 DEF Placed
<1> QED BY <1>1, <1>5 DEF Requests

LEMMA PassFits ==
  ASSUME Batches, UNCHANGED type, NEW p \in Passes, NEW it \in PassType, Handled(it),
         PassGoes(p, it)
  PROVE  Batches'
<1>1. pass' \in [Passes -> PassType] BY DEF Batches, PassGoes
<1>2. \A q \in Passes : pass'[q] = IF q = p THEN it ELSE pass[q] BY DEF Batches, PassGoes
<1>3. \A q \in Passes : Handled(pass'[q]) BY <1>2 DEF Batches
<1>4. Stripe' = Stripe BY DEF Stripe
<1>5. \A q \in Passes : Handled(pass[q])' BY <1>3, <1>4 DEF Handled
<1> QED BY <1>1, <1>5 DEF Batches

\* A delivery that goes on to another point of the same event.
LEMMA GoToFits ==
  ASSUME Requests, UNCHANGED type, NEW d \in Deliveries, NEW pc \in DeliveryPcs, GoTo(d, pc),
         delivery[d].pc # "off",
         pc # "off", pc \notin {"lookup", "store"} \/ Event(d) \notin Stripe,
         pc \in Applying \cup {"resolve", "insert", "existing", "reopen", "confirm", "fail"}
           => Event(d) \in Stripe,
         pc \in {"check", "upgrade", "deactivate", "create"} => Type(d).sub \in Subs
  PROVE  /\ Requests'
         /\ \A c \in Deliveries :
              delivery'[c] = IF c = d THEN [delivery[d] EXCEPT !.pc = pc] ELSE delivery[c]
<1> DEFINE it == [delivery[d] EXCEPT !.pc = pc]
<1>1. delivery[d] \in DeliveryType /\ Placed(delivery[d]) BY DEF Requests
<1>2. it \in DeliveryType /\ it.pc = pc /\ it.event = Event(d)
  BY <1>1 DEF DeliveryType, Event
<1>3. Event(d) \in Events BY <1>1 DEF Placed, Event
<1>4. DeliveryGoes(d, it) BY DEF GoTo, DeliveryGoes
<1>5. \A c \in Deliveries : delivery'[c] = IF c = d THEN it ELSE delivery[c]
  BY <1>4 DEF Requests, DeliveryGoes
<1> HIDE DEF it
<1>6. Placed(it) BY <1>2, <1>3 DEF Placed, Type
<1>7. Requests' BY <1>2, <1>4, <1>6, DeliveryFits
<1> QED BY <1>5, <1>7 DEF it

LEMMA DoneFits ==
  ASSUME Requests, UNCHANGED type, NEW d, Done(d)
  PROVE  Requests'
  BY Empties, DeliveryFits DEF Done, DeliveryGoes

LEMMA PassStands ==
  ASSUME Batches, UNCHANGED <<type, pass>>
  PROVE  Batches'
<1>1. Stripe' = Stripe BY DEF Stripe
<1> QED BY <1>1 DEF Batches, Handled

LEMMA DeliveryStands ==
  ASSUME Requests, UNCHANGED <<type, delivery>>
  PROVE  Requests'
<1>1. Stripe' = Stripe BY DEF Stripe
<1> QED BY <1>1 DEF Requests, Placed

\* Changes of one status of a row, of the subscriptions and of the history.
LEMMA SetRowFits ==
  ASSUME Tables, NEW e, NEW status \in {"none", "pending", "failed", "dead", "processed"},
         SetRow(e, status)
  PROVE  /\ row' \in [Events -> RowType]
         /\ \A f \in Events : row'[f].status = IF f = e THEN status ELSE row[f].status
         /\ \A f \in Events \ {e} : row'[f] = row[f]
  BY DEF Tables, SetRow, RowType

LEMMA WithStatusFits ==
  ASSUME Tables, NEW rows, NEW status \in {"active", "past_due", "cancelled"}
  PROVE  WithStatus(rows, status) \in Seq(SubscriptionType)
<1>1. /\ \A i \in DOMAIN subs : subs[i] \in SubscriptionType
      /\ DOMAIN subs = 1 .. Len(subs) /\ Len(subs) \in Nat
  BY DEF Tables
<1>2. \A i \in DOMAIN subs :
        (IF i \in rows THEN [subs[i] EXCEPT !.status = status] ELSE subs[i]) \in SubscriptionType
  BY <1>1 DEF SubscriptionType
<1> QED BY <1>1, <1>2, IsASeq DEF WithStatus

LEMMA NamesOfRows ==
  ASSUME Tables, NEW i \in DOMAIN subs
  PROVE  subs[i].sub \in Subs
<1>1. subs \in Seq(SubscriptionType) BY DEF Tables
<1>2. subs[i] \in SubscriptionType BY <1>1, ElementOfSeq
<1> QED BY <1>2 DEF SubscriptionType

-----------------------------------------------------------------------------
(* Every step keeps the types *)

\* What holds at the point where a delivery is.
LEMMA AtPoint ==
  ASSUME FitInv, NEW d \in Deliveries, delivery[d].pc # "off"
  PROVE  /\ Event(d) \in Events
         /\ delivery[d].pc \in {"lookup", "store"} => Event(d) \notin Stripe
         /\ delivery[d].pc \in Applying \cup {"resolve", "insert", "existing", "reopen",
                                              "confirm", "fail"} => Event(d) \in Stripe
         /\ delivery[d].pc \in {"check", "upgrade", "deactivate", "create"}
              => Type(d).sub \in Subs
         /\ Event(d) \in Stripe => Type(d).kind \in Kinds \ {"issue"}
         /\ delivery[d] \in DeliveryType
<1>1. Placed(delivery[d]) /\ delivery[d] \in DeliveryType BY DEF FitInv, Requests
<1>2. Event(d) \in Events BY <1>1 DEF Placed, Event
<1>3. Type(d) \in EventTypes BY <1>2 DEF FitInv, Tables, Type
<1> QED BY <1>1, <1>2, <1>3 DEF Placed, Event, Type, Stripe, EventTypes

LEMMA FirstStepPlaced ==
  ASSUME FitInv, NEW d \in Deliveries, delivery[d].pc # "off", Event(d) \in Stripe
  PROVE  /\ FirstStep(Type(d).kind) \in {"grant", "check", "find", "status"}
         /\ FirstStep(Type(d).kind) = "check" => Type(d).sub \in Subs
<1>1. Type(d).kind \in Kinds \ {"issue"} BY AtPoint
<1>2. Event(d) \in Events BY AtPoint
<1>3. Type(d).kind = "checkout" => Type(d).sub \in Subs
  BY <1>2 DEF FitInv, Tables, Type
<1> QED BY <1>1, <1>3 DEF FirstStep, Kinds

\* The steps of a delivery before it applies the event.
LEMMA ClaimFits ==
  ASSUME FitInv, NEW d \in Deliveries,
         ResolveWebhookOrg(d) \/ InsertRow(d) \/ ReadExisting(d) \/ Reopen(d)
  PROVE  FitInv'
<1> USE DEF At
<1>0. delivery[d].pc \in {"resolve", "insert", "existing", "reopen"} /\ UNCHANGED <<type, pass>>
  BY DEF ResolveWebhookOrg, InsertRow, ReadExisting, Reopen
<1>1. /\ Event(d) \in Stripe /\ Event(d) \in Events /\ FirstStep(Type(d).kind) \in DeliveryPcs
      /\ FirstStep(Type(d).kind) \in {"grant", "check", "find", "status"}
      /\ FirstStep(Type(d).kind) = "check" => Type(d).sub \in Subs
  BY <1>0, AtPoint, FirstStepPlaced DEF DeliveryPcs, Applying
<1>2. Batches' BY <1>0, PassStands DEF FitInv
<1>3. Requests'
  <2>1. \/ Done(d)
        \/ GoTo(d, "insert") \/ GoTo(d, "existing") \/ GoTo(d, "reopen") \/ GoTo(d, "ok")
        \/ GoTo(d, FirstStep(Type(d).kind))
    BY DEF ResolveWebhookOrg, InsertRow, ReadExisting, Reopen
  <2>2. ASSUME NEW pc \in {"insert", "existing", "reopen", "ok"}, GoTo(d, pc) PROVE Requests'
    BY <1>0, <1>1, <2>2, GoToFits DEF FitInv, DeliveryPcs, Applying
  <2>3. CASE GoTo(d, FirstStep(Type(d).kind))
    BY <1>0, <1>1, <2>3, GoToFits DEF FitInv, DeliveryPcs, Applying
  <2> QED BY <1>0, <2>1, <2>2, <2>3, DoneFits DEF FitInv
<1>4. Tables'
  <2>1. CASE ResolveWebhookOrg(d)
    <3>1. acked' \subseteq Events
      BY <1>1, <2>1 DEF ResolveWebhookOrg, FitInv, Tables, Hears
    <3>2. [seen EXCEPT !.unknown = @ \cup {Event(d)}] \in SeenType
      BY <1>1 DEF FitInv, Tables, SeenType
    <3>3. seen' \in SeenType
      BY <2>1, <3>2 DEF ResolveWebhookOrg, FitInv, Tables
    <3> QED BY <2>1, <3>1, <3>3 DEF ResolveWebhookOrg, FitInv, Tables, billing
  <2>2. CASE InsertRow(d)
    BY <2>2, SetRowFits DEF InsertRow, FitInv, Tables, billing
  <2>3. CASE ReadExisting(d)
    BY <2>3 DEF ReadExisting, FitInv, Tables, billing
  <2>4. CASE Reopen(d)
    BY <1>1, <2>4 DEF Reopen, FitInv, Tables, billing, RowType
  <2> QED BY <2>1, <2>2, <2>3, <2>4
<1> QED BY <1>2, <1>3, <1>4 DEF FitInv

\* The statements that apply the event.
LEMMA ApplyFits ==
  ASSUME FitInv, NEW d \in Deliveries,
         \/ GrantCredits(d) \/ CheckReplay(d) \/ UpgradeOrg(d) \/ DeactivateOthers(d)
         \/ CreateSubscription(d) \/ UpdateStatus(d) \/ CancelRow(d) \/ DowngradeOrg(d)
         \/ AppendAudit(d)
  PROVE  FitInv'
<1> USE DEF At
<1>0. delivery[d].pc \in Applying /\ UNCHANGED <<type, pass, row, acked, budget>>
  BY DEF GrantCredits, CheckReplay, UpgradeOrg, DeactivateOthers, CreateSubscription,
         UpdateStatus, CancelRow, DowngradeOrg, AppendAudit, Applying, billing
<1>1. /\ Event(d) \in Stripe /\ Event(d) \in Events /\ delivery[d].pc # "off"
      /\ delivery[d].pc \in {"check", "upgrade", "deactivate", "create"} => Type(d).sub \in Subs
  BY <1>0, AtPoint DEF Applying
<1>2. Batches' BY <1>0, PassStands DEF FitInv
<1>3. Requests'
  <2>1. \/ /\ delivery[d].pc \in {"check", "upgrade", "deactivate"}
           /\ GoTo(d, "upgrade") \/ GoTo(d, "deactivate") \/ GoTo(d, "create")
        \/ GoTo(d, "audit") \/ GoTo(d, "confirm") \/ GoTo(d, "downgrade")
    BY DEF GrantCredits, CheckReplay, UpgradeOrg, DeactivateOthers, CreateSubscription,
           UpdateStatus, CancelRow, DowngradeOrg, AppendAudit
  <2>2. ASSUME NEW pc \in {"audit", "confirm", "downgrade"}, GoTo(d, pc) PROVE Requests'
    BY <1>0, <1>1, <2>2, GoToFits DEF FitInv, DeliveryPcs, Applying
  <2>3. ASSUME NEW pc \in {"upgrade", "deactivate", "create"}, GoTo(d, pc),
               delivery[d].pc \in {"check", "upgrade", "deactivate"}
        PROVE  Requests'
    BY <1>0, <1>1, <2>3, GoToFits DEF FitInv, DeliveryPcs, Applying
  <2> QED BY <2>1, <2>2, <2>3
<1>4. Applied(d) \in SeenType BY <1>1 DEF Applied, FitInv, Tables, SeenType
<1>5. subs' \in Seq(SubscriptionType) /\ plan' \in {"trial", "paid"}
  <2>1. CASE DeactivateOthers(d)
    BY <2>1, WithStatusFits DEF DeactivateOthers, FitInv, Tables
  <2>2. CASE CreateSubscription(d)
    <3>1. [sub |-> Type(d).sub, status |-> "active"] \in SubscriptionType
      BY <1>1, <2>2 DEF CreateSubscription, SubscriptionType
    <3> QED BY <2>2, <3>1, AppendProperties DEF CreateSubscription, FitInv, Tables
  <2>3. CASE UpdateStatus(d)
    <3>1. MappedStatus(Type(d).stripe) \in {"active", "past_due", "cancelled"}
      BY DEF MappedStatus
    <3> QED BY <2>3, <3>1, WithStatusFits DEF UpdateStatus, FitInv, Tables
  <2>4. CASE CancelRow(d)
    BY <2>4, WithStatusFits DEF CancelRow, FitInv, Tables
  <2>5. CASE GrantCredits(d) \/ CheckReplay(d) \/ UpgradeOrg(d) \/ DowngradeOrg(d) \/ AppendAudit(d)
    BY <2>5 DEF GrantCredits, CheckReplay, UpgradeOrg, DowngradeOrg, AppendAudit, billing,
                FitInv, Tables
  <2> QED BY <2>1, <2>2, <2>3, <2>4, <2>5
<1>6. effects' \in [Events -> Nat]
  BY DEF GrantCredits, CheckReplay, UpgradeOrg, DeactivateOthers, CreateSubscription,
         UpdateStatus, CancelRow, DowngradeOrg, AppendAudit, billing, FitInv, Tables
<1>7. seen' \in SeenType
  <2>1. CASE DeactivateOthers(d)
    <3>1. {subs[i].sub : i \in ActiveRows} \subseteq Subs
      BY NamesOfRows DEF ActiveRows, FitInv
    <3> QED BY <2>1, <3>1 DEF DeactivateOthers, FitInv, Tables, SeenType
  <2>2. CASE UpdateStatus(d)
    <3>1. Type(d).sub \in Subs \cup {None} BY <1>1 DEF FitInv, Tables, EventTypes, Type
    <3> QED BY <1>4, <2>2, <3>1 DEF UpdateStatus, SeenType
  <2>3. CASE CancelRow(d)
    <3>1. PICK i \in RowsOf(Type(d).sub) :
            seen' = [seen EXCEPT !.ended = IF i \in ActiveRows THEN @ \cup {subs[i].sub} ELSE @]
      BY <2>3 DEF CancelRow
    <3>2. subs[i].sub \in Subs BY NamesOfRows DEF RowsOf, FitInv
    <3> QED BY <3>1, <3>2 DEF FitInv, Tables, SeenType
  <2>4. CASE CheckReplay(d)
    <3>1. (seen.overlap \/ Activations # {}) \in BOOLEAN OBVIOUS
    <3>2. \A o \in BOOLEAN : [seen EXCEPT !.overlap = o] \in SeenType
      BY DEF FitInv, Tables, SeenType
    <3>3. CASE AlreadyActive(d) BY <1>4, <2>4, <3>3 DEF CheckReplay
    <3>4. CASE ~AlreadyActive(d)
      <4>1. seen' = [seen EXCEPT !.overlap = seen.overlap \/ Activations # {}]
        BY <2>4, <3>4 DEF CheckReplay
      <4> QED BY <3>1, <3>2, <4>1
    <3> QED BY <3>3, <3>4
  <2>5. CASE \/ GrantCredits(d) \/ UpgradeOrg(d) \/ CreateSubscription(d)
             \/ DowngradeOrg(d) \/ AppendAudit(d)
    BY <1>4, <2>5 DEF GrantCredits, UpgradeOrg, CreateSubscription, DowngradeOrg,
                      AppendAudit, FitInv, Tables
  <2> QED BY <2>1, <2>2, <2>3, <2>4, <2>5
<1> QED BY <1>0, <1>2, <1>3, <1>5, <1>6, <1>7 DEF FitInv, Tables

\* The steps of a delivery after the event is applied, and the other receivers.
LEMMA SettleFits ==
  ASSUME FitInv, NEW d \in Deliveries,
         Confirm(d) \/ MarkFailed(d) \/ Answer(d) \/ Lookup(d) \/ Store(d)
  PROVE  FitInv'
<1> USE DEF At
<1>0. /\ delivery[d].pc \in {"confirm", "fail", "ok", "lookup", "store"}
      /\ UNCHANGED <<type, pass, billing, budget, seen>>
  BY DEF Confirm, MarkFailed, Answer, Lookup, Store
<1>1. /\ Event(d) \in Events /\ delivery[d].pc # "off"
      /\ delivery[d].pc \in {"lookup", "store"} => Event(d) \notin Stripe
  BY <1>0, AtPoint
<1>2. Batches' BY <1>0, PassStands DEF FitInv
<1>3. Requests'
  <2>1. \/ Done(d) \/ GoTo(d, "ok")
        \/ delivery[d].pc = "lookup" /\ GoTo(d, "store")
    BY DEF Confirm, MarkFailed, Answer, Lookup, Store
  <2>2. CASE GoTo(d, "ok")
    BY <1>0, <1>1, <2>2, GoToFits DEF FitInv, DeliveryPcs, Applying
  <2>3. CASE delivery[d].pc = "lookup" /\ GoTo(d, "store")
    BY <1>0, <1>1, <2>3, GoToFits DEF FitInv, DeliveryPcs, Applying
  <2> QED BY <1>0, <2>1, <2>2, <2>3, DoneFits DEF FitInv
<1>4. row' \in [Events -> RowType]
  BY SetRowFits DEF Confirm, MarkFailed, Answer, Lookup, Store, FitInv, Tables
<1>5. acked' \subseteq Events
  BY <1>1 DEF Confirm, MarkFailed, Answer, Lookup, Store, Hears, FitInv, Tables
<1> QED BY <1>0, <1>2, <1>3, <1>4, <1>5 DEF FitInv, Tables, billing

\* The senders, and what fails or dies on the way.
LEMMA DeliverFits ==
  ASSUME FitInv, NEW e \in Events, Deliver(e)
  PROVE  FitInv'
<1> DEFINE it == [pc |-> IF e \in Stripe THEN "resolve" ELSE "lookup",
                  event |-> e, waiting |-> TRUE]
<1>1. it \in DeliveryType /\ Placed(it)
  BY DEF DeliveryType, DeliveryPcs, Placed, Applying
<1>2. PICK d : DeliveryGoes(d, it) BY DEF Deliver, DeliveryGoes
<1>3. UNCHANGED <<type, row, billing, pass, acked, budget>> BY DEF Deliver
<1>4. seen' \in SeenType BY DEF Deliver, FitInv, Tables, SeenType
<1> HIDE DEF it
<1>5. Requests' BY <1>1, <1>2, <1>3, DeliveryFits DEF FitInv
<1>6. Batches' BY <1>3, PassStands DEF FitInv
<1> QED BY <1>3, <1>4, <1>5, <1>6 DEF FitInv, Tables, billing

LEMMA DisturbFits ==
  ASSUME FitInv, NEW d \in Deliveries, SenderTimesOut(d) \/ DeliveryFails(d) \/ DeliveryDies(d)
  PROVE  FitInv'
<1>1. UNCHANGED <<type, row, billing, pass, acked, seen>>
  BY DEF SenderTimesOut, DeliveryFails, DeliveryDies
<1>2. budget' \in BudgetType
  BY DEF SenderTimesOut, DeliveryFails, DeliveryDies, FitInv, Tables, BudgetType
<1>3. Requests'
  <2>1. CASE SenderTimesOut(d)
    <3> DEFINE it == [delivery[d] EXCEPT !.waiting = FALSE]
    <3>1. delivery[d] \in DeliveryType /\ Placed(delivery[d]) BY DEF FitInv, Requests
    <3>2. it \in DeliveryType /\ Placed(it) BY <3>1 DEF DeliveryType, Placed
    <3>3. DeliveryGoes(d, it) BY <2>1 DEF SenderTimesOut, DeliveryGoes
    <3> HIDE DEF it
    <3> QED BY <1>1, <3>2, <3>3, DeliveryFits DEF FitInv
  <2>2. CASE delivery[d].pc \in Applying /\ GoTo(d, "fail")
    <3>1. delivery[d].pc # "off" /\ Event(d) \in Stripe BY <2>2, AtPoint DEF Applying
    <3> QED BY <1>1, <2>2, <3>1, GoToFits DEF FitInv, DeliveryPcs, Applying
  <2>3. CASE Done(d) BY <1>1, <2>3, DoneFits DEF FitInv
  <2> QED BY <2>1, <2>2, <2>3 DEF DeliveryFails, DeliveryDies
<1>4. Batches' BY <1>1, PassStands DEF FitInv
<1> QED BY <1>1, <1>2, <1>3, <1>4 DEF FitInv, Tables, billing

\* What a pass goes on with.
Rest(todo) == [NoPass EXCEPT !.pc = IF todo = {} THEN "off" ELSE "next", !.todo = todo]

LEMMA RestFits ==
  ASSUME NEW todo \in SUBSET [event : Events, retries : Nat],
         \A t, u \in todo : t.event = u.event => t = u
  PROVE  /\ Rest(todo) \in PassType /\ Handled(Rest(todo))
         /\ Rest(todo).todo = todo /\ Rest(todo).pc \in {"off", "next"}
<1>1. /\ Rest(todo) \in PassType /\ Rest(todo).todo = todo
      /\ Rest(todo).pc = IF todo = {} THEN "off" ELSE "next"
  BY Empties DEF Rest, PassType, PassPcs
<1> HIDE DEF Rest
<1> QED BY <1>1 DEF Handled

LEMMA TakenFits ==
  ASSUME FitInv, NEW p \in Passes, pass[p].pc = "next", NEW t \in pass[p].todo,
         NEW pc \in {"audit", "fail"}, pc = "audit" => t.event \notin Stripe
  PROVE  /\ Taken(p, t, pc) \in PassType /\ Handled(Taken(p, t, pc))
         /\ Taken(p, t, pc).pc = pc /\ Taken(p, t, pc).event = t.event
         /\ Taken(p, t, pc).todo = pass[p].todo \ {t}
         /\ t.event \in Events
<1>1. pass[p] \in PassType /\ Handled(pass[p]) BY DEF FitInv, Batches
<1>2. t \in [event : Events, retries : Nat] BY <1>1 DEF PassType
<1>3. /\ Taken(p, t, pc) \in PassType
      /\ Taken(p, t, pc).pc = pc /\ Taken(p, t, pc).event = t.event
      /\ Taken(p, t, pc).todo = pass[p].todo \ {t}
  BY <1>1, <1>2 DEF Taken, PassType, PassPcs
<1>4. t.event \in Events BY <1>2
<1> HIDE DEF Taken
<1>5. Handled(Taken(p, t, pc)) BY <1>1, <1>3, <1>4 DEF Handled
<1> QED BY <1>3, <1>4, <1>5

LEMMA PassStepFits ==
  ASSUME FitInv, NEW p \in Passes, PassStep(p)
  PROVE  FitInv'
<1>0. pass[p] \in PassType /\ Handled(pass[p]) BY DEF FitInv, Batches
<1>1. UNCHANGED <<type, subs, plan, delivery, acked>>
  BY DEF PassStep, ReadBatch, ApplyRule, AuditRule, MarkProcessed, CloseWithoutRule,
         MarkRetry, billing
<1>2. Requests' BY <1>1, DeliveryStands DEF FitInv
<1>3. CASE ReadBatch(p)
  <2> DEFINE todo == {[event |-> e, retries |-> row[e].retries] :
                        e \in {f \in Events : Unsettled(f)}}
  <2>1. todo \in SUBSET [event : Events, retries : Nat] BY DEF FitInv, Tables, RowType
  <2>2. \A t, u \in todo : t.event = u.event => t = u OBVIOUS
  <2>3. PassGoes(p, Rest(todo)) BY <1>3 DEF ReadBatch, Proceed, PassGoes, Rest
  <2> HIDE DEF todo
  <2>4. Batches' BY <1>1, <2>1, <2>2, <2>3, RestFits, PassFits DEF FitInv
  <2>5. \A q \in Passes : InHand(q) \subseteq Events
    BY DEF InHand, FitInv, Batches, PassType, Handled
  <2>6. UNION {InHand(q) : q \in Passes \ {p}} \subseteq Events BY <2>5
  <2>7. seen' \in SeenType BY <1>3, <2>6 DEF ReadBatch, FitInv, Tables, SeenType
  <2>8. budget' \in BudgetType BY <1>3 DEF ReadBatch, FitInv, Tables, BudgetType
  <2> QED BY <1>1, <1>2, <1>3, <2>4, <2>7, <2>8 DEF ReadBatch, FitInv, Tables, billing
<1>4. CASE ApplyRule(p)
  <2>1. PICK t \in pass[p].todo :
          /\ t.event \notin Stripe
          /\ effects' = [effects EXCEPT ![t.event] = @ + 1]
          /\ PassGoes(p, Taken(p, t, "audit"))
    BY <1>4 DEF ApplyRule, PassGoes
  <2>2. pass[p].pc = "next" BY <1>4 DEF ApplyRule
  <2>3. Batches' BY <1>1, <2>1, <2>2, TakenFits, PassFits DEF FitInv
  <2>4. effects' \in [Events -> Nat]
    <3>1. t.event \in Events BY <2>1, <2>2, TakenFits
    <3>2. effects \in [Events -> Nat] BY DEF FitInv, Tables
    <3> QED BY <2>1, <3>1, <3>2
  <2> QED BY <1>1, <1>2, <1>4, <2>3, <2>4 DEF ApplyRule, FitInv, Tables
<1>5. CASE AuditRule(p)
  <2> DEFINE it == [pass[p] EXCEPT !.pc = "mark"]
  <2>1. it \in PassType /\ it.pc = "mark" /\ it.event = pass[p].event /\ it.todo = pass[p].todo
    BY <1>0 DEF PassType, PassPcs
  <2>2. PassGoes(p, it) BY <1>5 DEF AuditRule, PassGoes
  <2> HIDE DEF it
  <2>3. Handled(it) BY <1>0, <1>5, <2>1 DEF AuditRule, Handled
  <2>4. Batches' BY <1>1, <2>1, <2>2, <2>3, PassFits DEF FitInv
  <2> QED BY <1>1, <1>2, <1>5, <2>4 DEF AuditRule, FitInv, Tables, billing
<1>6. \A rest \in SUBSET pass[p].todo : Rest(rest) \in PassType /\ Handled(Rest(rest))
  BY <1>0, RestFits DEF Handled, PassType
<1>7. CASE MarkProcessed(p)
  <2>1. PassGoes(p, Rest(pass[p].todo)) BY <1>7 DEF MarkProcessed, Proceed, PassGoes, Rest
  <2>2. Batches' BY <1>1, <1>6, <2>1, PassFits DEF FitInv
  <2>3. row' \in [Events -> RowType] BY <1>7, SetRowFits DEF MarkProcessed, FitInv
  <2> QED BY <1>1, <1>2, <1>7, <2>2, <2>3 DEF MarkProcessed, FitInv, Tables, billing
<1>8. CASE CloseWithoutRule(p)
  <2>1. PICK t \in pass[p].todo :
          /\ SetRow(t.event, "processed")
          /\ seen' = [seen EXCEPT !.swept = @ \cup {t.event}]
          /\ PassGoes(p, Rest(pass[p].todo \ {t}))
    BY <1>8 DEF CloseWithoutRule, Proceed, PassGoes, Rest
  <2>2. Batches' BY <1>1, <1>6, <2>1, PassFits DEF FitInv
  <2>3. row' \in [Events -> RowType] BY <2>1, SetRowFits DEF FitInv
  <2>4. t.event \in Events BY <1>0, <2>1 DEF PassType
  <2>5. seen' \in SeenType BY <2>1, <2>4 DEF FitInv, Tables, SeenType
  <2> QED BY <1>1, <1>2, <1>8, <2>2, <2>3, <2>5 DEF CloseWithoutRule, FitInv, Tables, billing
<1>9. CASE MarkRetry(p)
  <2>1. PassGoes(p, Rest(pass[p].todo)) BY <1>9 DEF MarkRetry, Proceed, PassGoes, Rest
  <2>2. Batches' BY <1>1, <1>6, <2>1, PassFits DEF FitInv
  <2>3. row' \in [Events -> RowType]
    <3> DEFINE made == [status |-> IF pass[p].retries + 1 >= MaxRetries THEN "dead" ELSE "failed",
                        retries |-> pass[p].retries + 1]
    <3>1. made \in RowType BY <1>0 DEF RowType, PassType
    <3>2. row' = [row EXCEPT ![pass[p].event] = made] BY <1>9 DEF MarkRetry
    <3> HIDE DEF made
    <3> QED BY <3>1, <3>2 DEF FitInv, Tables
  <2> QED BY <1>1, <1>2, <1>9, <2>2, <2>3 DEF MarkRetry, FitInv, Tables, billing
<1> QED BY <1>3, <1>4, <1>5, <1>7, <1>8, <1>9 DEF PassStep

LEMMA PassDisturbFits ==
  ASSUME FitInv, NEW p \in Passes, PassFails(p) \/ PassDies(p)
  PROVE  FitInv'
<1>0. pass[p] \in PassType /\ Handled(pass[p]) BY DEF FitInv, Batches
<1>1. UNCHANGED <<type, row, billing, delivery, acked>> BY DEF PassFails, PassDies
<1>2. Requests' BY <1>1, DeliveryStands DEF FitInv
<1>3. budget' \in BudgetType
  <2>1. budget.faults > 0 /\ budget' = [budget EXCEPT !.faults = @ - 1]
    BY DEF PassFails, PassDies
  <2> QED BY <2>1 DEF FitInv, Tables, BudgetType
<1>4. seen' \in SeenType
  <2>1. pass[p].pc \in {"audit", "mark", "fail"} => pass[p].event \in Events
    BY <1>0 DEF Handled
  <2>2. seen' = Interrupt(p) BY DEF PassFails, PassDies
  <2> QED BY <2>1, <2>2 DEF Interrupt, FitInv, Tables, SeenType
<1>5. Batches'
  <2>1. CASE PassGoes(p, NoPass) BY <1>1, <2>1, Empties, PassFits DEF FitInv
  <2>2. ASSUME pass[p].pc = "next", NEW t \in pass[p].todo, PassGoes(p, Taken(p, t, "fail"))
        PROVE  Batches'
    BY <1>1, <2>2, TakenFits, PassFits DEF FitInv
  <2>3. CASE pass[p].pc \in {"audit", "mark"} /\ pass' = [pass EXCEPT ![p].pc = "fail"]
    <3> DEFINE it == [pass[p] EXCEPT !.pc = "fail"]
    <3>1. it \in PassType /\ it.pc = "fail" /\ it.event = pass[p].event /\ it.todo = pass[p].todo
      BY <1>0 DEF PassType, PassPcs
    <3>2. PassGoes(p, it) BY <2>3 DEF PassGoes
    <3> HIDE DEF it
    <3>3. Handled(it) BY <1>0, <2>3, <3>1 DEF Handled
    <3> QED BY <1>1, <3>1, <3>2, <3>3, PassFits DEF FitInv
  <2> QED BY <2>1, <2>2, <2>3 DEF PassFails, PassDies, PassGoes
<1> QED BY <1>1, <1>2, <1>3, <1>4, <1>5 DEF FitInv, Tables, billing

LEMMA NextFits ==
  ASSUME FitInv, [Next]_vars
  PROVE  FitInv'
<1>1. CASE UNCHANGED vars
  BY <1>1, PassStands, DeliveryStands DEF vars, FitInv, Tables
<1>2. ASSUME NEW d \in Deliveries, Step(d) PROVE FitInv'
  BY <1>2, ClaimFits, ApplyFits, SettleFits DEF Step
<1> QED BY <1>1, <1>2, DeliverFits, DisturbFits, PassStepFits, PassDisturbFits DEF Next

\* Every variable holds a value of its type: no statement is applied to an event
\* of the wrong kind, and no pass holds one row twice.
THEOREM TypeCorrect == Spec => []TypeOK
<1>1. Spec => []FitInv BY InitFits, NextFits, PTL DEF Spec
<1> QED BY <1>1, FitIsTyped, PTL

-----------------------------------------------------------------------------
(* What was acknowledged was applied *)

Vouched(e) == e \in seen.applied \cup seen.swept

\* What a request has behind it once the event is applied.
Backed(it) ==
  /\ it.pc \in {"audit", "confirm"} => it.event \in seen.applied
  /\ it.pc = "ok" => IF it.event \in Stripe THEN Vouched(it.event)
                                            ELSE row[it.event].status # "none"

RowsBacked == \A e \in Stripe : row[e].status = "processed" => Vouched(e)

AckInv ==
  /\ FitInv
  /\ RowsBacked
  /\ \A d \in Deliveries : Backed(delivery[d])
  /\ AcknowledgedWasApplied

LEMMA InitAcks == Init => AckInv
<1> SUFFICES ASSUME Init PROVE AckInv OBVIOUS
<1>1. FitInv BY InitFits
<1>2. RowsBacked BY DEF Init, RowsBacked, NoRow, Stripe
<1>3. \A d \in Deliveries : Backed(delivery[d]) BY DEF Init, NoDelivery, Backed
<1>4. AcknowledgedWasApplied BY DEF Init, AcknowledgedWasApplied
<1> QED BY <1>1, <1>2, <1>3, <1>4 DEF AckInv

\* What was seen stays seen, and a row that was made stays.
Grows ==
  /\ UNCHANGED type
  /\ seen.applied \subseteq seen'.applied
  /\ seen.unknown \subseteq seen'.unknown
  /\ seen.swept \subseteq seen'.swept
  /\ \A e \in Events : row[e].status # "none" => row'[e].status # "none"

Answerable(e) ==
  IF e \in Stripe THEN e \in seen.applied \cup seen.unknown \cup seen.swept
                  ELSE row[e].status # "none"

LEMMA AckKept ==
  ASSUME AckInv, FitInv', Grows, RowsBacked',
         \A d \in Deliveries : delivery'[d] = delivery[d] \/ Backed(delivery[d])',
         \A e \in acked' : e \in acked \/ Answerable(e)'
  PROVE  AckInv'
<1>1. Stripe' = Stripe BY DEF Grows, Stripe
<1>2. ASSUME NEW d \in Deliveries, delivery'[d] = delivery[d] PROVE Backed(delivery[d])'
  <2>1. Backed(delivery[d]) /\ Placed(delivery[d]) BY DEF AckInv, FitInv, Requests
  <2> QED BY <1>1, <1>2, <2>1 DEF Backed, Grows, Vouched, Placed
<1>3. AcknowledgedWasApplied'
  <2>1. ASSUME NEW e \in acked' PROVE Answerable(e)'
    <3>1. CASE e \in acked
      <4>1. Answerable(e) /\ e \in Events
        BY <3>1 DEF AckInv, AcknowledgedWasApplied, Answerable, FitInv, Tables
      <4> QED BY <1>1, <4>1 DEF Answerable, Grows
    <3> QED BY <3>1
  <2> QED BY <2>1 DEF AcknowledgedWasApplied, Answerable
<1> QED BY <1>2, <1>3 DEF AckInv

LEMMA GoToMoves ==
  ASSUME FitInv, NEW d \in Deliveries, NEW pc, GoTo(d, pc)
  PROVE  /\ \A c \in Deliveries \ {d} : delivery'[c] = delivery[c]
         /\ delivery'[d].pc = pc /\ delivery'[d].event = Event(d)
<1>1. delivery \in [Deliveries -> DeliveryType] BY DEF FitInv, Requests
<1>2. delivery'[d] = [delivery[d] EXCEPT !.pc = pc] BY <1>1 DEF GoTo
<1>3. delivery[d] \in DeliveryType BY <1>1
<1>4. delivery'[d].pc = pc /\ delivery'[d].event = delivery[d].event
  BY <1>2, <1>3 DEF DeliveryType
<1> QED BY <1>1, <1>4 DEF GoTo, Event

LEMMA DoneMoves ==
  ASSUME FitInv, NEW d \in Deliveries, Done(d)
  PROVE  \A c \in Deliveries : delivery'[c] = delivery[c] \/ Backed(delivery[c])'
<1>1. \A c \in Deliveries : delivery'[c] = IF c = d THEN NoDelivery ELSE delivery[c]
  BY DEF FitInv, Requests, Done
<1> QED BY <1>1, Empties DEF Backed

\* A point of a delivery at which nothing is promised yet.
LEMMA UnpromisedMoves ==
  ASSUME FitInv, NEW d \in Deliveries, NEW pc, pc \notin {"audit", "confirm", "ok"}, GoTo(d, pc)
  PROVE  \A c \in Deliveries : delivery'[c] = delivery[c] \/ Backed(delivery[c])'
  BY GoToMoves DEF Backed

\* Only the two steps that confirm a row make it processed.
LEMMA UnconfirmedRows ==
  ASSUME AckInv, Grows,
         \A e \in Stripe : row'[e].status = "processed" => row[e].status = "processed"
  PROVE  RowsBacked'
<1>1. Stripe' = Stripe BY DEF Grows, Stripe
<1> QED BY <1>1 DEF AckInv, RowsBacked, Grows, Vouched

LEMMA ClaimAcks ==
  ASSUME AckInv, FitInv', NEW d \in Deliveries,
         ResolveWebhookOrg(d) \/ InsertRow(d) \/ ReadExisting(d) \/ Reopen(d)
  PROVE  AckInv'
<1> USE DEF At
<1>0. FitInv BY DEF AckInv
<1>1. delivery[d].pc \in {"resolve", "insert", "existing", "reopen"}
  BY DEF ResolveWebhookOrg, InsertRow, ReadExisting, Reopen
<1>2. /\ Event(d) \in Stripe /\ Event(d) \in Events
      /\ FirstStep(Type(d).kind) \in {"grant", "check", "find", "status"}
  BY <1>0, <1>1, AtPoint, FirstStepPlaced
<1>3. row \in [Events -> RowType] /\ seen \in SeenType BY <1>0 DEF FitInv, Tables
<1>4. CASE ResolveWebhookOrg(d)
  <2>1. seen' = seen \/ seen' = [seen EXCEPT !.unknown = @ \cup {Event(d)}]
    BY <1>4 DEF ResolveWebhookOrg
  <2>2. Grows /\ UNCHANGED row
    BY <1>3, <1>4, <2>1 DEF ResolveWebhookOrg, Grows, SeenType
  <2>3. RowsBacked' BY <2>2, UnconfirmedRows
  <2>4. CASE KnowsOrg(Event(d))
    <3>1. GoTo(d, "insert") /\ UNCHANGED acked BY <1>4, <2>4 DEF ResolveWebhookOrg
    <3> QED BY <1>0, <2>2, <2>3, <3>1, UnpromisedMoves, AckKept
  <2>5. CASE ~KnowsOrg(Event(d))
    <3>1. /\ Done(d) /\ acked' \subseteq acked \cup {Event(d)}
          /\ seen' = [seen EXCEPT !.unknown = @ \cup {Event(d)}]
      BY <1>4, <2>5 DEF ResolveWebhookOrg, Hears
    <3>2. Event(d) \in seen'.unknown /\ Event(d) \in Stripe'
      BY <1>2, <1>3, <2>2, <3>1 DEF SeenType, Grows, Stripe
    <3>3. \A e \in acked' : e \in acked \/ Answerable(e)' BY <3>1, <3>2 DEF Answerable
    <3> QED BY <1>0, <2>2, <2>3, <3>1, <3>3, DoneMoves, AckKept
  <2> QED BY <2>4, <2>5
<1>5. CASE InsertRow(d)
  <2>1. Grows /\ (\A e \in Stripe : row'[e].status = "processed" => row[e].status = "processed")
        /\ UNCHANGED acked
    BY <1>0, <1>5, SetRowFits DEF InsertRow, Grows, FitInv, Stripe
  <2>2. GoTo(d, FirstStep(Type(d).kind)) \/ GoTo(d, "existing") BY <1>5 DEF InsertRow
  <2> QED BY <1>0, <1>2, <2>1, <2>2, UnconfirmedRows, UnpromisedMoves, AckKept
<1>6. CASE ReadExisting(d)
  <2>1. Grows /\ UNCHANGED <<row, acked, seen>> BY <1>6 DEF ReadExisting, Grows
  <2>2. RowsBacked' BY <2>1, UnconfirmedRows
  <2>3. CASE row[Event(d)].status = "processed"
    <3>0. Stripe' = Stripe BY <2>1 DEF Grows, Stripe
    <3>1. GoTo(d, "ok") BY <1>6, <2>3 DEF ReadExisting
    <3>5. Vouched(Event(d)) BY <1>2, <2>3 DEF AckInv, RowsBacked
    <3>2. Event(d) \in seen'.applied \cup seen'.swept
      BY <2>1, <3>5 DEF Vouched
    <3>3. /\ \A c \in Deliveries \ {d} : delivery'[c] = delivery[c]
          /\ delivery'[d].pc = "ok" /\ delivery'[d].event = Event(d)
      BY <1>0, <3>1, GoToMoves
    <3>4. Backed(delivery[d])' BY <1>2, <3>0, <3>2, <3>3 DEF Backed, Vouched
    <3> QED BY <2>1, <2>2, <3>3, <3>4, AckKept
  <2>4. CASE row[Event(d)].status # "processed"
    <3>1. GoTo(d, "reopen") BY <1>6, <2>4 DEF ReadExisting
    <3> QED BY <1>0, <2>1, <2>2, <3>1, UnpromisedMoves, AckKept
  <2> QED BY <2>3, <2>4
<1>7. CASE Reopen(d)
  <2>1. /\ Grows /\ UNCHANGED acked
        /\ \A e \in Stripe : row'[e].status = "processed" => row[e].status = "processed"
    BY <1>3, <1>7 DEF Reopen, Grows, RowType, Stripe
  <2>2. GoTo(d, FirstStep(Type(d).kind)) BY <1>7 DEF Reopen
  <2> QED BY <1>0, <1>2, <2>1, <2>2, UnconfirmedRows, UnpromisedMoves, AckKept
<1> QED BY <1>4, <1>5, <1>6, <1>7

LEMMA ApplyAcks ==
  ASSUME AckInv, FitInv', NEW d \in Deliveries,
         \/ GrantCredits(d) \/ CheckReplay(d) \/ UpgradeOrg(d) \/ DeactivateOthers(d)
         \/ CreateSubscription(d) \/ UpdateStatus(d) \/ CancelRow(d) \/ DowngradeOrg(d)
         \/ AppendAudit(d)
  PROVE  AckInv'
<1> USE DEF At
<1>0. FitInv /\ seen \in SeenType BY DEF AckInv, FitInv, Tables
<1>1. UNCHANGED <<type, row, acked>>
  BY DEF GrantCredits, CheckReplay, UpgradeOrg, DeactivateOthers, CreateSubscription,
         UpdateStatus, CancelRow, DowngradeOrg, AppendAudit, billing
<1>2. CASE \/ GrantCredits(d)
           \/ CheckReplay(d) /\ AlreadyActive(d)
           \/ CreateSubscription(d)
           \/ UpdateStatus(d)
           \/ DowngradeOrg(d)
  <2>1. /\ seen'.applied = seen.applied \cup {Event(d)}
        /\ seen'.unknown = seen.unknown /\ seen'.swept = seen.swept
    BY <1>0, <1>2 DEF GrantCredits, CheckReplay, CreateSubscription, UpdateStatus, DowngradeOrg,
                      Applied, SeenType
  <2>2. GoTo(d, "audit") \/ GoTo(d, "confirm")
    BY <1>2 DEF GrantCredits, CheckReplay, CreateSubscription, UpdateStatus, DowngradeOrg
  <2>3. Grows BY <1>1, <2>1 DEF Grows
  <2>4. RowsBacked' BY <1>1, <2>3, UnconfirmedRows
  <2>5. /\ \A c \in Deliveries \ {d} : delivery'[c] = delivery[c]
        /\ delivery'[d].pc \in {"audit", "confirm"} /\ delivery'[d].event = Event(d)
    BY <1>0, <2>2, GoToMoves
  <2>6. Backed(delivery[d])' BY <2>1, <2>5 DEF Backed
  <2> QED BY <1>1, <2>3, <2>4, <2>5, <2>6, AckKept
<1>3. CASE \/ CheckReplay(d) /\ ~AlreadyActive(d)
           \/ UpgradeOrg(d)
           \/ DeactivateOthers(d)
           \/ CancelRow(d)
  <2>1. /\ seen'.applied = seen.applied
        /\ seen'.unknown = seen.unknown /\ seen'.swept = seen.swept
    BY <1>0, <1>3 DEF CheckReplay, UpgradeOrg, DeactivateOthers, CancelRow, SeenType
  <2>2. \/ GoTo(d, "upgrade") \/ GoTo(d, "deactivate") \/ GoTo(d, "create")
        \/ GoTo(d, "downgrade")
    BY <1>3 DEF CheckReplay, UpgradeOrg, DeactivateOthers, CancelRow
  <2>3. Grows BY <1>1, <2>1 DEF Grows
  <2>4. RowsBacked' BY <1>1, <2>3, UnconfirmedRows
  <2> QED BY <1>0, <1>1, <2>2, <2>3, <2>4, UnpromisedMoves, AckKept
<1>4. CASE AppendAudit(d)
  <2>1. UNCHANGED seen /\ GoTo(d, "confirm") /\ delivery[d].pc = "audit"
    BY <1>4 DEF AppendAudit
  <2>2. Grows BY <1>1, <2>1 DEF Grows
  <2>3. RowsBacked' BY <1>1, <2>2, UnconfirmedRows
  <2>4. /\ \A c \in Deliveries \ {d} : delivery'[c] = delivery[c]
        /\ delivery'[d].pc = "confirm" /\ delivery'[d].event = Event(d)
    BY <1>0, <2>1, GoToMoves
  <2>5. Event(d) \in seen.applied
    <3>1. Backed(delivery[d]) BY DEF AckInv
    <3> QED BY <2>1, <3>1 DEF Backed, Event
  <2>6. delivery'[d].event \in seen'.applied /\ delivery'[d].pc # "ok"
    BY <2>1, <2>4, <2>5
  <2>7. Backed(delivery[d])' BY <2>6 DEF Backed
  <2> QED BY <1>1, <2>2, <2>3, <2>4, <2>7, AckKept
<1> QED BY <1>2, <1>3, <1>4

LEMMA SettleAcks ==
  ASSUME AckInv, FitInv', NEW d \in Deliveries,
         Confirm(d) \/ MarkFailed(d) \/ Answer(d) \/ Lookup(d) \/ Store(d)
  PROVE  AckInv'
<1> USE DEF At
<1>0. FitInv /\ Tables BY DEF AckInv, FitInv
<1>1. UNCHANGED <<type, seen>> /\ delivery[d].pc # "off"
  BY DEF Confirm, MarkFailed, Answer, Lookup, Store
<1>2. Event(d) \in Events /\ Stripe' = Stripe /\ Backed(delivery[d])
  BY <1>0, <1>1, AtPoint DEF Stripe, AckInv
<1>3. CASE Confirm(d)
  <2>1. SetRow(Event(d), "processed") /\ GoTo(d, "ok") /\ UNCHANGED acked
    BY <1>3 DEF Confirm
  <2>2. Event(d) \in seen.applied BY <1>2, <1>3 DEF Confirm, Backed, Event
  <2>3. \A f \in Events : row'[f].status = IF f = Event(d) THEN "processed" ELSE row[f].status
    BY <1>0, <2>1, SetRowFits
  <2>4. Grows BY <1>1, <2>3 DEF Grows
  <2>5. RowsBacked' BY <1>1, <1>2, <2>2, <2>3 DEF RowsBacked, AckInv, Vouched, Stripe
  <2>6. /\ \A c \in Deliveries \ {d} : delivery'[c] = delivery[c]
        /\ delivery'[d].pc = "ok" /\ delivery'[d].event = Event(d)
    BY <1>0, <2>1, GoToMoves
  <2>7. Backed(delivery[d])' BY <1>1, <1>2, <2>2, <2>3, <2>6 DEF Backed, Vouched
  <2> QED BY <2>1, <2>4, <2>5, <2>6, <2>7, AckKept
<1>4. CASE MarkFailed(d)
  <2>1. SetRow(Event(d), "failed") /\ Done(d) /\ UNCHANGED acked BY <1>4 DEF MarkFailed
  <2>2. \A f \in Events : row'[f].status = IF f = Event(d) THEN "failed" ELSE row[f].status
    BY <1>0, <2>1, SetRowFits
  <2>3. Grows BY <1>1, <2>2 DEF Grows
  <2>4. RowsBacked' BY <2>2, <2>3, UnconfirmedRows DEF Stripe
  <2> QED BY <1>0, <2>1, <2>3, <2>4, DoneMoves, AckKept
<1>5. CASE Answer(d)
  <2>1. Done(d) /\ UNCHANGED row /\ acked' \subseteq acked \cup {Event(d)}
    BY <1>5 DEF Answer, Hears, billing
  <2>2. Grows BY <1>1, <2>1 DEF Grows
  <2>3. RowsBacked' BY <2>1, <2>2, UnconfirmedRows
  <2>4. Answerable(Event(d))
    BY <1>2, <1>5 DEF Answer, Backed, Event, Answerable, Vouched
  <2>5. \A e \in acked' : e \in acked \/ Answerable(e)'
    BY <1>1, <1>2, <2>1, <2>4 DEF Answerable
  <2> QED BY <1>0, <2>1, <2>2, <2>3, <2>5, DoneMoves, AckKept
<1>6. CASE Lookup(d)
  <2>1. UNCHANGED <<row, acked>> BY <1>6 DEF Lookup
  <2>2. Grows BY <1>1, <2>1 DEF Grows
  <2>3. RowsBacked' BY <2>1, <2>2, UnconfirmedRows
  <2>4. CASE row[Event(d)].status = "none"
    <3>1. GoTo(d, "store") BY <1>6, <2>4 DEF Lookup
    <3> QED BY <1>0, <2>1, <2>2, <2>3, <3>1, UnpromisedMoves, AckKept
  <2>5. CASE row[Event(d)].status # "none"
    <3>1. GoTo(d, "ok") /\ Event(d) \notin Stripe BY <1>0, <1>6, <2>5, AtPoint DEF Lookup
    <3>2. /\ \A c \in Deliveries \ {d} : delivery'[c] = delivery[c]
          /\ delivery'[d].pc = "ok" /\ delivery'[d].event = Event(d)
      BY <1>0, <3>1, GoToMoves
    <3>3. Backed(delivery[d])' BY <1>2, <2>1, <2>5, <3>1, <3>2 DEF Backed
    <3> QED BY <2>1, <2>2, <2>3, <3>2, <3>3, AckKept
  <2> QED BY <2>4, <2>5
<1>7. CASE Store(d)
  <2>0. Event(d) \notin Stripe /\ UNCHANGED acked BY <1>0, <1>7, AtPoint DEF Store
  <2>1. CASE row[Event(d)].status = "none"
    <3>1. SetRow(Event(d), "pending") /\ GoTo(d, "ok") BY <1>7, <2>1 DEF Store
    <3>2. \A f \in Events : row'[f].status = IF f = Event(d) THEN "pending" ELSE row[f].status
      BY <1>0, <3>1, SetRowFits
    <3>3. Grows BY <1>1, <3>2 DEF Grows
    <3>4. RowsBacked' BY <3>2, <3>3, UnconfirmedRows DEF Stripe
    <3>5. /\ \A c \in Deliveries \ {d} : delivery'[c] = delivery[c]
          /\ delivery'[d].pc = "ok" /\ delivery'[d].event = Event(d)
      BY <1>0, <3>1, GoToMoves
    <3>6. Backed(delivery[d])' BY <1>2, <2>0, <3>2, <3>5 DEF Backed
    <3> QED BY <2>0, <3>3, <3>4, <3>5, <3>6, AckKept
  <2>2. CASE row[Event(d)].status # "none"
    <3>1. Done(d) /\ UNCHANGED row BY <1>7, <2>2 DEF Store
    <3>2. Grows BY <1>1, <3>1 DEF Grows
    <3>3. RowsBacked' BY <3>1, <3>2, UnconfirmedRows
    <3> QED BY <1>0, <2>0, <3>1, <3>2, <3>3, DoneMoves, AckKept
  <2> QED BY <2>1, <2>2
<1> QED BY <1>3, <1>4, <1>5, <1>6, <1>7

LEMMA DisturbAcks ==
  ASSUME AckInv, FitInv',
         \/ \E e \in Events : Deliver(e)
         \/ \E d \in Deliveries : SenderTimesOut(d) \/ DeliveryFails(d) \/ DeliveryDies(d)
  PROVE  AckInv'
<1>0. FitInv /\ Requests /\ seen \in SeenType BY DEF AckInv, FitInv, Tables
<1>1. UNCHANGED <<type, row, acked>>
  BY DEF Deliver, SenderTimesOut, DeliveryFails, DeliveryDies
<1>2. seen' = seen \/ seen' = [seen EXCEPT !.overlap = TRUE]
  BY DEF Deliver, SenderTimesOut, DeliveryFails, DeliveryDies
<1>3. Grows BY <1>0, <1>1, <1>2 DEF Grows, SeenType
<1>4. RowsBacked' BY <1>1, <1>3, UnconfirmedRows
<1>5. ASSUME NEW e \in Events, Deliver(e)
      PROVE  \A d \in Deliveries : delivery'[d] = delivery[d] \/ Backed(delivery[d])'
  <2> DEFINE it == [pc |-> IF e \in Stripe THEN "resolve" ELSE "lookup",
                    event |-> e, waiting |-> TRUE]
  <2>1. PICK c : delivery' = [delivery EXCEPT ![c] = it] BY <1>5 DEF Deliver
  <2>2. it.pc \notin {"audit", "confirm", "ok"} OBVIOUS
  <2> HIDE DEF it
  <2>3. \A d \in Deliveries : delivery'[d] = delivery[d] \/ delivery'[d] = it
    BY <1>0, <2>1 DEF Requests
  <2> QED BY <2>2, <2>3 DEF Backed
<1>6. ASSUME NEW d \in Deliveries, SenderTimesOut(d)
      PROVE  \A c \in Deliveries : delivery'[c] = delivery[c] \/ Backed(delivery[c])'
  <2>1. /\ \A c \in Deliveries \ {d} : delivery'[c] = delivery[c]
        /\ delivery'[d] = [delivery[d] EXCEPT !.waiting = FALSE]
    BY <1>0, <1>6 DEF SenderTimesOut, Requests
  <2>2. delivery[d] \in DeliveryType BY <1>0 DEF Requests
  <2>3. delivery'[d].pc = delivery[d].pc /\ delivery'[d].event = delivery[d].event
    BY <2>1, <2>2 DEF DeliveryType
  <2>4. Backed(delivery[d]) /\ Placed(delivery[d]) BY <1>0 DEF AckInv, Requests
  <2>5. Stripe' = Stripe BY <1>3 DEF Grows, Stripe
  <2>6. Backed(delivery[d])' BY <1>3, <2>3, <2>4, <2>5 DEF Backed, Grows, Vouched, Placed
  <2> QED BY <2>1, <2>6
<1>7. ASSUME NEW d \in Deliveries, DeliveryFails(d) \/ DeliveryDies(d)
      PROVE  \A c \in Deliveries : delivery'[c] = delivery[c] \/ Backed(delivery[c])'
  BY <1>0, <1>7, UnpromisedMoves, DoneMoves DEF DeliveryFails, DeliveryDies
<1> QED BY <1>1, <1>3, <1>4, <1>5, <1>6, <1>7, AckKept

LEMMA PassAcks ==
  ASSUME AckInv, FitInv', NEW p \in Passes, PassStep(p) \/ PassFails(p) \/ PassDies(p)
  PROVE  AckInv'
<1>0. FitInv /\ Tables /\ seen \in SeenType /\ Handled(pass[p])
  BY DEF AckInv, FitInv, Tables, Batches
<1>1. UNCHANGED <<type, delivery, acked>>
  BY DEF PassStep, ReadBatch, ApplyRule, AuditRule, MarkProcessed, CloseWithoutRule,
         MarkRetry, PassFails, PassDies, billing
<1>2. SUFFICES Grows /\ RowsBacked' BY <1>1, <1>2, AckKept
<1>3. Stripe' = Stripe BY <1>1 DEF Stripe
<1>4. CASE CloseWithoutRule(p)
  <2>1. PICK t \in pass[p].todo :
          /\ SetRow(t.event, "processed")
          /\ seen' = [seen EXCEPT !.swept = @ \cup {t.event}]
    BY <1>4 DEF CloseWithoutRule
  <2>2. \A f \in Events : row'[f].status = IF f = t.event THEN "processed" ELSE row[f].status
    BY <1>0, <2>1, SetRowFits
  <2>3. /\ seen'.applied = seen.applied /\ seen'.unknown = seen.unknown
        /\ seen'.swept = seen.swept \cup {t.event}
    BY <1>0, <2>1 DEF SeenType
  <2>4. Grows BY <1>1, <2>2, <2>3 DEF Grows
  <2>5. RowsBacked' BY <1>3, <2>2, <2>3 DEF RowsBacked, AckInv, Vouched, Stripe
  <2> QED BY <2>4, <2>5
<1>5. CASE ~CloseWithoutRule(p)
  <2>1. seen'.applied = seen.applied /\ seen'.unknown = seen.unknown /\ seen'.swept = seen.swept
    BY <1>0, <1>5 DEF PassStep, ReadBatch, ApplyRule, AuditRule, MarkProcessed,
                      MarkRetry, PassFails, PassDies, Interrupt, SeenType
  <2>2. /\ \A f \in Events : row[f].status # "none" => row'[f].status # "none"
        /\ \A f \in Stripe : row'[f].status = "processed" => row[f].status = "processed"
    <3>1. CASE MarkProcessed(p)
      <4>1. SetRow(pass[p].event, "processed") /\ pass[p].event \notin Stripe
        BY <1>0, <3>1 DEF MarkProcessed, Handled
      <4>2. \A f \in Events : row'[f].status = IF f = pass[p].event THEN "processed"
                                                                   ELSE row[f].status
        BY <1>0, <4>1, SetRowFits
      <4> QED BY <4>1, <4>2 DEF Stripe
    <3>2. CASE MarkRetry(p)
      <4> DEFINE made == [status |-> IF pass[p].retries + 1 >= MaxRetries THEN "dead" ELSE "failed",
                          retries |-> pass[p].retries + 1]
      <4>1. made.status \notin {"none", "processed"} OBVIOUS
      <4>2. row' = [row EXCEPT ![pass[p].event] = made] BY <3>2 DEF MarkRetry
      <4> HIDE DEF made
      <4>3. \A f \in Events : row'[f] = row[f] \/ row'[f] = made BY <1>0, <4>2 DEF Tables
      <4> QED BY <4>1, <4>3 DEF Stripe
    <3>3. CASE UNCHANGED row BY <3>3
    <3> QED BY <1>5, <3>1, <3>2, <3>3
          DEF PassStep, ReadBatch, ApplyRule, AuditRule, PassFails, PassDies
  <2>3. Grows BY <1>1, <2>1, <2>2 DEF Grows
  <2> QED BY <2>2, <2>3, UnconfirmedRows
<1> QED BY <1>4, <1>5

LEMMA NextAcks ==
  ASSUME AckInv, [Next]_vars
  PROVE  AckInv'
<1>0. FitInv' BY NextFits DEF AckInv
<1>1. CASE UNCHANGED vars
  <2>1. Grows /\ UNCHANGED <<row, delivery, acked>> BY <1>1 DEF vars, Grows
  <2> QED BY <1>0, <2>1, UnconfirmedRows, AckKept
<1>2. ASSUME NEW d \in Deliveries, Step(d) PROVE AckInv'
  BY <1>0, <1>2, ClaimAcks, ApplyAcks, SettleAcks DEF Step
<1> QED BY <1>0, <1>1, <1>2, DisturbAcks, PassAcks DEF Next

\* A sender hears a 2xx for nothing less than an event that was applied in full,
\* one whose organization is unknown, or one the cron pass had closed.
THEOREM AcknowledgedApplied == Spec => []AcknowledgedWasApplied
<1>1. Spec => []AckInv BY InitAcks, NextAcks, PTL DEF Spec
<1>2. AckInv => AcknowledgedWasApplied BY DEF AckInv
<1> QED BY <1>1, <1>2, PTL

-----------------------------------------------------------------------------
(* Nothing is made twice *)

\* A pass holds e: in its batch, or at one of its statements.
Holds(it, e) ==
  \/ \E t \in it.todo : t.event = e
  \/ it.pc \in {"audit", "mark", "fail"} /\ it.event = e

\* A pass has made what e asks for, and has not confirmed the row.
Making(it, e) == it.pc \in {"audit", "mark"} /\ it.event = e

OneHolder(e) ==
  \A p, q \in Passes : Holds(pass[p], e) /\ Holds(pass[q], e) => p = q

MadeOnce(e) ==
  \/ effects[e] = 0
  \/ /\ effects[e] = 1
     /\ \/ row[e].status = "processed" /\ \A p \in Passes : ~Holds(pass[p], e)
        \/ \E p \in Passes : Making(pass[p], e)

OnceInv ==
  /\ FitInv
  /\ \A e \in Stripe : effects[e] <= 1
  /\ \A e \in Events \ Stripe :
       e \notin seen.interrupted => OneHolder(e) /\ MadeOnce(e)

LEMMA HoldsIsInHand ==
  ASSUME NEW p \in Passes, NEW e
  PROVE  Holds(pass[p], e) <=> e \in InHand(p)
  BY DEF Holds, InHand

LEMMA InitOnce == Init => OnceInv
<1> SUFFICES ASSUME Init PROVE OnceInv OBVIOUS
<1>1. FitInv BY InitFits
<1>2. \A e \in Events : effects[e] = 0 BY DEF Init
<1>3. \A e \in Events : OneHolder(e)
  BY Empties DEF Init, OneHolder, Holds
<1> QED BY <1>1, <1>2, <1>3 DEF OnceInv, MadeOnce, Stripe

\* Steps that take nothing new in hand, and let go of nothing half done.
LEMMA OnceKept ==
  ASSUME OnceInv, FitInv', UNCHANGED type,
         \A e \in Stripe : effects'[e] <= 1,
         seen.interrupted \subseteq seen'.interrupted,
         \A e \in Events \ Stripe : e \notin seen'.interrupted =>
           /\ effects'[e] = effects[e]
           /\ \/ row'[e].status = row[e].status
              \/ row[e].status # "processed"
              \/ \E p \in Passes : Holds(pass[p], e)
           /\ \A p \in Passes : /\ Holds(pass'[p], e) => Holds(pass[p], e)
                                /\ Making(pass[p], e) => Making(pass'[p], e)
  PROVE  OnceInv'
<1>1. Stripe' = Stripe BY DEF Stripe
<1>2. ASSUME NEW e \in Events \ Stripe, e \notin seen'.interrupted
      PROVE  OneHolder(e)' /\ MadeOnce(e)'
  <2>1. OneHolder(e) /\ MadeOnce(e) BY <1>2 DEF OnceInv
  <2>2. OneHolder(e)' BY <1>2, <2>1 DEF OneHolder
  <2>3. MadeOnce(e)' BY <1>2, <2>1 DEF MadeOnce
  <2> QED BY <2>2, <2>3
<1> QED BY <1>1, <1>2 DEF OnceInv

\* The requests: credits are granted under a unique key, and no request touches
\* the row of an issue once it is there.
LEMMA DeliveryOnce ==
  ASSUME OnceInv, FitInv',
         \/ \E e \in Events : Deliver(e)
         \/ \E d \in Deliveries :
              \/ Step(d)
              \/ SenderTimesOut(d) \/ DeliveryFails(d) \/ DeliveryDies(d)
  PROVE  OnceInv'
<1>0. FitInv /\ Tables /\ seen \in SeenType BY DEF OnceInv, FitInv, Tables
<1> USE DEF At
<1>1. CASE \/ \E e \in Events : Deliver(e)
           \/ \E d \in Deliveries :
                SenderTimesOut(d) \/ DeliveryFails(d) \/ DeliveryDies(d)
  <2>1. UNCHANGED <<type, row, effects, pass>>
    BY <1>1 DEF Deliver, SenderTimesOut, DeliveryFails, DeliveryDies, billing
  <2>2. seen'.interrupted = seen.interrupted
    BY <1>0, <1>1 DEF Deliver, SenderTimesOut, DeliveryFails, DeliveryDies, SeenType
  <2> QED BY <2>1, <2>2, OnceKept DEF OnceInv
<1>2. ASSUME NEW d \in Deliveries, Step(d) PROVE OnceInv'
  <2>1. UNCHANGED <<type, pass>>
    BY <1>2 DEF Step, ResolveWebhookOrg, InsertRow, ReadExisting, Reopen, GrantCredits,
                CheckReplay, UpgradeOrg, DeactivateOthers, CreateSubscription, UpdateStatus,
                CancelRow, DowngradeOrg, AppendAudit, Confirm, MarkFailed, Answer, Lookup, Store
  <2>2. seen'.interrupted = seen.interrupted
    BY <1>0, <1>2 DEF Step, ResolveWebhookOrg, InsertRow, ReadExisting, Reopen, GrantCredits,
                CheckReplay, UpgradeOrg, DeactivateOthers, CreateSubscription, UpdateStatus,
                CancelRow, DowngradeOrg, AppendAudit, Confirm, MarkFailed, Answer, Lookup, Store,
                Applied, SeenType
  <2>3. delivery[d].pc # "off"
    BY <1>2 DEF Step, ResolveWebhookOrg, InsertRow, ReadExisting, Reopen, GrantCredits,
                CheckReplay, UpgradeOrg, DeactivateOthers, CreateSubscription, UpdateStatus,
                CancelRow, DowngradeOrg, AppendAudit, Confirm, MarkFailed, Answer, Lookup, Store
  <2>4. CASE GrantCredits(d)
    <3>1. Event(d) \in Stripe BY <1>0, <2>3, <2>4, AtPoint DEF GrantCredits, Applying
    <3>2. effects \in [Events -> Nat] /\ UNCHANGED row BY <1>0, <2>4 DEF Tables, GrantCredits
    <3>3. \A e \in Events :
            effects'[e] = IF e = Event(d) /\ effects[e] = 0 THEN 1 ELSE effects[e]
      BY <2>4, <3>2 DEF GrantCredits
    <3>4. \A e \in Stripe : effects'[e] <= 1 BY <3>3 DEF OnceInv, Stripe
    <3>5. \A e \in Events \ Stripe : effects'[e] = effects[e] BY <3>1, <3>3
    <3> QED BY <2>1, <2>2, <3>2, <3>4, <3>5, OnceKept
  <2>5. CASE ~GrantCredits(d)
    <3>1. UNCHANGED effects
      BY <1>2, <2>5 DEF Step, ResolveWebhookOrg, InsertRow, ReadExisting, Reopen,
                CheckReplay, UpgradeOrg, DeactivateOthers, CreateSubscription, UpdateStatus,
                CancelRow, DowngradeOrg, AppendAudit, Confirm, MarkFailed, Answer, Lookup, Store,
                billing
    <3>2. \A e \in Events \ Stripe :
            row'[e].status = row[e].status \/ row[e].status # "processed"
      <4>1. CASE UNCHANGED row BY <4>1
      <4>2. CASE InsertRow(d) \/ Reopen(d) \/ Confirm(d) \/ MarkFailed(d)
        <5>1. Event(d) \in Stripe
          BY <1>0, <2>3, <4>2, AtPoint DEF InsertRow, Reopen, Confirm, MarkFailed
        <5>2. \A e \in Events \ {Event(d)} : row'[e] = row[e]
          BY <1>0, <4>2 DEF InsertRow, Reopen, Confirm, MarkFailed, SetRow, Tables
        <5> QED BY <5>1, <5>2
      <4>3. CASE Store(d)
        <5>1. \/ UNCHANGED row
              \/ row[Event(d)].status = "none" /\ SetRow(Event(d), "pending")
          BY <4>3 DEF Store
        <5> QED BY <1>0, <5>1, SetRowFits
      <4> QED BY <1>2, <4>1, <4>2, <4>3
            DEF Step, ResolveWebhookOrg, ReadExisting, GrantCredits, CheckReplay, UpgradeOrg,
                DeactivateOthers, CreateSubscription, UpdateStatus, CancelRow, DowngradeOrg,
                AppendAudit, Answer, Lookup
    <3> QED BY <2>1, <2>2, <3>1, <3>2, OnceKept DEF OnceInv
  <2> QED BY <2>4, <2>5
<1> QED BY <1>1, <1>2

\* The new batch holds only rows that are open, and what another pass still has
\* in hand is interrupted from here on.
LEMMA ReadBatchOnce ==
  ASSUME OnceInv, FitInv', NEW p \in Passes, ReadBatch(p)
  PROVE  OnceInv'
<1>0. FitInv /\ Tables /\ Batches /\ seen \in SeenType BY DEF OnceInv, FitInv, Tables
<1> DEFINE todo == {[event |-> e, retries |-> row[e].retries] :
                      e \in {f \in Events : Unsettled(f)}}
           others == UNION {InHand(q) : q \in Passes \ {p}}
<1>1. /\ UNCHANGED <<type, row, effects>>
      /\ seen'.interrupted = seen.interrupted \cup others
      /\ pass[p].pc = "off"
      /\ pass' = [pass EXCEPT ![p] = Rest(todo)]
  BY <1>0 DEF ReadBatch, Proceed, Rest, billing, SeenType
<1>2. \A t \in todo : t.event \in Events /\ Unsettled(t.event) OBVIOUS
<1>3. Rest(todo).todo = todo /\ Rest(todo).pc \in {"off", "next"}
  <2>1. todo \in SUBSET [event : Events, retries : Nat] BY <1>0 DEF Tables, RowType
  <2>2. \A t, u \in todo : t.event = u.event => t = u OBVIOUS
  <2> HIDE DEF todo
  <2> QED BY <2>1, <2>2, RestFits
<1> HIDE DEF todo
<1>4. \A q \in Passes : pass'[q] = IF q = p THEN Rest(todo) ELSE pass[q]
  BY <1>0, <1>1 DEF Batches
<1>5. \A e : ~Making(pass[p], e) BY <1>1 DEF Making
<1>6. Stripe' = Stripe BY <1>1 DEF Stripe
<1>7. ASSUME NEW e \in Events \ Stripe, e \notin seen'.interrupted
      PROVE  OneHolder(e)' /\ MadeOnce(e)'
  <2>0. effects'[e] = effects[e] /\ row'[e] = row[e] BY <1>1
  <2>1. OneHolder(e) /\ MadeOnce(e) BY <1>1, <1>7 DEF OnceInv
  <2>2. \A q \in Passes \ {p} : ~Holds(pass[q], e)
    BY <1>1, <1>7, HoldsIsInHand
  <2>3. \A q \in Passes \ {p} : ~Holds(pass'[q], e) BY <1>4, <2>2
  <2>4. OneHolder(e)' BY <2>3 DEF OneHolder
  <2>5. CASE effects[e] = 0
    <3>1. effects'[e] = 0 BY <2>0, <2>5
    <3> QED BY <2>4, <3>1 DEF MadeOnce
  <2>6. CASE effects[e] # 0
    <3>1. \A q \in Passes : ~Making(pass[q], e) BY <1>5, <2>2 DEF Making, Holds
    <3>2. effects[e] = 1 /\ row[e].status = "processed" BY <2>1, <2>6, <3>1 DEF MadeOnce
    <3>3. ~Holds(Rest(todo), e) BY <1>2, <1>3, <3>2 DEF Holds, Unsettled
    <3>4. \A q \in Passes : ~Holds(pass'[q], e) BY <1>4, <2>2, <3>3
    <3>5. effects'[e] = 1 /\ row'[e].status = "processed" BY <2>0, <3>2
    <3> QED BY <2>4, <3>4, <3>5 DEF MadeOnce
  <2> QED BY <2>5, <2>6
<1> QED BY <1>1, <1>6, <1>7 DEF OnceInv

\* An issue that one pass alone holds, and that is not interrupted, is made now
\* for the first time.
LEMMA ApplyRuleOnce ==
  ASSUME OnceInv, FitInv', NEW p \in Passes, ApplyRule(p)
  PROVE  OnceInv'
<1>0. FitInv /\ Tables /\ Batches BY DEF OnceInv, FitInv
<1>1. PICK t \in pass[p].todo :
        /\ t.event \notin Stripe
        /\ effects' = [effects EXCEPT ![t.event] = @ + 1]
        /\ pass' = [pass EXCEPT ![p] = Taken(p, t, "audit")]
  BY DEF ApplyRule
<1>2. pass[p].pc = "next" /\ UNCHANGED <<type, row, seen>> BY DEF ApplyRule
<1>3. /\ Taken(p, t, "audit").pc = "audit" /\ Taken(p, t, "audit").event = t.event
      /\ Taken(p, t, "audit").todo = pass[p].todo \ {t} /\ t.event \in Events
  BY <1>0, <1>1, <1>2, TakenFits
<1>4. \A q \in Passes : pass'[q] = IF q = p THEN Taken(p, t, "audit") ELSE pass[q]
  BY <1>0, <1>1 DEF Batches
<1>5. \A e \in Events : effects'[e] = IF e = t.event THEN effects[e] + 1 ELSE effects[e]
  BY <1>0, <1>1, <1>3 DEF Tables
<1>6. Stripe' = Stripe BY <1>2 DEF Stripe
<1>7. ASSUME NEW e, NEW q \in Passes
      PROVE  /\ Holds(pass'[q], e) => Holds(pass[q], e)
             /\ Making(pass[q], e) => Making(pass'[q], e)
  <2>1. CASE q = p BY <1>1, <1>2, <1>3, <1>4, <2>1 DEF Holds, Making
  <2>2. CASE q # p BY <1>4, <2>2
  <2> QED BY <2>1, <2>2
<1>8. ASSUME NEW e \in Events \ Stripe, e \notin seen'.interrupted
      PROVE  OneHolder(e)' /\ MadeOnce(e)'
  <2>1. OneHolder(e) /\ MadeOnce(e) BY <1>2, <1>8 DEF OnceInv
  <2>2. OneHolder(e)' BY <1>7, <2>1 DEF OneHolder
  <2>3. CASE e = t.event
    <3>1. Holds(pass[p], e) BY <1>1, <2>3 DEF Holds
    <3>2. ~Making(pass[p], e) BY <1>2 DEF Making
    <3>3. \A q \in Passes : ~Making(pass[q], e)
      BY <2>1, <3>1, <3>2 DEF OneHolder, Holds, Making
    <3>4. effects[e] = 0 BY <2>1, <3>1, <3>3 DEF MadeOnce
    <3>5. Making(pass'[p], e) BY <1>3, <1>4, <2>3 DEF Making
    <3> QED BY <1>5, <2>2, <2>3, <3>4, <3>5 DEF MadeOnce
  <2>4. CASE e # t.event
    BY <1>2, <1>5, <1>7, <2>1, <2>2, <2>4 DEF MadeOnce
  <2> QED BY <2>3, <2>4
<1>9. \A e \in Stripe : effects'[e] <= 1 BY <1>1, <1>5 DEF OnceInv, Stripe
<1> QED BY <1>6, <1>8, <1>9 DEF OnceInv

\* The row is confirmed, and the issue leaves the hands of its only pass.
LEMMA MarkProcessedOnce ==
  ASSUME OnceInv, FitInv', NEW p \in Passes, MarkProcessed(p)
  PROVE  OnceInv'
<1>0. FitInv /\ Tables /\ Batches /\ pass[p] \in PassType /\ Handled(pass[p])
  BY DEF OnceInv, FitInv, Batches
<1> DEFINE f == pass[p].event
<1>1. /\ pass[p].pc = "mark" /\ SetRow(f, "processed") /\ UNCHANGED <<type, effects, seen>>
      /\ pass' = [pass EXCEPT ![p] = Rest(pass[p].todo)]
  BY DEF MarkProcessed, Proceed, Rest, billing
<1>2. /\ Rest(pass[p].todo).todo = pass[p].todo /\ Rest(pass[p].todo).pc \in {"off", "next"}
  BY <1>0, RestFits DEF Handled, PassType
<1>3. \A q \in Passes : pass'[q] = IF q = p THEN Rest(pass[p].todo) ELSE pass[q]
  BY <1>0, <1>1 DEF Batches
<1>4. \A e \in Events : row'[e].status = IF e = f THEN "processed" ELSE row[e].status
  BY <1>0, <1>1, SetRowFits
<1>5. Stripe' = Stripe BY <1>1 DEF Stripe
<1>6. ~Holds(pass'[p], f) BY <1>0, <1>1, <1>2, <1>3 DEF Holds, Handled
<1>7. ASSUME NEW e, NEW q \in Passes
      PROVE  /\ Holds(pass'[q], e) => Holds(pass[q], e)
             /\ e # f /\ Making(pass[q], e) => Making(pass'[q], e)
  <2>1. CASE q = p BY <1>2, <1>3, <2>1 DEF Holds, Making
  <2>2. CASE q # p BY <1>3, <2>2
  <2> QED BY <2>1, <2>2
<1>8. ASSUME NEW e \in Events \ Stripe, e \notin seen'.interrupted
      PROVE  OneHolder(e)' /\ MadeOnce(e)'
  <2>1. OneHolder(e) /\ MadeOnce(e) BY <1>1, <1>8 DEF OnceInv
  <2>2. OneHolder(e)' BY <1>7, <2>1 DEF OneHolder
  <2>3. CASE e = f
    <3>1. Holds(pass[p], e) BY <1>1, <2>3 DEF Holds
    <3>2. \A q \in Passes : ~Holds(pass'[q], e) BY <1>6, <1>7, <2>1, <2>3, <3>1 DEF OneHolder
    <3>3. row'[e].status = "processed" BY <1>4, <2>3
    <3> QED BY <1>1, <2>1, <2>2, <3>2, <3>3 DEF MadeOnce
  <2>4. CASE e # f
    BY <1>1, <1>4, <1>7, <2>1, <2>2, <2>4 DEF MadeOnce
  <2> QED BY <2>3, <2>4
<1> QED BY <1>1, <1>5, <1>8 DEF OnceInv

\* The other steps of a pass let go of nothing they have made, or count it as
\* interrupted.
LEMMA OtherPassOnce ==
  ASSUME OnceInv, FitInv', NEW p \in Passes,
         AuditRule(p) \/ CloseWithoutRule(p) \/ MarkRetry(p) \/ PassFails(p) \/ PassDies(p)
  PROVE  OnceInv'
<1>0. /\ FitInv /\ Tables /\ Batches /\ seen \in SeenType
      /\ pass[p] \in PassType /\ Handled(pass[p])
  BY DEF OnceInv, FitInv, Batches, Tables
<1>1. UNCHANGED <<type, effects>>
  BY DEF AuditRule, CloseWithoutRule, MarkRetry, PassFails, PassDies, billing
<1>2. \A rest \in SUBSET pass[p].todo :
        Rest(rest).todo = rest /\ Rest(rest).pc \in {"off", "next"}
  BY <1>0, RestFits DEF Handled, PassType
<1>3. ASSUME NEW it, pass' = [pass EXCEPT ![p] = it]
      PROVE  \A q \in Passes : pass'[q] = IF q = p THEN it ELSE pass[q]
  BY <1>0, <1>3 DEF Batches
<1>4. CASE AuditRule(p)
  <2> DEFINE it == [pass[p] EXCEPT !.pc = "mark"]
  <2>1. it.pc = "mark" /\ it.event = pass[p].event /\ it.todo = pass[p].todo
    BY <1>0 DEF PassType
  <2>2. /\ pass[p].pc = "audit" /\ UNCHANGED <<row, seen>>
        /\ pass' = [pass EXCEPT ![p] = it]
    BY <1>4 DEF AuditRule
  <2> HIDE DEF it
  <2>3. ASSUME NEW e, NEW q \in Passes
        PROVE  /\ Holds(pass'[q], e) => Holds(pass[q], e)
               /\ Making(pass[q], e) => Making(pass'[q], e)
    <3>1. pass'[q] = IF q = p THEN it ELSE pass[q] BY <1>3, <2>2
    <3> QED BY <2>1, <2>2, <3>1 DEF Holds, Making
  <2> QED BY <1>1, <2>2, <2>3, OnceKept DEF OnceInv
<1>5. CASE CloseWithoutRule(p)
  <2>1. PICK t \in pass[p].todo :
          /\ SetRow(t.event, "processed")
          /\ seen' = [seen EXCEPT !.swept = @ \cup {t.event}]
          /\ pass' = [pass EXCEPT ![p] = Rest(pass[p].todo \ {t})]
    BY <1>5 DEF CloseWithoutRule, Proceed, Rest
  <2>2. pass[p].pc = "next" BY <1>5 DEF CloseWithoutRule
  <2>3. /\ Rest(pass[p].todo \ {t}).todo = pass[p].todo \ {t}
        /\ Rest(pass[p].todo \ {t}).pc \in {"off", "next"}
    BY <1>2
  <2>4. ASSUME NEW e, NEW q \in Passes
        PROVE  /\ Holds(pass'[q], e) => Holds(pass[q], e)
               /\ Making(pass[q], e) => Making(pass'[q], e)
    <3>1. pass'[q] = IF q = p THEN Rest(pass[p].todo \ {t}) ELSE pass[q] BY <1>3, <2>1
    <3> QED BY <2>2, <2>3, <3>1 DEF Holds, Making
  <2>5. \A e \in Events : row'[e] = row[e] \/ Holds(pass[p], e)
    BY <1>0, <2>1, SetRowFits DEF Holds
  <2>6. seen'.interrupted = seen.interrupted BY <1>0, <2>1 DEF SeenType
  <2> QED BY <1>1, <2>4, <2>5, <2>6, OnceKept DEF OnceInv
<1>6. CASE MarkRetry(p)
  <2>1. /\ pass[p].pc = "fail" /\ UNCHANGED seen
        /\ pass' = [pass EXCEPT ![p] = Rest(pass[p].todo)]
        /\ \A e \in Events \ {pass[p].event} : row'[e] = row[e]
    BY <1>0, <1>6 DEF MarkRetry, Proceed, Rest, Tables
  <2>2. Rest(pass[p].todo).todo = pass[p].todo /\ Rest(pass[p].todo).pc \in {"off", "next"}
    BY <1>2
  <2>3. ASSUME NEW e, NEW q \in Passes
        PROVE  /\ Holds(pass'[q], e) => Holds(pass[q], e)
               /\ Making(pass[q], e) => Making(pass'[q], e)
    <3>1. pass'[q] = IF q = p THEN Rest(pass[p].todo) ELSE pass[q] BY <1>3, <2>1
    <3> QED BY <2>1, <2>2, <3>1 DEF Holds, Making
  <2>4. Holds(pass[p], pass[p].event) BY <2>1 DEF Holds
  <2> QED BY <1>1, <2>1, <2>3, <2>4, OnceKept DEF OnceInv
<1>7. CASE PassFails(p) \/ PassDies(p)
  <2>1. UNCHANGED row /\ seen' = Interrupt(p) BY <1>7 DEF PassFails, PassDies
  <2>2. /\ seen.interrupted \subseteq seen'.interrupted
        /\ \A e : Making(pass[p], e) => e \in seen'.interrupted
    BY <1>0, <2>1 DEF Interrupt, Making, SeenType
  <2>3. ASSUME NEW it, pass' = [pass EXCEPT ![p] = it],
               \A e : Holds(it, e) => Holds(pass[p], e)
        PROVE  OnceInv'
    <3>1. \A q \in Passes : pass'[q] = IF q = p THEN it ELSE pass[q] BY <1>3, <2>3
    <3>2. ASSUME NEW e, NEW q \in Passes, e \notin seen'.interrupted
          PROVE  /\ Holds(pass'[q], e) => Holds(pass[q], e)
                 /\ Making(pass[q], e) => Making(pass'[q], e)
      <4>1. CASE q = p BY <2>2, <2>3, <3>1, <3>2, <4>1
      <4>2. CASE q # p BY <3>1, <4>2
      <4> QED BY <4>1, <4>2
    <3> QED BY <1>1, <2>1, <2>2, <3>2, OnceKept DEF OnceInv
  <2>4. CASE pass' = [pass EXCEPT ![p] = NoPass]
    <3>1. \A e : ~Holds(NoPass, e) BY Empties DEF Holds
    <3> QED BY <2>3, <2>4, <3>1
  <2>5. ASSUME pass[p].pc = "next", NEW t \in pass[p].todo,
               pass' = [pass EXCEPT ![p] = Taken(p, t, "fail")]
        PROVE  OnceInv'
    <3>1. /\ Taken(p, t, "fail").event = t.event
          /\ Taken(p, t, "fail").todo = pass[p].todo \ {t}
      BY <1>0, <2>5, TakenFits
    <3>2. \A e : Holds(Taken(p, t, "fail"), e) => Holds(pass[p], e) BY <3>1 DEF Holds
    <3> QED BY <2>3, <2>5, <3>2
  <2>6. CASE pass[p].pc \in {"audit", "mark"} /\ pass' = [pass EXCEPT ![p].pc = "fail"]
    <3> DEFINE it == [pass[p] EXCEPT !.pc = "fail"]
    <3>1. it.event = pass[p].event /\ it.todo = pass[p].todo BY <1>0 DEF PassType
    <3>2. pass' = [pass EXCEPT ![p] = it] BY <2>6
    <3> HIDE DEF it
    <3>3. \A e : Holds(it, e) => Holds(pass[p], e) BY <2>6, <3>1 DEF Holds
    <3> QED BY <2>3, <3>2, <3>3
  <2> QED BY <1>7, <2>4, <2>5, <2>6 DEF PassFails, PassDies
<1> QED BY <1>4, <1>5, <1>6, <1>7

LEMMA NextOnce ==
  ASSUME OnceInv, [Next]_vars
  PROVE  OnceInv'
<1>0. FitInv' BY NextFits DEF OnceInv
<1>1. CASE UNCHANGED vars BY <1>0, <1>1, OnceKept DEF vars, OnceInv
<1>2. ASSUME NEW p \in Passes, PassStep(p) \/ PassFails(p) \/ PassDies(p) PROVE OnceInv'
  BY <1>0, <1>2, ReadBatchOnce, ApplyRuleOnce, MarkProcessedOnce, OtherPassOnce DEF PassStep
<1> QED BY <1>0, <1>1, <1>2, DeliveryOnce DEF Next

\* Credits are granted once for an event, and a task is made twice for an issue
\* only when a pass was stopped half way through it or a second pass read it
\* meanwhile.
THEOREM MadeOncePerEvent == Spec => []EffectsOncePerEvent
<1>1. Spec => []OnceInv BY InitOnce, NextOnce, PTL DEF Spec
<1>2. OnceInv => EffectsOncePerEvent
  <2> SUFFICES ASSUME OnceInv, NEW e \in Events, effects[e] > 1
               PROVE  e \notin Stripe /\ e \in seen.interrupted
    BY DEF EffectsOncePerEvent
  <2>1. effects[e] \in Nat BY DEF OnceInv, FitInv, Tables
  <2>2. e \notin Stripe BY <2>1 DEF OnceInv
  <2>3. ~MadeOnce(e) BY <2>1 DEF MadeOnce
  <2> QED BY <2>2, <2>3 DEF OnceInv
<1> QED BY <1>1, <1>2, PTL

-----------------------------------------------------------------------------
(* Subscriptions *)

\* One activation at a time is between its check and its insert.
Alone == \A c, d \in Activations : c = d

\* A subscription that is being activated for the first time has no row.
NewSub ==
  \A d \in Deliveries :
    delivery[d].pc \in Activating /\ Type(d).sub \notin seen.ended => RowsOf(Type(d).sub) = {}

\* The row of a subscription that nothing ended is active, and is its only row.
RowsLive ==
  \A i \in DOMAIN subs :
    subs[i].sub \notin seen.ended =>
      /\ subs[i].status = "active"
      /\ \A j \in DOMAIN subs : subs[j].sub = subs[i].sub => i = j

OneActive ==
  ~seen.revived =>
    /\ \A i, j \in ActiveRows : i = j
    /\ \A d \in Deliveries : delivery[d].pc = "create" => ActiveRows = {}

\* A checkout that was applied has left a row.
Covered ==
  \A e \in seen.applied : type[e].kind = "checkout" => RowsOf(type[e].sub) # {}

\* The plan is written before a row is, and taken back after one has ended.
PlanPaid ==
  /\ \A d \in Deliveries : delivery[d].pc = "downgrade" => seen.ended # {}
  /\ seen.ended = {} =>
       /\ DOMAIN subs # {} => plan = "paid"
       /\ \A d \in Deliveries : delivery[d].pc \in {"deactivate", "create"} => plan = "paid"

\* Which statements are of an activation, and which are of anything else.
KindFits(d) ==
  /\ delivery[d].pc \in Activating \cup {"check"} => Type(d).kind = "checkout"
  /\ delivery[d].pc \in {"grant", "status", "find", "downgrade"} => Type(d).kind # "checkout"

SubsInv ==
  /\ AckInv
  /\ \A d \in Deliveries : KindFits(d)
  /\ \A e \in seen.unknown : type[e].kind # "checkout"
  /\ Covered
  /\ ~seen.overlap => Alone /\ NewSub /\ RowsLive /\ OneActive /\ PlanPaid

LEMMA InitSubs == Init => SubsInv
<1> SUFFICES ASSUME Init PROVE SubsInv OBVIOUS
<1>1. AckInv BY InitAcks
<1>2. \A d \in Deliveries : delivery[d].pc = "off" BY Empties DEF Init
<1>3. DOMAIN subs = {} /\ seen.applied = {} /\ seen.unknown = {}
  BY DEF Init, Fresh
<1>4. ActiveRows = {} BY <1>3 DEF ActiveRows
<1>5. Alone BY <1>2 DEF Alone, Activations, Activating
<1>6. NewSub /\ RowsLive /\ OneActive /\ Covered /\ PlanPaid
  BY <1>2, <1>3, <1>4 DEF NewSub, RowsLive, OneActive, Covered, PlanPaid, Activating
<1> QED BY <1>1, <1>2, <1>3, <1>5, <1>6 DEF SubsInv, KindFits, Activating

\* Only the delivery d moves, to pc or out.
Steps(d, pc) ==
  /\ \A c \in Deliveries \ {d} : delivery'[c] = delivery[c]
  /\ \/ delivery'[d].pc = "off"
     \/ delivery'[d].pc = pc /\ delivery'[d].event = delivery[d].event

\* No request goes on to a statement of an activation, or to a downgrade.
Settles ==
  \A d \in Deliveries :
    \/ delivery'[d].pc \notin Activating
    \/ delivery'[d].pc = delivery[d].pc /\ delivery'[d].event = delivery[d].event
Keeps == \A d \in Deliveries : delivery'[d].pc = "downgrade" => delivery[d].pc = "downgrade"

StaysAlone == ~seen'.overlap => ~seen.overlap /\ Alone'

LEMMA StepsAlone ==
  ASSUME NEW d \in Deliveries, NEW pc, Steps(d, pc), Alone,
         pc \in Activating => d \in Activations \/ Activations = {}
  PROVE  Alone'
<1>1. \A c \in Activations' : c \in Activations \/ c = d
  BY DEF Activations, Steps
<1>2. d \in Activations' => d \in Activations \/ Activations = {}
  BY DEF Activations, Steps, Activating
<1> QED BY <1>1, <1>2 DEF Alone

LEMMA SubsKept ==
  ASSUME SubsInv, AckInv', UNCHANGED <<type, subs>>, Settles, Keeps, StaysAlone,
         \A d \in Deliveries : KindFits(d)',
         seen'.ended = seen.ended, seen'.revived = seen.revived,
         \A e \in seen'.unknown : e \in seen.unknown \/ type[e].kind # "checkout",
         \A e \in seen'.applied : e \in seen.applied \/ type[e].kind # "checkout"
                                    \/ RowsOf(type[e].sub) # {},
         ~seen.overlap /\ seen.ended = {} => plan' = plan
  PROVE  SubsInv'
<1>1. ActiveRows' = ActiveRows BY DEF ActiveRows
<1>2. ASSUME NEW d \in Deliveries, delivery'[d].pc \in Activating
      PROVE  delivery[d].pc = delivery'[d].pc /\ Type(d)' = Type(d)
  BY <1>2 DEF Settles, Type, Event
<1>3. ASSUME ~seen'.overlap PROVE (Alone /\ NewSub /\ RowsLive /\ OneActive /\ PlanPaid)'
  <2>1. Alone' /\ ~seen.overlap /\ NewSub /\ RowsLive /\ OneActive /\ PlanPaid
    BY <1>3 DEF SubsInv, StaysAlone
  <2>2. NewSub'
    <3>1. \A sub : RowsOf(sub)' = RowsOf(sub) BY DEF RowsOf
    <3>2. ASSUME NEW d \in Deliveries, delivery'[d].pc \in Activating,
                 Type(d)'.sub \notin seen'.ended
          PROVE  RowsOf(Type(d).sub)' = {}
      <4>1. Type(d)' = Type(d) /\ delivery[d].pc \in Activating BY <1>2, <3>2
      <4>2. RowsOf(Type(d).sub) = {} BY <2>1, <3>2, <4>1 DEF NewSub
      <4> QED BY <4>1, <4>2 DEF RowsOf
    <3> QED BY <3>2 DEF NewSub
  <2>3. RowsLive' BY <2>1 DEF RowsLive
  <2>4. OneActive' BY <1>1, <1>2, <2>1 DEF OneActive, Activating
  <2>5. PlanPaid' BY <1>2, <2>1 DEF PlanPaid, Keeps, Activating
  <2> QED BY <2>1, <2>2, <2>3, <2>4, <2>5
<1>4. \A e \in seen'.unknown : type'[e].kind # "checkout" BY DEF SubsInv
<1>5. Covered'
  <2>1. \A sub : RowsOf(sub)' = RowsOf(sub) BY DEF RowsOf
  <2>2. Covered BY DEF SubsInv
  <2> QED BY <2>1, <2>2 DEF Covered
<1> QED BY <1>3, <1>4, <1>5 DEF SubsInv

\* One request moves, to a statement that fits its kind.
LEMMA StepsFit ==
  ASSUME SubsInv, UNCHANGED type, NEW d \in Deliveries, NEW pc, Steps(d, pc),
         delivery[d].pc # "off", seen.overlap => seen'.overlap,
         pc \in Activating => d \in Activations \/ Activations = {} \/ seen'.overlap,
         pc \in Activating \cup {"check"} => Type(d).kind = "checkout",
         pc \in {"grant", "status", "find", "downgrade"} => Type(d).kind # "checkout"
  PROVE  /\ \A c \in Deliveries : KindFits(c)'
         /\ StaysAlone
         /\ pc \notin Activating => Settles
         /\ pc # "downgrade" => Keeps
<1>1. ASSUME NEW c \in Deliveries PROVE KindFits(c)'
  <2>1. CASE c = d BY <2>1 DEF Steps, KindFits, Type, Event, Activating
  <2>2. CASE c # d
    <3>1. delivery'[c] = delivery[c] /\ KindFits(c) BY <2>2 DEF Steps, SubsInv
    <3> QED BY <3>1 DEF KindFits, Type, Event
  <2> QED BY <2>1, <2>2
<1>2. StaysAlone BY StepsAlone DEF StaysAlone, SubsInv
<1>3. ASSUME pc \notin Activating PROVE Settles
  BY <1>3 DEF Settles, Steps, Activating
<1>4. pc # "downgrade" => Keeps BY DEF Keeps, Steps
<1> QED BY <1>1, <1>2, <1>3, <1>4

LEMMA GoToSteps ==
  ASSUME SubsInv, NEW d \in Deliveries, NEW pc, GoTo(d, pc)
  PROVE  Steps(d, pc)
<1>1. FitInv BY DEF SubsInv, AckInv
<1> QED BY <1>1, GoToMoves DEF Steps, Event

LEMMA DoneSteps ==
  ASSUME SubsInv, NEW d \in Deliveries, NEW pc, Done(d)
  PROVE  Steps(d, pc)
<1>1. \A c \in Deliveries : delivery'[c] = IF c = d THEN NoDelivery ELSE delivery[c]
  BY DEF SubsInv, AckInv, FitInv, Requests, Done
<1>2. delivery'[d].pc = "off" BY <1>1, Empties
<1>3. \A c \in Deliveries \ {d} : delivery'[c] = delivery[c] BY <1>1
<1> QED BY <1>2, <1>3 DEF Steps

LEMMA ClaimSubs ==
  ASSUME SubsInv, AckInv', NEW d \in Deliveries,
         \/ ResolveWebhookOrg(d) \/ InsertRow(d) \/ ReadExisting(d) \/ Reopen(d)
         \/ Confirm(d) \/ MarkFailed(d) \/ Answer(d) \/ Lookup(d) \/ Store(d)
         \/ GrantCredits(d) \/ AppendAudit(d)
  PROVE  SubsInv'
<1> USE DEF At
<1>0. FitInv /\ Tables /\ seen \in SeenType BY DEF SubsInv, AckInv, FitInv, Tables
<1>1. UNCHANGED <<type, subs, plan>> /\ delivery[d].pc # "off"
  BY DEF ResolveWebhookOrg, InsertRow, ReadExisting, Reopen, Confirm, MarkFailed, Answer,
         Lookup, Store, GrantCredits, AppendAudit, billing
<1>2. /\ seen'.ended = seen.ended /\ seen'.revived = seen.revived
      /\ seen'.overlap = seen.overlap
      /\ seen'.unknown \subseteq seen.unknown \cup {Event(d)}
      /\ seen'.applied \subseteq seen.applied \cup {Event(d)}
      /\ ~ResolveWebhookOrg(d) \/ KnowsOrg(Event(d)) => seen'.unknown = seen.unknown
      /\ ~GrantCredits(d) => seen'.applied = seen.applied
  BY <1>0 DEF ResolveWebhookOrg, InsertRow, ReadExisting, Reopen, Confirm, MarkFailed, Answer,
         Lookup, Store, GrantCredits, AppendAudit, Applied, SeenType
<1>3. PICK pc : /\ Steps(d, pc) /\ pc \notin Activating /\ pc # "downgrade"
                /\ pc = "check" => Type(d).kind = "checkout"
                /\ pc \in {"grant", "status", "find", "downgrade"} => Type(d).kind # "checkout"
  <2>1. FirstStep(Type(d).kind) = "check" <=> Type(d).kind = "checkout" BY DEF FirstStep
  <2>2. FirstStep(Type(d).kind) \notin Activating \cup {"downgrade"}
    BY DEF FirstStep, Activating
  <2>3. CASE GoTo(d, FirstStep(Type(d).kind))
    <3>1. Steps(d, FirstStep(Type(d).kind)) BY <2>3, GoToSteps
    <3> QED BY <2>1, <2>2, <3>1
  <2>4. ASSUME NEW pc \in {"insert", "existing", "ok", "reopen", "audit", "confirm", "store"},
               GoTo(d, pc)
        PROVE  /\ Steps(d, pc) /\ pc \notin Activating
               /\ pc \notin {"check", "grant", "status", "find", "downgrade"}
    BY <2>4, GoToSteps DEF Activating
  <2>5. CASE Done(d)
    <3>1. Steps(d, "off") BY <2>5, DoneSteps
    <3> QED BY <3>1 DEF Activating
  <2>6. \/ Done(d) \/ GoTo(d, FirstStep(Type(d).kind))
        \/ \E pc \in {"insert", "existing", "ok", "reopen", "audit", "confirm", "store"} :
             GoTo(d, pc)
    BY DEF ResolveWebhookOrg, InsertRow, ReadExisting, Reopen, Confirm, MarkFailed, Answer,
         Lookup, Store, GrantCredits, AppendAudit
  <2> QED BY <2>3, <2>4, <2>5, <2>6
<1>4. Settles /\ Keeps /\ StaysAlone /\ \A c \in Deliveries : KindFits(c)'
  BY <1>1, <1>2, <1>3, StepsFit
<1>5. ResolveWebhookOrg(d) /\ ~KnowsOrg(Event(d)) => type[Event(d)].kind # "checkout"
  BY DEF KnowsOrg
<1>6. GrantCredits(d) => type[Event(d)].kind # "checkout"
  BY DEF GrantCredits, SubsInv, KindFits, Type
<1> QED BY <1>1, <1>2, <1>4, <1>5, <1>6, SubsKept

\* The senders and the passes add nothing to an activation.
LEMMA DisturbSubs ==
  ASSUME SubsInv, AckInv',
         \/ \E e \in Events : Deliver(e)
         \/ \E d \in Deliveries : SenderTimesOut(d) \/ DeliveryFails(d) \/ DeliveryDies(d)
  PROVE  SubsInv'
<1>0. FitInv /\ Requests /\ seen \in SeenType BY DEF SubsInv, AckInv, FitInv, Tables
<1>1. UNCHANGED <<type, subs, plan>>
  BY DEF Deliver, SenderTimesOut, DeliveryFails, DeliveryDies, billing
<1>2. seen' = seen
  BY DEF Deliver, SenderTimesOut, DeliveryFails, DeliveryDies
<1>3. SUFFICES Settles /\ Keeps /\ StaysAlone /\ \A c \in Deliveries : KindFits(c)'
  BY <1>1, <1>2, <1>3, SubsKept
<1>4. ASSUME NEW e \in Events, Deliver(e)
      PROVE  Settles /\ Keeps /\ StaysAlone /\ \A c \in Deliveries : KindFits(c)'
  <2> DEFINE it == [pc |-> IF e \in Stripe THEN "resolve" ELSE "lookup",
                    event |-> e, waiting |-> TRUE]
  <2>1. PICK free : delivery' = [delivery EXCEPT ![free] = it]
    BY <1>4 DEF Deliver
  <2>2. it.pc \in {"resolve", "lookup"} OBVIOUS
  <2> HIDE DEF it
  <2>3. \A d \in Deliveries : delivery'[d] = IF d = free THEN it ELSE delivery[d]
    BY <1>0, <2>1 DEF Requests
  <2>4. Settles /\ Keeps BY <2>2, <2>3 DEF Settles, Keeps, Activating
  <2>5. ASSUME NEW c \in Deliveries PROVE KindFits(c)'
    <3>1. CASE c = free
      <4>1. delivery'[c].pc \in {"resolve", "lookup"} BY <2>2, <2>3, <3>1
      <4> QED BY <4>1 DEF KindFits, Activating
    <3>2. CASE c # free
      <4>1. delivery'[c] = delivery[c] /\ KindFits(c) BY <2>3, <3>2 DEF SubsInv
      <4> QED BY <1>1, <4>1 DEF KindFits, Type, Event
    <3> QED BY <3>1, <3>2
  <2>6. StaysAlone
    <3>1. Activations' \subseteq Activations BY <2>2, <2>3 DEF Activations, Activating
    <3> QED BY <1>2, <3>1 DEF StaysAlone, SubsInv, Alone
  <2> QED BY <2>4, <2>5, <2>6
<1>5. ASSUME NEW d \in Deliveries, DeliveryFails(d) \/ DeliveryDies(d)
      PROVE  Settles /\ Keeps /\ StaysAlone /\ \A c \in Deliveries : KindFits(c)'
  <2>1. delivery[d].pc # "off"
    BY <1>5 DEF DeliveryFails, DeliveryDies, Applying, Unguarded, Running
  <2>2. Steps(d, "fail")
    BY <1>5, GoToSteps, DoneSteps DEF DeliveryFails, DeliveryDies
  <2>3. "fail" \notin Activating BY DEF Activating
  <2> QED BY <1>1, <1>2, <2>1, <2>2, <2>3, StepsFit
<1>6. ASSUME NEW d \in Deliveries, SenderTimesOut(d)
      PROVE  Settles /\ Keeps /\ StaysAlone /\ \A c \in Deliveries : KindFits(c)'
  <2>1. delivery' = [delivery EXCEPT ![d].waiting = FALSE] BY <1>6 DEF SenderTimesOut
  <2>2. \A c \in Deliveries :
          delivery'[c].pc = delivery[c].pc /\ delivery'[c].event = delivery[c].event
    <3>1. \A c \in Deliveries : delivery[c] \in DeliveryType BY <1>0 DEF Requests
    <3>2. \A c \in Deliveries :
            delivery'[c] = IF c = d THEN [delivery[c] EXCEPT !.waiting = FALSE] ELSE delivery[c]
      BY <1>0, <2>1 DEF Requests
    <3> QED BY <3>1, <3>2 DEF DeliveryType
  <2>3. \A c \in Deliveries : Type(c)' = Type(c) BY <1>1, <2>2 DEF Type, Event
  <2>4. \A c \in Deliveries : KindFits(c)' BY <2>2, <2>3 DEF KindFits, SubsInv
  <2>5. Activations' = Activations BY <2>2 DEF Activations
  <2>6. StaysAlone BY <1>2, <2>5 DEF StaysAlone, SubsInv, Alone
  <2> QED BY <2>2, <2>4, <2>6 DEF Settles, Keeps
<1> QED BY <1>4, <1>5, <1>6

LEMMA PassSubs ==
  ASSUME SubsInv, AckInv', NEW p \in Passes, PassStep(p) \/ PassFails(p) \/ PassDies(p)
  PROVE  SubsInv'
<1>0. seen \in SeenType BY DEF SubsInv, AckInv, FitInv, Tables
<1>1. UNCHANGED <<type, subs, plan, delivery>>
  BY DEF PassStep, ReadBatch, ApplyRule, AuditRule, MarkProcessed, CloseWithoutRule,
         MarkRetry, PassFails, PassDies, billing
<1>2. /\ seen'.ended = seen.ended /\ seen'.revived = seen.revived
      /\ seen'.overlap = seen.overlap
      /\ seen'.unknown = seen.unknown /\ seen'.applied = seen.applied
  BY <1>0 DEF PassStep, ReadBatch, ApplyRule, AuditRule, MarkProcessed, CloseWithoutRule,
              MarkRetry, PassFails, PassDies, Interrupt, SeenType
<1>3. Settles /\ Keeps BY <1>1 DEF Settles, Keeps
<1>4. \A c \in Deliveries : Type(c)' = Type(c) BY <1>1 DEF Type, Event
<1>5. \A c \in Deliveries : KindFits(c)' BY <1>1, <1>4 DEF KindFits, SubsInv
<1>6. StaysAlone
  BY <1>1, <1>2 DEF StaysAlone, SubsInv, Alone, Activations
<1> QED BY <1>1, <1>2, <1>3, <1>5, <1>6, SubsKept

\* What a change of the status of some rows does.
LEMMA WithStatusRows ==
  ASSUME NEW rows, NEW status, subs' = WithStatus(rows, status), Tables
  PROVE  /\ DOMAIN subs' = DOMAIN subs
         /\ \A i \in DOMAIN subs :
              /\ subs'[i].sub = subs[i].sub
              /\ subs'[i].status = IF i \in rows THEN status ELSE subs[i].status
         /\ \A sub : RowsOf(sub)' = RowsOf(sub)
<1>1. DOMAIN subs' = DOMAIN subs BY DEF WithStatus
<1>2. ASSUME NEW i \in DOMAIN subs
      PROVE  /\ subs'[i].sub = subs[i].sub
             /\ subs'[i].status = IF i \in rows THEN status ELSE subs[i].status
  <2>1. subs[i] \in SubscriptionType BY ElementOfSeq DEF Tables
  <2>2. subs'[i] = IF i \in rows THEN [subs[i] EXCEPT !.status = status] ELSE subs[i]
    BY DEF WithStatus
  <2> QED BY <2>1, <2>2 DEF SubscriptionType
<1>3. \A sub : RowsOf(sub)' = RowsOf(sub) BY <1>1, <1>2 DEF RowsOf
<1> QED BY <1>1, <1>2, <1>3

\* The statements of an activation that leave the subscriptions alone.
LEMMA ActivateSubs ==
  ASSUME SubsInv, AckInv', NEW d \in Deliveries,
         CheckReplay(d) \/ UpgradeOrg(d) \/ DowngradeOrg(d)
  PROVE  SubsInv'
<1> USE DEF At
<1>0. FitInv /\ Tables /\ seen \in SeenType /\ KindFits(d)
  BY DEF SubsInv, AckInv, FitInv, Tables
<1>1. UNCHANGED <<type, subs>> /\ delivery[d].pc \in {"check", "upgrade", "downgrade"}
  BY DEF CheckReplay, UpgradeOrg, DowngradeOrg, billing
<1>2. /\ seen'.ended = seen.ended /\ seen'.revived = seen.revived
      /\ seen'.unknown = seen.unknown
      /\ seen.overlap => seen'.overlap
      /\ seen'.applied \subseteq seen.applied \cup {Event(d)}
      /\ UpgradeOrg(d) => seen' = seen
      /\ CheckReplay(d) /\ ~AlreadyActive(d)
           => seen'.applied = seen.applied /\ (Activations = {} \/ seen'.overlap)
  BY <1>0 DEF CheckReplay, UpgradeOrg, DowngradeOrg, Applied, SeenType
<1>3. /\ Event(d) \in Events
      /\ delivery[d].pc \in {"check", "upgrade"} => type[Event(d)].kind = "checkout"
      /\ delivery[d].pc = "downgrade" => type[Event(d)].kind # "checkout"
  BY <1>0, <1>1, AtPoint DEF KindFits, Activating, Type
<1>4. CASE DowngradeOrg(d) \/ (CheckReplay(d) /\ AlreadyActive(d))
  <2>1. PICK pc \in {"audit", "confirm"} : Steps(d, pc)
    BY <1>4, GoToSteps DEF DowngradeOrg, CheckReplay
  <2>2. Settles /\ Keeps /\ StaysAlone /\ \A c \in Deliveries : KindFits(c)'
    BY <1>1, <1>2, <2>1, StepsFit DEF Activating
  <2>3. \/ type[Event(d)].kind # "checkout"
        \/ RowsOf(type[Event(d)].sub) # {}
    BY <1>3, <1>4 DEF DowngradeOrg, AlreadyActive, Type
  <2>4. ~seen.overlap /\ seen.ended = {} => plan' = plan
    BY <1>4 DEF DowngradeOrg, CheckReplay, billing, SubsInv, PlanPaid
  <2> QED BY <1>1, <1>2, <2>2, <2>3, <2>4, SubsKept
<1>5. CASE UpgradeOrg(d) \/ (CheckReplay(d) /\ ~AlreadyActive(d))
  <2> DEFINE s == Type(d).sub
  <2>1. PICK pc \in {"upgrade", "deactivate"} : Steps(d, pc) /\ GoTo(d, pc)
    BY <1>5, GoToSteps DEF UpgradeOrg, CheckReplay
  <2>2. /\ seen'.applied = seen.applied /\ Type(d).kind = "checkout"
        /\ delivery[d].pc \in {"check", "upgrade"}
        /\ d \in Activations \/ Activations = {} \/ seen'.overlap
    BY <1>2, <1>3, <1>5 DEF UpgradeOrg, CheckReplay, Type, Activations, Activating
  <2>3. /\ StaysAlone /\ Keeps
        /\ \A c \in Deliveries : KindFits(c)'
    BY <1>1, <1>2, <2>1, <2>2, StepsFit
  <2>4. ActiveRows' = ActiveRows BY <1>1 DEF ActiveRows
  <2>5. ASSUME ~seen'.overlap PROVE (Alone /\ NewSub /\ RowsLive /\ OneActive /\ PlanPaid)'
    <3>1. Alone' /\ NewSub /\ RowsLive /\ OneActive /\ PlanPaid
      BY <2>3, <2>5 DEF StaysAlone, SubsInv
    <3>2. ASSUME s \notin seen.ended PROVE RowsOf(s) = {}
      <4>1. CASE UpgradeOrg(d)
        BY <3>1, <3>2, <4>1 DEF UpgradeOrg, NewSub, Activating
      <4>2. CASE CheckReplay(d) /\ ~AlreadyActive(d)
        BY <3>1, <3>2, <4>2 DEF RowsLive, AlreadyActive, ActiveRows, RowsOf
      <4> QED BY <1>5, <4>1, <4>2
    <3>3. ASSUME NEW c \in Deliveries, delivery'[c].pc \in Activating,
                 Type(c)'.sub \notin seen'.ended
          PROVE  RowsOf(Type(c).sub)' = {}
      <4>1. CASE c = d
        <5>1. Type(d)' = Type(d)
          BY <1>1, <2>1, <3>3, <4>1 DEF Steps, Type, Event, Activating
        <5> QED BY <1>1, <1>2, <3>2, <3>3, <4>1, <5>1 DEF RowsOf
      <4>2. CASE c # d
        <5>1. delivery'[c] = delivery[c] BY <2>1, <4>2 DEF Steps
        <5>2. Type(c)' = Type(c) BY <1>1, <5>1 DEF Type, Event
        <5> QED BY <1>1, <1>2, <3>1, <3>3, <5>1, <5>2 DEF NewSub, RowsOf
      <4> QED BY <4>1, <4>2
    <3>4. NewSub' BY <3>3 DEF NewSub
    <3>5. RowsLive' BY <1>1, <1>2, <3>1 DEF RowsLive
    <3>6. \A c \in Deliveries : delivery'[c].pc = "create" => delivery[c].pc = "create"
      BY <2>1 DEF Steps
    <3>7. OneActive' BY <1>2, <2>4, <3>1, <3>6 DEF OneActive
    <3>8. PlanPaid'
      <4>1. CASE UpgradeOrg(d)
        <5>1. plan' = "paid" BY <4>1 DEF UpgradeOrg
        <5> QED BY <1>2, <2>3, <3>1, <5>1 DEF PlanPaid, Keeps
      <4>2. CASE CheckReplay(d) /\ ~AlreadyActive(d)
        <5>1. GoTo(d, "upgrade") /\ plan' = plan BY <4>2 DEF CheckReplay, billing
        <5>2. Steps(d, "upgrade") BY <5>1, GoToSteps
        <5>3. \A c \in Deliveries : delivery'[c].pc \in {"deactivate", "create"}
                => delivery[c].pc \in {"deactivate", "create"}
          BY <5>2 DEF Steps
        <5> QED BY <1>1, <1>2, <2>3, <3>1, <5>1, <5>3 DEF PlanPaid, Keeps
      <4> QED BY <1>5, <4>1, <4>2
    <3> QED BY <3>1, <3>4, <3>5, <3>7, <3>8
  <2>6. \A e \in seen'.unknown : type'[e].kind # "checkout" BY <1>1, <1>2 DEF SubsInv
  <2>7. Covered' BY <1>1, <2>2 DEF SubsInv, Covered, RowsOf
  <2> QED BY <2>3, <2>5, <2>6, <2>7 DEF SubsInv
<1> QED BY <1>4, <1>5

\* The old subscriptions are ended before the new one is inserted.
LEMMA DeactivateSubs ==
  ASSUME SubsInv, AckInv', NEW d \in Deliveries, DeactivateOthers(d)
  PROVE  SubsInv'
<1> USE DEF At
<1> DEFINE s == Type(d).sub
           olds == {subs[i].sub : i \in ActiveRows} \ {s}
<1>0. FitInv /\ Tables /\ seen \in SeenType BY DEF SubsInv, AckInv, FitInv, Tables
<1>1. /\ delivery[d].pc = "deactivate" /\ UNCHANGED <<type, plan>>
      /\ subs' = WithStatus(ActiveRows, "cancelled")
  BY DEF DeactivateOthers
<1>2. /\ seen'.ended = seen.ended \cup olds /\ seen'.revived = seen.revived
      /\ seen'.overlap = seen.overlap /\ seen'.unknown = seen.unknown
      /\ seen'.applied = seen.applied
  BY <1>0 DEF DeactivateOthers, SeenType
<1> HIDE DEF olds
<1>3. Steps(d, "create") BY GoToSteps DEF DeactivateOthers
<1>4. StaysAlone /\ Keeps /\ \A c \in Deliveries : KindFits(c)'
  <2>1. Type(d).kind = "checkout" BY <1>1 DEF SubsInv, KindFits, Activating
  <2>2. d \in Activations BY <1>1 DEF Activations, Activating
  <2> QED BY <1>1, <1>2, <1>3, <2>1, <2>2, StepsFit
<1>5. /\ DOMAIN subs' = DOMAIN subs
      /\ \A i \in DOMAIN subs :
           /\ subs'[i].sub = subs[i].sub
           /\ subs'[i].status = IF i \in ActiveRows THEN "cancelled" ELSE subs[i].status
      /\ \A sub : RowsOf(sub)' = RowsOf(sub)
  BY <1>0, <1>1, WithStatusRows
<1>6. ActiveRows' = {} BY <1>5 DEF ActiveRows
<1>7. ASSUME ~seen'.overlap PROVE (Alone /\ NewSub /\ RowsLive /\ OneActive /\ PlanPaid)'
  <2>1. Alone' /\ ~seen.overlap /\ NewSub /\ RowsLive /\ OneActive /\ PlanPaid
    BY <1>4, <1>7 DEF StaysAlone, SubsInv
  <2>2. s \notin seen.ended => RowsOf(s) = {} BY <1>1, <2>1 DEF NewSub, Activating
  <2>3. NewSub'
    <3>1. ASSUME NEW c \in Deliveries, delivery'[c].pc \in Activating,
                 Type(c)'.sub \notin seen'.ended
          PROVE  RowsOf(Type(c).sub)' = {}
      <4>1. Type(c)' = Type(c) /\ delivery[c].pc \in Activating
        BY <1>1, <1>3, <3>1 DEF Steps, Type, Event, Activating
      <4>2. RowsOf(Type(c).sub) = {} BY <1>2, <2>1, <3>1, <4>1 DEF NewSub
      <4> QED BY <1>5, <4>1, <4>2 DEF RowsOf
    <3> QED BY <3>1 DEF NewSub
  <2>4. \A i \in DOMAIN subs : subs[i].sub \in seen'.ended
    <3> SUFFICES ASSUME NEW i \in DOMAIN subs, subs[i].sub \notin seen'.ended PROVE FALSE
      OBVIOUS
    <3>1. i \in ActiveRows BY <1>2, <2>1 DEF RowsLive, ActiveRows
    <3>2. subs[i].sub = s BY <1>2, <3>1 DEF olds
    <3>3. RowsOf(s) = {} BY <1>2, <2>2, <3>2
    <3> QED BY <3>2, <3>3 DEF RowsOf
  <2>5. RowsLive' BY <1>5, <2>4 DEF RowsLive
  <2>6. OneActive' BY <1>6 DEF OneActive
  <2>7. PlanPaid'
    <3>1. \A c \in Deliveries : delivery'[c].pc \in {"deactivate", "create"}
            => delivery[c].pc \in {"deactivate", "create"}
      BY <1>1, <1>3 DEF Steps
    <3>2. seen'.ended = {} => seen.ended = {} BY <1>2
    <3>3. seen.ended # {} => seen'.ended # {} BY <1>2
    <3> QED BY <1>1, <1>4, <1>5, <2>1, <3>1, <3>2, <3>3 DEF PlanPaid, Keeps
  <2> QED BY <2>1, <2>3, <2>5, <2>6, <2>7
<1>8. \A e \in seen'.unknown : type'[e].kind # "checkout" BY <1>1, <1>2 DEF SubsInv
<1>9. Covered' BY <1>1, <1>2, <1>5 DEF SubsInv, Covered
<1> QED BY <1>4, <1>7, <1>8, <1>9 DEF SubsInv

\* The new row is the only active one, and the only one of its subscription.
LEMMA CreateSubs ==
  ASSUME SubsInv, AckInv', NEW d \in Deliveries, CreateSubscription(d)
  PROVE  SubsInv'
<1> USE DEF At
<1> DEFINE s == Type(d).sub
           new == Len(subs) + 1
           made == [sub |-> s, status |-> "active"]
<1>0. FitInv /\ Tables /\ seen \in SeenType BY DEF SubsInv, AckInv, FitInv, Tables
<1>1. /\ delivery[d].pc = "create" /\ UNCHANGED <<type, plan>> /\ subs' = Append(subs, made)
  BY DEF CreateSubscription
<1>2. /\ seen'.ended = seen.ended /\ seen'.revived = seen.revived
      /\ seen'.overlap = seen.overlap /\ seen'.unknown = seen.unknown
  BY <1>0 DEF CreateSubscription, Applied, SeenType
<1>3. Steps(d, "audit") BY GoToSteps DEF CreateSubscription
<1>4. StaysAlone /\ Settles /\ Keeps /\ \A c \in Deliveries : KindFits(c)'
  BY <1>1, <1>2, <1>3, StepsFit DEF Activating
<1>5. /\ new \in Nat /\ new \notin DOMAIN subs
      /\ DOMAIN subs' = DOMAIN subs \cup {new}
      /\ subs'[new] = made
      /\ \A i \in DOMAIN subs : subs'[i] = subs[i]
  <2>1. subs \in Seq(SubscriptionType) BY <1>0 DEF Tables
  <2>2. made \in SubscriptionType BY <1>0, <1>1, AtPoint DEF SubscriptionType
  <2> HIDE DEF made
  <2>3. /\ Len(subs) \in Nat /\ DOMAIN subs = 1 .. Len(subs)
        /\ Len(subs') = Len(subs) + 1 /\ DOMAIN subs' = 1 .. Len(subs')
        /\ \A i \in 1 .. Len(subs) : subs'[i] = subs[i]
        /\ subs'[Len(subs) + 1] = made
    BY <1>1, <2>1, <2>2, AppendProperties, LenProperties
  <2> QED BY <2>3
<1>6. made.sub = s /\ made.status = "active" OBVIOUS
<1> HIDE DEF made, new
<1>7. ActiveRows' = ActiveRows \cup {new} BY <1>5, <1>6 DEF ActiveRows
<1>8. ASSUME ~seen'.overlap PROVE (Alone /\ NewSub /\ RowsLive /\ OneActive /\ PlanPaid)'
  <2>1. Alone /\ Alone' /\ NewSub /\ RowsLive /\ OneActive /\ PlanPaid
    BY <1>2, <1>4, <1>8 DEF StaysAlone, SubsInv
  <2>2. \A c \in Deliveries : delivery'[c].pc \notin Activating
    <3>1. ASSUME NEW c \in Deliveries, delivery'[c].pc \in Activating PROVE FALSE
      <4>1. c # d BY <1>3, <3>1 DEF Steps, Activating
      <4>2. delivery[c].pc \in Activating BY <1>3, <3>1, <4>1 DEF Steps
      <4> QED BY <1>1, <2>1, <4>1, <4>2 DEF Alone, Activations, Activating
    <3> QED BY <3>1
  <2>3. NewSub' BY <2>2 DEF NewSub
  <2>4. s \notin seen.ended => \A i \in DOMAIN subs : subs[i].sub # s
    BY <1>1, <2>1 DEF NewSub, RowsOf, Activating
  <2>5. RowsLive'
    <3>1. ASSUME NEW i \in DOMAIN subs', subs'[i].sub \notin seen.ended
          PROVE  /\ subs'[i].status = "active"
                 /\ \A j \in DOMAIN subs' : subs'[j].sub = subs'[i].sub => i = j
      <4>1. CASE i = new BY <1>5, <1>6, <2>4, <3>1, <4>1
      <4>2. CASE i \in DOMAIN subs BY <1>5, <1>6, <2>1, <2>4, <3>1, <4>2 DEF RowsLive
      <4> QED BY <1>5, <4>1, <4>2
    <3> QED BY <1>2, <3>1 DEF RowsLive
  <2>6. OneActive'
    <3>1. ~seen.revived => ActiveRows = {} BY <1>1, <2>1 DEF OneActive
    <3>2. \A c \in Deliveries : delivery'[c].pc # "create" BY <2>2 DEF Activating
    <3> QED BY <1>2, <1>7, <3>1, <3>2 DEF OneActive
  <2>7. PlanPaid'
    <3>1. seen.ended = {} => plan = "paid" BY <1>1, <2>1 DEF PlanPaid
    <3> QED BY <1>1, <1>2, <1>4, <2>1, <3>1 DEF PlanPaid, Keeps
  <2> QED BY <2>1, <2>3, <2>5, <2>6, <2>7
<1>9. \A e \in seen'.unknown : type'[e].kind # "checkout" BY <1>1, <1>2 DEF SubsInv
<1>10. Covered'
  <2>1. ASSUME NEW sub, sub = s \/ RowsOf(sub) # {} PROVE RowsOf(sub)' # {}
    <3>1. CASE sub = s BY <1>5, <1>6, <3>1 DEF RowsOf
    <3>2. CASE RowsOf(sub) # {} BY <1>5, <3>2 DEF RowsOf
    <3> QED BY <2>1, <3>1, <3>2
  <2>2. seen'.applied = seen.applied \cup {Event(d)}
    BY <1>0 DEF CreateSubscription, Applied, SeenType
  <2>3. Covered BY DEF SubsInv
  <2> QED BY <1>1, <2>1, <2>2, <2>3 DEF Covered, Type
<1> QED BY <1>4, <1>8, <1>9, <1>10 DEF SubsInv

\* News of a subscription: what stops being active counts as ended, and what
\* becomes active beside another counts as revived.
LEMMA ChangeSubs ==
  ASSUME SubsInv, AckInv', NEW d \in Deliveries, UpdateStatus(d) \/ CancelRow(d)
  PROVE  SubsInv'
<1> USE DEF At
<1>0. FitInv /\ Tables /\ seen \in SeenType BY DEF SubsInv, AckInv, FitInv, Tables
<1>1. UNCHANGED <<type, plan>> /\ delivery[d].pc \in {"status", "find"}
  BY DEF UpdateStatus, CancelRow
<1>2. type[Event(d)].kind # "checkout" BY <1>1 DEF SubsInv, KindFits, Type
<1>3. PICK rows \in SUBSET DOMAIN subs, status \in {"active", "past_due", "cancelled"} :
        /\ subs' = WithStatus(rows, status)
        /\ \A i, j \in rows : subs[i].sub = subs[j].sub
        /\ seen.ended \subseteq seen'.ended
        /\ \A i \in rows \cap ActiveRows : status # "active" => subs[i].sub \in seen'.ended
        /\ status = "active" /\ Beside(rows) => seen'.revived
        /\ seen.revived => seen'.revived
        /\ seen'.overlap = seen.overlap /\ seen'.unknown = seen.unknown
        /\ seen'.applied \subseteq seen.applied \cup {Event(d)}
  <2>1. CASE UpdateStatus(d)
    <3> DEFINE rows == RowsOf(Type(d).sub)
               status == IF Type(d).kind = "unpaid" THEN "past_due"
                                                    ELSE MappedStatus(Type(d).stripe)
    <3>1. status \in {"active", "past_due", "cancelled"} BY DEF MappedStatus
    <3>2. rows \in SUBSET DOMAIN subs /\ \A i \in rows : subs[i].sub = Type(d).sub
      BY DEF RowsOf
    <3>3. subs' = WithStatus(rows, status) BY <2>1 DEF UpdateStatus
    <3>4. seen' = [Applied(d) EXCEPT
                     !.ended = IF status # "active" /\ rows \cap ActiveRows # {}
                               THEN @ \cup {Type(d).sub} ELSE @,
                     !.revived = @ \/ (status = "active" /\ Beside(rows))]
      BY <2>1 DEF UpdateStatus
    <3> HIDE DEF rows, status
    <3>5. /\ seen'.ended = IF status # "active" /\ rows \cap ActiveRows # {}
                           THEN seen.ended \cup {Type(d).sub} ELSE seen.ended
          /\ seen'.revived = (seen.revived \/ (status = "active" /\ Beside(rows)))
          /\ seen'.overlap = seen.overlap /\ seen'.unknown = seen.unknown
          /\ seen'.applied = seen.applied \cup {Event(d)}
      BY <1>0, <3>4 DEF Applied, SeenType
    <3>6. /\ seen.ended \subseteq seen'.ended
          /\ \A i \in rows \cap ActiveRows : status # "active" => subs[i].sub \in seen'.ended
      BY <3>2, <3>5
    <3>7. /\ seen.revived => seen'.revived
          /\ status = "active" /\ Beside(rows) => seen'.revived
      BY <3>5
    <3>8. \A i, j \in rows : subs[i].sub = subs[j].sub BY <3>2
    <3> QED BY <3>1, <3>2, <3>3, <3>5, <3>6, <3>7, <3>8
  <2>2. CASE CancelRow(d)
    <3>1. PICK i \in RowsOf(Type(d).sub) :
            /\ subs' = WithStatus({i}, "cancelled")
            /\ seen' = [seen EXCEPT !.ended = IF i \in ActiveRows THEN @ \cup {subs[i].sub} ELSE @]
      BY <2>2 DEF CancelRow
    <3>2. {i} \in SUBSET DOMAIN subs BY DEF RowsOf
    <3>3. /\ seen'.ended = IF i \in ActiveRows THEN seen.ended \cup {subs[i].sub} ELSE seen.ended
          /\ seen'.revived = seen.revived /\ seen'.overlap = seen.overlap
          /\ seen'.unknown = seen.unknown /\ seen'.applied = seen.applied
      BY <1>0, <3>1 DEF SeenType
    <3>4. \A k \in {i} \cap ActiveRows : subs[k].sub \in seen'.ended BY <3>3
    <3> QED BY <3>1, <3>2, <3>3, <3>4
  <2> QED BY <2>1, <2>2
<1>4. PICK pc \in {"confirm", "downgrade"} : Steps(d, pc)
  BY GoToSteps DEF UpdateStatus, CancelRow
<1>5. Settles /\ StaysAlone /\ \A c \in Deliveries : KindFits(c)'
  BY <1>1, <1>2, <1>3, <1>4, StepsFit DEF Activating, Type
<1>6. /\ DOMAIN subs' = DOMAIN subs
      /\ \A i \in DOMAIN subs :
           /\ subs'[i].sub = subs[i].sub
           /\ subs'[i].status = IF i \in rows THEN status ELSE subs[i].status
      /\ \A sub : RowsOf(sub)' = RowsOf(sub)
  BY <1>0, <1>3, WithStatusRows
<1>7. ASSUME ~seen'.overlap PROVE (Alone /\ NewSub /\ RowsLive /\ OneActive /\ PlanPaid)'
  <2>1. Alone' /\ ~seen.overlap /\ NewSub /\ RowsLive /\ OneActive /\ PlanPaid
    BY <1>5, <1>7 DEF StaysAlone, SubsInv
  <2>2. NewSub'
    <3>1. ASSUME NEW c \in Deliveries, delivery'[c].pc \in Activating,
                 Type(c)'.sub \notin seen'.ended
          PROVE  RowsOf(Type(c).sub)' = {}
      <4>1. Type(c)' = Type(c) /\ delivery[c].pc \in Activating
        BY <1>1, <1>5, <3>1 DEF Settles, Type, Event
      <4>2. RowsOf(Type(c).sub) = {} BY <1>3, <2>1, <3>1, <4>1 DEF NewSub
      <4> QED BY <1>6, <4>1, <4>2 DEF RowsOf
    <3> QED BY <3>1 DEF NewSub
  <2>3. \A i \in DOMAIN subs : subs[i].sub \notin seen'.ended =>
          subs'[i].status = "active"
    <3> SUFFICES ASSUME NEW i \in DOMAIN subs, subs[i].sub \notin seen'.ended
                 PROVE  subs'[i].status = "active"
      OBVIOUS
    <3>1. subs[i].status = "active" /\ i \in ActiveRows
      BY <1>3, <2>1 DEF RowsLive, ActiveRows
    <3>2. i \in rows => status = "active" BY <1>3, <3>1
    <3> QED BY <1>6, <3>1, <3>2
  <2>4. RowsLive'
    <3>1. ASSUME NEW i \in DOMAIN subs, subs[i].sub \notin seen'.ended
          PROVE  \A j \in DOMAIN subs : subs[j].sub = subs[i].sub => i = j
      BY <1>3, <2>1, <3>1 DEF RowsLive
    <3> QED BY <1>6, <2>3, <3>1 DEF RowsLive
  <2>5. ActiveRows' = IF status = "active" THEN ActiveRows \cup rows ELSE ActiveRows \ rows
    BY <1>3, <1>6 DEF ActiveRows
  <2>6. OneActive'
    <3> SUFFICES ASSUME ~seen'.revived
                 PROVE  /\ \A i, j \in ActiveRows' : i = j
                        /\ \A c \in Deliveries : delivery'[c].pc = "create" => ActiveRows' = {}
      BY DEF OneActive
    <3>1. \A c \in Deliveries : delivery'[c].pc = "create" => delivery[c].pc = "create"
      BY <1>5 DEF Settles, Activating
    <3>2. /\ \A i, j \in ActiveRows : i = j
          /\ \A c \in Deliveries : delivery[c].pc = "create" => ActiveRows = {}
      BY <1>3, <2>1 DEF OneActive
    <3>3. CASE ActiveRows' \subseteq ActiveRows BY <3>1, <3>2, <3>3
    <3>4. CASE ~(ActiveRows' \subseteq ActiveRows)
      <4>1. status = "active" /\ ~Beside(rows) BY <1>3, <2>5, <3>4
      <4>2. PICK i \in rows : i \notin ActiveRows BY <2>5, <3>4, <4>1
      <4>3. \A j \in rows \cup ActiveRows : j = i BY <4>1, <4>2 DEF Beside
      <4>4. \A c \in Deliveries : delivery[c].pc # "create" BY <4>1, <4>2 DEF Beside
      <4> QED BY <2>5, <3>1, <4>1, <4>3, <4>4
    <3> QED BY <3>3, <3>4
  <2>7. PlanPaid'
    <3>1. seen'.ended = {} => seen.ended = {} BY <1>3
    <3>2. \A c \in Deliveries : delivery'[c].pc \in {"deactivate", "create"}
            => delivery[c].pc \in {"deactivate", "create"}
      BY <1>5 DEF Settles, Activating
    <3>3. ASSUME NEW c \in Deliveries, delivery'[c].pc = "downgrade" PROVE seen'.ended # {}
      <4>1. CASE delivery[c].pc = "downgrade" BY <1>3, <2>1, <4>1 DEF PlanPaid
      <4>2. CASE delivery[c].pc # "downgrade"
        <5>1. c = d BY <1>4, <3>3, <4>2 DEF Steps
        <5>2. CancelRow(d)
          <6>1. CASE UpdateStatus(d)
            <7>1. Steps(d, "confirm") BY <6>1, GoToSteps DEF UpdateStatus
            <7> QED BY <3>3, <5>1, <7>1 DEF Steps
          <6> QED BY <6>1
        <5>3. PICK i \in RowsOf(Type(d).sub) :
                seen' = [seen EXCEPT !.ended = IF i \in ActiveRows THEN @ \cup {subs[i].sub} ELSE @]
          BY <5>2 DEF CancelRow
        <5>4. i \in ActiveRows \/ subs[i].sub \in seen.ended
          BY <2>1 DEF RowsLive, ActiveRows, RowsOf
        <5>5. seen'.ended = IF i \in ActiveRows THEN seen.ended \cup {subs[i].sub} ELSE seen.ended
          BY <1>0, <5>3 DEF SeenType
        <5> QED BY <5>4, <5>5
      <4> QED BY <4>1, <4>2
    <3>4. DOMAIN subs' = DOMAIN subs /\ plan' = plan BY <1>1, <1>6
    <3>5. \A c \in Deliveries : delivery'[c].pc \in {"deactivate", "create"} /\ seen.ended = {}
            => plan' = "paid"
      BY <2>1, <3>2, <3>4 DEF PlanPaid
    <3>6. seen.ended = {} /\ DOMAIN subs' # {} => plan' = "paid" BY <2>1, <3>4 DEF PlanPaid
    <3> QED BY <3>1, <3>3, <3>5, <3>6 DEF PlanPaid
  <2> QED BY <2>1, <2>2, <2>4, <2>6, <2>7
<1>8. \A e \in seen'.unknown : type'[e].kind # "checkout" BY <1>1, <1>3 DEF SubsInv
<1>9. Covered' BY <1>1, <1>2, <1>3, <1>6 DEF SubsInv, Covered
<1> QED BY <1>5, <1>7, <1>8, <1>9 DEF SubsInv

LEMMA NextSubs ==
  ASSUME SubsInv, [Next]_vars
  PROVE  SubsInv'
<1>0. AckInv' BY NextAcks DEF SubsInv
<1>1. CASE UNCHANGED vars
  <2>1. UNCHANGED <<type, subs, plan, delivery, seen>> BY <1>1 DEF vars
  <2>2. \A c \in Deliveries : KindFits(c)' BY <2>1 DEF KindFits, Type, Event, SubsInv
  <2>3. Settles /\ Keeps /\ StaysAlone
    BY <2>1 DEF Settles, Keeps, StaysAlone, SubsInv, Alone, Activations
  <2> QED BY <1>0, <2>1, <2>2, <2>3, SubsKept
<1>2. ASSUME NEW d \in Deliveries, Step(d) PROVE SubsInv'
  BY <1>0, <1>2, ClaimSubs, ActivateSubs, DeactivateSubs, CreateSubs, ChangeSubs DEF Step
<1> QED BY <1>0, <1>1, <1>2, DisturbSubs, PassSubs DEF Next

\* Two active subscriptions are the work of two activations that ran between
\* check and insert at once, or of news that called one active beside another.
THEOREM OneSubscription == Spec => []OneActiveSubscription
<1>1. Spec => []SubsInv BY InitSubs, NextSubs, PTL DEF Spec
<1>2. SubsInv => OneActiveSubscription
  <2> SUFFICES ASSUME SubsInv, ~seen.overlap, ~seen.revived
               PROVE  ~(Cardinality(ActiveRows) > 1)
    BY DEF OneActiveSubscription
  <2>1. \A i, j \in ActiveRows : i = j BY DEF SubsInv, OneActive
  <2>2. CASE ActiveRows = {} BY <2>2, FS_EmptySet
  <2>3. CASE ActiveRows # {}
    <3>1. PICK i \in ActiveRows : TRUE BY <2>3
    <3>2. ActiveRows = {i} BY <2>1, <3>1
    <3>3. Cardinality({i}) = 1 BY FS_Singleton
    <3> QED BY <3>2, <3>3
  <2> QED BY <2>2, <2>3
<1> QED BY <1>1, <1>2, PTL

\* A replayed checkout adds no second row for a subscription whose row has
\* neither ended nor fallen past due, unless two activations ran at once.
THEOREM ReplaySafe == Spec => []ReplayAddsNoRow
<1>1. Spec => []SubsInv BY InitSubs, NextSubs, PTL DEF Spec
<1>2. SubsInv => ReplayAddsNoRow
  <2> SUFFICES ASSUME SubsInv, ~seen.overlap, NEW sub \in Subs, sub \notin seen.ended
               PROVE  ~(Cardinality(RowsOf(sub)) > 1)
    BY DEF ReplayAddsNoRow
  <2>1. \A i, j \in RowsOf(sub) : i = j BY DEF SubsInv, RowsLive, RowsOf
  <2>2. CASE RowsOf(sub) = {} BY <2>2, FS_EmptySet
  <2>3. CASE RowsOf(sub) # {}
    <3>1. PICK i \in RowsOf(sub) : TRUE BY <2>3
    <3>2. RowsOf(sub) = {i} BY <2>1, <3>1
    <3>3. Cardinality({i}) = 1 BY FS_Singleton
    <3> QED BY <3>2, <3>3
  <2> QED BY <2>2, <2>3
<1> QED BY <1>1, <1>2, PTL

\* Unless two activations ran at once or the cron pass closed its row, an
\* acknowledged checkout has an active row of its subscription until that ends or
\* falls past due, and the plan is paid until some subscription does.
THEOREM PaidPlan == Spec => []PaidPlanIsCovered
<1>1. Spec => []SubsInv BY InitSubs, NextSubs, PTL DEF Spec
<1>2. SubsInv => PaidPlanIsCovered
  <2> SUFFICES ASSUME SubsInv, NEW e \in acked, type[e].kind = "checkout",
                      e \notin seen.swept, ~seen.overlap
               PROVE  /\ type[e].sub \notin seen.ended => RowsOf(type[e].sub) \cap ActiveRows # {}
                      /\ seen.ended = {} => plan = "paid"
    BY DEF PaidPlanIsCovered
  <2>1. e \in Stripe BY DEF SubsInv, AckInv, FitInv, Tables, Stripe
  <2>2. e \notin seen.unknown BY DEF SubsInv
  <2>3. e \in seen.applied
    BY <2>1, <2>2 DEF SubsInv, AckInv, AcknowledgedWasApplied
  <2>4. PICK i : i \in RowsOf(type[e].sub) BY <2>3 DEF SubsInv, Covered
  <2>5. type[e].sub \notin seen.ended => i \in ActiveRows
    BY <2>4 DEF SubsInv, RowsLive, RowsOf, ActiveRows
  <2>6. seen.ended = {} => plan = "paid" BY <2>4 DEF SubsInv, PlanPaid, RowsOf
  <2> QED BY <2>4, <2>5, <2>6
<1> QED BY <1>1, <1>2, PTL
=============================================================================
