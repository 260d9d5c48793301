--------------------------- MODULE WebhookEvents ---------------------------
(***************************************************************************)
(* The table webhook_events and its two users.  The Stripe receiver        *)
(* (processWebhookEvent) claims a row, applies the event and confirms the  *)
(* row; the receivers of the other providers only store a row, and the     *)
(* cron pass (processPendingEvents) acts on what is pending or failed.     *)
(*                                                                         *)
(* One tenant.  Every SQL statement is one step.  A sender repeats an      *)
(* event until it hears a 2xx, and may stop waiting for a slow answer.     *)
(***************************************************************************)
EXTENDS Naturals, FiniteSets, Sequences

CONSTANTS
  Events,       \* provider events, by their external id
  Subs,         \* Stripe subscriptions of the tenant
  Deliveries,   \* HTTP requests that carry an event
  Passes,       \* processes that run the cron pass
  MaxRetries,   \* MAX_RETRIES of the pass: 5
  Scenarios,    \* what each event is, with the bounds of the behaviour: how
                \* many statements fail or processes die, how many senders
                \* stop waiting for an answer, how often the pass runs
  None

Kinds == {"credits", "checkout", "updated", "deleted", "unpaid", "issue"}
StripeStatuses == {"active", "past_due", "canceled", "unpaid", "incomplete"}
EventTypes == [kind : Kinds, sub : Subs \cup {None}, stripe : StripeStatuses \cup {None}]

ASSUME WebhookConstants ==
  /\ MaxRetries \in Nat
  /\ \A s \in Scenarios :
       /\ s.type \in [Events -> EventTypes]
       /\ \A e \in Events : s.type[e].kind \notin {"credits", "issue"} => s.type[e].sub \in Subs
       /\ s.budget \in [faults : Nat, timeouts : Nat, passes : Nat]
  /\ None \notin Events \cup Subs

VARIABLES
  type,      \* what each event is; fixed
  row,       \* webhook_events: status and retry_count of each event's row
  subs,      \* subscriptions, in order of insertion
  plan,      \* organizations.plan
  effects,   \* credit rows, or what a rule makes, of each event
  delivery,  \* requests being handled
  pass,      \* cron passes being run
  acked,     \* the senders: events answered with a 2xx
  budget,    \* what is left of the bounds
  seen       \* history: what has happened to whom

vars == <<type, row, subs, plan, effects, delivery, pass, acked, budget, seen>>
billing == <<subs, plan, effects>>

NoRow == [status |-> "none", retries |-> 0]
NoDelivery == [pc |-> "off", event |-> None, waiting |-> FALSE]
NoPass == [pc |-> "off", todo |-> {}, event |-> None, retries |-> 0]
Fresh == [applied |-> {}, unknown |-> {}, swept |-> {}, ended |-> {},
          interrupted |-> {}, overlap |-> FALSE, revived |-> FALSE]

Init ==
  /\ \E s \in Scenarios : type = s.type /\ budget = s.budget
  /\ row = [e \in Events |-> NoRow]
  /\ subs = <<>>
  /\ plan = "trial"
  /\ effects = [e \in Events |-> 0]
  /\ delivery = [d \in Deliveries |-> NoDelivery]
  /\ pass = [p \in Passes |-> NoPass]
  /\ acked = {}
  /\ seen = Fresh

-----------------------------------------------------------------------------
(* Helpers *)

Stripe == {e \in Events : type[e].kind # "issue"}
Running == {d \in Deliveries : delivery[d].pc # "off"}
RowsOf(sub) == {i \in DOMAIN subs : subs[i].sub = sub}
ActiveRows == {i \in DOMAIN subs : subs[i].status = "active"}
WithStatus(rows, status) ==
  [i \in DOMAIN subs |-> IF i \in rows THEN [subs[i] EXCEPT !.status = status] ELSE subs[i]]

\* A request that is not in use, if any: which one it is means nothing.
Idle == CHOOSE d \in Deliveries : d \in Running => Running = Deliveries

Event(d) == delivery[d].event
Type(d)  == type[Event(d)]
At(d, pc) == delivery[d].pc = pc
GoTo(d, pc) == delivery' = [delivery EXCEPT ![d].pc = pc]
SetRow(e, status) == row' = [row EXCEPT ![e].status = status]

\* The answer leaves: a sender that still waits hears a 2xx.
Done(d) == delivery' = [delivery EXCEPT ![d] = NoDelivery]
Hears(d) == IF delivery[d].waiting THEN acked \cup {Event(d)} ELSE acked

\* Mutant: Stripe's own spelling goes into the column.
RawStatus(status) == status

\* Stripe's status of a subscription as the column holds it.
MappedStatus(status) ==
  CASE status \in {"past_due", "unpaid"} -> "past_due"
    [] status = "canceled" -> "cancelled"
    [] OTHER -> "active"

\* The organization is in the metadata of a checkout; any other event is
\* looked up by the subscription rows that name its Stripe subscription.
KnowsOrg(e) ==
  type[e].kind \in {"credits", "checkout", "issue"} \/ RowsOf(type[e].sub) # {}

\* Where applyWebhook starts.
FirstStep(kind) ==
  CASE kind = "credits" -> "grant"
    [] kind = "checkout" -> "check"
    [] kind = "deleted" -> "find"
    [] OTHER -> "status"

\* Activations between their look for a replay and their new row.
Activating == {"upgrade", "deactivate", "create"}
Activations == {d \in Deliveries : delivery[d].pc \in Activating}

-----------------------------------------------------------------------------
(* The senders *)

\* One attempt of an event at a time: the next when the last was not heard.
Deliver(e) == LET d == Idle IN
  /\ At(d, "off")
  /\ e \notin acked
  /\ ~\E c \in Running : Event(c) = e /\ delivery[c].waiting
  /\ delivery' = [delivery EXCEPT ![d] = [pc |-> IF e \in Stripe THEN "resolve" ELSE "lookup",
                                          event |-> e, waiting |-> TRUE]]
  /\ UNCHANGED <<type, row, billing, pass, acked, budget, seen>>

SenderTimesOut(d) ==
  /\ delivery[d].waiting
  /\ budget.timeouts > 0
  /\ delivery' = [delivery EXCEPT ![d].waiting = FALSE]
  /\ budget' = [budget EXCEPT !.timeouts = @ - 1]
  /\ UNCHANGED <<type, row, billing, pass, acked, seen>>

-----------------------------------------------------------------------------
(* processWebhookEvent: claim, apply, confirm *)

ResolveWebhookOrg(d) ==
  /\ At(d, "resolve")
  /\ IF KnowsOrg(Event(d))
     THEN GoTo(d, "insert") /\ UNCHANGED <<acked, seen>>
     ELSE /\ Done(d)
          /\ acked' = Hears(d)
          /\ seen' = [seen EXCEPT !.unknown = @ \cup {Event(d)}]
  /\ UNCHANGED <<type, row, billing, pass, budget>>

\* Mutant: the first delivery writes the row as if it were applied.
InsertProcessed(d) ==
  /\ At(d, "insert")
  /\ IF row[Event(d)].status = "none"
     THEN SetRow(Event(d), "processed") /\ GoTo(d, FirstStep(Type(d).kind))
     ELSE GoTo(d, "existing") /\ UNCHANGED row
  /\ UNCHANGED <<type, billing, pass, acked, budget, seen>>

InsertRow(d) ==
  /\ At(d, "insert")
  /\ IF row[Event(d)].status = "none"
     THEN SetRow(Event(d), "pending") /\ GoTo(d, FirstStep(Type(d).kind))
     ELSE GoTo(d, "existing") /\ UNCHANGED row
  /\ UNCHANGED <<type, billing, pass, acked, budget, seen>>

\* Mutant: a pending row is taken for a delivery that still runs.
RefusePending(d) ==
  /\ At(d, "existing")
  /\ CASE row[Event(d)].status = "processed" -> GoTo(d, "ok")
       [] row[Event(d)].status = "pending" -> Done(d)
       [] OTHER -> GoTo(d, "reopen")
  /\ UNCHANGED <<type, row, billing, pass, acked, budget, seen>>

ReadExisting(d) ==
  /\ At(d, "existing")
  /\ IF row[Event(d)].status = "processed" THEN GoTo(d, "ok") ELSE GoTo(d, "reopen")
  /\ UNCHANGED <<type, row, billing, pass, acked, budget, seen>>

Reopen(d) ==
  /\ At(d, "reopen")
  /\ row' = [row EXCEPT ![Event(d)] = [status |-> "pending", retries |-> @.retries + 1]]
  /\ GoTo(d, FirstStep(Type(d).kind))
  /\ UNCHANGED <<type, billing, pass, acked, budget, seen>>

\* The whole side effect of the event is in place.
Applied(d) == [seen EXCEPT !.applied = @ \cup {Event(d)}]

\* Mutant: credits without an idempotency key.
GrantUnkeyed(d) ==
  /\ At(d, "grant")
  /\ effects' = [effects EXCEPT ![Event(d)] = @ + 1]
  /\ GoTo(d, "audit")
  /\ seen' = Applied(d)
  /\ UNCHANGED <<type, row, subs, plan, pass, acked, budget>>

\* addPurchasedCredits: the unique key `stripe:<event>' lets one row in.
GrantCredits(d) ==
  /\ At(d, "grant")
  /\ effects' = [effects EXCEPT ![Event(d)] = IF @ = 0 THEN 1 ELSE @]
  /\ GoTo(d, "audit")
  /\ seen' = Applied(d)
  /\ UNCHANGED <<type, row, subs, plan, pass, acked, budget>>

\* Mutant: a replay is not looked for.
NeverActive(d) == FALSE

\* Mutant: a paid plan passes for an activation that was finished.
AlreadyPaid(d) == plan = "paid"

\* activateSubscription, in its four statements.
AlreadyActive(d) == RowsOf(Type(d).sub) \cap ActiveRows # {}

CheckReplay(d) ==
  /\ At(d, "check")
  /\ IF AlreadyActive(d)
     THEN GoTo(d, "confirm") /\ seen' = Applied(d)
     ELSE GoTo(d, "upgrade") /\ seen' = [seen EXCEPT !.overlap = @ \/ Activations # {}]
  /\ UNCHANGED <<type, row, billing, pass, acked, budget>>

UpgradeOrg(d) ==
  /\ At(d, "upgrade")
  /\ plan' = "paid"
  /\ GoTo(d, "deactivate")
  /\ UNCHANGED <<type, row, subs, effects, pass, acked, budget, seen>>

\* Mutant: the subscriptions before this one stay active.
DeactivateNone(d) ==
  /\ At(d, "deactivate")
  /\ GoTo(d, "create")
  /\ UNCHANGED <<type, row, billing, pass, acked, budget, seen>>

DeactivateOthers(d) ==
  /\ At(d, "deactivate")
  /\ subs' = WithStatus(ActiveRows, "cancelled")
  /\ seen' = [seen EXCEPT !.ended = @ \cup ({subs[i].sub : i \in ActiveRows} \ {Type(d).sub})]
  /\ GoTo(d, "create")
  /\ UNCHANGED <<type, row, plan, effects, pass, acked, budget>>

CreateSubscription(d) ==
  /\ At(d, "create")
  /\ subs' = Append(subs, [sub |-> Type(d).sub, status |-> "active"])
  /\ seen' = Applied(d)
  /\ GoTo(d, "audit")
  /\ UNCHANGED <<type, row, plan, effects, pass, acked, budget>>

\* History: a row is called active again while another is, or is being made.
Beside(rows) ==
  \E i \in rows \ ActiveRows : \/ \E j \in rows \cup ActiveRows : j # i
                               \/ \E c \in Deliveries : At(c, "create")

\* updateSubscriptionStatus and handlePaymentFailure: every row of the Stripe
\* subscription, whatever its status is.
UpdateStatus(d) ==
  LET rows == RowsOf(Type(d).sub)
      status == IF Type(d).kind = "unpaid" THEN "past_due"
                                           ELSE MappedStatus(Type(d).stripe)
  IN  /\ At(d, "status")
      /\ subs' = WithStatus(rows, status)
      /\ seen' = [Applied(d) EXCEPT
                    !.ended = IF status # "active" /\ rows \cap ActiveRows # {}
                              THEN @ \cup {Type(d).sub} ELSE @,
                    !.revived = @ \/ (status = "active" /\ Beside(rows))]
      /\ GoTo(d, "confirm")
      /\ UNCHANGED <<type, row, plan, effects, pass, acked, budget>>

\* cancelSubscription: one row of the subscription, whichever comes first.
CancelRow(d) ==
  /\ At(d, "find")
  /\ \E i \in RowsOf(Type(d).sub) :
       /\ subs' = WithStatus({i}, "cancelled")
       /\ seen' = [seen EXCEPT !.ended = IF i \in ActiveRows THEN @ \cup {subs[i].sub} ELSE @]
  /\ GoTo(d, "downgrade")
  /\ UNCHANGED <<type, row, plan, effects, pass, acked, budget>>

DowngradeOrg(d) ==
  /\ At(d, "downgrade")
  /\ plan' = "trial"
  /\ seen' = Applied(d)
  /\ GoTo(d, "audit")
  /\ UNCHANGED <<type, row, subs, effects, pass, acked, budget>>

AppendAudit(d) ==
  /\ At(d, "audit")
  /\ GoTo(d, "confirm")
  /\ UNCHANGED <<type, row, billing, pass, acked, budget, seen>>

Confirm(d) ==
  /\ At(d, "confirm")
  /\ SetRow(Event(d), "processed")
  /\ GoTo(d, "ok")
  /\ UNCHANGED <<type, billing, pass, acked, budget, seen>>

\* The catch block; the answer is a 500.
MarkFailed(d) ==
  /\ At(d, "fail")
  /\ SetRow(Event(d), "failed")
  /\ Done(d)
  /\ UNCHANGED <<type, billing, pass, acked, budget, seen>>

Answer(d) ==
  /\ At(d, "ok")
  /\ acked' = Hears(d)
  /\ Done(d)
  /\ UNCHANGED <<type, row, billing, pass, budget, seen>>

\* ingestWebhookEvent: the receivers of the other providers.
Lookup(d) ==
  /\ At(d, "lookup")
  /\ GoTo(d, IF row[Event(d)].status = "none" THEN "store" ELSE "ok")
  /\ UNCHANGED <<type, row, billing, pass, acked, budget, seen>>

\* The unique index refuses the second of two: that request is a 500.
Store(d) ==
  /\ At(d, "store")
  /\ IF row[Event(d)].status = "none"
     THEN SetRow(Event(d), "pending") /\ GoTo(d, "ok")
     ELSE Done(d) /\ UNCHANGED row
  /\ UNCHANGED <<type, billing, pass, acked, budget, seen>>

-----------------------------------------------------------------------------
(* processPendingEvents: the cron pass *)

\* It reads the rows of every provider.
Unsettled(e) == row[e].status \in {"pending", "failed"}

\* After each event the pass takes the next one, or ends.
Proceed(p, todo) ==
  pass' = [pass EXCEPT ![p] = [NoPass EXCEPT !.pc = IF todo = {} THEN "off" ELSE "next",
                                              !.todo = todo]]
Taken(p, t, pc) ==
  [pc |-> pc, todo |-> pass[p].todo \ {t}, event |-> t.event, retries |-> t.retries]

\* History: what another pass already has in hand.
InHand(p) == {t.event : t \in pass[p].todo}
             \cup IF pass[p].pc \in {"audit", "mark", "fail"}
                  THEN {pass[p].event} ELSE {}

ReadBatch(p) ==
  /\ pass[p].pc = "off"
  /\ budget.passes > 0
  /\ budget' = [budget EXCEPT !.passes = @ - 1]
  /\ Proceed(p, {[event |-> e, retries |-> row[e].retries] :
                    e \in {f \in Events : Unsettled(f)}})
  /\ seen' = [seen EXCEPT !.interrupted = @ \cup UNION {InHand(q) : q \in Passes \ {p}}]
  /\ UNCHANGED <<type, row, billing, delivery, acked>>

\* applyRule: a task, an approval request or a notification is inserted; what
\* is written about it follows.
ApplyRule(p) ==
  /\ pass[p].pc = "next"
  /\ \E t \in pass[p].todo :
       /\ t.event \notin Stripe
       /\ effects' = [effects EXCEPT ![t.event] = @ + 1]
       /\ pass' = [pass EXCEPT ![p] = Taken(p, t, "audit")]
  /\ UNCHANGED <<type, row, subs, plan, delivery, acked, budget, seen>>

AuditRule(p) ==
  /\ pass[p].pc = "audit"
  /\ pass' = [pass EXCEPT ![p].pc = "mark"]
  /\ UNCHANGED <<type, row, billing, delivery, acked, budget, seen>>

MarkProcessed(p) ==
  /\ pass[p].pc = "mark"
  /\ SetRow(pass[p].event, "processed")
  /\ Proceed(p, pass[p].todo)
  /\ UNCHANGED <<type, billing, delivery, acked, budget, seen>>

\* The rules are read anew for each event: no rule may name it, or one that
\* ignores it.  None can name Stripe (routes/events.ts:46).
CloseWithoutRule(p) ==
  /\ pass[p].pc = "next"
  /\ \E t \in pass[p].todo :
       /\ SetRow(t.event, "processed")
       /\ seen' = [seen EXCEPT !.swept = @ \cup {t.event}]
       /\ Proceed(p, pass[p].todo \ {t})
  /\ UNCHANGED <<type, billing, delivery, acked, budget>>

\* The retry count comes from the batch, not from the row.
MarkRetry(p) ==
  LET retries == pass[p].retries + 1
  IN  /\ pass[p].pc = "fail"
      /\ row' = [row EXCEPT ![pass[p].event] =
                   [status |-> IF retries >= MaxRetries THEN "dead" ELSE "failed",
                    retries |-> retries]]
      /\ Proceed(p, pass[p].todo)
      /\ UNCHANGED <<type, billing, delivery, acked, budget, seen>>

-----------------------------------------------------------------------------
(* Failing statements and processes that die *)

Applying == {"grant", "check", "upgrade", "deactivate", "create", "status", "find",
             "downgrade", "audit"}
Unguarded == {"resolve", "insert", "existing", "reopen", "confirm", "fail",
              "lookup", "store"}

\* Inside the try block: on to the catch.  Outside it: straight to the 500.
DeliveryFails(d) ==
  /\ budget.faults > 0
  /\ \/ delivery[d].pc \in Applying /\ GoTo(d, "fail")
     \/ delivery[d].pc \in Unguarded /\ Done(d)
  /\ budget' = [budget EXCEPT !.faults = @ - 1]
  /\ UNCHANGED <<type, row, billing, pass, acked, seen>>

Interrupt(p) ==
  IF pass[p].pc \in {"audit", "mark", "fail"}
  THEN [seen EXCEPT !.interrupted = @ \cup {pass[p].event}] ELSE seen

PassFails(p) ==
  /\ budget.faults > 0
  /\ \/ /\ pass[p].pc = "next"
        /\ \E t \in pass[p].todo : pass' = [pass EXCEPT ![p] = Taken(p, t, "fail")]
     \/ pass[p].pc \in {"audit", "mark"} /\ pass' = [pass EXCEPT ![p].pc = "fail"]
     \/ pass[p].pc = "fail" /\ pass' = [pass EXCEPT ![p] = NoPass]
  /\ budget' = [budget EXCEPT !.faults = @ - 1]
  /\ seen' = Interrupt(p)
  /\ UNCHANGED <<type, row, billing, delivery, acked>>

DeliveryDies(d) ==
  /\ d \in Running
  /\ budget.faults > 0
  /\ Done(d)
  /\ budget' = [budget EXCEPT !.faults = @ - 1]
  /\ UNCHANGED <<type, row, billing, pass, acked, seen>>

PassDies(p) ==
  /\ pass[p].pc # "off"
  /\ budget.faults > 0
  /\ pass' = [pass EXCEPT ![p] = NoPass]
  /\ budget' = [budget EXCEPT !.faults = @ - 1]
  /\ seen' = Interrupt(p)
  /\ UNCHANGED <<type, row, billing, delivery, acked>>

-----------------------------------------------------------------------------

Step(d) ==
  \/ ResolveWebhookOrg(d) \/ InsertRow(d) \/ ReadExisting(d) \/ Reopen(d)
  \/ GrantCredits(d)
  \/ CheckReplay(d) \/ UpgradeOrg(d) \/ DeactivateOthers(d) \/ CreateSubscription(d)
  \/ UpdateStatus(d) \/ CancelRow(d) \/ DowngradeOrg(d) \/ AppendAudit(d)
  \/ Confirm(d) \/ MarkFailed(d) \/ Answer(d)
  \/ Lookup(d) \/ Store(d)

PassStep(p) ==
  \/ ReadBatch(p) \/ ApplyRule(p) \/ AuditRule(p) \/ MarkProcessed(p)
  \/ CloseWithoutRule(p) \/ MarkRetry(p)

Next ==
  \/ \E e \in Events : Deliver(e)
  \/ \E d \in Deliveries :
       \/ Step(d) \/ SenderTimesOut(d) \/ DeliveryFails(d) \/ DeliveryDies(d)
  \/ \E p \in Passes : PassStep(p) \/ PassFails(p) \/ PassDies(p)

Spec == Init /\ [][Next]_vars

\* Requests run to their end, and a sender repeats what was not acknowledged.
\* The pass needs no fairness.
Fairness ==
  /\ \A d \in Deliveries : WF_vars(Step(d))
  /\ \A e \in Events : WF_vars(Deliver(e))

FairSpec == Spec /\ Fairness

-----------------------------------------------------------------------------
(* Properties *)

DeliveryPcs == {"off", "resolve", "insert", "existing", "reopen", "confirm", "fail", "ok",
                "lookup", "store"} \cup Applying
PassPcs == {"off", "next", "audit", "mark", "fail"}

RowType == [status : {"none", "pending", "failed", "dead", "processed"}, retries : Nat]
SubscriptionType == [sub : Subs, status : {"active", "past_due", "cancelled"}]
DeliveryType == [pc : DeliveryPcs, event : Events \cup {None}, waiting : BOOLEAN]
PassType == [pc : PassPcs, todo : SUBSET [event : Events, retries : Nat],
             event : Events \cup {None}, retries : Nat]

\* Every variable holds a value of its type.
TypeOK ==
  /\ type \in [Events -> EventTypes]
  /\ row \in [Events -> RowType]
  /\ subs \in Seq(SubscriptionType)
  /\ plan \in {"trial", "paid"}
  /\ effects \in [Events -> Nat]
  /\ delivery \in [Deliveries -> DeliveryType]
  /\ pass \in [Passes -> PassType]
  /\ acked \subseteq Events

\* What a sender was told is done is done: an issue has its row, a Stripe
\* event was applied in full, or its organization was not known, or the cron
\* pass had closed its row (billing.ts:459-474).
AcknowledgedWasApplied ==
  \A e \in acked :
    IF e \in Stripe THEN e \in seen.applied \cup seen.unknown \cup seen.swept
                    ELSE row[e].status # "none"

\* Credits are granted once for an event, however often it is delivered and
\* whatever runs beside it; a task is created twice for an issue only when a
\* pass was stopped half way through it or another pass had it in hand
\* (schema.ts:968-972).
EffectsOncePerEvent ==
  \A e \in Events : effects[e] > 1 => e \notin Stripe /\ e \in seen.interrupted

\* The tenant has two active subscriptions only after two activations ran
\* between their check and their insert at once, or after Stripe called one
\* active again beside another: the activation ends what came before, whatever
\* was lost or repeated (billing.ts:699-703).
OneActiveSubscription ==
  Cardinality(ActiveRows) > 1 => seen.overlap \/ seen.revived

\* A checkout that is delivered again adds no second row for its Stripe
\* subscription, unless the first row had ended or fallen past due, or two
\* activations ran at once (billing.ts:682-685).
ReplayAddsNoRow ==
  \A sub \in Subs :
    Cardinality(RowsOf(sub)) > 1 => seen.overlap \/ sub \in seen.ended

\* An activation that stops between its statements is not lost: a checkout that
\* was acknowledged has an active row of its own subscription as long as nothing
\* ended it, and the plan is paid as long as nothing ended any.  The cases of a
\* row closed by the cron pass and of two activations at once are excepted
\* (billing.ts:465-470).
PaidPlanIsCovered ==
  \A e \in acked :
    type[e].kind = "checkout" /\ e \notin seen.swept /\ ~seen.overlap =>
      /\ type[e].sub \notin seen.ended => RowsOf(type[e].sub) \cap ActiveRows # {}
      /\ seen.ended = {} => plan = "paid"

\* Every event is acknowledged in the end, after whatever failed, died or was
\* not heard: no row a delivery left behind blocks the next one.
EveryEventAcknowledged == \A e \in Events : <>(e \in acked)

\* Violated.  A Stripe event is acknowledged only when it has been applied, or
\* when nobody's organization is behind it (billing.ts:465-469).
AcknowledgedIsApplied ==
  \A e \in acked \cap Stripe : e \in seen.applied \cup seen.unknown

=============================================================================
