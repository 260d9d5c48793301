---------------------------- MODULE CreditLedger ----------------------------
(***************************************************************************)
(* The Work Credits ledger of one organization (services/credits.ts) and   *)
(* the calls that move money: an execution that reserves its estimate and  *)
(* later settles or releases it, a direct charge, a grant of credits, a    *)
(* refund, and the workers' sweep of overdue holds.                        *)
(*                                                                         *)
(* Each of these calls reads first (getOrCreateBalance, statement by       *)
(* statement) and then runs one transaction of guarded increments; the     *)
(* transaction is one step, everything before it interleaves.  Time is the *)
(* number of the calendar month the balance rows are keyed by.             *)
(***************************************************************************)
EXTENDS Integers, FiniteSets

CONSTANTS
  Runs,        \* executions: reserve, work, then settle or release
  Charges,     \* direct charges: a tool call, or the consume route
  Grants,      \* deliveries that add credits: payment webhooks, adjustments
  Sweepers,    \* worker processes, whose tick sweeps overdue holds
  Viewers,     \* requests that only read the balance
  HoldOf,      \* the estimate a run reserves
  CostOf,      \* the price of a direct charge
  CreditsOf,   \* what a grant adds (an adjustment may be negative)
  KeyOf,       \* idempotency key of a grant or a charge, None for no key
  Keys,        \* idempotency keys
  Included,    \* the plan's monthly credits
  LastMonth,   \* bound: months elapse up to this one
  MaxActual,   \* bound: the measured cost of a run
  MaxCrashes,  \* bound: crashed processes and rolled back transactions
  None

Months == 0..LastMonth
Payers == Runs \cup Charges
Procs  == Runs \cup Charges \cup Grants \cup Sweepers \cup Viewers

ASSUME LedgerConstants ==
  /\ {Included, LastMonth, MaxActual, MaxCrashes} \subseteq Nat
  /\ HoldOf \in [Runs -> Nat]
  /\ CostOf \in [Charges -> Nat \ {0}]
  /\ CreditsOf \in [Grants -> Int]
  /\ KeyOf \in [Grants \cup Charges -> Keys \cup {None}]
  /\ None \notin Keys \cup Procs
  /\ Keys \cap Charges = {}
  /\ Runs \cap (Charges \cup Grants \cup Sweepers \cup Viewers) = {}
  /\ Charges \cap (Grants \cup Sweepers \cup Viewers) = {}
  /\ Grants \cap (Sweepers \cup Viewers) = {}
  /\ Sweepers \cap Viewers = {}

VARIABLES
  month,    \* the clock
  sub,      \* subscriptions.current_period_end, as the month it ends
  bal,      \* credit_balances, at most one row per month
  hold,     \* credit_reservations, one per run
  ledger,   \* credit_transactions, summed per month and type
  keys,     \* idempotency keys the ledger holds (a refund's is its charge)
  call,     \* what each process is in the middle of
  rows,     \* history: ledger rows each process has added, refunds aside
  crashes   \* what is left of MaxCrashes

vars == <<month, sub, bal, hold, ledger, keys, call, rows, crashes>>

Ended == {"settled", "released", "expired"}

-----------------------------------------------------------------------------
(* Rows *)

NoRow == [exists |-> FALSE, purchased |-> 0, used |-> 0, reserved |-> 0]
FreshRow == [exists |-> TRUE, purchased |-> 0, used |-> 0, reserved |-> 0]

Total(row) == Included + row.purchased
Floor(n) == IF n < 0 THEN 0 ELSE n
Available(row) == Floor(Total(row) - row.used - row.reserved)

NoCheck(row, cost) == TRUE
\* The guard in the WHERE clause of a reservation and of a direct charge.
Covers(row, cost) == row.used + row.reserved + cost <= Total(row)

\* gte(period_start, <what the call read>): the rows its update reaches.
RowsSince(m) == {k \in Months : bal[k].exists /\ k >= m}

EmptyBook == [usage |-> 0, refund |-> 0, supply |-> 0, rollover |-> 0]

Idle == [pc |-> "off", op |-> "none", now |-> 0, run |-> None, actual |-> 0]

NoKeyIndex(k) == FALSE
\* The partial unique index on (org, idempotency_key).
KeyTaken(k) == k # None /\ k \in keys

Init ==
  /\ month = 0
  /\ sub = 0
  /\ bal = [m \in Months |-> NoRow]
  /\ hold = [r \in Runs |-> [status |-> "none", overdue |-> FALSE]]
  /\ ledger = [m \in Months |-> EmptyBook]
  /\ keys = {}
  /\ call = [p \in Procs |-> Idle]
  /\ rows = [p \in Payers \cup Grants |-> 0]
  /\ crashes = MaxCrashes

-----------------------------------------------------------------------------
(* How calls start and end *)

Goto(p, pc) == call' = [call EXCEPT ![p].pc = pc]

\* A call opens with getOrCreateBalance, which takes the time once.
Open(p, op, r, actual) ==
  call' = [call EXCEPT ![p] = [pc |-> "sub", op |-> op, now |-> month,
                               run |-> r, actual |-> actual]]

\* A run happens once; a charge without a key is not sent again; a webhook, a
\* keyed charge, a tick and a page view come back as often as they like.
Rest(p) ==
  IF p \in Runs \/ (p \in Charges /\ KeyOf[p] = None) THEN "done" ELSE "off"
Finish(p) == call' = [call EXCEPT ![p].pc = Rest(p), ![p].op = "none"]

\* Only the settlement of a run records that it could not bill.
Refuse(p) ==
  IF p \in Runs /\ call[p].op = "consume" THEN Goto(p, "unbilled") ELSE Finish(p)

MoneyUnchanged == UNCHANGED <<hold, keys, rows, crashes>>

-----------------------------------------------------------------------------
(* getOrCreateBalance *)

\* The subscription is read; one whose period is over rolls over.
ReadSub(p) ==
  /\ call[p].pc = "sub"
  /\ Goto(p, IF sub < call[p].now THEN "roll" ELSE "read")
  /\ UNCHANGED <<month, sub, bal, ledger>> /\ MoneyUnchanged

RollSub(p) ==
  /\ call[p].pc = "roll"
  /\ sub' = call[p].now
  /\ Goto(p, "probe")
  /\ UNCHANGED <<month, bal, ledger>> /\ MoneyUnchanged

ProbeRow(p) ==
  /\ call[p].pc = "probe"
  /\ Goto(p, IF RowsSince(call[p].now) = {} THEN "allocate" ELSE "read")
  /\ UNCHANGED <<month, sub, bal, ledger>> /\ MoneyUnchanged

\* onConflictDoNothing on the unique (org, period_start) index.
InsertRow(m) == IF bal[m].exists THEN bal ELSE [bal EXCEPT ![m] = FreshRow]

AllocateRow(p) ==
  /\ call[p].pc = "allocate"
  /\ bal' = InsertRow(call[p].now)
  /\ Goto(p, "log")
  /\ UNCHANGED <<month, sub, ledger>> /\ MoneyUnchanged

\* The rollover row is written whether or not the insert before it was.
LogRollover(p) ==
  /\ call[p].pc = "log"
  /\ ledger' = [ledger EXCEPT ![month].rollover = @ + Included]
  /\ Goto(p, "read")
  /\ UNCHANGED <<month, sub, bal>> /\ MoneyUnchanged

\* What a direct charge costs; a run that lost its hold pays what it measured.
Price(p) == IF p \in Charges THEN CostOf[p] ELSE call[p].actual

\* What the caller does with the balance it was handed.
Judge(p, row) ==
  CASE call[p].op = "view" -> Finish(p)
    [] call[p].op = "consume" /\ Available(row) < Price(p) -> Refuse(p)
    [] call[p].op = "reserve" /\ Available(row) < HoldOf[p] -> Refuse(p)
    [] OTHER -> Goto(p, "tx")

ReadRow(p) ==
  LET m == call[p].now IN
  /\ call[p].pc = "read"
  /\ IF bal[m].exists THEN Judge(p, bal[m]) ELSE Goto(p, "create")
  /\ UNCHANGED <<month, sub, bal, ledger>> /\ MoneyUnchanged

\* The insert, or when it conflicts the re-read of the winner's row.
CreateRow(p) ==
  LET m == call[p].now IN
  /\ call[p].pc = "create"
  /\ bal' = InsertRow(m)
  /\ Judge(p, bal'[m])
  /\ UNCHANGED <<month, sub, ledger>> /\ MoneyUnchanged

GetOrCreateBalance(p) ==
  \/ ReadSub(p) \/ RollSub(p) \/ ProbeRow(p) \/ AllocateRow(p)
  \/ LogRollover(p) \/ ReadRow(p) \/ CreateRow(p)

-----------------------------------------------------------------------------
(* reserveCredits *)

StartRun(r) ==
  /\ call[r].pc = "off"
  /\ Open(r, "reserve", r, 0)
  /\ UNCHANGED <<month, sub, bal, ledger>> /\ MoneyUnchanged

ReserveTx(r) ==
  LET e == HoldOf[r]
      reached == {m \in RowsSince(call[r].now) : Covers(bal[m], e)}
  IN
  /\ call[r].pc = "tx" /\ call[r].op = "reserve"
  /\ IF reached = {}
     THEN Refuse(r) /\ UNCHANGED <<bal, hold>>
     ELSE /\ bal' = [m \in Months |->
                       IF m \in reached
                       THEN [bal[m] EXCEPT !.reserved = @ + e] ELSE bal[m]]
          /\ hold' = [hold EXCEPT ![r].status = "active"]
          /\ Goto(r, "work")
  /\ UNCHANGED <<month, sub, ledger, keys, rows, crashes>>

-----------------------------------------------------------------------------
(* The run measures its cost; no measured cost, or a lost fence: release *)

Work(r, actual) ==
  /\ call[r].pc = "work"
  /\ call' = [call EXCEPT ![r].pc = "fetch", ![r].actual = actual,
                          ![r].op = IF actual > 0 THEN "settle" ELSE "release"]
  /\ UNCHANGED <<month, sub, bal, ledger>> /\ MoneyUnchanged

NotYetOverdue(r) == hold[r].status = "active" /\ ~hold[r].overdue
\* expires_at < now, on a reservation still active.
Overdue(r) == hold[r].status = "active" /\ hold[r].overdue

\* expireStaleReservations: pick an overdue hold, then finalizeRelease.
PickOverdue(w, r) ==
  /\ call[w].pc = "off"
  /\ Overdue(r)
  /\ call' = [call EXCEPT ![w].pc = "fetch", ![w].op = "release", ![w].run = r]
  /\ UNCHANGED <<month, sub, bal, ledger>> /\ MoneyUnchanged

\* A settle that finds its hold swept or released charges directly.
AfterDuplicate(p, status) ==
  IF call[p].op = "settle" /\ status \in {"released", "expired"}
  THEN Open(p, "consume", call[p].run, call[p].actual)
  ELSE Finish(p)

\* settleReservation and finalizeRelease read the reservation first.
FetchHold(p) ==
  LET status == hold[call[p].run].status IN
  /\ call[p].pc = "fetch"
  /\ IF status = "active" THEN Open(p, call[p].op, call[p].run, call[p].actual)
                          ELSE AfterDuplicate(p, status)
  /\ UNCHANGED <<month, sub, bal, ledger>> /\ MoneyUnchanged

UnclaimedHold(r) == TRUE
\* The status transition is the arbiter of settle, release and expiry.
HoldIsActive(r) == hold[r].status = "active"

Unfloored(row, e, spent) ==
  [row EXCEPT !.used = @ + spent, !.reserved = @ - e]
FreesWhatWasSpent(row, e, spent) ==
  [row EXCEPT !.used = @ + spent, !.reserved = Floor(@ - spent)]
ChargesTheEstimate(row, e, spent) ==
  [row EXCEPT !.used = @ + e, !.reserved = Floor(@ - e)]
\* What a settle (or, with nothing spent, a release) does to a balance row.
EndHoldInRow(row, e, spent) ==
  [row EXCEPT !.used = @ + spent, !.reserved = Floor(@ - e)]

EndHold(p, status, spent) ==
  LET r == call[p].run IN
  /\ hold' = [hold EXCEPT ![r].status = status]
  /\ bal' = [m \in Months |->
               IF m \in RowsSince(call[p].now)
               THEN EndHoldInRow(bal[m], HoldOf[r], spent) ELSE bal[m]]

\* Hard stop: no more than the estimate is billed.
Billable(r, actual) == IF actual > HoldOf[r] THEN HoldOf[r] ELSE actual

\* When another call ended the hold first, zero rows come back and the settle
\* reports a duplicate with status `settled', whatever ended the hold.
SettleTx(r) ==
  LET spent == Billable(r, call[r].actual) IN
  /\ call[r].pc = "tx" /\ call[r].op = "settle"
  /\ IF HoldIsActive(r)
     THEN /\ EndHold(r, "settled", spent)
          /\ ledger' = [ledger EXCEPT ![month].usage = @ + spent]
          /\ rows' = IF spent > 0 THEN [rows EXCEPT ![r] = @ + 1] ELSE rows
          /\ Finish(r)
     ELSE AfterDuplicate(r, "settled") /\ UNCHANGED <<bal, hold, ledger, rows>>
  /\ UNCHANGED <<month, sub, keys, crashes>>

ReleaseTx(p) ==
  /\ call[p].pc = "tx" /\ call[p].op = "release"
  /\ IF HoldIsActive(call[p].run)
     THEN EndHold(p, IF p \in Sweepers THEN "expired" ELSE "released", 0)
     ELSE UNCHANGED <<bal, hold>>
  /\ Finish(p)
  /\ UNCHANGED <<month, sub, ledger, keys, rows, crashes>>

-----------------------------------------------------------------------------
(* consumeCredits: ledger row, guarded debit and audit, or none of them *)

StartCharge(c) ==
  /\ call[c].pc = "off"
  /\ Open(c, "consume", None, 0)
  /\ UNCHANGED <<month, sub, bal, ledger>> /\ MoneyUnchanged

ChargeKey(p) == IF p \in Charges THEN KeyOf[p] ELSE None

ConsumeTx(p) ==
  LET cost == Price(p)
      reached == {m \in RowsSince(call[p].now) : Covers(bal[m], cost)}
  IN
  /\ call[p].pc = "tx" /\ call[p].op = "consume"
  /\ IF KeyTaken(ChargeKey(p)) \/ reached = {}
     THEN /\ IF KeyTaken(ChargeKey(p)) THEN Finish(p) ELSE Refuse(p)
          /\ UNCHANGED <<bal, ledger, keys, rows>>
     ELSE /\ bal' = [m \in Months |->
                       IF m \in reached
                       THEN [bal[m] EXCEPT !.used = @ + cost] ELSE bal[m]]
          /\ ledger' = [ledger EXCEPT ![month].usage = @ + cost]
          /\ keys' = keys \cup ({ChargeKey(p)} \ {None})
          /\ rows' = [rows EXCEPT ![p] = @ + 1]
          /\ Finish(p)
  /\ UNCHANGED <<month, sub, hold, crashes>>

-----------------------------------------------------------------------------
(* addPurchasedCredits and adjustCredits; refundCredits *)

StartGrant(g) ==
  /\ call[g].pc = "off"
  /\ Open(g, "grant", None, 0)
  /\ UNCHANGED <<month, sub, bal, ledger>> /\ MoneyUnchanged

GrantTx(g) ==
  /\ call[g].pc = "tx" /\ call[g].op = "grant"
  /\ IF KeyTaken(KeyOf[g])
     THEN UNCHANGED <<bal, ledger, keys, rows>>
     ELSE /\ bal' = [m \in Months |->
                       IF m \in RowsSince(call[g].now)
                       THEN [bal[m] EXCEPT !.purchased = @ + CreditsOf[g]] ELSE bal[m]]
          /\ ledger' = [ledger EXCEPT ![month].supply = @ + CreditsOf[g]]
          /\ keys' = keys \cup ({KeyOf[g]} \ {None})
          /\ rows' = [rows EXCEPT ![g] = @ + 1]
  /\ Finish(g)
  /\ UNCHANGED <<month, sub, hold, crashes>>

\* A settled direct charge is given back, keyed by the charge.
StartRefund(c) ==
  /\ call[c].pc = Rest(c)
  /\ rows[c] > 0
  /\ Open(c, "refund", None, 0)
  /\ UNCHANGED <<month, sub, bal, ledger>> /\ MoneyUnchanged

RefundTx(c) ==
  /\ call[c].pc = "tx" /\ call[c].op = "refund"
  /\ IF KeyTaken(c)
     THEN UNCHANGED <<bal, ledger, keys>>
     ELSE /\ bal' = [m \in Months |->
                       IF m \in RowsSince(call[c].now)
                       THEN [bal[m] EXCEPT !.used = Floor(@ - CostOf[c])] ELSE bal[m]]
          /\ ledger' = [ledger EXCEPT ![month].refund = @ + CostOf[c]]
          /\ keys' = keys \cup {c}
  /\ Finish(c)
  /\ UNCHANGED <<month, sub, hold, rows, crashes>>

StartView(v) ==
  /\ call[v].pc = "off"
  /\ Open(v, "view", None, 0)
  /\ UNCHANGED <<month, sub, bal, ledger>> /\ MoneyUnchanged

-----------------------------------------------------------------------------
(* Time and failure *)

HoldExpires(r) ==
  /\ hold[r].status = "active" /\ ~hold[r].overdue
  /\ hold' = [hold EXCEPT ![r].overdue = TRUE]
  /\ UNCHANGED <<month, sub, bal, ledger, keys, call, rows, crashes>>

NextMonth ==
  /\ month < LastMonth
  /\ month' = month + 1
  /\ UNCHANGED <<sub, bal, hold, ledger, keys, call, rows, crashes>>

\* The process dies, or its statement fails and the transaction is rolled
\* back.  A worker ticks again, a webhook is delivered again.
Crash(p) ==
  /\ call[p].pc \notin {"off", "done", "unbilled", "crashed"}
  /\ crashes > 0
  /\ crashes' = crashes - 1
  /\ Goto(p, IF p \in Runs THEN "crashed" ELSE Rest(p))
  /\ UNCHANGED <<month, sub, bal, hold, ledger, keys, rows>>

-----------------------------------------------------------------------------

RunStep(r) ==
  \/ GetOrCreateBalance(r) \/ ReserveTx(r) \/ FetchHold(r) \/ SettleTx(r)
  \/ ReleaseTx(r) \/ ConsumeTx(r)
  \/ \E actual \in 0..MaxActual : Work(r, actual)

SweepStep(w) ==
  \/ \E r \in Runs : PickOverdue(w, r)
  \/ GetOrCreateBalance(w) \/ FetchHold(w) \/ ReleaseTx(w)

ChargeStep(c) ==
  StartCharge(c) \/ StartRefund(c) \/ GetOrCreateBalance(c) \/ ConsumeTx(c) \/ RefundTx(c)

GrantStep(g) == StartGrant(g) \/ GetOrCreateBalance(g) \/ GrantTx(g)

ViewStep(v) == StartView(v) \/ GetOrCreateBalance(v)

Next ==
  \/ \E r \in Runs : StartRun(r) \/ RunStep(r) \/ HoldExpires(r)
  \/ \E w \in Sweepers : SweepStep(w)
  \/ \E c \in Charges : ChargeStep(c)
  \/ \E g \in Grants : GrantStep(g)
  \/ \E v \in Viewers : ViewStep(v)
  \/ \E p \in Procs : Crash(p)
  \/ NextMonth

Spec == Init /\ [][Next]_vars

\* The workers' interval keeps firing and their statements return; deadlines
\* pass.  Nothing is asked of runs: they may hang or die.
Fairness ==
  /\ \A w \in Sweepers : WF_vars(SweepStep(w))
  /\ \A r \in Runs : WF_vars(HoldExpires(r))

FairSpec == Spec /\ Fairness

-----------------------------------------------------------------------------
(* Properties *)

RowType == [exists : BOOLEAN, purchased : Int, used : Nat, reserved : Nat]
HoldType == [status : {"none", "active"} \cup Ended, overdue : BOOLEAN]
BookType == [usage : Nat, refund : Nat, supply : Int, rollover : Nat]
Pcs == {"off", "sub", "roll", "probe", "allocate", "log", "read", "create",
        "tx", "work", "fetch", "done", "unbilled", "crashed"}
Ops == {"none", "reserve", "settle", "release", "consume", "grant", "refund", "view"}
CallType == [pc : Pcs, op : Ops, now : Months, run : Runs \cup {None}, actual : Nat]

\* Type correctness; above all no aggregate ever goes negative.
TypeOK ==
  /\ month \in Months /\ sub \in Months
  /\ bal \in [Months -> RowType]
  /\ hold \in [Runs -> HoldType]
  /\ ledger \in [Months -> BookType]
  /\ keys \subseteq Keys \cup Charges
  /\ call \in [Procs -> CallType]
  /\ rows \in [Payers \cup Grants -> Nat]
  /\ crashes \in Nat

\* The credits under active reservations, counted one by one.
ActiveHolds == {r \in Runs : hold[r].status = "active"}
HeldCredits(S) == UNION {{r} \X (1..HoldOf[r]) : r \in S}
Held == Cardinality(HeldCredits(ActiveHolds))

\* The column reserved_credits is the sum of the active reservations, however
\* settles, releases, sweeps and replays race.  (Within one month.)
HoldsAreBacked == bal[0].reserved = Held

\* What is used and what is held never exceed the credits there are, although
\* every caller checked a balance that may be stale.  (Within one month.)
NoOverspend == bal[0].used + bal[0].reserved <= Total(bal[0])

\* reconcileLedger reports no drift on the spending side: the balance is the
\* sum of the usage and refund rows.  (Within one month.)
UsedMatchesLedger == bal[0].used = ledger[0].usage - ledger[0].refund

\* Of all deliveries under one idempotency key one writes a ledger row, and a
\* run is billed once: by its settlement or by the direct charge after it.
AppliedOnce ==
  /\ \A p, q \in Charges \cup Grants :
       /\ KeyOf[p] # None /\ KeyOf[p] = KeyOf[q]
       /\ rows[p] > 0 /\ rows[q] > 0
       => p = q /\ rows[p] = 1
  /\ \A r \in Runs : rows[r] <= 1

\* A reservation ends once: what a settle, a release or the sweep made of it
\* is never rewritten by another of them.
HoldEndsOnce ==
  [][\A r \in Runs :
       /\ hold[r].status \in Ended => hold'[r].status = hold[r].status
       /\ hold'[r].status \in Ended => hold[r].status # "none"]_vars

\* A hold is always given back or spent in the end, though its run hang or die.
HoldsEnd == \A r \in Runs : hold[r].status = "active" ~> hold[r].status \in Ended

\* What the comment on the settlement says: a run that measured a cost and
\* finished is billed (or has recorded that it could not be).
WorkIsBilled ==
  \A r \in Runs : call[r].pc = "done" /\ call[r].actual > 0 => rows[r] > 0

\* What the comment on reserveCredits says: reservations cannot over-commit.
\* It fails across months; see README.md for the instance.
NeverOverCommitted ==
  \A m \in Months : bal[m].exists => bal[m].used + bal[m].reserved <= Total(bal[m])
-----------------------------------------------------------------------------
(* What the ledger promises: CreditAccount *)

\* A run whose hold was swept or released is paid when it has a ledger row.
StageOf(r) ==
  CASE hold[r].status = "none"    -> "none"
    [] hold[r].status = "active"  -> "held"
    [] hold[r].status = "settled" -> "settled"
    [] OTHER                      -> IF rows[r] > 0 THEN "paid" ELSE "freed"

\* The account is read off the ledger rows and the reservations alone; the
\* guards of the code read the balance row.
Account == INSTANCE CreditAccount WITH
  credits <- Included + ledger[0].supply,
  spent   <- ledger[0].usage - ledger[0].refund,
  stage   <- [r \in Runs |-> StageOf(r)],
  made    <- {c \in Charges : rows[c] > 0},
  applied <- keys

\* The calls of credits.ts, each many statements long, read stale, repeated and
\* cut short, leave ledger rows as if each were one step on one account, taken
\* at most once and only if the credits are there.  (Within one month.)
ImplementsAccount == Account!Spec
=============================================================================
