# ORQ8: specifications and proofs

ORQ8 is a TypeScript monorepo for an "AI organization": agents execute tasks,
founders approve what agents may not decide alone, and every model call is paid
from a credit ledger. This directory holds TLA+ modules for the parts of it in
which several processes share state, the TLC configurations that check them on
small instances, and proofs, checked by TLAPS, that hold for every instance.

| Module | Models | Checked by | Proved in |
| --- | --- | --- | --- |
| `JobQueue` | the table `agent_jobs`, its producers and consumers | `JobQueueFence`, `JobQueueLiveness` | `JobQueueProofs`, `JobQueueCapProofs` |
| `LeaseQueue` | what the queue promises, without rows | as a property of `JobQueueFence` and `TaskFence` | `JobQueueRefinement`, `TaskExecutionProofs` |
| `CreditLedger` | balances, reservations and ledger rows of one organization | `CreditPeriod`, `CreditRollover`, `CreditUnbilled` | `CreditLedgerProofs` |
| `CreditAccount` | what the ledger promises, without balance rows and with single-step operations | as a property of `CreditPeriod` | `CreditLedgerProofs` |
| `TaskExecution` | one task row, the runs that work on it, its approvals | `TaskFence`, `TaskLiveness`, `TaskStranded` | `TaskExecutionProofs` |
| `ProviderCalls` | calls to model providers: fallback chain, concurrency gates, circuit breaker | `ProviderSlots` | `ProviderProofs` |
| `Access` | memberships, sessions and the cache in front of them | `AccessBounded` | `AccessProofs` |
| `WebhookEvents` | `webhook_events`: the Stripe receiver, the other receivers, the cron pass; subscriptions | `WebhookSettles`, `WebhookSwept` | `WebhookProofs` |

The `MC` modules only give constants their values and name the symmetries.
`PROJECT.json` maps every definition to the lines it models. Run TLC as
`tlc -config JobQueueFence.cfg MCJobQueue`, and TLAPS as `tlapm JobQueueProofs.tla`.

## 1. The system

### Components, their state and their operations

| Component | State | Operations | Correct when |
| --- | --- | --- | --- |
| **Job queue** (`services/jobs.ts`, `services/job-worker.ts`) | rows of `agent_jobs` | enqueue, claim (`SKIP LOCKED`), preflight, run, four guarded settles, stale-lock reaper, operator retry | one open job per task; only the latest claim settles; settled rows stay so; every job settles |
| **Worker process** (`apps/worker`) | none of its own | drives the queue's tick; reaps, sweeps, expires gates | its death loses nothing |
| **Credit ledger** (`services/credits.ts`) | `subscriptions`, `credit_balances`, `credit_reservations`, `credit_transactions` | roll-over, reserve, settle, release, expire, consume, grant, refund | holds are backed and end once; nothing billed twice; no overspending; balance equals ledger |
| **Task execution** (`services/task-executor.ts`) | `tasks.status`, `execution_lock`, `execution_heartbeat_at` | claim, governance checks, reserve, model rounds, tools, fenced terminal write, orphan reaper, edits | only the owner writes; a discarded run is free; no row stays `in_progress` |
| **Approvals** (`services/approvals.ts`, `routes/approvals.ts`) | rows of `approvals` | raise, find, decide, spend, expire; the decision's effect on task and queue | one open question; work only on a yes; a yes serves the call it was for |
| **Command budget** (`services/ea-execution-budget.ts`) | a timer per task of a command | race the run against its slice, put a deferred task back | deferral revokes the run |
| **Tool registry** (`services/tool-registry.ts`) | approvals, cached results, charges | authorize, run with timeout and retry, charge | an effect happens once per authorization and is charged once |
| **Provider calls** (`services/llm.ts`, `concurrency-gate.ts`, `circuit-breaker.ts`, `provider-health.ts`) | in-memory slots, waiters, circuits | acquire, call, release, record | slots are never lost or given twice; waiters are served in order; a call ends |
| **Audit chain** (`services/audit.ts`) | `audit_log` with hashes | append under an advisory lock, verify | one chain without forks |
| **HTTP idempotency** (`plugins/idempotency.ts`) | stored responses | look up, run, store | one effect per key |
| **Sessions** (`services/sessions.ts`, `plugins/auth.ts`) | `sessions` and their cache | create, look up, revoke | what was revoked is usable for a bounded time only |
| **Brute-force guard** (`plugins/brute-force.ts`) | counters per account and address | count, lock, clear | a locked account stays locked for its time |
| **Emergency stop** (`services/emergency-stop.ts`) | flags of an organization | engage, lift | nothing starts while engaged |
| **Billing and webhooks** (`services/billing.ts`, `services/webhooks.ts`, `services/rule-engine.ts`) | `webhook_events`, subscriptions, plan | claim, apply, confirm; store; the cron pass with its rules and retries | what is acknowledged was applied, and once; one active subscription |
| **Members, invitations, deletion** | memberships, invitations | invite, accept, remove, delete | always an owner; an invitation is used once |
| **Everything else** (web console, CRUD routes, scoring and planning services, authentication library) | rows written singly | reads and single writes | no concurrency of its own |

### How they interact

A client's request, a command of the executive agent, a batch or a queued job
calls `executeTask`. It claims the task row, asks the agent's profile, the
estimator and the ledger, and may stop for an approval. A decision on that
approval writes the task and enqueues a job; the route then drains the queue
once in its own process. The run reserves credits, calls the model, may call
tools (which may stop for approvals of their own), writes the result under its
fence, and settles or releases its reservation. Worker ticks reap stale jobs,
expire gates, sweep overdue reservations and reap orphaned executions. A model
call passes two concurrency gates and a circuit breaker, all in the memory of its
process. Every route authenticates through the session cache. Stripe and other
providers deliver events to receivers that share one table with a cron pass;
a Stripe event ends in the ledger or in a subscription. All other shared state is in Postgres; no component holds a lock across two statements,
except the transactions of the ledger.

### What is hard

* **Two clocks over one run.** A job is reaped after 300 s while a run may take
  600 s (`config.ts:75`), so honest runs of one task overlap. Three fences carry
  the weight: `(locked_by, attempts)` on jobs, `execution_lock` on tasks, the
  status of a reservation in the ledger.
* **Check, then act**, with an `await` in between: enqueueing, claiming,
  finding and spending a grant, raising a gate, every balance check.
* **Writes by id** that ignore the fence: rejection, expiry, orphan reaper,
  command budget, edit, the catch block of the execute route.
* **Crashes** between any two statements; recovery is by timers alone.
* **Redelivery** of payments, keyed charges and jobs.
* **The end of a month** while reservations are open.
* **A cache that outlives what it caches**: a lookup writes back what it read
  before a revocation, and a Redis command may be lost.
* **A slot or a queue entry that leaks** on one of the many ways a model call can
  end: answer, error, abort, timeout at either gate, retry.
* **Two users of one table**: the receiver and the cron pass each take what the
  other has in hand.

`PROJECT.json` lists each hazard at its line, with the properties that cover it.

## 2. JobQueue

**State.** `job` is the table; `run[p]` what process `p` is in the middle of,
including the `(id, attempts)` pair it claimed with; `claims` counts the claims
of each row (history, read by no action); `budget` bounds faults.

**Correspondence.** `EnqueueCheck`, `EnqueueInsert`, `EnqueueConflict` and
`EnqueueReselect` are the statements of `enqueueJob`. `ClaimSelect` and
`ClaimCommit` split the claim statement at its snapshot, which is where two
claims of one organization miss each other's count. `Preflight`, `PeerCheck`,
`Work` and the four settles are `claimAndRunOne`. `Reap` opens a worker's tick.
`RetryRead` and `RetryWrite` are `retryJob`. `StatementFails`, `AckLost` and
`Crash` fail at each place the code can fail, and go where its catch blocks go.
What a preflight sees of the task and how the run ends are inputs.

**Abstractions.** Priority, backoff lengths, error texts and JSON payloads are
left out: which due row is claimed is a free choice. Time is two bits per row,
`fresh` (the lock is inside the stale window) and `due` (`run_at` has passed).

**Checked.**

| Run | Instance | Shows |
| --- | --- | --- |
| `JobQueueFence` | 1 task, 2 rows, 2 workers, a drain, a client, an operator; 1 slow run, 1 fault, 1 retry (1.8 M states) | `OneOpenJobPerTask`, `SettleByLatestClaim`, `OneOwnerPerTask`, `SettledStaysSettled`, and that the queue implements `LeaseQueue` (`ImplementsLeaseQueue`) |
| `JobQueueLiveness` | 2 tenants; 1 slow run, 1 crash, 1 fault | `EveryJobSettles` under `FairSpec` |

Two rows suffice for a duplicate and its heir; one slow run with two workers
makes two runs of one job; one fault and one retry reach every catch block.
Left out of these instances: two drains at once with an operator's retry, where the
fence fails (section 8); and back-off in `JobQueueLiveness`, where an attempt that
fails is the last (`MaxAttempts` 1).

**Fairness.** Weak fairness of each worker's `Reap`, of each started ladder, and
of time (`BackoffElapses`, `LockAges`). The interval timer re-arms for as long as
the process runs, and `JOB_TIMEOUT_MS` bounds a run. Enqueueing, retrying and
crashing are never obliged. Every retry of a job spends an attempt or a unit of a
bound, which is why a job cannot go round for ever: with unboundedly many crashes
it can, because the reaper never looks at `attempts`.

**Proved** (`JobQueueProofs`, any number of rows, tasks, tenants and processes):
`TypeCorrect`, `OneOpenJob`, `FenceHolds`, `OneOwner`, `SettledForGood`.
The invariant `TableInv` says that a row has an owner only while it runs, that a
process past a check holds the arguments of that check, that loop workers use
their own ids, that two claims never hold one row's lock, and that no task has
two open rows. `OneOpenJob` follows: an insert and a retry both pass the unique
index, a reap keeps a row open that was open already.

The fence `(locked_by, attempts)` has two halves, and each carries it alone. With
at most one approval drain at a time (`SingleDrain`) the ids do: a loop worker is
busy with one job, so nobody else puts its id on a row meanwhile
(`LatestClaimById`: a run whose id and attempts match the row claimed it last).
With no operator (`Admins = {}`) the attempts do: nothing resets them, so they
count the claims of their row (`AttemptsCount`), no run holds a claim its row has
not counted (`ClaimsInThePast`), and two claims of a row have different numbers
(`ClaimsUnique`), whatever the ids. `FenceHolds`, `OneOwner` and the refinement
assume one or the other (`ClaimsNamed`). It is necessary: two drains of one job
share an id, and with an operator's retry besides both halves fail (section 8).

**The abstract queue.** `LeaseQueue` knows no rows, ids or attempts: a task is
nowhere, queued, leased, or leased and overdue (`Age`: the stale window of its lock
has passed). `at[h]` is where each holder is, and every action says who moves:
`Finish`, which takes a leased task out of the queue or puts it back, is a step of
the holder of its lease and of nobody else; `Expire`, which puts tasks back too,
takes overdue ones alone, whoever runs it. So a put-back by a run that lost its
lease, or by a reaper that does not look at the age of a lock, is no step of it.
`JobQueue` maps onto it by `PhaseOf` (is there an open row, does it run, is its lock
`Stale`), `HoldsLease` (the run that made the latest claim of the running row,
whatever the columns say) and each run's `pc`. The lease is thus stated by history
and the guard by columns: that the two agree is what the code relies on, and what
fails without `ClaimsNamed`. A lock that is stale while its run still works may be
taken back by any tick, as in the code; what such a run may not do is settle later.
`JobQueueRefinement!Implementation` proves, under `ClaimsNamed`, that every step
is a step of `LeaseQueue` or a stutter. Its invariant `LeaseInv` is `TableInv`,
the fence itself, `ClaimsInThePast`, and that every row has a task. The job that
`TaskExecution` keeps is shown to be a task of the same queue (section 4).

**The cap** (`JobQueueCapProofs!CapBounded`, for finitely many rows and claimers).
Claims count the running rows of the tenant in their own snapshots, so the cap can
be exceeded; `CapOvershootBounded` says by fewer rows than there are claimers. The
inductive bound is on the sum of fresh running rows and claims under way.

## 3. CreditLedger

**State.** One organization: `bal`, one balance row per month at most; `hold`,
one reservation per run; `ledger`, the sums of the transaction rows per month and
type; `keys`, the idempotency keys it contains; `sub`, the end of the
subscription's period; `call[p]`, the call each process is in; `rows` counts the
ledger rows each process wrote (history).

**Correspondence.** Every ledger call opens with `getOrCreateBalance`, modelled
statement by statement (`ReadSub`, `RollSub`, `ProbeRow`, `AllocateRow`,
`LogRollover`, `ReadRow`, `CreateRow`), and ends with one transaction, modelled
as one step (`ReserveTx`, `SettleTx`, `ReleaseTx`, `ConsumeTx`, `GrantTx`,
`RefundTx`). The updates reach every row `period_start >= now`, as the code's
`gte` does, and each carries the guard of its `WHERE` clause. `FetchHold` is the
read before a settle or release; `PickOverdue` is the sweep, one reservation at a
time. A `Viewer` is a caller that only reads (the usage pages, and what follows a
transaction).

**Abstractions.** The organization has a subscription already; policy and the
trial's daily cap are further refusals and are left out; credits are whole
numbers; `refundCredits` and `adjustCredits` are modelled although nothing in the
services calls them yet (tests call the first).

**Checked.**

| Run | Instance | Shows |
| --- | --- | --- |
| `CreditPeriod` | one month, 2 runs with holds of 1 and 2 that may hang, a keyed charge with its refund, a reader, the sweep, one crash (0.9 M states) | `HoldsAreBacked`, `NoOverspend`, `UsedMatchesLedger`, and that the ledger implements `CreditAccount` (`ImplementsAccount`); `HoldsEnd` under `FairSpec` |
| `CreditRollover` | two months, a run, a charge, a payment, the sweep (4.4 M states) | `TypeOK` (no aggregate goes negative), `AppliedOnce`, `HoldEndsOnce` |
| `CreditUnbilled` | a settle and the sweep | `WorkIsBilled` fails: see findings |

Holds of different sizes tell a wrong amount from a right one; two months tell
"this month's row" from "the row of the hold". A payment is in `CreditRollover`
alone: in one month it only adds. Measured costs are 0 or 1 in these instances, so
what is left of the larger hold goes back, but no cost exceeds its hold. The hard
stop (`settleReservation` charges at most the hold) is covered by the proofs, which bound
no cost; TLC finds the properties of `CreditPeriod` true with costs up to 2 as well,
once the reader is left out, which would take the run over its time.

**Fairness.** Weak fairness of the sweep's steps (its timer and its statements)
and of deadlines passing. Runs owe nothing: they may hang for ever.

**Proved** (`CreditLedgerProofs`). For any number of months:
`TypeCorrect`, `BilledAtMostOnce`, `HoldsEndOnce`, from `CallInv`: every call is
at a point its kind of process has, a refund follows its charge, a run bills once
(a run that can still settle or charge has no row yet), and a key in the ledger
stands for one row. For one month (`LastMonth = 0`): `HoldsBacked`,
`NeverOverspent` (if no adjustment takes credits away), `UsedIsLedger`. There
`MoneyInv` keeps the reserved column equal to the number of *held units*: a hold
of `n` credits is a set of `n` units, so sums are cardinalities and need no
induction; `BookInv` adds that the floor of a refund is never reached, so the
balance and the ledger move together. Across months these three are false in the
code (section 8).

`OnlyTheSweepUnbills` bounds the finding on unbilled work, for any number of
months and crashes: a run that reserved something, measured a cost and came to its
end without a ledger row had its hold swept. `BillInv` says why: a cost is
measured only under a hold, a run with a cost never releases, its settlement
writes the row with the status, and a settlement that reads an ended hold goes on
to the direct charge. What remains is the sweep between the read and the claim.

`NothingStaysLocked` says what is left of `HoldsAreBacked` across months. There the
reserved column of the current row can be too small, but it is never too large: it
holds at most the active reservations, so no credits stay locked under a
reservation that is over. `PhantomInv` carries three facts for it. An end reaches
every row from its call's time on; no call has a time still to come, so the current
row is among them; and a row that does not exist yet reserves nothing, so a
rollover starts from zero.

**The abstract account.** `CreditAccount` has one number for the credits, one for
what is spent, and a stage per run; each operation is a single step: hold, settle
for at most the hold, free, pay once after that, charge, refund, grant. The mapping
reads credits and spending off the ledger rows (supply; usage less refunds) and the
stage off the reservation, while the guards of the code read the balance row. So
the refinement says that stale reads, repeated calls and lost races leave the same
ledger as calls that happen one at a time on one account, in which nothing is spent
or held that is not there. `LedgerIsAccount` proves it within one month, from
`AccountInv`: `CallInv`, `MoneyInv`, `BookInv`, and `PayInv` (purchased credits are
the supply rows; a call at its transaction found its row; a run charges directly
only after its hold was given back, and has a row only once its hold is over).
`CreditPeriod` checks it without grants, which its instance leaves out; the steps
of a grant and of an adjustment, negative ones included, are covered by the proof.

## 4. TaskExecution

**State.** One `task` row (status, lock, age of the pulse); `gate`, its
approvals, with what the decision's handler still owes (`todo`) and the order of
the decisions (`at`); `run[r]`, one record per call of `executeTask`, each with
its own lock; `job`, the open job of the task, as the queue promises it; `reaper`,
between the orphan reaper's read and its write; `claims` (history).

**Correspondence.** The five ways in are `StartJob`, `StartExecute`,
`StartCommand`, `StartBatch` and `StartRetry`. `LoadTask`, `ClaimTask`,
`CheckAgent`, `EstimateCredits`, `Reserve` and `ReserveApproved` follow the
function; `FindGrant`, `SpendGrant`, `FindOpenGate`, `RaiseGate` and
`StopForApproval` are the gate, for the three checks and for tools alike; `Beat`,
`Model`, `RunTool`, `TerminalWrite` and `EndHold` are the working part. Writes
after the claim go through `FencedWrite`; writes by id go through `Revoke`.
`Decide` and the handlers `ReleaseWork`, `CancelTask` and `PauseTask` are the
decision route and the expiry pass. `BudgetExpires` and `ConvergeToPending` are a
command's budget. The job is claimed by `StartJob` with a fresh lock, which `LockAges`
lets pass once its run is gone, or while it works at the price of `MaxSlow`;
`ReapJob` takes a stale one back; `Finish` settles it if the run still holds it
(`HoldsJob`: the settle's guard). `StatementFails` throws wherever nothing catches:
also after the terminal write, the block or the stop (`task-executor.ts:1135-1211`,
`:144-175`, `:332-341`), from where an inline run overwrites what it had written.

**Abstractions.** `modified` counts as `approved`. Tools that need nobody, cached
tool results and quality evaluation change no state the module keeps, and are part
of `Model` and `Finish`. The estimate's write and the beat that follows it are one
`Beat`. Approvals older than migration 0047 carry no call hash and are left out,
as are task deletion and the orchestrator's feedback route. What a reservation
does is `CreditLedger`; how a job is kept is `JobQueue`. A run raises one gate at
most, so as many gates as runs never run out.

**Checked.**

| Run | Instance | Shows |
| --- | --- | --- |
| `TaskFence` | 2 runs, all five ways in, 2 gates, one gated tool call, an edit, one pulse or job lock that ages under a run at work (2.2 M states) | `CallsAuthorised`, `WorkAuthorised`, `OneOpenQuestion`, `WritesByLatestClaim`, `DiscardedRunsAreFree`, and that the task's job implements `LeaseQueue` (`ImplementsLeaseQueue`) |
| `TaskLiveness` | 2 runs, budget gate, 1 fault, 1 crash (0.7 M states) | `RunningEnds` under `FairSpec` |
| `TaskStranded` | 1 run, 1 gate | `NoGateStrands` fails: see findings |

Two runs are what a fence must tell apart; two gates make a newest grant and an
older one; one autonomy gate and one tool gate put grants for different calls on
the same task, which is what the decision token is for.

**Fairness.** A started call runs on, the orphan reaper's timer fires, and the
pulse ages. Nothing obliges the founder, a client or a consumer of the queue.

**Proved** (`TaskExecutionProofs`, any numbers of runs, gates, tool calls,
rounds, faults and crashes): `TypeCorrect`, `ToolCallsAuthorised`,
`WorkIsAuthorised`, `OneQuestion`, `FenceHolds`, `DiscardsFree`, `TaskIsLeased`.
None of the first five safety properties is inductive. `TaskInv` adds:

* `RunFits`: what the run's record tells of itself, such as which call it
  carries at which point, and that it settles only what landed;
* `GrantsFit`: the grants it has spent are approved and released; a grant it found
  but has not spent yet is not among them, so spending adds one; for each tool
  call made it holds a grant of that call; and checks asked against yeses spent
  are even, or one short while a question is open;
* `OwnerIsLatest`: a run named by the lock claimed last, or is over;
* `OnlyQuestion` (two open gates are the same) and `FewAnswers` (finitely many
  decisions, so that the next has a number).

A step of one run is `RunMoves`; the other runs are bystanders, for whom it is
enough that gates only grow (`GatesGrow`: a decision is not changed, a release
not undone). The lock changes hands by a claim alone (`LockMoves`).

`TaskIsLeased` is the refinement of `LeaseQueue` by the one job this module keeps.
`JobPhase` is its status and whether its lock is stale, `WorksOnJob` the run that
owns it and is alive, and each run's `pc` the place of a holder; the module's job is
thus the abstract queue's, which `JobQueue` implements too, and the
two modules agree on it by proof. `HeldInv` is `TaskInv` and that the owner of a
running job has started (`OwnerHasStarted`): else a run could take the job before
it began.

## 5. ProviderCalls

**State.** `gate`, the slots in use and the queue of each `ConcurrencyGate` (one
for all providers, one per provider); `circuit`, the breaker's circuits; `call`,
where each `chatCompletion` is in its chain. All of it is the memory of one process, so a step runs from one `await` to the next.

**Correspondence.** `Start` and `Exhaust` enter the chain at the next provider
whose circuit is available; `AcquireProvider` is the second half of
`acquireProviderSlot`; `Answered` ends a request with what the provider said and
gives both slots back; `Retry` follows a back-off; `GlobalTimeout` and
`ProviderTimeout` are the waiter's timer; `PassOver` is the `continue` after
saturation, once the trace is stored (`await persistTrace`, `llm.ts:831`).
`saturated` is set per provider and never reset (`:655`), so every later model of that
provider is left through the same point (`LeaveModel`). `Asked`, `Released` and `Without` are `acquire`, `releaseFn` and the
`splice` of the timer; a hand-over never lets the count dip.

**Abstractions.** What a provider answers is an input of five kinds. The order of
the models was chosen before the call, and models are numbered by their place in it:
the code does not remove a name that is there twice (`llm.ts:621-623`), so `CallsAdvance`
speaks of places and not of names. NVIDIA's heat map only reorders keys. What a trace
contains is left out. `failureCount` saturates at the threshold it is compared with.

**Checked.** `ProviderSlots`: 4 calls, 2 providers (the last has a second model; one
key each), ceilings 3 (global), 1 and none, one retry, threshold 1 (0.8 M states).
With one call out at the first provider and two that hold a global slot behind it,
its queue has two waiters, and the fourth call waits at the global gate:
`FirstComeFirstServed` is false there as soon as a slot goes to the last of a queue.
A second key is left to the proofs. No fairness is assumed: `CallsAdvance` is an
action property, and that every wait of a call is bounded by a timer is the code's.

**Proved** (`ProviderProofs`, any numbers of calls, providers, models, keys,
retries and slots): all seven properties of the run. `GateFits` relates a gate's
count and queue to the set of calls that are at it. It is proved once for any gate
that asking, giving back and giving up keep it; each step of a call is shown to be
one of these at every gate (`GateMoves`). Waiters being served in order is a
consequence: who is in and was not before was at the head.
`NobodyWaitsInACircle` is about two gates at once: a call keeps its global slot
while it waits for a provider, so a circle of waiters is conceivable. Behind each
provider's queue stands a request that is out; behind the global queue stands one,
or a call that has its global slot and is about to ask its provider. The full gates have
holders (a queue is never empty-handed, since a ceiling that queues is above zero),
and the gates are always asked for in one order.

## 6. Access

**State.** `member`, the memberships of one organization; `live`, the sessions
that are not revoked; `cache`, the role and age of the entry Redis has for each
session; `req`, what each request is in the middle of; `lost` (history), the ticks
since a session last carried a role.

**Correspondence.** `CacheHit`, `CacheMiss`, `EvictOld`, `Lookup`, `StoreEntry`
are `findSessionByToken`; `Ask`, `ReadTarget`, `CountOwners`, `CheckOwner`,
`WriteRole`, `WriteRemoval` are the two changes of `members.ts` with
`assertNotLastOwner` in its two statements; `Logout`, `ChangePassword`,
`ListSessions`, `ClearEntries`, `RevokeSession`, `EvictRevoked` are the ways a
session ends. `StatementFails` takes the code's catch blocks, which swallow the
failure. A Redis command may be lost at each place it is sent: `Deleted` for the DEL,
`StoreEntry` for the SETEX, `CacheUnread` for the GET (`redis.ts:210-216`) and for a
client that knows it is disconnected (`sessions.ts:84`).

**Checked.** `AccessBounded`: 2 owners with a session each, 2 requests, a window
and a lag of 1 tick, 1 lost command or failing statement, 2 changes (0.6 M states).
`StaleAccessIsBounded`: a role that was taken away is usable for the trust window
(5 minutes) and one lookup at most. `LastOwnerLostOnlyByOvertaking`: an
organization loses its last owner only through a change that another one overtook
between its count and its write. Two owners and two changes are what that takes;
one lost command is enough to leave a revoked entry in the cache. No fairness.

**Proved** (`AccessProofs`, any numbers of accounts, sessions, requests, changes
and faults, any window and lag): `TypeCorrect`, `StaleAccess`, `LastOwner`.
`AgeInv`: a cached role was lost no longer ago than the age of its entry and the
lag of the lookup that wrote it. `CountInv`: what a request counted still holds,
or it was overtaken.

## 7. WebhookEvents

**State.** `row`, the status and retries of each event's row; `subs` and `plan`,
the tenant's subscriptions and plan; `effects`, credit rows or tasks made per
event; `delivery`, HTTP requests; `pass`, runs of the cron pass; `acked`, what the
senders were told; `seen` (history: what was applied, swept, ended or revived, and
whether activations overlapped).

**Correspondence.** `ResolveWebhookOrg` to `Confirm` are `processWebhookEvent`
with `applyWebhook` statement by statement: `GrantCredits`; the four statements of
`activateSubscription`; `UpdateStatus` for status changes and failed payments;
`CancelRow` and `DowngradeOrg`. `Lookup` and `Store` are the receivers of the
other providers. `ReadBatch` to `MarkRetry` are `processPendingEvents`.
`DeliveryFails` and `PassFails` go where the catch blocks go; `DeliveryDies` and
`PassDies` are crashes.

**Abstractions.** One tenant. A provider's payload is a type of event. The rules are
read anew for each event, so each pass chooses freely whether one names it
(`ApplyRule`: a task, an approval request or a notification, with what is written
about it) or none does, or one that ignores it (`CloseWithoutRule`); no rule can name
Stripe (`routes/events.ts:46`). Several rules of one event count as one. What credits
do is `CreditLedger`.

**Checked.** `WebhookSettles`: every pair of a checkout with a second checkout or
with news of the first, a credit pack beside the pass, and issues under two passes
(0.7 M states); one failing statement or death, one sender that stops waiting.
Pairs suffice because the properties relate an event to itself or to one other.
Each property excepts just what the code does not prevent, and the history names it:

* `AcknowledgedWasApplied`: rows the pass closed (`swept`); without it, see `WebhookSwept`.
* `EffectsOncePerEvent`: issues whose pass stopped half way or met another
  (`interrupted`); a payment has no exception.
* `OneActiveSubscription`: two activations between their check and their insert at
  once (`overlap`), and a row that Stripe calls active beside an active one, or beside
  one being inserted (`revived`). A past due subscription that recovers alone is no
  exception.
* `ReplayAddsNoRow`: `overlap`, and a subscription that had ended or fallen past due
  (`ended`), where a replayed checkout does add a row.
* `PaidPlanIsCovered`, for each acknowledged checkout: `swept` and `overlap`; its row is
  active unless that subscription was ended or fell past due, and the plan is paid
  unless any was or did.

They say nothing of the case each excepts; section 8 says what happens there. The
run makes the cases apart from them: an activation that stops at any statement and is
delivered again, a checkout after another, a replay after everything.

**Fairness.** A started request runs on, and a sender repeats what was not
acknowledged, as Stripe does for three days. Not every other provider repeats by
itself (GitHub waits for its owner to ask): for their events `EveryEventAcknowledged`
says what holds if they are sent again. It needs nothing of the pass.

**Proved** (`WebhookProofs`, any numbers of events, requests and passes, any
mixture of events and any bounds): every property of the run but the liveness.
`AckInv`: what a request is about to confirm was applied or swept. `OnceInv`: an
event nobody interrupted is in the hands of one pass at most, and once made stays
there until its row is confirmed. `SubsInv`: a checkout that was applied has left a row (`Covered`), whatever happened;
and while no activations overlapped, an activation has no row of its subscription
yet, a row that nothing ended is active and the only one of its subscription, and
the plan is paid from an activation's first statement until a subscription ends
(`PlanPaid`).

## 8. Findings

Runs that are expected to fail, each against a line of the repository:

* `CreditUnbilled`: the sweep ends a hold after the settle read it; the settle
  then reports `settled`, its caller does not charge, and work is unbilled,
  against `task-executor.ts:1087-1089`.
* `TaskStranded`: a founder decides before the job that raised the gate has
  ended; `enqueueJob` reuses that job, which then completes. The task stays
  `awaiting_approval` with its decision spent, against `routes/approvals.ts:272-273`.
* `WebhookSwept`: the cron pass (every 5 minutes, `.github/workflows/orq8-jobs.yml:43-65`)
  takes pending and failed rows of every provider (`webhooks.ts:495`). No rule can
  name Stripe, so `webhooks.ts:515-521` closes such a row as processed. The next
  attempt of Stripe is answered as a duplicate, and a purchase whose grant failed
  once is never granted, against `billing.ts:465-467`.

Properties that fail and have no run of their own, with an instance in which TLC
finds the behaviour (the definition is in the module; name it as an `INVARIANT`):

* `JobQueue!SettleByLatestClaim` with 1 row, 1 task, a worker, 2 drains, an
  operator, `MaxAttempts` 2, `MaxSlow` 1, `MaxRetries` 1. `jobs.ts:217` says the
  pair `(locked_by, attempts)` names one claim. Drains of one job share
  `approval-release-<job>`, and an operator's retry resets `attempts`
  (`jobs.ts:536`), so a late settle passes the guard of a later claim.
* `CreditLedger!NeverOverCommitted` with a run and a charge, `Included` 1,
  `LastMonth` 1, `MaxActual` 1. A hold of last month is charged to this month's
  row without a guard (`credits.ts:1096`), after others spent that row, against
  docs/80 line 811.
* `ProviderCalls!SaturatedIsNotBroken` with 2 calls, 2 providers, `MaxRetries` 0,
  ceilings 2 and 1, `Threshold` 1. `llm.ts:653-654` and `:827-828` say saturation
  is no failure of the provider, but the `continue` at `:834` goes on with its next
  model, and after the last one `recordFailure` (`:847`) counts it.
* `Access!AlwaysAnOwner` in the instance of `AccessBounded` with `MaxFaults` 0. Two
  owners demote each other: each counts two owners before either writes. The
  comment at `members.ts:91-96` says the guard is "not reachable today" because
  whoever touches an owner is a second one; that holds of no two requests at once.

Seen while modelling, and not given a run of their own:

* **Attempts beyond the budget.** The reaper never looks at `attempts`, so a job
  whose worker always dies is claimed again for ever; docs/75 line 94 says it dies
  after `max_attempts`.
* **The cap of an organization** is read from each claim's own snapshot and can be
  exceeded; `CapOvershootBounded` says by how much.
* **The breaker.** A success is recorded under provider and model (`llm.ts:787`), a
  failure and `isAvailable` under the provider: a half-open circuit is never closed
  by success, against `circuit-breaker.ts:5-14`, and failures need not be
  consecutive. `halfOpenAttempts` is compared (`:103`) and never incremented, so
  half-open lets every call through.
* **A call that waits for its provider holds a global slot** for as long
  (`concurrency-gate.ts:113-115`): one saturated provider can fill the global gate.
* **Two active subscriptions** after overlapping deliveries, which
  `billing.ts:472-474` expects to be rare. If one of them dies between ending the
  old row and inserting the new one, the plan is paid and no subscription is active.
* **News out of order.** An update that arrives after the deletion makes the row
  active again (`billing.ts:735-744`); the deletion of an old subscription
  downgrades an organization that has a newer one (`:769-772`); a deletion that
  overtakes its checkout is answered as an unknown organization and lost
  (`:481-482`, `:555-574`); a failed checkout delivered again after it was
  superseded becomes the active one.
* **A late failure** overwrites `processed` with `failed` (`billing.ts:537-541`),
  after which the event is applied once more; the keys of the ledger absorb it.
* **Tasks made twice** when a pass fails after `applyRule`, or two passes read one
  batch (`webhooks.ts:523-547`); `schema.ts:968-972` says never. The retry count
  they write comes from the batch, not from the row.
* **Roll-over rows.** Two requests that roll a month over together write one
  balance row and two ledger rows, and `reconcileLedger` compares roll-over rows
  with purchased credits, so it reports drift after every roll-over.
* **A rejection can be undone.** The claim of a run that read the row before the
  rejection, or the budget's converge to `pending`, overwrites `cancelled`;
  `routes/approvals.ts:278-281` says nothing may. The converge and the orphan
  reaper can likewise overwrite `completed`.
* **A deferred run may be charged.** If it finished between the expiry of its
  slice and the converge, its result lands, is charged and is then reset.
* **One grant can serve two runs**: both find it before either spends it. Each
  run still has its yes (`WorkAuthorised`), but the founder gave one.
* **Two checks never both pass.** A task that needs two decisions spends the new
  yes on the first check in every new run and asks again at the second.
* **A crash in the decision's handler** leaves the task waiting with its gate
  decided; nothing repeats the handler.
* **Expired gates** cannot be decided again, although `approvals.ts:162-164` says
  so: the decision's update requires an open row.
* **A token mismatch of a tool** reports that a new approval was requested
  (`tool-registry.ts:375-376`), and inserts none.
* **A failure after the result.** If the activity, the memory or the audit that follows
  the terminal write of an inline run throws, the catch of `routes/commands.ts:249`
  writes `failed` over `completed`, or over `awaiting_approval`, and the charge stays.
* **PATCH of a task** leaves its lock: the run it should stop can still write.

## 9. What the proofs rest on, and what stays with TLC

The theorems assume `QueueConstants`, `LedgerConstants`, `TaskConstants`,
`ProviderConstants`, `AccessConstants` and `WebhookConstants`: kinds of processes
are disjoint, bounds are natural numbers, the calls of one process and the accounts
of one organization are finitely many. TLC evaluates them in every run. Stated as
hypotheses of single theorems: `ClaimsNamed` (the fence, `OneOwner` and the
refinement of the queue), `Capped` (finitely many rows and claimers, a cap above zero), `OneMonth`
and `GrantsGive` (the ledger).

Model-checked only: liveness (`EveryJobSettles`, `HoldsEnd`, `RunningEnds`,
`EveryEventAcknowledged`), since fairness and `ENABLED` are beyond the prover.

Neither checked nor proved: the amounts of the ledger across months, which the code
does not keep (section 8), except for the bound `NothingStaysLocked` puts on the
reserved column.

Proved and not run: `CapOvershootBounded`, whose instance of three tasks, a worker
and a drain adds no question to `JobQueueFence`; `OnlyTheSweepUnbills`, which TLC
finds true of two runs over two months, and of one run and a charge;
`NothingStaysLocked`, which TLC finds true in the instance of `CreditRollover` and
of two runs over three months.

Induction over data and `RECURSIVE` operators are out of the prover's reach. No
module uses either.

## 10. Not modelled

Left out because nothing is left to check once it is a model:

* **Audit chain.** `appendAudit` is one call of a database function that reads the
  head and inserts under an advisory lock: one step. On any error of that call it
  falls back to a read and an insert without a lock (`audit.ts:70-89`), so two such
  appends fork the chain; the code promises nothing of that path.
* **Idempotency of HTTP writes.** No lock is taken on a key: two requests that
  overlap both run. The code promises replay of a stored response and no more.
* **Brute force protection.** Counters are read, raised and written back; the table
  and Redis may disagree, and a late write can clear `lockedUntil` in the table
  while Redis keeps the lock. No line says which of the two holds.
* **Emergency stop.** A flag read at the start of a run and of a tool call. A stop
  by id pauses an agent of any status, and the resume makes it active.
* **Rate limits, AI budgets, estimation**: single counters and sums that add a
  refusal before a reservation.
* **Tool calls that time out and are repeated** (`tool-registry.ts:459`): whether
  the first attempt took effect is in an outside service the repository does not
  contain. Authorization and charge of a call are in `TaskExecution` and
  `CreditLedger`.
* **Delegation, multi-agent runs, planning, scoring, simulation, company
  building**: sequences of model calls and single-row writes around `executeTask`,
  with no interleaving of their own.
* **Outgoing notifications and realtime events**: best effort, read by no one else.
* **CRUD routes, admin console, web console, shared types, configuration,
  authentication library**: reads, single writes, pages and pure functions. They are
  most of the repository's lines and none of its concurrency.

Left out of modelled components: login and the switch of the organization, session
expiry by date, invitations and organization deletion (`Access`); checkout and
portal sessions, signature checks, the branch `concurrent_delivery`
(`WebhookEvents`); trial subscriptions, policy and the daily cap (`CreditLedger`);
QA and learning after a run, agent statistics, task deletion (`TaskExecution`).
Row-level security is enforced by Postgres policies, not by the code modelled here.

## 11. Plan: what is done, what is left

Done: queue, ledger, task execution, provider calls, access and webhook events,
each with its type invariant and every safety property of its runs proved; two
abstract specifications and the proofs that `JobQueue` and `TaskExecution`
implement `LeaseQueue` and that `CreditLedger` implements `CreditAccount`; the
overshoot of the cap; the one way work goes unbilled; that no credits stay locked
under a reservation that is over, in any month.

Left, in order:

1. An abstract specification of `WebhookEvents` (an event is applied once and then
   acknowledged) and of the slots of `ProviderCalls`, with their refinements.
2. What the other findings leave true: when a task strands, and when a purchase is
   swept, stated and proved as `OnlyTheSweepUnbills` is.
3. Login, organization switch and invitations in `Access`.
4. The fallback of `appendAudit`, as a model of how long a fork goes unnoticed by
   the verification route.
5. The ledger across months, if the code comes to keep the amounts there.
