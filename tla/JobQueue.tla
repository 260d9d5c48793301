------------------------------ MODULE JobQueue ------------------------------
(***************************************************************************)
(* The durable job queue of ORQ8: the table agent_jobs, the calls that put *)
(* rows in it (enqueueJob, retryJob) and the ladder every consumer takes a *)
(* row through (claimAndRunOne: claim, preflight, run, settle).            *)
(*                                                                         *)
(* Every SQL statement is one step, and so is every await in between: any  *)
(* other process may act there.  What the queue does not own is an input   *)
(* of the step that reads it: the class of the task row a preflight sees,  *)
(* and how the dispatched run ends.                                        *)
(*                                                                         *)
(* Time is two bits per row: `fresh' (locked_at is inside the stale        *)
(* window) and `due' (run_at has passed).                                  *)
(***************************************************************************)
EXTENDS Naturals, FiniteSets

CONSTANTS
  Jobs,         \* identities of agent_jobs rows
  Tasks,        \* tasks the jobs execute
  Orgs,         \* tenants
  OrgOf,        \* the org each task belongs to
  Workers,      \* processes running startJobWorker, each with its own id
  Drains,       \* approval routes: enqueue, then one claimAndRunOne in the API
  Clients,      \* command routes: enqueue only
  Admins,       \* operators pressing Retry on a dead job
  MaxAttempts,  \* column max_attempts
  MaxPerOrg,    \* JOB_MAX_CONCURRENT_PER_ORG, 0 for no cap
  MaxSlow,      \* bound: runs that outlive the stale-lock window
  MaxCrashes,   \* bound: process crashes
  MaxFaults,    \* bound: statements that fail
  MaxRetries,   \* bound: operator retries
  None

Runners == Workers \cup Drains
Callers == Clients \cup Drains
Procs   == Workers \cup Drains \cup Clients \cup Admins

ASSUME QueueConstants ==
  /\ OrgOf \in [Tasks -> Orgs]
  /\ MaxAttempts \in Nat \ {0}
  /\ {MaxPerOrg, MaxSlow, MaxCrashes, MaxFaults, MaxRetries} \subseteq Nat
  /\ None \notin Jobs \cup Tasks \cup Procs
  /\ Jobs \cap Procs = {}
  /\ Workers \cap (Drains \cup Clients \cup Admins) = {}
  /\ Drains \cap (Clients \cup Admins) = {}
  /\ Clients \cap Admins = {}

VARIABLES
  job,      \* agent_jobs
  run,      \* what each process is in the middle of
  claims,   \* history: how many times each row has been claimed
  budget    \* what is left of the bounds on faults

vars == <<job, run, claims, budget>>

Statuses == {"absent", "pending", "running", "done", "dead"}
OpenStatuses == {"pending", "running"}
Settling == {"skip", "complete", "deadletter", "fail"}
Holding == {"preflight", "peer", "work"} \cup Settling
Outcomes == {"ok", "error", "timeout"}

\* What the preflight tells apart in a task row: the row is deleted; it is
\* completed, cancelled or rejected; it is in_progress with a fresh pulse; or
\* anything else (in_progress with a stale pulse included).
TaskViews == {"gone", "closed", "live", "runnable"}

-----------------------------------------------------------------------------
(* Rows and processes *)

UnclaimedJob(status, t, due) ==
  [status |-> status, task |-> t, attempts |-> 0, lockedBy |-> None,
   fresh |-> FALSE, due |-> due]
NoJob == UnclaimedJob("absent", None, FALSE)

\* Between two ticks a loop worker sleeps; a request handler is off.
Rest(p) == IF p \in Workers THEN "sleep" ELSE "off"

JoblessRun(pc, id, t) ==
  [pc |-> pc, id |-> id, task |-> t, job |-> None, attempts |-> 0, claim |-> 0]
IdleRun(p) == JoblessRun(Rest(p), IF p \in Workers THEN p ELSE None, None)

OpenJobs(t) == {j \in Jobs : job[j].task = t /\ job[j].status \in OpenStatuses}

NoIndex(t) == FALSE
\* agent_jobs_open_task_uniq: the write would leave two open rows for t.
Conflicts(t) == OpenJobs(t) # {}

FreshRunning(o) ==
  {j \in Jobs : /\ job[j].status = "running"
                /\ job[j].fresh
                /\ OrgOf[job[j].task] = o}

\* FOR UPDATE SKIP LOCKED: another claim statement holds the row.
RowLocked(j) == \E q \in Runners : run[q].pc = "claiming" /\ run[q].job = j

UnderCap(o) == MaxPerOrg = 0 \/ Cardinality(FreshRunning(o)) < MaxPerOrg

\* The WHERE clause of the claim; a drain looks at its own org only.
Eligible(p, j) ==
  /\ job[j].status = "pending"
  /\ job[j].due
  /\ p \in Drains => OrgOf[job[j].task] = OrgOf[run[p].task]
  /\ UnderCap(OrgOf[job[j].task])
  /\ ~RowLocked(j)

Unguarded(p) == TRUE
OwnsWhileRunning(p) == job[run[p].job].status = "running"
OwnsByAttempts(p) == job[run[p].job].attempts = run[p].attempts
\* claimGuard: the settle's WHERE clause beside the row id.
Owns(p) ==
  LET row == job[run[p].job]
  IN  row.lockedBy = run[p].id /\ row.attempts = run[p].attempts

Init ==
  /\ job = [j \in Jobs |-> NoJob]
  /\ run = [p \in Procs |-> IdleRun(p)]
  /\ claims = [j \in Jobs |-> 0]
  /\ budget = [slow |-> MaxSlow, crash |-> MaxCrashes,
               fault |-> MaxFaults, retry |-> MaxRetries]

Goto(p, pc) == run' = [run EXCEPT ![p].pc = pc]
Leave(p) == run' = [run EXCEPT ![p] = IdleRun(p)]

\* After a settle a loop worker claims again unless the batch is used up.
NextInBatch(p) ==
  \/ Leave(p)
  \/ p \in Workers /\ run' = [run EXCEPT ![p] = JoblessRun("poll", p, None)]

Spend(kind) ==
  /\ budget[kind] > 0
  /\ budget' = [budget EXCEPT ![kind] = @ - 1]

-----------------------------------------------------------------------------
(* enqueueJob: check, insert, and re-select when the unique index refuses *)

\* The id goes back to the caller; an approval route drains once under it.
Return(c, t, j) ==
  run' = [run EXCEPT ![c] =
            IF c \in Drains THEN JoblessRun("poll", j, t) ELSE IdleRun(c)]

EnqueueReuse(c, t) ==
  /\ run[c].pc = "off"
  /\ \E j \in OpenJobs(t) : Return(c, t, j)
  /\ UNCHANGED <<job, claims, budget>>

EnqueueCheck(c, t) ==
  /\ run[c].pc = "off"
  /\ OpenJobs(t) = {}
  /\ run' = [run EXCEPT ![c].pc = "insert", ![c].task = t]
  /\ UNCHANGED <<job, claims, budget>>

EnqueueInsert(c) ==
  LET t == run[c].task IN
  /\ run[c].pc = "insert"
  /\ ~Conflicts(t)
  /\ \E j \in Jobs :
       /\ job[j].status = "absent"
       /\ job' = [job EXCEPT ![j] = UnclaimedJob("pending", t, TRUE)]
       /\ Return(c, t, j)
  /\ UNCHANGED <<claims, budget>>

EnqueueConflict(c) ==
  /\ run[c].pc = "insert"
  /\ Conflicts(run[c].task)
  /\ Goto(c, "reselect")
  /\ UNCHANGED <<job, claims, budget>>

\* The winner may have settled since: then the 23505 is thrown to the caller.
EnqueueReselect(c) ==
  LET t == run[c].task IN
  /\ run[c].pc = "reselect"
  /\ \/ \E j \in OpenJobs(t) : Return(c, t, j)
     \/ OpenJobs(t) = {} /\ Leave(c)
  /\ UNCHANGED <<job, claims, budget>>

-----------------------------------------------------------------------------
(* The worker's tick, and claimJob *)

StaleWithAttemptsLeft(j) ==
  job[j].status = "running" /\ ~job[j].fresh /\ job[j].attempts < MaxAttempts
AnyRunning(j) == job[j].status = "running"
Stale(j) == job[j].status = "running" /\ ~job[j].fresh

\* reapStaleJobs opens every tick: one UPDATE over all stale rows.
Reap(w) ==
  /\ run[w].pc = "sleep"
  /\ job' = [j \in Jobs |->
               IF Stale(j)
               THEN [job[j] EXCEPT !.status = "pending", !.lockedBy = None]
               ELSE job[j]]
  /\ Goto(w, "poll")
  /\ UNCHANGED <<claims, budget>>

\* The sub-select of the claim: eligibility and the org's running count are
\* read from the statement's snapshot, and the row is locked.
ClaimSelect(p, j) ==
  /\ run[p].pc = "poll"
  /\ Eligible(p, j)
  /\ run' = [run EXCEPT ![p].pc = "claiming", ![p].job = j]
  /\ UNCHANGED <<job, claims, budget>>

\* The update of the claim, visible to the others once it commits.
ClaimCommit(p) ==
  LET j == run[p].job IN
  /\ run[p].pc = "claiming"
  /\ job' = [job EXCEPT ![j].status = "running", ![j].lockedBy = run[p].id,
                        ![j].fresh = TRUE, ![j].attempts = @ + 1]
  /\ claims' = [claims EXCEPT ![j] = @ + 1]
  /\ run' = [run EXCEPT ![p].pc = "preflight",
                        ![p].attempts = job[j].attempts + 1,
                        ![p].claim = claims[j] + 1]
  /\ UNCHANGED budget

ClaimEmpty(p) ==
  /\ run[p].pc = "poll"
  /\ \A j \in Jobs : ~Eligible(p, j)
  /\ Leave(p)
  /\ UNCHANGED <<job, claims, budget>>

-----------------------------------------------------------------------------
(* preflightTaskJob and the dispatched run *)

Preflight(p, view) ==
  /\ run[p].pc = "preflight"
  /\ Goto(p, CASE view = "gone"              -> "deadletter"
               [] view \in {"closed", "live"} -> "skip"
               [] view = "runnable"           -> "peer")
  /\ UNCHANGED <<job, claims, budget>>

\* Another job of the same task is running with a fresh lock.
PeerRunning(j) ==
  \E k \in Jobs \ {j} : /\ job[k].task = job[j].task
                        /\ job[k].status = "running"
                        /\ job[k].fresh

PeerCheck(p) ==
  /\ run[p].pc = "peer"
  /\ Goto(p, IF PeerRunning(run[p].job) THEN "skip" ELSE "work")
  /\ UNCHANGED <<job, claims, budget>>

\* executeWithQuality under withTimeout.  A timed-out run is not stopped, but
\* it has no more say over the job.
Work(p, outcome) ==
  /\ run[p].pc = "work"
  /\ Goto(p, CASE outcome = "ok"      -> "complete"
               [] outcome = "error"   -> "fail"
               [] outcome = "timeout" -> "deadletter")
  /\ UNCHANGED <<job, claims, budget>>

-----------------------------------------------------------------------------
(* The settles: every one is an UPDATE guarded by the claim *)

\* The guarded update: no row is written when the claim is no longer held.
SettleRow(p, status) ==
  LET j == run[p].job IN
  job' = IF Owns(p)
         THEN [job EXCEPT ![j].status = status, ![j].lockedBy = None,
                          ![j].fresh = FALSE, ![j].due = FALSE]
         ELSE job

SkipJob(p) ==
  /\ run[p].pc = "skip"
  /\ SettleRow(p, "done")
  /\ NextInBatch(p)
  /\ UNCHANGED <<claims, budget>>

CompleteJob(p) ==
  /\ run[p].pc = "complete"
  /\ SettleRow(p, "done")
  /\ NextInBatch(p)
  /\ UNCHANGED <<claims, budget>>

DeadLetterJob(p) ==
  /\ run[p].pc = "deadletter"
  /\ SettleRow(p, "dead")
  /\ NextInBatch(p)
  /\ UNCHANGED <<claims, budget>>

NamedAsTheTypeSays(p) ==
  IF run[p].attempts >= MaxAttempts THEN "failed" ELSE "pending"
AfterFailure(p) == IF run[p].attempts >= MaxAttempts THEN "dead" ELSE "pending"

FailJob(p) ==
  /\ run[p].pc = "fail"
  /\ SettleRow(p, AfterFailure(p))
  /\ NextInBatch(p)
  /\ UNCHANGED <<claims, budget>>

-----------------------------------------------------------------------------
(* retryJob: read the row, then one conditional update *)

RetryRead(a, j) ==
  /\ run[a].pc = "off"
  /\ job[j].status = "dead"
  /\ Spend("retry")
  /\ run' = [run EXCEPT ![a].pc = "retry", ![a].job = j]
  /\ UNCHANGED <<job, claims>>

\* Zero rows when the job is no longer dead (409); the unique index throws
\* when the task has another open job by now.
RetryWrite(a) ==
  LET j == run[a].job IN
  /\ run[a].pc = "retry"
  /\ job' = IF job[j].status = "dead" /\ ~Conflicts(job[j].task)
            THEN [job EXCEPT ![j].status = "pending", ![j].lockedBy = None,
                             ![j].attempts = 0, ![j].due = TRUE]
            ELSE job
  /\ Leave(a)
  /\ UNCHANGED <<claims, budget>>

-----------------------------------------------------------------------------
(* Time, failing statements, crashes *)

BackoffElapses(j) ==
  /\ job[j].status = "pending" /\ ~job[j].due
  /\ job' = [job EXCEPT ![j].due = TRUE]
  /\ UNCHANGED <<run, claims, budget>>

Abandoned(j) ==
  \A p \in Runners : ~(run[p].pc \in Holding /\ run[p].job = j /\ Owns(p))

\* locked_at leaves the stale window.  A lock nobody will settle always does;
\* a live run outlives the window at most MaxSlow times.
LockAges(j) ==
  /\ job[j].status = "running" /\ job[j].fresh
  /\ job' = [job EXCEPT ![j].fresh = FALSE]
  /\ \/ Abandoned(j) /\ UNCHANGED budget
     \/ ~Abandoned(j) /\ Spend("slow")
  /\ UNCHANGED <<run, claims>>

\* A statement throws.  Inside the try block that leads to failJob; failJob
\* and deadLetterJob are called from the catch block, so theirs ends the call
\* and leaves the row running.
StatementFails(p) ==
  /\ Spend("fault")
  /\ \/ run[p].pc \in {"preflight", "peer", "skip", "complete"} /\ Goto(p, "fail")
     \/ run[p].pc \in {"deadletter", "fail"} /\ Leave(p)
  /\ UNCHANGED <<job, claims>>

\* The settle lands but its acknowledgement is lost: failJob follows it.
AckLost(p) ==
  /\ run[p].pc \in {"skip", "complete"}
  /\ Spend("fault")
  /\ SettleRow(p, "done")
  /\ Goto(p, "fail")
  /\ UNCHANGED claims

\* The process dies (or is killed at the end of stop()'s grace period) and
\* comes back with the same id; an uncommitted claim is rolled back.
Crash(p) ==
  /\ run[p].pc # Rest(p)
  /\ Spend("crash")
  /\ Leave(p)
  /\ UNCHANGED <<job, claims>>

-----------------------------------------------------------------------------

Enqueue(c) ==
  \/ \E t \in Tasks : EnqueueReuse(c, t) \/ EnqueueCheck(c, t)
  \/ EnqueueInsert(c)
  \/ EnqueueConflict(c)
  \/ EnqueueReselect(c)

Ladder(p) ==
  \/ \E j \in Jobs : ClaimSelect(p, j)
  \/ ClaimCommit(p)
  \/ ClaimEmpty(p)
  \/ \E view \in TaskViews : Preflight(p, view)
  \/ PeerCheck(p)
  \/ \E outcome \in Outcomes : Work(p, outcome)
  \/ SkipJob(p)
  \/ CompleteJob(p)
  \/ DeadLetterJob(p)
  \/ FailJob(p)

Next ==
  \/ \E c \in Callers : Enqueue(c)
  \/ \E w \in Workers : Reap(w)
  \/ \E p \in Runners : Ladder(p)
  \/ \E a \in Admins : RetryWrite(a) \/ \E j \in Jobs : RetryRead(a, j)
  \/ \E j \in Jobs : BackoffElapses(j) \/ LockAges(j)
  \/ \E p \in Runners : StatementFails(p) \/ AckLost(p)
  \/ \E p \in Procs : Crash(p)

Spec == Init /\ [][Next]_vars

\* The loop worker's interval keeps firing, a started call runs on until it
\* returns or its process dies (JOB_TIMEOUT_MS bounds the run), time passes.
\* Nothing obliges a founder or an operator to act.
Fairness ==
  /\ \A w \in Workers : WF_vars(Reap(w))
  /\ \A p \in Runners : WF_vars(Ladder(p))
  /\ \A j \in Jobs : WF_vars(BackoffElapses(j)) /\ WF_vars(LockAges(j))

FairSpec == Spec /\ Fairness

-----------------------------------------------------------------------------
(* Properties *)

Pcs == {"sleep", "off", "insert", "reselect", "poll", "claiming", "retry"} \cup Holding

JobType == [status : Statuses, task : Tasks \cup {None}, attempts : Nat,
            lockedBy : Workers \cup Jobs \cup {None}, fresh : BOOLEAN, due : BOOLEAN]
RunType == [pc : Pcs, id : Workers \cup Jobs \cup {None}, task : Tasks \cup {None},
            job : Jobs \cup {None}, attempts : Nat, claim : Nat]

\* Type correctness of the table, the processes and the bounds.
TypeOK ==
  /\ job \in [Jobs -> JobType]
  /\ run \in [Procs -> RunType]
  /\ claims \in [Jobs -> Nat]
  /\ budget \in [{"slow", "crash", "fault", "retry"} -> Nat]

\* The queue never holds two pending or running jobs for one task, whatever
\* interleaving of enqueues, operator retries and reaps (migration 0046).
OneOpenJobPerTask ==
  \A j, k \in Jobs :
    /\ job[j].status \in OpenStatuses
    /\ job[k].status \in OpenStatuses
    /\ job[j].task = job[k].task
    => j = k

\* A run whose settle would land is the run of the row's latest claim: the
\* guard (locked_by, attempts) never lets a reaped run write over its heir.
SettleByLatestClaim ==
  \A p \in Runners :
    run[p].pc \in Holding /\ Owns(p) => run[p].claim = claims[run[p].job]

\* Of all runs of one task, at most one can still settle its job, although a
\* slow run and its replacement may be executing side by side.
OneOwnerPerTask ==
  \A p, q \in Runners :
    /\ run[p].pc \in Holding /\ run[q].pc \in Holding
    /\ Owns(p) /\ Owns(q)
    /\ job[run[p].job].task = job[run[q].job].task
    => p = q

\* Finished work stays finished: no late settle, lost acknowledgement or
\* reaper takes a row out of `done', and a dead row comes back only with a
\* fresh budget of attempts, as retryJob does it.
SettledStaysSettled ==
  [][\A j \in Jobs :
       /\ job[j].status = "done" => job'[j].status = "done"
       /\ job[j].status = "dead" /\ job'[j].status # "dead"
            => job'[j].status = "pending" /\ job'[j].attempts = 0]_vars

\* Concurrent claims of one org each read the count before the others commit,
\* so the cap may be overshot, but by fewer rows than there are claimers.
CapOvershootBounded ==
  MaxPerOrg > 0 =>
    \A o \in Orgs :
      Cardinality(FreshRunning(o)) < MaxPerOrg + Cardinality(Runners)

\* Every queued job is settled in the end, through crashes, slow runs, lost
\* acknowledgements and failing statements.
EveryJobSettles ==
  \A j \in Jobs :
    job[j].status \in OpenStatuses ~> job[j].status \in {"done", "dead"}

-----------------------------------------------------------------------------
(* What the queue promises: LeaseQueue *)

\* A task is leased while its open job is running, and the lease is overdue
\* once locked_at has left the stale window.
PhaseOf(t) ==
  LET open == OpenJobs(t) IN
  CASE open = {}                                                  -> "none"
    [] \E j \in open : job[j].status = "running" /\ job[j].fresh  -> "leased"
    [] \E j \in open : job[j].status = "running" /\ ~job[j].fresh -> "overdue"
    [] OTHER                                                      -> "queued"

\* The lease is with the run that made the latest claim of the running job,
\* whatever the columns locked_by and attempts say.
HoldsLease(p, t) ==
  /\ run[p].pc \in Holding
  /\ job[run[p].job].task = t
  /\ job[run[p].job].status = "running"
  /\ run[p].claim = claims[run[p].job]

Queue == INSTANCE LeaseQueue WITH
  Holders <- Runners,
  Places  <- Pcs,
  phase   <- [t \in Tasks |-> PhaseOf(t)],
  holders <- [t \in Tasks |-> {p \in Runners : HoldsLease(p, t)}],
  at      <- [p \in Runners |-> run[p].pc]

\* Through reaps, slow runs, crashes, lost acknowledgements and retries, a task
\* leaves the queue only by a step of the run that claimed it last, and goes
\* back in line by such a step or, once its lock has left the stale window, by
\* the reaper (jobs.ts:208-219, 326-339).
ImplementsLeaseQueue == Queue!Spec
=============================================================================
