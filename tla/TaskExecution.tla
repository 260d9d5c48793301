--------------------------- MODULE TaskExecution ---------------------------
(***************************************************************************)
(* One task row of ORQ8, the calls of executeTask that work on it, and the *)
(* approvals (gates) that stop and release it.                             *)
(*                                                                         *)
(* The row's execution_lock is a fence: executeTask takes it with an       *)
(* unconditional write and every later write of that call is conditional   *)
(* on it.  Everything else that writes the row (a rejection, the expiry of *)
(* a gate, the budget of a command, the orphan reaper, an edit, a retry)   *)
(* does so by id.  Every SQL statement is one step.                        *)
(*                                                                         *)
(* Inputs: what the agent's profile says, whether the ledger grants the    *)
(* reservation, and what the model answers.  The job queue appears as what *)
(* it promises a task, one open job; how it does so is module JobQueue.    *)
(***************************************************************************)
EXTENDS Naturals, FiniteSets

CONSTANTS
  Runs,        \* calls of executeTask; each has its own randomUUID lock
  Gates,       \* identities of approvals rows for this task
  Calls,       \* tool calls (tool and arguments) that need the founder
  TaskToken,   \* taskDecisionToken: the call "run this task"
  Kinds,       \* the entry points in use, out of AllKinds
  Asks,        \* the checks that stop this task for a decision
  Edits,       \* the statuses PATCH /v1/tasks/:id is used with
  MaxRounds,   \* MAX_TASK_TOOL_ROUNDS
  MaxSlow,     \* bound: live runs whose pulse is missed by a window
  MaxFaults,   \* bound: statements that fail
  MaxCrashes,  \* bound: processes that die
  None

AllKinds == {"job", "execute", "retry", "batch", "command"}
AllAsks == {"autonomy", "ceiling", "budget"}
Statuses == {"pending", "in_progress", "awaiting_approval", "paused",
             "completed", "failed", "cancelled"}

ASSUME TaskConstants ==
  /\ Kinds \subseteq AllKinds
  /\ Asks \subseteq AllAsks
  /\ Edits \subseteq {"pending", "in_progress", "completed", "failed", "cancelled"}
  /\ TaskToken \notin Calls
  /\ None \notin Runs \cup Gates \cup Calls \cup {TaskToken}
  /\ {MaxRounds, MaxSlow, MaxFaults, MaxCrashes} \subseteq Nat

VARIABLES
  task,     \* the tasks row: status, execution_lock, age of the heartbeat
  gate,     \* the approvals rows; `todo' is what the decision's handler still owes
  run,      \* the calls of executeTask
  job,      \* the open job of the task, if any, the run that owns it, and
            \* whether its lock is still inside the stale window
  reaper,   \* TRUE between the orphan reaper's read and its write
  claims,   \* history: how many times the row has been claimed
  left      \* what is left of the bounds

vars == <<task, gate, run, job, reaper, claims, left>>

-----------------------------------------------------------------------------
(* Rows and runs *)

NoGate == [status |-> "absent", call |-> None, released |-> FALSE,
           at |-> 0, todo |-> "none"]
IdleRun == [pc |-> "idle", kind |-> None, call |-> TaskToken, then |-> "idle",
            grant |-> None, claim |-> 0, ok |-> TRUE, rounds |-> 0,
            hold |-> "none", landed |-> FALSE, threw |-> FALSE, timer |-> "off",
            asked |-> {}, spent |-> {}, did |-> {}]

Init ==
  /\ task = [status |-> "pending", lock |-> None, pulse |-> "orphaned"]
  /\ gate = [g \in Gates |-> NoGate]
  /\ run = [r \in Runs |-> IdleRun]
  /\ job = [status |-> "none", owner |-> None, fresh |-> FALSE]
  /\ reaper = FALSE
  /\ claims = 0
  /\ left = [slow |-> MaxSlow, fault |-> MaxFaults, crash |-> MaxCrashes]

Spend(kind) ==
  /\ left[kind] > 0
  /\ left' = [left EXCEPT ![kind] = @ - 1]

Goto(r, pc) == run' = [run EXCEPT ![r].pc = pc]

\* A check asks for a decision: what is asked is remembered (history).
AskFor(r, check) ==
  /\ check \in Asks
  /\ run' = [run EXCEPT ![r].pc = check, ![r].asked = @ \cup {check}]

\* What is left of a call once it returned or died: its money and its deeds.
Over(r, timer) ==
  [IdleRun EXCEPT !.pc = "done", !.timer = timer, !.hold = run[r].hold,
                  !.landed = run[r].landed, !.spent = run[r].spent,
                  !.did = run[r].did]

\* A write by id that takes the row from whoever runs it.
Revoke(status) == task' = [task EXCEPT !.status = status, !.lock = None]

Unfenced(r) == TRUE
\* The WHERE clause of every write of a run after its claim.
Owns(r) == task.lock = r

\* status and lock written under the fence; no row when the lock is gone.
FencedWrite(r, status, lock) ==
  task' = IF Owns(r) THEN [task EXCEPT !.status = status, !.lock = lock] ELSE task

KeepsOwner == [job EXCEPT !.status = "pending", !.fresh = FALSE]
PendingJob == [status |-> "pending", owner |-> None, fresh |-> FALSE]

OpenGates == {g \in Gates : gate[g].status = "pending"}
AnyAnswer == {g \in Gates : gate[g].at > 0 /\ ~gate[g].released}
Grants == {g \in Gates : gate[g].status = "approved" /\ ~gate[g].released}
IsNewest(g) == g \in Grants /\ \A h \in Grants : gate[h].at <= gate[g].at
DecidedCount == Cardinality({g \in Gates : gate[g].at > 0})

AnyToken(g, call) == TRUE
\* The decision token: a grant is spent on the call it was given for.
TokenFits(g, call) == gate[g].call = call

NoGateIndex == FALSE
\* approvals_one_pending_per_task
GateConflict == OpenGates # {}

-----------------------------------------------------------------------------
(* The ways into executeTask *)

Start(r, kind, pc) ==
  /\ run[r].pc = "idle"
  /\ kind \in Kinds
  /\ run' = [run EXCEPT ![r].pc = pc, ![r].kind = kind,
                        ![r].timer = IF kind = "command" THEN "on" ELSE "off"]

\* A consumer of the queue claims the job.
StartJob(r) ==
  /\ job.status = "pending"
  /\ Start(r, "job", "preflight")
  /\ job' = [status |-> "running", owner |-> r, fresh |-> TRUE]
  /\ UNCHANGED <<task, gate, reaper, claims, left>>

StartExecute(r) ==
  /\ Start(r, "execute", "load")
  /\ UNCHANGED <<task, gate, job, reaper, claims, left>>

StartCommand(r) ==
  /\ Start(r, "command", "load")
  /\ UNCHANGED <<task, gate, job, reaper, claims, left>>

StartBatch(r) ==
  /\ task.status = "pending"
  /\ Start(r, "batch", "load")
  /\ UNCHANGED <<task, gate, job, reaper, claims, left>>

StartRetry(r) ==
  /\ task.status = "failed"
  /\ Start(r, "retry", "reset")
  /\ UNCHANGED <<task, gate, job, reaper, claims, left>>

\* POST execute and execute-pending in the queued modes.
EnqueueTask ==
  /\ job.status = "none"
  /\ job' = PendingJob
  /\ UNCHANGED <<task, gate, run, reaper, claims, left>>

\* preflightTaskJob: settled work and a live run are not run again.
Preflight(r) ==
  /\ run[r].pc = "preflight"
  /\ Goto(r, IF \/ task.status \in {"completed", "cancelled"}
                \/ task.status = "in_progress" /\ task.pulse = "fresh"
             THEN "finish" ELSE "load")
  /\ UNCHANGED <<task, gate, job, reaper, claims, left>>

ResetForRetry(r) ==
  /\ run[r].pc = "reset"
  /\ Revoke("pending")
  /\ Goto(r, "load")
  /\ UNCHANGED <<gate, job, reaper, claims, left>>

-----------------------------------------------------------------------------
(* Load, claim and the governance checks *)

LoadTask(r) ==
  /\ run[r].pc = "load"
  /\ Goto(r, IF task.status = "cancelled" THEN "finish" ELSE "claim")
  /\ UNCHANGED <<task, gate, job, reaper, claims, left>>

\* The claim looks at nothing but the id.
ClaimTask(r) ==
  /\ run[r].pc = "claim"
  /\ task' = [status |-> "in_progress", lock |-> r, pulse |-> "fresh"]
  /\ claims' = claims + 1
  /\ run' = [run EXCEPT ![r].pc = "agent", ![r].claim = claims + 1]
  /\ UNCHANGED <<gate, job, reaper, left>>

\* A paused or archived agent, one without authority or in observe mode is
\* blocked; one in recommend mode needs the founder.
CheckAgent(r) ==
  /\ run[r].pc = "agent"
  /\ Goto(r, "block") \/ Goto(r, "estimate") \/ AskFor(r, "autonomy")
  /\ UNCHANGED <<task, gate, job, reaper, claims, left>>

\* estimateCredits: an estimate above the task's ceiling needs the founder.
EstimateCredits(r) ==
  /\ run[r].pc = "estimate"
  /\ Goto(r, "reserve") \/ AskFor(r, "ceiling")
  /\ UNCHANGED <<task, gate, job, reaper, claims, left>>

PreExecutionBlock(r) ==
  /\ run[r].pc = "block"
  /\ FencedWrite(r, "failed", None)
  /\ Goto(r, "finish")
  /\ UNCHANGED <<gate, job, reaper, claims, left>>

\* reserveCredits: over the approval threshold, refused, or held.
Reserve(r) ==
  /\ run[r].pc = "reserve"
  /\ \/ AskFor(r, "budget")
     \/ Goto(r, "block")
     \/ run' = [run EXCEPT ![r].pc = "beat", ![r].hold = "active"]
  /\ UNCHANGED <<task, gate, job, reaper, claims, left>>

\* The second reservation, with the grant spent: a refusal is not caught.
ReserveApproved(r) ==
  /\ run[r].pc = "reserve again"
  /\ \/ Goto(r, "throw")
     \/ run' = [run EXCEPT ![r].pc = "beat", ![r].hold = "active"]
  /\ UNCHANGED <<task, gate, job, reaper, claims, left>>

-----------------------------------------------------------------------------
(* Gates: spend the newest grant, or ask and stop *)

\* Where a run goes on once its decision is there.
Resume(pc) == CASE pc = "autonomy" -> "estimate"
                [] pc = "ceiling"  -> "reserve"
                [] pc = "budget"   -> "reserve again"
                [] pc = "tool"     -> "effect"

\* findGrantedGate.  A grant for something else is not spent: the task asks
\* again, and a tool call is denied to the model.
FindGrant(r) ==
  LET pc == run[r].pc IN
  /\ pc \in {"autonomy", "ceiling", "budget", "tool"}
  /\ \/ Grants = {} /\ Goto(r, "ask")
     \/ \E g \in Gates :
          /\ IsNewest(g)
          /\ IF TokenFits(g, run[r].call)
             THEN run' = [run EXCEPT ![r].pc = "spend", ![r].grant = g,
                                     ![r].then = Resume(pc)]
             ELSE Goto(r, IF pc = "tool" THEN "beat" ELSE "ask")
  /\ UNCHANGED <<task, gate, job, reaper, claims, left>>

\* markGateReleased writes by id, whoever else found the same grant.
SpendGrant(r) ==
  LET g == run[r].grant IN
  /\ run[r].pc = "spend"
  /\ gate' = [gate EXCEPT ![g].released = TRUE]
  /\ run' = [run EXCEPT ![r].pc = run[r].then, ![r].spent = @ \cup {g}]
  /\ UNCHANGED <<task, job, reaper, claims, left>>

\* findOpenGate: an open question about the task is used again.
FindOpenGate(r) ==
  /\ run[r].pc = "ask"
  /\ Goto(r, IF OpenGates = {} THEN "insert" ELSE "stop")
  /\ UNCHANGED <<task, gate, job, reaper, claims, left>>

RaiseGate(r) ==
  /\ run[r].pc = "insert"
  /\ ~GateConflict
  /\ \E g \in Gates :
       /\ gate[g].status = "absent"
       /\ gate' = [gate EXCEPT ![g].status = "pending", ![g].call = run[r].call]
  /\ Goto(r, "stop")
  /\ UNCHANGED <<task, job, reaper, claims, left>>

RaiseGateRefused(r) ==
  /\ run[r].pc = "insert"
  /\ GateConflict
  /\ Goto(r, "throw")
  /\ UNCHANGED <<task, gate, job, reaper, claims, left>>

\* The stop keeps the lock; a reservation already taken stays active.
StopForApproval(r) ==
  /\ run[r].pc = "stop"
  /\ FencedWrite(r, "awaiting_approval", task.lock)
  /\ Goto(r, "finish")
  /\ UNCHANGED <<gate, job, reaper, claims, left>>

-----------------------------------------------------------------------------
(* The model, its tools and the end of the run *)

\* A fenced heartbeat: before the model call and after every tool round.
Beat(r) ==
  /\ run[r].pc = "beat"
  /\ task' = IF Owns(r) THEN [task EXCEPT !.pulse = "fresh"] ELSE task
  /\ Goto(r, "model")
  /\ UNCHANGED <<gate, job, reaper, claims, left>>

\* An answer, a failure of both attempts, or a call that needs the founder.
\* Tools that need nobody only cost rounds and beats: they are part of this.
Model(r) ==
  /\ run[r].pc = "model"
  /\ \/ Goto(r, "terminal")
     \/ /\ run[r].rounds = 0
        /\ run' = [run EXCEPT ![r].pc = "terminal", ![r].ok = FALSE]
     \/ /\ run[r].rounds < MaxRounds
        /\ \E c \in Calls :
             run' = [run EXCEPT ![r].pc = "tool", ![r].call = c,
                                ![r].rounds = @ + 1]
  /\ UNCHANGED <<task, gate, job, reaper, claims, left>>

\* The handler of the tool runs: the world has changed.
RunTool(r) ==
  /\ run[r].pc = "effect"
  /\ run' = [run EXCEPT ![r].pc = "beat", ![r].did = @ \cup {run[r].call}]
  /\ UNCHANGED <<task, gate, job, reaper, claims, left>>

AlwaysCharged(r) == IF run[r].ok THEN "settle" ELSE "release"
\* Zero rows back from the terminal write: the run was discarded.
AfterTerminal(r) == IF Owns(r) /\ run[r].ok THEN "settle" ELSE "release"

TerminalWrite(r) ==
  /\ run[r].pc = "terminal"
  /\ FencedWrite(r, IF run[r].ok THEN "completed" ELSE "failed", None)
  /\ run' = [run EXCEPT ![r].pc = AfterTerminal(r), ![r].landed = Owns(r)]
  /\ UNCHANGED <<gate, job, reaper, claims, left>>

\* The ledger's side of both ends is module CreditLedger.
EndHold(r) ==
  /\ \/ /\ run[r].pc = "settle"
        /\ run' = [run EXCEPT ![r].pc = "finish", ![r].hold = "settled"]
     \/ /\ run[r].pc = "release"
        /\ run' = [run EXCEPT ![r].pc = "finish", ![r].hold = "released"]
  /\ UNCHANGED <<task, gate, job, reaper, claims, left>>

\* The catch block of POST execute writes the row by id and leaves the lock.
Throw(r) ==
  /\ run[r].pc = "throw"
  /\ task' = IF run[r].kind = "execute"
             THEN [task EXCEPT !.status = "failed"] ELSE task
  /\ run' = [run EXCEPT ![r].pc = "finish", ![r].threw = TRUE]
  /\ UNCHANGED <<gate, job, reaper, claims, left>>

WasClaimed(r) == run[r].kind = "job"
\* A settle goes to the attempt the call claimed: none after a reap.
HoldsJob(r) == job.owner = r

\* The call returns; its job is completed, put back or dead.
Finish(r) ==
  /\ run[r].pc = "finish"
  /\ run' = [run EXCEPT ![r] =
                Over(r, IF run[r].timer = "on" THEN "off" ELSE run[r].timer)]
  /\ job' \in IF ~HoldsJob(r) THEN {job}
              ELSE [status : IF run[r].threw THEN {"none", "pending"} ELSE {"none"},
                    owner : {None}, fresh : {FALSE}]
  /\ UNCHANGED <<task, gate, reaper, claims, left>>

-----------------------------------------------------------------------------
(* A command's budget: executeTasksWithBudget *)

\* The slice expires while the run goes on, or before the task's turn came.
BudgetExpires(r) ==
  /\ \/ /\ run[r].timer = "on"
        /\ run' = [run EXCEPT ![r].timer = "expired"]
     \/ /\ run[r].pc = "idle" /\ "command" \in Kinds
        /\ run' = [run EXCEPT ![r] = Over(r, "expired")]
  /\ UNCHANGED <<task, gate, job, reaper, claims, left>>

ConvergeToPending(r) ==
  /\ run[r].timer = "expired"
  /\ Revoke("pending")
  /\ run' = [run EXCEPT ![r].timer = "off"]
  /\ UNCHANGED <<gate, job, reaper, claims, left>>

-----------------------------------------------------------------------------
(* Decisions and their handlers *)

\* approved stands for modified too: both let the work proceed.
Decide(g, status, todo) ==
  /\ gate[g].status = "pending"
  /\ gate' = [gate EXCEPT ![g].status = status, ![g].todo = todo,
                          ![g].at = DecidedCount + 1]
  /\ UNCHANGED <<task, run, job, reaper, claims, left>>

Approve(g) == Decide(g, "approved", "release")
Reject(g) == Decide(g, "rejected", "cancel")
Expire(g) == Decide(g, "expired", "pause")

Handled(g) == gate' = [gate EXCEPT ![g].todo = "none"]

\* enqueueJob: an open job is used again.
ReleaseWork(g) ==
  /\ gate[g].todo = "release"
  /\ Handled(g)
  /\ job' = IF job.status = "none" THEN PendingJob ELSE job
  /\ UNCHANGED <<task, run, reaper, claims, left>>

CancelTask(g) ==
  /\ gate[g].todo = "cancel"
  /\ Handled(g)
  /\ Revoke("cancelled")
  /\ UNCHANGED <<run, job, reaper, claims, left>>

\* Only a task that still waits is paused.
PauseTask(g) ==
  /\ gate[g].todo = "pause"
  /\ Handled(g)
  /\ \/ task.status = "awaiting_approval" /\ Revoke("paused")
     \/ task.status # "awaiting_approval" /\ UNCHANGED task
  /\ UNCHANGED <<run, job, reaper, claims, left>>

-----------------------------------------------------------------------------
(* The orphan reaper, edits, time and failures *)

OrphanedWithoutJob ==
  task.status = "in_progress" /\ task.pulse = "orphaned" /\ job.status = "none"
Orphaned == task.status = "in_progress" /\ task.pulse = "orphaned"

ReaperReads ==
  /\ ~reaper
  /\ Orphaned
  /\ reaper' = TRUE
  /\ UNCHANGED <<task, gate, run, job, claims, left>>

\* By id: whatever happened to the row since it was read.
ReaperWrites ==
  /\ reaper
  /\ Revoke("failed")
  /\ reaper' = FALSE
  /\ UNCHANGED <<gate, run, job, claims, left>>

\* PATCH /v1/tasks/:id leaves the lock; without a heartbeat updated_at counts.
EditTask(status) ==
  /\ task' = [task EXCEPT !.status = status,
                          !.pulse = IF task.lock = None THEN "fresh" ELSE @]
  /\ UNCHANGED <<gate, run, job, reaper, claims, left>>

Ended == {"idle", "done"}
Alive(r) == run[r].pc \notin Ended

\* The pulse leaves the window of the preflight, then that of the reaper.
PulseAges ==
  /\ task.status = "in_progress"
  /\ \/ task.pulse = "fresh" /\ task' = [task EXCEPT !.pulse = "stale"]
     \/ task.pulse = "stale" /\ task' = [task EXCEPT !.pulse = "orphaned"]
  /\ \/ (\A r \in Runs : Owns(r) => ~Alive(r)) /\ UNCHANGED left
     \/ (\E r \in Runs : Owns(r) /\ Alive(r)) /\ Spend("slow")
  /\ UNCHANGED <<gate, run, job, reaper, claims>>

\* The lock of the job leaves the stale window: its owner is dead, or slow.
LockAges ==
  /\ job.status = "running" /\ job.fresh
  /\ job' = [job EXCEPT !.fresh = FALSE]
  /\ \/ ~Alive(job.owner) /\ UNCHANGED left
     \/ Alive(job.owner) /\ Spend("slow")
  /\ UNCHANGED <<task, gate, run, reaper, claims>>

StaleJob == job.status = "running" /\ ~job.fresh

\* reapStaleJobs
ReapJob ==
  /\ StaleJob
  /\ job' = PendingJob
  /\ UNCHANGED <<task, gate, run, reaper, claims, left>>

\* Nobody catches the failure, also of what follows the stop, the block or
\* the terminal write; only the end of the reservation is caught.
StatementFails(r) ==
  /\ run[r].pc \notin Ended \cup {"throw", "settle", "release"}
  /\ run[r].pc = "finish" => ~run[r].threw
  /\ Spend("fault")
  /\ Goto(r, "throw")
  /\ UNCHANGED <<task, gate, job, reaper, claims>>

RunDies(r) ==
  /\ Alive(r)
  /\ Spend("crash")
  /\ run' = [run EXCEPT ![r] = Over(r, "off")]
  /\ UNCHANGED <<task, gate, job, reaper, claims>>

HandlerDies(g) ==
  /\ gate[g].todo # "none"
  /\ Spend("crash")
  /\ Handled(g)
  /\ UNCHANGED <<task, run, job, reaper, claims>>

-----------------------------------------------------------------------------

Begin(r) ==
  StartJob(r) \/ StartExecute(r) \/ StartCommand(r) \/ StartBatch(r) \/ StartRetry(r)

Step(r) ==
  \/ Preflight(r)
  \/ ResetForRetry(r)
  \/ LoadTask(r)
  \/ ClaimTask(r)
  \/ CheckAgent(r)
  \/ EstimateCredits(r)
  \/ PreExecutionBlock(r)
  \/ Reserve(r)
  \/ ReserveApproved(r)
  \/ FindGrant(r)
  \/ SpendGrant(r)
  \/ FindOpenGate(r)
  \/ RaiseGate(r)
  \/ RaiseGateRefused(r)
  \/ StopForApproval(r)
  \/ Beat(r)
  \/ Model(r)
  \/ RunTool(r)
  \/ TerminalWrite(r)
  \/ EndHold(r)
  \/ Throw(r)
  \/ Finish(r)

Next ==
  \/ EnqueueTask
  \/ \E r \in Runs : Begin(r) \/ Step(r)
  \/ \E r \in Runs : BudgetExpires(r) \/ ConvergeToPending(r)
  \/ \E g \in Gates : Approve(g) \/ Reject(g) \/ Expire(g)
  \/ \E g \in Gates : ReleaseWork(g) \/ CancelTask(g) \/ PauseTask(g)
  \/ ReaperReads
  \/ ReaperWrites
  \/ \E status \in Edits : EditTask(status)
  \/ PulseAges
  \/ LockAges
  \/ ReapJob
  \/ \E r \in Runs : StatementFails(r) \/ RunDies(r)
  \/ \E g \in Gates : HandlerDies(g)

Spec == Init /\ [][Next]_vars

\* A started call runs on, the reaper's timer keeps firing, time passes.
\* Nothing obliges the founder, a client or a consumer of the queue.
Fairness ==
  /\ \A r \in Runs : WF_vars(Step(r))
  /\ WF_vars(ReaperReads)
  /\ WF_vars(ReaperWrites)
  /\ WF_vars(PulseAges)

FairSpec == Spec /\ Fairness

-----------------------------------------------------------------------------
(* Properties *)

Pcs == {"idle", "preflight", "reset", "load", "claim", "agent", "block",
        "autonomy", "estimate", "ceiling", "reserve", "budget", "reserve again", "ask",
        "insert", "stop", "spend", "beat", "model", "tool", "effect",
        "terminal", "settle", "release", "throw", "finish", "done"}

TaskType == [status : Statuses, lock : Runs \cup {None},
             pulse : {"fresh", "stale", "orphaned"}]
GateType == [status : {"absent", "pending", "approved", "rejected", "expired"},
             call : Calls \cup {TaskToken, None}, released : BOOLEAN, at : Nat,
             todo : {"none", "release", "cancel", "pause"}]
RunType == [pc : Pcs, kind : AllKinds \cup {None}, call : Calls \cup {TaskToken},
            then : Pcs, grant : Gates \cup {None}, claim : Nat, ok : BOOLEAN,
            rounds : Nat, hold : {"none", "active", "settled", "released"},
            landed : BOOLEAN, threw : BOOLEAN, timer : {"off", "on", "expired"},
            asked : SUBSET AllAsks, spent : SUBSET Gates, did : SUBSET Calls]
JobType == [status : {"none", "pending", "running"}, owner : Runs \cup {None},
            fresh : BOOLEAN]

\* Type correctness; a running job has an owner.
TypeOK ==
  /\ task \in TaskType
  /\ gate \in [Gates -> GateType]
  /\ run \in [Runs -> RunType]
  /\ job \in JobType /\ (job.status = "running" <=> job.owner # None)
  /\ reaper \in BOOLEAN
  /\ claims \in Nat
  /\ left \in [{"slow", "fault", "crash"} -> Nat]

\* Every tool call that needs the founder was made on a yes for exactly that
\* call, taken by the run that made it (the decision token of docs/82): no
\* approval of one call ever runs another, whoever else decides or asks.
CallsAuthorised ==
  \A r \in Runs : \A c \in run[r].did :
    \E g \in run[r].spent : gate[g].status = "approved" /\ gate[g].call = c

\* A run that reaches the model has spent one yes for this task on each check
\* that asks for one: the autonomy level, the ceiling, the budget policy.
Working == {"beat", "model", "tool", "effect", "terminal", "settle"}
TaskGrants(r) ==
  {g \in run[r].spent : gate[g].status = "approved" /\ gate[g].call = TaskToken}
WorkAuthorised ==
  \A r \in Runs :
    run[r].pc \in Working => Cardinality(TaskGrants(r)) >= Cardinality(run[r].asked)

\* The founder is asked one question about a task at a time, however many
\* runs reach a gate together (migration 0036).
OneOpenQuestion == Cardinality(OpenGates) <= 1

\* A run whose writes would land is the one that claimed the row last: a run
\* that was retried, abandoned, reaped or overtaken writes nothing.
Claimed == Pcs \ {"idle", "preflight", "reset", "load", "claim", "finish", "done"}
WritesByLatestClaim ==
  \A r \in Runs : run[r].pc \in Claimed /\ Owns(r) => run[r].claim = claims

\* Model credits are charged only by a run whose result is on the row: a
\* discarded run releases its reservation.
DiscardedRunsAreFree ==
  \A r \in Runs : run[r].hold = "settled" => run[r].landed

\* The row does not stay in_progress: the run ends it, or the orphan reaper
\* does when the run died or lost the row.
RunningEnds == task.status = "in_progress" ~> task.status # "in_progress"

\* routes/approvals.ts: no gate can strand a task in awaiting_approval after
\* its only decision has been spent.  A waiting task has an open question, a
\* decision still being handled, a job, or a run under way.
NoGateStrands ==
  task.status = "awaiting_approval" =>
    \/ OpenGates # {}
    \/ \E g \in Gates : gate[g].todo # "none"
    \/ job.status # "none"
    \/ \E r \in Runs : Alive(r)

-----------------------------------------------------------------------------
(* The job of this model against what the queue promises: LeaseQueue *)

JobPhase ==
  CASE job.status = "none"                 -> "none"
    [] job.status = "pending"              -> "queued"
    [] job.status = "running" /\ job.fresh -> "leased"
    [] StaleJob                            -> "overdue"

\* A consumer holds the task while it works on the job it claimed.
WorksOnJob(r) == job.status = "running" /\ job.owner = r /\ Alive(r)

Queue == INSTANCE LeaseQueue WITH
  Tasks   <- {TaskToken},
  Holders <- Runs,
  Places  <- Pcs,
  phase   <- [t \in {TaskToken} |-> JobPhase],
  holders <- [t \in {TaskToken} |-> {r \in Runs : WorksOnJob(r)}],
  at      <- [r \in Runs |-> run[r].pc]

\* The job as the runs of a task see it is a task of LeaseQueue, which the
\* full queue (JobQueue) implements too.  Inside the stale window only a step
\* of the run that claimed the job completes it or puts it back; once the
\* window has passed the reaper may, also under a run that is still at work,
\* and when that run returns it leaves the next run's job alone
\* (job-worker.ts:200-244, jobs.ts:274-339).
ImplementsLeaseQueue == Queue!Spec
=============================================================================
