------------------------- MODULE JobQueueRefinement -------------------------
(***************************************************************************)
(* The job queue implements LeaseQueue, for any number of rows, workers    *)
(* and calls, when no two claims of a row share an id and an attempt       *)
(* number (ClaimsNamed: one approval drain at a time, or no operator).     *)
(*                                                                         *)
(* The table's invariant, the fence and that no run holds a claim its row  *)
(* has not counted come from JobQueueProofs.  One more fact is needed:     *)
(* every row carries a task.  Then each step is, seen through the mapping, *)
(* a step of LeaseQueue or no step at all.                                 *)
(***************************************************************************)
EXTENDS JobQueueProofs

RowsHaveTasks ==
  \A j \in Jobs : job[j].status # "absent" => job[j].task \in Tasks

LeaseInv == TableInv /\ SettleByLatestClaim /\ ClaimsInThePast /\ RowsHaveTasks

\* The abstract state, by name.
phase   == [t \in Tasks |-> PhaseOf(t)]
holders == [t \in Tasks |-> {p \in Runners : HoldsLease(p, t)}]
at      == [p \in Runners |-> run[p].pc]

-----------------------------------------------------------------------------
(* The further invariant *)

\* A row gets its task when it is inserted and keeps it.
LEMMA TasksStay ==
  ASSUME TableInv, RowsHaveTasks, [Next]_vars
  PROVE  RowsHaveTasks'
<1>0. job \in [Jobs -> JobType] /\ run \in [Procs -> RunType]
  BY DEF TableInv, TypeOK
<1>1. ASSUME UNCHANGED job PROVE RowsHaveTasks' BY <1>1 DEF RowsHaveTasks
<1>s. ASSUME NEW p \in Runners, run[p].pc \in Holding,
             NEW status \in {"done", "dead", "pending"}, SettleRow(p, status)
      PROVE  RowsHaveTasks'
  <2> DEFINE j == run[p].job
  <2>1. /\ j \in Jobs /\ run[p].id # None /\ UnlockedUnlessRunning
    BY <1>s, QueueConstants DEF TableInv, ArgumentsSet, IdsSet, Procs, Runners
  <2>2. CASE ~Owns(p) BY <1>1, <1>s, <2>2 DEF SettleRow
  <2>3. CASE Owns(p)
    <3>1. job[j].status = "running" BY <2>1, <2>3 DEF Owns, UnlockedUnlessRunning
    <3>2. job' = [job EXCEPT ![j].status = status, ![j].lockedBy = None,
                             ![j].fresh = FALSE, ![j].due = FALSE]
      BY <1>s, <2>3 DEF SettleRow
    <3> HIDE DEF j
    <3>3. \A k \in Jobs : /\ job'[k].task = job[k].task
                          /\ k # j => job'[k].status = job[k].status
      BY <1>0, <2>1, <3>2 DEF JobType
    <3> QED BY <3>1, <3>3 DEF RowsHaveTasks
  <2> QED BY <2>2, <2>3
<1>2. ASSUME NEW c \in Callers, EnqueueInsert(c) PROVE RowsHaveTasks'
  <2>1. run[c].task \in Tasks
    BY <1>2 DEF EnqueueInsert, TableInv, ArgumentsSet, Callers, Procs
  <2> QED BY <1>0, <1>2, <2>1 DEF EnqueueInsert, UnclaimedJob, RowsHaveTasks
<1>3. ASSUME NEW w \in Workers, Reap(w) PROVE RowsHaveTasks'
  <2>1. \A k \in Jobs : /\ job'[k].task = job[k].task
                        /\ job'[k].status # job[k].status => job[k].status = "running"
    BY <1>0, <1>3 DEF Reap, Stale, JobType
  <2> QED BY <2>1 DEF RowsHaveTasks
<1>4. ASSUME NEW p \in Runners, Ladder(p) PROVE RowsHaveTasks'
  <2>1. CASE ClaimCommit(p)
    <3> DEFINE j == run[p].job
    <3>1. j \in Jobs /\ job[j].status = "pending"
      BY <2>1 DEF ClaimCommit, TableInv, ArgumentsSet, RowLocksHold, Procs, Runners
    <3>2. /\ \A k \in Jobs : k # j => job'[k] = job[k]
          /\ job'[j].task = job[j].task
      BY <1>0, <2>1, <3>1 DEF ClaimCommit, JobType
    <3> QED BY <3>1, <3>2 DEF RowsHaveTasks
  <2>2. CASE SkipJob(p) \/ CompleteJob(p) \/ DeadLetterJob(p) \/ FailJob(p)
    BY <2>2, <1>s DEF SkipJob, CompleteJob, DeadLetterJob, FailJob, AfterFailure,
                      Holding, Settling
  <2> QED
    BY <1>1, <1>4, <2>1, <2>2
    DEF Ladder, ClaimSelect, ClaimEmpty, Preflight, PeerCheck, Work
<1>5. ASSUME NEW a \in Admins, RetryWrite(a) PROVE RowsHaveTasks'
  <2> DEFINE j == run[a].job
  <2>1. CASE job[j].status = "dead" /\ ~Conflicts(job[j].task)
    <3>1. job' = [job EXCEPT ![j].status = "pending", ![j].lockedBy = None,
                             ![j].attempts = 0, ![j].due = TRUE]
      BY <1>5, <2>1 DEF RetryWrite
    <3>2. j \in Jobs BY <1>5 DEF RetryWrite, TableInv, ArgumentsSet, Procs
    <3> HIDE DEF j
    <3>3. \A k \in Jobs : /\ job'[k].task = job[k].task
                          /\ k # j => job'[k].status = job[k].status
      BY <1>0, <3>1, <3>2 DEF JobType
    <3> QED BY <2>1, <3>3 DEF RowsHaveTasks
  <2> QED BY <1>1, <1>5, <2>1 DEF RetryWrite
<1>6. ASSUME NEW j \in Jobs, BackoffElapses(j) \/ LockAges(j)
      PROVE  RowsHaveTasks'
  BY <1>0, <1>6 DEF BackoffElapses, LockAges, JobType, RowsHaveTasks
<1>7. ASSUME NEW p \in Runners, AckLost(p) PROVE RowsHaveTasks'
  BY <1>7, <1>s DEF AckLost, Holding, Settling
<1>8. \/ \E c \in Callers : EnqueueInsert(c)
      \/ \E w \in Workers : Reap(w)
      \/ \E p \in Runners : Ladder(p)
      \/ \E a \in Admins : RetryWrite(a)
      \/ \E j \in Jobs : BackoffElapses(j) \/ LockAges(j)
      \/ \E p \in Runners : AckLost(p)
      \/ UNCHANGED job
  BY DEF Next, vars, RetryRead, StatementFails, Crash, Enqueue, EnqueueReuse,
         EnqueueCheck, EnqueueConflict, EnqueueReselect
<1> QED BY <1>1, <1>2, <1>3, <1>4, <1>5, <1>6, <1>7, <1>8

-----------------------------------------------------------------------------
(* Steps seen through the mapping *)

\* Row by row, the same statuses and tasks, and no lock has aged.
SameRow(k) ==
  /\ job'[k].status = job[k].status /\ job'[k].task = job[k].task
  /\ job[k].status = "running" => job'[k].fresh = job[k].fresh

\* Run q stays at work on the same claim, or stays out of work.
SameHold(q) ==
  /\ run'[q].pc \in Holding <=> run[q].pc \in Holding
  /\ run[q].pc \in Holding => run'[q].job = run[q].job /\ run'[q].claim = run[q].claim

\* Nobody but p moves.
Alone(p) == \A q \in Runners \ {p} : run'[q] = run[q]

\* A step of p moves p, or nobody the queue knows.
LEMMA StepMoves ==
  ASSUME TableInv, TableInv', NEW p \in Procs, Alone(p)
  PROVE  /\ Queue!AnyMove
         /\ p \in Runners /\ run'[p].pc # run[p].pc => Queue!Move(p)
         /\ p \notin Runners \/ run'[p].pc = run[p].pc => UNCHANGED at
<1>1. /\ \A q \in Runners : run'[q].pc \in Pcs
      /\ Runners \subseteq Procs
  BY DEF TableInv, TypeOK, RunType, Procs, Runners
<1>2. p \in Runners /\ run'[p].pc # run[p].pc => Queue!Move(p)
  <2> SUFFICES ASSUME p \in Runners, run'[p].pc # run[p].pc PROVE Queue!Move(p)
    OBVIOUS
  <2>1. at'[p] # at[p] /\ at'[p] \in Pcs BY <1>1 DEF at
  <2>2. at' = [q \in Runners |-> run'[q].pc] BY DEF at
  <2>3. \A q \in Runners \ {p} : at'[q] = at[q] BY <2>2 DEF Alone, at
  <2>4. at' = [at EXCEPT ![p] = at'[p]] BY <2>2, <2>3 DEF at
  <2> QED BY <2>1, <2>4 DEF Queue!Move, at
<1>3. ASSUME p \notin Runners \/ run'[p].pc = run[p].pc PROVE UNCHANGED at
  <2>1. \A q \in Runners : run'[q].pc = run[q].pc BY <1>3 DEF Alone
  <2> QED BY <2>1 DEF at
<1>4. Queue!AnyMove
  BY <1>2, <1>3 DEF Queue!AnyMove, at
<1> QED BY <1>2, <1>3, <1>4

\* One open job, one phase.
LEMMA PhaseOfRow ==
  ASSUME OneOpenJobPerTask, NEW j \in Jobs, NEW t \in Tasks,
         job[j].status \in OpenStatuses, job[j].task = t,
         job[j].fresh \in BOOLEAN
  PROVE  PhaseOf(t) = IF job[j].status = "pending" THEN "queued"
                      ELSE IF job[j].fresh THEN "leased" ELSE "overdue"
<1>1. OpenJobs(t) = {j} BY DEF OpenJobs, OneOpenJobPerTask
<1> QED BY <1>1 DEF PhaseOf, OpenStatuses

\* What the mapping looks at in the rows.
LEMMA PhasesFollowRows ==
  ASSUME \A k \in Jobs : SameRow(k), NEW t \in Tasks
  PROVE  PhaseOf(t)' = PhaseOf(t)
<1>1. (OpenJobs(t))' = OpenJobs(t) BY DEF OpenJobs, SameRow
<1>2. /\ (\E j \in (OpenJobs(t))' : job'[j].status = "running" /\ job'[j].fresh)
           <=> (\E j \in OpenJobs(t) : job[j].status = "running" /\ job[j].fresh)
      /\ (\E j \in (OpenJobs(t))' : job'[j].status = "running" /\ ~job'[j].fresh)
           <=> (\E j \in OpenJobs(t) : job[j].status = "running" /\ ~job[j].fresh)
  BY <1>1 DEF OpenJobs, SameRow
<1> QED BY <1>1, <1>2 DEF PhaseOf

\* Rows that keep status and task, and runs that keep their claims.
LEMMA Stutters ==
  ASSUME TableInv, \A k \in Jobs : SameRow(k), UNCHANGED claims,
         \A q \in Runners : SameHold(q)
  PROVE  UNCHANGED <<phase, holders>>
<1>1. \A q \in Runners : run[q].pc \in Holding => run[q].job \in Jobs
  BY DEF TableInv, ArgumentsSet, Procs, Runners
<1>2. ASSUME NEW q \in Runners, NEW t \in Tasks
      PROVE  HoldsLease(q, t)' <=> HoldsLease(q, t)
  BY <1>1 DEF HoldsLease, SameHold, SameRow
<1>3. UNCHANGED phase BY PhasesFollowRows DEF phase
<1>4. UNCHANGED holders BY <1>2 DEF holders
<1> QED BY <1>3, <1>4

\* A run that stops work without touching its row loses its lease.
LEMMA Loses ==
  ASSUME TableInv, \A k \in Jobs : SameRow(k), UNCHANGED claims,
         NEW p \in Runners, run'[p].pc \notin Holding,
         \A q \in Runners \ {p} : SameHold(q), Queue!Move(p)
  PROVE  Queue!Lose(p)
<1>1. \A q \in Runners : run[q].pc \in Holding => run[q].job \in Jobs
  BY DEF TableInv, ArgumentsSet, Procs, Runners
<1>2. ASSUME NEW q \in Runners \ {p}, NEW t \in Tasks
      PROVE  HoldsLease(q, t)' <=> HoldsLease(q, t)
  BY <1>1 DEF HoldsLease, SameHold, SameRow
<1>3. \A t \in Tasks : ~HoldsLease(p, t)' BY DEF HoldsLease
<1>4. UNCHANGED phase BY PhasesFollowRows DEF phase
<1>5. holders' = [t \in Tasks |-> holders[t] \ {p}]
  BY <1>2, <1>3 DEF holders
<1> QED BY <1>4, <1>5 DEF Queue!Lose, phase, holders, at

\* A settle that lands finishes the task, or hands it back.
LEMMA Finishes ==
  ASSUME LeaseInv, NEW p \in Runners, run[p].pc \in Holding, Owns(p),
         NEW status \in {"done", "dead", "pending"}, SettleRow(p, status),
         UNCHANGED claims, \A q \in Runners \ {p} : SameHold(q),
         run'[p].pc \in Holding => run'[p].job = run[p].job, Queue!Move(p)
  PROVE  \E t \in Tasks : Queue!Finish(t, p)
<1>j. PICK j \in Jobs : j = run[p].job
  BY DEF LeaseInv, TableInv, ArgumentsSet, Procs, Runners
<1>1. /\ job \in [Jobs -> JobType] /\ run[p].id # None
      /\ \A q \in Runners : run[q].pc \in Holding => run[q].job \in Jobs
      /\ UnlockedUnlessRunning
  BY QueueConstants
  DEF LeaseInv, TableInv, TypeOK, ArgumentsSet, IdsSet, Procs, Runners
<1>2. job[j].status = "running"
  BY <1>j, <1>1 DEF Owns, UnlockedUnlessRunning
<1>t. PICK t \in Tasks : t = job[j].task
  BY <1>2 DEF LeaseInv, RowsHaveTasks
<1>3. run[p].claim = claims[j] BY <1>j DEF LeaseInv, SettleByLatestClaim
<1>4. /\ \A k \in Jobs : k # j => job'[k] = job[k]
      /\ job'[j].status = status /\ job'[j].task = t
  <2>1. job' = [job EXCEPT ![j].status = status, ![j].lockedBy = None,
                           ![j].fresh = FALSE, ![j].due = FALSE]
    BY <1>j DEF SettleRow
  <2> QED BY <1>1, <1>t, <2>1 DEF JobType
<1>5. \A k \in Jobs : job[k].status \in OpenStatuses /\ job[k].task = t => k = j
  BY <1>2, <1>t DEF LeaseInv, TableInv, OneOpenJobPerTask, OpenStatuses
<1>6. PhaseOf(t) \in {"leased", "overdue"}
  <2>1. job[j].fresh \in BOOLEAN BY <1>1 DEF JobType
  <2> QED
    BY <1>2, <1>t, <2>1, PhaseOfRow DEF LeaseInv, TableInv, OpenStatuses
<1>7. PhaseOf(t)' \in {"none", "queued"}
  <2>1. \A k \in (OpenJobs(t))' : job'[k].status # "running"
    BY <1>1, <1>4, <1>5 DEF OpenJobs, OpenStatuses
  <2> QED BY <2>1 DEF PhaseOf
<1>8. ASSUME NEW u \in Tasks, u # t PROVE PhaseOf(u)' = PhaseOf(u)
  <2>1. \A k \in Jobs : job[k].task = u \/ job'[k].task = u => job'[k] = job[k]
    BY <1>4, <1>8, <1>t
  <2>2. (OpenJobs(u))' = OpenJobs(u) BY <2>1 DEF OpenJobs
  <2>3. \A k \in OpenJobs(u) : job'[k] = job[k] BY <2>1 DEF OpenJobs
  <2> QED BY <2>2, <2>3 DEF PhaseOf
<1>9. HoldsLease(p, t) BY <1>2, <1>3, <1>j, <1>t DEF HoldsLease
<1>10. ASSUME NEW q \in Runners PROVE ~HoldsLease(q, t)'
  <2>1. run'[q].pc \in Holding => run'[q].job \in Jobs
    BY <1>1, <1>j DEF SameHold
  <2> QED BY <1>1, <1>4, <1>5, <2>1 DEF HoldsLease, OpenStatuses
<1>11. ASSUME NEW u \in Tasks, u # t, NEW q \in Runners
       PROVE  HoldsLease(q, u)' <=> HoldsLease(q, u)
  <2>1. CASE q = p
    BY <1>j, <1>t, <1>4, <1>11, <2>1 DEF HoldsLease
  <2>2. CASE q # p
    <3>1. SameHold(q) /\ (run[q].pc \in Holding => run[q].job \in Jobs)
      BY <1>1, <2>2
    <3> QED BY <1>1, <1>4, <1>11, <1>t, <3>1 DEF HoldsLease, SameHold
  <2> QED BY <2>1, <2>2
<1>12. phase' = [phase EXCEPT ![t] = PhaseOf(t)'] BY <1>8 DEF phase
<1>13. holders' = [holders EXCEPT ![t] = {}] BY <1>10, <1>11 DEF holders
<1>14. phase[t] \in Queue!OnLease /\ p \in holders[t]
  BY <1>6, <1>9 DEF phase, holders, Queue!OnLease
<1> QED BY <1>7, <1>12, <1>13, <1>14 DEF Queue!Finish, phase, holders, at, Queue!OnLease

\* A row that opens submits its task.
LEMMA Submits ==
  ASSUME LeaseInv, NEW j \in Jobs, NEW t \in Tasks, OpenJobs(t) = {},
         job[j].status \notin OpenStatuses,
         job'[j].status = "pending", job'[j].task = t,
         \A k \in Jobs : k # j => SameRow(k), UNCHANGED claims,
         \A q \in Runners : SameHold(q), Queue!AnyMove
  PROVE  Queue!Submit(t)
<1>1. \A q \in Runners : run[q].pc \in Holding => run[q].job \in Jobs
  BY DEF LeaseInv, TableInv, ArgumentsSet, Procs, Runners
<1>2. PhaseOf(t) = "none" BY DEF PhaseOf
<1>3. PhaseOf(t)' = "queued"
  <2>1. (OpenJobs(t))' = {j} BY DEF OpenJobs, OpenStatuses, SameRow
  <2> QED BY <2>1 DEF PhaseOf
<1>4. ASSUME NEW u \in Tasks, u # t PROVE PhaseOf(u)' = PhaseOf(u)
  <2>1. (OpenJobs(u))' = OpenJobs(u) BY <1>4 DEF OpenJobs, SameRow
  <2>2. \A k \in OpenJobs(u) : k # j BY DEF OpenJobs
  <2> QED BY <2>1, <2>2 DEF PhaseOf, SameRow
<1>5. ASSUME NEW q \in Runners, NEW u \in Tasks
      PROVE  HoldsLease(q, u)' <=> HoldsLease(q, u)
  BY <1>1 DEF HoldsLease, SameHold, SameRow, OpenStatuses
<1>6. phase[t] = "none" /\ phase' = [phase EXCEPT ![t] = "queued"]
  BY <1>2, <1>3, <1>4 DEF phase
<1>7. UNCHANGED holders BY <1>5 DEF holders
<1> QED BY <1>6, <1>7 DEF Queue!Submit, phase, holders, at

\* A claim's commit leases the task to the run that made it.
LEMMA Leases ==
  ASSUME LeaseInv, NEW p \in Runners, ClaimCommit(p), Queue!Move(p)
  PROVE  \E t \in Tasks : Queue!Lease(t, p)
<1>j. PICK j \in Jobs : j = run[p].job
  BY DEF ClaimCommit, LeaseInv, TableInv, ArgumentsSet, Procs, Runners
<1>1. /\ job \in [Jobs -> JobType] /\ run \in [Procs -> RunType]
      /\ claims \in [Jobs -> Nat] /\ p \in Procs /\ Runners \subseteq Procs
      /\ job[j].status = "pending" /\ run[p].pc \notin Holding
      /\ \A q \in Runners : run[q].pc \in Holding => run[q].job \in Jobs
  BY <1>j DEF ClaimCommit, LeaseInv, TableInv, TypeOK, ArgumentsSet, RowLocksHold,
         Procs, Runners, Holding, Settling
<1>t. PICK t \in Tasks : t = job[j].task BY <1>1 DEF LeaseInv, RowsHaveTasks
<1>3. /\ \A k \in Jobs : k # j => job'[k] = job[k] /\ claims'[k] = claims[k]
      /\ job'[j].status = "running" /\ job'[j].task = t /\ job'[j].fresh = TRUE
      /\ claims'[j] = claims[j] + 1
      /\ \A q \in Runners : q # p => run'[q] = run[q]
      /\ run'[p].pc \in Holding /\ run'[p].job = j /\ run'[p].claim = claims[j] + 1
  BY <1>1, <1>j, <1>t DEF ClaimCommit, JobType, RunType, Holding
<1>4. \A k \in Jobs : job[k].status \in OpenStatuses /\ job[k].task = t => k = j
  BY <1>1, <1>t DEF LeaseInv, TableInv, OneOpenJobPerTask, OpenStatuses
<1>5. PhaseOf(t) = "queued"
  <2>1. OpenJobs(t) = {j} BY <1>1, <1>4, <1>t DEF OpenJobs, OpenStatuses
  <2> QED BY <1>1, <2>1 DEF PhaseOf
<1>6. PhaseOf(t)' = "leased"
  <2>1. (OpenJobs(t))' = {j} BY <1>1, <1>3, <1>4 DEF OpenJobs, OpenStatuses
  <2> QED BY <1>3, <2>1 DEF PhaseOf
<1>7. ASSUME NEW u \in Tasks, u # t PROVE PhaseOf(u)' = PhaseOf(u)
  <2>1. \A k \in Jobs : job[k].task = u \/ job'[k].task = u => job'[k] = job[k]
    BY <1>3, <1>7, <1>t
  <2>2. (OpenJobs(u))' = OpenJobs(u) BY <2>1 DEF OpenJobs
  <2>3. \A k \in OpenJobs(u) : job'[k] = job[k] BY <2>1 DEF OpenJobs
  <2> QED BY <2>2, <2>3 DEF PhaseOf
<1>8. HoldsLease(p, t)' BY <1>3 DEF HoldsLease
<1>9. ASSUME NEW q \in Runners, q # p PROVE ~HoldsLease(q, t)'
  <2> SUFFICES ASSUME run[q].pc \in Holding, job'[run[q].job].task = t,
                      job'[run[q].job].status = "running",
                      run[q].claim = claims'[run[q].job]
               PROVE  FALSE
    BY <1>3, <1>9 DEF HoldsLease
  <2>1. run[q].job = j BY <1>1, <1>3, <1>4 DEF OpenStatuses
  <2>2. run[q].claim <= claims[j] /\ run[q].claim \in Nat
    BY <1>1, <2>1 DEF LeaseInv, ClaimsInThePast, RunType
  <2> QED BY <1>1, <1>3, <2>1, <2>2
<1>10. ASSUME NEW u \in Tasks, u # t, NEW q \in Runners
       PROVE  HoldsLease(q, u)' <=> HoldsLease(q, u)
  <2>1. CASE q = p BY <1>1, <1>3, <1>10, <2>1 DEF HoldsLease
  <2>2. CASE q # p
    <3>1. run'[q] = run[q] /\ (run[q].pc \in Holding => run[q].job \in Jobs)
      BY <1>1, <1>3, <2>2
    <3> QED BY <1>1, <1>3, <1>10, <1>t, <3>1 DEF HoldsLease
  <2> QED BY <2>1, <2>2
<1>11. phase[t] = "queued" /\ phase' = [phase EXCEPT ![t] = "leased"]
  BY <1>5, <1>6, <1>7 DEF phase
<1>12. holders' = [holders EXCEPT ![t] = {p}]
  BY <1>8, <1>9, <1>10 DEF holders
<1> QED BY <1>11, <1>12 DEF Queue!Lease, phase, holders, at

\* A lock that leaves the stale window makes its lease overdue.
LEMMA Ages ==
  ASSUME LeaseInv, NEW j \in Jobs, LockAges(j), UNCHANGED at
  PROVE  \E t \in Tasks : Queue!Age(t)
<1>0. /\ job \in [Jobs -> JobType] /\ OneOpenJobPerTask /\ UNCHANGED <<run, claims>>
      /\ \A q \in Runners : run[q].pc \in Holding => run[q].job \in Jobs
      /\ job[j].status = "running" /\ job[j].fresh = TRUE
      /\ job' = [job EXCEPT ![j].fresh = FALSE]
  BY DEF LockAges, LeaseInv, TableInv, TypeOK, ArgumentsSet, Procs, Runners, JobType
<1>t. PICK t \in Tasks : t = job[j].task BY <1>0 DEF LeaseInv, RowsHaveTasks
<1>1. \A k \in Jobs : /\ job'[k].status = job[k].status /\ job'[k].task = job[k].task
                      /\ k # j => job'[k] = job[k]
  BY <1>0 DEF JobType
<1>2. job'[j].status = "running" /\ job'[j].fresh = FALSE /\ job'[j].task = t
  BY <1>0, <1>t DEF JobType
<1>3. PhaseOf(t) = "leased" BY <1>0, <1>t, PhaseOfRow DEF OpenStatuses
<1>4. PhaseOf(t)' = "overdue"
  <2>1. OpenJobs(t) = {j}
    BY <1>0, <1>t DEF OpenJobs, OneOpenJobPerTask, OpenStatuses
  <2>2. (OpenJobs(t))' = {j} BY <1>1, <2>1 DEF OpenJobs
  <2> QED BY <1>2, <2>2 DEF PhaseOf
<1>5. ASSUME NEW u \in Tasks, u # t PROVE PhaseOf(u)' = PhaseOf(u)
  <2>1. (OpenJobs(u))' = OpenJobs(u) BY <1>1 DEF OpenJobs
  <2>2. \A k \in OpenJobs(u) : job'[k] = job[k] BY <1>1, <1>5, <1>t DEF OpenJobs
  <2> QED BY <2>1, <2>2 DEF PhaseOf
<1>6. \A q \in Runners : \A u \in Tasks : HoldsLease(q, u)' <=> HoldsLease(q, u)
  BY <1>0, <1>1 DEF HoldsLease
<1>7. phase[t] = "leased" /\ phase' = [phase EXCEPT ![t] = "overdue"]
  BY <1>3, <1>4, <1>5 DEF phase
<1>8. UNCHANGED holders BY <1>6 DEF holders
<1> QED BY <1>7, <1>8 DEF Queue!Age, phase, holders, at

-----------------------------------------------------------------------------
(* Every step of the queue *)

QueueStep == [Queue!Next]_<<phase, holders, at>>

\* Process p goes on, and no row or hold changes.
LEMMA Quiet ==
  ASSUME TableInv, TableInv', NEW p \in Procs, Alone(p),
         \A k \in Jobs : SameRow(k), UNCHANGED claims,
         \A q \in Runners : SameHold(q)
  PROVE  QueueStep
<1>1. UNCHANGED <<phase, holders>> BY Stutters
<1>2. CASE p \in Runners /\ run'[p].pc # run[p].pc
  <2>1. Queue!Work(p) BY <1>1, <1>2, StepMoves DEF Queue!Work, phase, holders, at
  <2> QED BY <1>2, <2>1 DEF Queue!Next, QueueStep
<1>3. CASE p \notin Runners \/ run'[p].pc = run[p].pc
  BY <1>1, <1>3, StepMoves DEF QueueStep
<1> QED BY <1>2, <1>3

\* A settle statement, whatever it finds: it finishes the task, or the row is
\* not the run's any more, and the run at most gives up a lease.
LEMMA Settles ==
  ASSUME LeaseInv, NEW p \in Runners, run[p].pc \in Holding,
         NEW status \in {"done", "dead", "pending"}, SettleRow(p, status),
         UNCHANGED claims, \A q \in Runners \ {p} : SameHold(q),
         SameHold(p) \/ run'[p].pc \notin Holding, Queue!Move(p)
  PROVE  Queue!Next
<1>1. CASE Owns(p)
  <2>1. \E t \in Tasks : Queue!Finish(t, p) BY <1>1, Finishes DEF SameHold
  <2> QED BY <2>1 DEF Queue!Next
<1>2. CASE ~Owns(p)
  <2>1. TableInv /\ \A k \in Jobs : SameRow(k)
    BY <1>2 DEF SettleRow, SameRow, LeaseInv
  <2>2. CASE SameHold(p)
    <3>1. UNCHANGED <<phase, holders>> BY <2>1, <2>2, Stutters
    <3>2. Queue!Work(p) BY <3>1 DEF Queue!Work, phase, holders, at
    <3> QED BY <3>2 DEF Queue!Next
  <2>3. CASE run'[p].pc \notin Holding
    <3>1. Queue!Lose(p) BY <2>1, <2>3, Loses
    <3> QED BY <3>1 DEF Queue!Next
  <2> QED BY <2>2, <2>3
<1> QED BY <1>1, <1>2

\* Of a step by process p, what the mapping sees of the runs.
LEMMA OthersHold ==
  ASSUME TableInv, NEW p \in Procs
  PROVE  /\ Leave(p) \/ NextInBatch(p)
              => /\ run'[p].pc \notin Holding /\ Alone(p)
                 /\ \A q \in Procs \ {p} : SameHold(q)
         /\ \A pc : Goto(p, pc) =>
              /\ run'[p].pc = pc /\ Alone(p)
              /\ (pc \in Holding <=> run[p].pc \in Holding) => \A q \in Procs : SameHold(q)
         /\ \A t, k : Return(p, t, k) =>
              /\ Alone(p)
              /\ run[p].pc \notin Holding => \A q \in Procs : SameHold(q)
<1>0. run \in [Procs -> RunType] /\ Runners \subseteq Procs
  BY DEF TableInv, TypeOK, Procs, Runners
<1>1. ASSUME Leave(p) \/ NextInBatch(p)
      PROVE  /\ run'[p].pc \notin Holding /\ Alone(p)
             /\ \A q \in Procs \ {p} : SameHold(q)
  BY <1>0, <1>1
  DEF Leave, NextInBatch, IdleRun, JoblessRun, Rest, Holding, Settling, SameHold, Alone
<1>2. ASSUME NEW pc, Goto(p, pc)
      PROVE  /\ run'[p].pc = pc /\ Alone(p)
             /\ (pc \in Holding <=> run[p].pc \in Holding) => \A q \in Procs : SameHold(q)
  BY <1>0, <1>2 DEF Goto, SameHold, RunType, Alone
<1>3. ASSUME NEW t, NEW k, Return(p, t, k)
      PROVE  /\ Alone(p)
             /\ run[p].pc \notin Holding => \A q \in Procs : SameHold(q)
  BY <1>0, <1>3
  DEF Return, IdleRun, JoblessRun, Rest, Holding, Settling, SameHold, Alone
<1> QED BY <1>1, <1>2, <1>3

\* The reaper ends every stale lease at once.
LEMMA ReapExpires ==
  ASSUME LeaseInv, NEW w \in Workers, Reap(w), Queue!AnyMove
  PROVE  Queue!Next
<1>0. /\ job \in [Jobs -> JobType] /\ UNCHANGED claims
      /\ \A q \in Runners : run[q].pc \in Holding => run[q].job \in Jobs
  BY DEF LeaseInv, TableInv, TypeOK, ArgumentsSet, Procs, Runners, Reap
<1>1. \A q \in Runners : SameHold(q)
  <2>1. w \in Procs /\ TableInv /\ Goto(w, "poll") /\ run[w].pc \notin Holding
        /\ "poll" \notin Holding /\ Runners \subseteq Procs
    BY DEF LeaseInv, Reap, Procs, Runners, Holding, Settling
  <2> QED BY <2>1, OthersHold
<1>2. \A k \in Jobs :
        /\ job'[k].task = job[k].task
        /\ job'[k].status = IF Stale(k) THEN "pending" ELSE job[k].status
        /\ job'[k].fresh = job[k].fresh
  BY <1>0 DEF Reap, JobType
<1>3. PICK S \in SUBSET Tasks : S = {t \in Tasks : \E k \in OpenJobs(t) : Stale(k)}
  OBVIOUS
<1>4. ASSUME NEW t \in S
      PROVE  /\ PhaseOf(t) = "overdue" /\ PhaseOf(t)' = "queued"
             /\ \A q \in Runners : ~HoldsLease(q, t)'
  <2>1. PICK j \in Jobs : j \in OpenJobs(t) /\ Stale(j) BY <1>3 DEF OpenJobs
  <2>2. job[j].status = "running" /\ job'[j].status = "pending" /\ job'[j].task = t
    BY <1>2, <2>1 DEF Stale, OpenJobs
  <2>3. \A k \in Jobs : job[k].status \in OpenStatuses /\ job[k].task = t => k = j
    BY <2>1 DEF LeaseInv, TableInv, OneOpenJobPerTask, OpenJobs
  <2>4. PhaseOf(t) = "overdue"
    BY <1>0, <2>1, <2>2, PhaseOfRow
    DEF Stale, OpenStatuses, OpenJobs, LeaseInv, TableInv, JobType
  <2>5. (OpenJobs(t))' = {j}
    BY <1>2, <2>2, <2>3 DEF OpenJobs, OpenStatuses, Stale
  <2>6. PhaseOf(t)' = "queued" BY <2>2, <2>5 DEF PhaseOf
  <2>7. ASSUME NEW q \in Runners PROVE ~HoldsLease(q, t)'
    BY <1>0, <1>1, <1>2, <2>2, <2>3 DEF HoldsLease, SameHold, OpenStatuses
  <2> QED BY <2>4, <2>6, <2>7
<1>5. ASSUME NEW t \in Tasks \ S
      PROVE  /\ PhaseOf(t)' = PhaseOf(t)
             /\ \A q \in Runners : HoldsLease(q, t)' <=> HoldsLease(q, t)
  <2>1. \A k \in Jobs : job[k].task = t => SameRow(k)
    BY <1>2, <1>3 DEF OpenJobs, OpenStatuses, Stale, SameRow
  <2>2. (OpenJobs(t))' = OpenJobs(t) BY <1>2, <2>1 DEF OpenJobs, SameRow
  <2>3. \A k \in OpenJobs(t) : job'[k].status = job[k].status /\ job'[k].fresh = job[k].fresh
    BY <1>2, <2>1 DEF OpenJobs, SameRow
  <2>4. PhaseOf(t)' = PhaseOf(t) BY <2>2, <2>3 DEF PhaseOf
  <2>5. ASSUME NEW q \in Runners PROVE HoldsLease(q, t)' <=> HoldsLease(q, t)
    BY <1>0, <1>1, <1>2, <2>1 DEF HoldsLease, SameHold, SameRow
  <2> QED BY <2>4, <2>5
<1>6. \A t \in S : phase[t] = "overdue" BY <1>4 DEF phase
<1>7. phase' = [t \in Tasks |-> IF t \in S THEN "queued" ELSE phase[t]]
  BY <1>4, <1>5 DEF phase
<1>8. holders' = [t \in Tasks |-> IF t \in S THEN {} ELSE holders[t]]
  BY <1>4, <1>5 DEF holders
<1>9. Queue!Expire(S) BY <1>6, <1>7, <1>8 DEF Queue!Expire, phase, holders, at
<1> QED BY <1>9 DEF Queue!Next

\* A step of the queue is a step of LeaseQueue, or none.
LEMMA StepImplements ==
  ASSUME LeaseInv, TableInv', [Next]_vars
  PROVE  QueueStep
<1>0. TableInv /\ Runners \subseteq Procs /\ Callers \subseteq Procs
      /\ Admins \subseteq Procs /\ Procs \ Runners \subseteq Clients \cup Admins
  BY DEF LeaseInv, Procs, Runners, Callers
<1>n. Queue!Next => QueueStep BY DEF QueueStep
<1>s. ASSUME NEW p \in Procs, Alone(p), UNCHANGED <<job, claims>>,
             \A q \in Procs : SameHold(q)
      PROVE  QueueStep
  BY <1>0, <1>s, Quiet DEF SameRow
<1>l. ASSUME NEW p \in Procs, Leave(p), run[p].pc # Rest(p), UNCHANGED <<job, claims>>
      PROVE  QueueStep
  <2>1. /\ run'[p].pc \notin Holding /\ Alone(p)
        /\ \A q \in Procs \ {p} : SameHold(q)
    BY <1>0, <1>l, OthersHold
  <2>2. run'[p].pc = Rest(p)
    BY <1>0, <1>l DEF Leave, IdleRun, JoblessRun, TableInv, TypeOK
  <2>3. CASE p \in Runners
    <3>1. Queue!Move(p) BY <1>0, <1>l, <2>1, <2>2, <2>3, StepMoves
    <3>2. Queue!Lose(p) BY <1>0, <1>l, <2>1, <2>3, <3>1, Loses DEF SameRow
    <3> QED BY <1>n, <2>3, <3>2 DEF Queue!Next
  <2>4. CASE p \notin Runners
    BY <1>0, <1>l, <2>1, <2>4, Quiet DEF SameRow
  <2> QED BY <2>3, <2>4
<1>1. ASSUME NEW c \in Callers, Enqueue(c) PROVE QueueStep
  <2>0. c \in Procs BY <1>0
  <2>1. ASSUME NEW t \in Tasks, EnqueueReuse(c, t) PROVE QueueStep
    BY <1>0, <1>s, <2>0, <2>1, OthersHold DEF EnqueueReuse, Holding, Settling
  <2>2. ASSUME NEW t \in Tasks, EnqueueCheck(c, t) PROVE QueueStep
    <3>1. Alone(c) /\ \A q \in Procs : SameHold(q)
      BY <1>0, <2>0, <2>2
      DEF EnqueueCheck, SameHold, Alone, TableInv, TypeOK, RunType, Holding, Settling
    <3> QED BY <1>s, <2>0, <2>2, <3>1 DEF EnqueueCheck
  <2>3. CASE EnqueueInsert(c)
    <3>1. PICK t \in Tasks : t = run[c].task
      BY <2>0, <2>3 DEF EnqueueInsert, TableInv, ArgumentsSet, LeaseInv
    <3>2. PICK j \in Jobs :
            /\ job[j].status = "absent"
            /\ job' = [job EXCEPT ![j] = UnclaimedJob("pending", t, TRUE)]
            /\ Return(c, t, j)
      BY <2>3, <3>1 DEF EnqueueInsert
    <3>3. Alone(c) /\ \A q \in Runners : SameHold(q)
      BY <1>0, <2>0, <2>3, <3>2, OthersHold DEF EnqueueInsert, Holding, Settling
    <3>m. Queue!AnyMove BY <1>0, <2>0, <3>3, StepMoves
    <3>4. /\ job'[j].status = "pending" /\ job'[j].task = t
          /\ \A k \in Jobs : k # j => SameRow(k)
          /\ OpenJobs(t) = {} /\ UNCHANGED claims
      BY <1>0, <2>3, <3>1, <3>2
      DEF EnqueueInsert, Conflicts, UnclaimedJob, SameRow, TableInv, TypeOK
    <3>5. job[j].status \notin OpenStatuses BY <3>2 DEF OpenStatuses
    <3>6. Queue!Submit(t) BY <3>m, <3>3, <3>4, <3>5, Submits
    <3> QED BY <1>n, <3>6 DEF Queue!Next
  <2>4. CASE EnqueueConflict(c)
    BY <1>0, <1>s, <2>0, <2>4, OthersHold DEF EnqueueConflict, Holding, Settling
  <2>5. CASE EnqueueReselect(c)
    <3>1. CASE Leave(c)
      BY <1>l, <2>0, <2>5, <3>1 DEF EnqueueReselect, Rest
    <3>2. CASE \E k : Return(c, run[c].task, k)
      BY <1>0, <1>s, <2>0, <2>5, <3>2, OthersHold DEF EnqueueReselect, Holding, Settling
    <3> QED BY <2>5, <3>1, <3>2 DEF EnqueueReselect
  <2> QED BY <1>1, <2>1, <2>2, <2>3, <2>4, <2>5 DEF Enqueue
<1>2. ASSUME NEW w \in Workers, Reap(w) PROVE QueueStep
  <2>1. w \in Procs /\ Alone(w)
    BY <1>0, <1>2, OthersHold DEF Reap, Procs
  <2>2. Queue!AnyMove BY <1>0, <2>1, StepMoves
  <2> QED BY <1>2, <1>n, <2>2, ReapExpires
<1>3. ASSUME NEW p \in Runners, Ladder(p) PROVE QueueStep
  <2>0. p \in Procs BY <1>0
  <2>1. ASSUME NEW j \in Jobs, ClaimSelect(p, j) PROVE QueueStep
    <3>1. Alone(p) /\ \A q \in Procs : SameHold(q)
      BY <1>0, <2>0, <2>1
      DEF ClaimSelect, SameHold, Alone, TableInv, TypeOK, RunType, Holding, Settling
    <3> QED BY <1>s, <2>0, <2>1, <3>1 DEF ClaimSelect
  <2>2. CASE ClaimCommit(p)
    <3>1. Alone(p) /\ run[p].pc = "claiming" /\ run'[p].pc = "preflight"
      BY <1>0, <2>0, <2>2 DEF ClaimCommit, Alone, TableInv, TypeOK, RunType
    <3>2. Queue!Move(p) BY <1>0, <1>3, <2>0, <3>1, StepMoves
    <3>3. \E t \in Tasks : Queue!Lease(t, p) BY <2>2, <3>2, Leases
    <3> QED BY <1>n, <3>3 DEF Queue!Next
  <2>3. CASE ClaimEmpty(p) BY <1>l, <2>0, <2>3 DEF ClaimEmpty, Rest
  <2>4. ASSUME NEW view \in TaskViews, Preflight(p, view)
        PROVE  QueueStep
    <3>1. run[p].pc \in Holding /\ \E pc \in Holding : Goto(p, pc)
      BY <2>4 DEF Preflight, TaskViews, Holding, Settling
    <3> QED BY <1>0, <1>s, <2>0, <2>4, <3>1, OthersHold DEF Preflight
  <2>5. CASE PeerCheck(p)
    <3>1. run[p].pc \in Holding /\ \E pc \in Holding : Goto(p, pc)
      BY <2>5 DEF PeerCheck, Holding, Settling
    <3> QED BY <1>0, <1>s, <2>0, <2>5, <3>1, OthersHold DEF PeerCheck
  <2>6. ASSUME NEW outcome \in Outcomes, Work(p, outcome)
        PROVE  QueueStep
    <3>1. run[p].pc \in Holding /\ \E pc \in Holding : Goto(p, pc)
      BY <2>6 DEF Work, Outcomes, Holding, Settling
    <3> QED BY <1>0, <1>s, <2>0, <2>6, <3>1, OthersHold DEF Work
  <2>7. CASE SkipJob(p) \/ CompleteJob(p) \/ DeadLetterJob(p) \/ FailJob(p)
    <3>1. /\ run[p].pc \in Holding /\ NextInBatch(p) /\ UNCHANGED claims
          /\ \E status \in {"done", "dead", "pending"} : SettleRow(p, status)
      BY <2>7 DEF SkipJob, CompleteJob, DeadLetterJob, FailJob, AfterFailure,
                  Holding, Settling
    <3>2. /\ run'[p].pc \notin Holding /\ Alone(p)
          /\ \A q \in Runners \ {p} : SameHold(q)
      BY <1>0, <2>0, <3>1, OthersHold
    <3>3. Queue!Move(p) BY <1>0, <1>3, <2>0, <3>1, <3>2, StepMoves
    <3> QED BY <1>n, <1>3, <3>1, <3>2, <3>3, Settles
  <2> QED BY <1>3, <2>1, <2>2, <2>3, <2>4, <2>5, <2>6, <2>7 DEF Ladder
<1>4. ASSUME NEW a \in Admins, NEW j \in Jobs, RetryRead(a, j)
      PROVE  QueueStep
  <2>1. a \in Procs /\ Alone(a) /\ \A q \in Procs : SameHold(q)
    BY <1>0, <1>4
    DEF RetryRead, SameHold, Alone, TableInv, TypeOK, RunType, Holding, Settling
  <2> QED BY <1>s, <1>4, <2>1 DEF RetryRead
<1>5. ASSUME NEW a \in Admins, RetryWrite(a) PROVE QueueStep
  <2>1. PICK j \in Jobs : j = run[a].job
    BY <1>0, <1>5 DEF RetryWrite, TableInv, ArgumentsSet
  <2>2. CASE job[j].status = "dead" /\ ~Conflicts(job[j].task)
    <3>1. PICK t \in Tasks : t = job[j].task
      BY <2>2 DEF LeaseInv, RowsHaveTasks
    <3>2. job' = [job EXCEPT ![j].status = "pending", ![j].lockedBy = None,
                             ![j].attempts = 0, ![j].due = TRUE]
      BY <1>5, <2>1, <2>2 DEF RetryWrite
    <3>3. /\ job'[j].status = "pending" /\ job'[j].task = t
          /\ \A k \in Jobs : k # j => SameRow(k)
      BY <1>0, <3>1, <3>2 DEF SameRow, TableInv, TypeOK, JobType
    <3>4. a \in Procs /\ Alone(a) /\ \A q \in Runners : SameHold(q)
      BY <1>0, <1>5, OthersHold DEF RetryWrite, SameHold, Holding, Settling
    <3>m. Queue!AnyMove BY <1>0, <3>4, StepMoves
    <3>5. /\ OpenJobs(t) = {} /\ UNCHANGED claims /\ job[j].status \notin OpenStatuses
      BY <1>5, <2>2, <3>1 DEF RetryWrite, Conflicts, OpenStatuses
    <3>6. Queue!Submit(t) BY <3>m, <3>3, <3>4, <3>5, Submits
    <3> QED BY <1>n, <3>6 DEF Queue!Next
  <2>3. CASE ~(job[j].status = "dead" /\ ~Conflicts(job[j].task))
    BY <1>0, <1>5, <1>l, <2>1, <2>3 DEF RetryWrite, Rest
  <2> QED BY <2>2, <2>3
<1>6. ASSUME NEW j \in Jobs, BackoffElapses(j) \/ LockAges(j)
      PROVE  QueueStep
  <2>0. UNCHANGED <<run, claims>> /\ \A q \in Runners : SameHold(q)
    BY <1>6 DEF BackoffElapses, LockAges, SameHold
  <2>1. UNCHANGED at BY <2>0 DEF at
  <2>2. CASE BackoffElapses(j)
    <3>1. \A k \in Jobs : SameRow(k)
      BY <1>0, <2>2 DEF BackoffElapses, SameRow, TableInv, TypeOK, JobType
    <3>2. UNCHANGED <<phase, holders>> BY <1>0, <2>0, <3>1, Stutters
    <3> QED BY <2>1, <3>2 DEF QueueStep
  <2>3. CASE LockAges(j)
    <3>1. \E t \in Tasks : Queue!Age(t) BY <2>0, <2>1, <2>3, Ages
    <3> QED BY <1>n, <3>1 DEF Queue!Next
  <2> QED BY <1>6, <2>2, <2>3
<1>7. ASSUME NEW p \in Runners, StatementFails(p) PROVE QueueStep
  <2>1. CASE Leave(p) /\ run[p].pc \in Holding
    BY <1>0, <1>7, <1>l, <2>1 DEF StatementFails, Rest, Holding, Settling
  <2>2. CASE run[p].pc \in Holding /\ Goto(p, "fail")
    BY <1>0, <1>7, <1>s, <2>2, OthersHold DEF StatementFails, Holding, Settling
  <2> QED BY <1>7, <2>1, <2>2 DEF StatementFails, Holding, Settling
<1>8. ASSUME NEW p \in Runners, AckLost(p) PROVE QueueStep
  <2>1. /\ run[p].pc \in Holding /\ UNCHANGED claims /\ SettleRow(p, "done")
        /\ Goto(p, "fail")
    BY <1>8 DEF AckLost, Holding, Settling
  <2>2. Alone(p) /\ (\A q \in Runners : SameHold(q)) /\ run'[p].pc # run[p].pc
    BY <1>0, <1>8, <2>1, OthersHold DEF AckLost, Holding, Settling
  <2>3. Queue!Move(p) BY <1>0, <1>8, <2>2, StepMoves
  <2> QED BY <1>n, <1>8, <2>1, <2>2, <2>3, Settles
<1>9. ASSUME NEW p \in Procs, Crash(p) PROVE QueueStep
  BY <1>9, <1>l DEF Crash
<1>10. CASE UNCHANGED vars
  BY <1>10 DEF vars, QueueStep, phase, holders, at, PhaseOf, OpenJobs, HoldsLease
<1>11. \/ \E c \in Callers : Enqueue(c)
       \/ \E w \in Workers : Reap(w)
       \/ \E p \in Runners : Ladder(p)
       \/ \E a \in Admins : RetryWrite(a)
       \/ \E a \in Admins : \E j \in Jobs : RetryRead(a, j)
       \/ \E j \in Jobs : BackoffElapses(j) \/ LockAges(j)
       \/ \E p \in Runners : StatementFails(p)
       \/ \E p \in Runners : AckLost(p)
       \/ \E p \in Procs : Crash(p)
       \/ UNCHANGED vars
  BY Zenon DEF Next
<1> QED
  BY <1>1, <1>2, <1>3, <1>4, <1>5, <1>6, <1>7, <1>8, <1>9, <1>10, <1>11

\* The empty table is the empty queue.
LEMMA InitImplements == Init => Queue!Init
<1> SUFFICES ASSUME Init PROVE Queue!Init OBVIOUS
<1>1. \A t \in Tasks : OpenJobs(t) = {}
  BY DEF Init, OpenJobs, NoJob, UnclaimedJob, OpenStatuses
<1>2. \A p \in Runners : run[p].pc \notin Holding
  BY DEF Init, IdleRun, JoblessRun, Rest, Holding, Settling, Procs, Runners
<1>3. \A t \in Tasks : PhaseOf(t) = "none" BY <1>1 DEF PhaseOf
<1>4. \A t \in Tasks : {p \in Runners : HoldsLease(p, t)} = {} BY <1>2 DEF HoldsLease
<1>5. [p \in Runners |-> run[p].pc] \in [Runners -> Pcs]
  BY DEF Init, IdleRun, JoblessRun, Rest, Pcs, Procs, Runners
<1> QED BY <1>3, <1>4, <1>5 DEF Queue!Init

\* The invariant of the mapping: the fence, and the table's own.
LEMMA LeaseAlways ==
  ASSUME ClaimsNamed
  PROVE  Spec => []LeaseInv
<1>1. Init => RowsHaveTasks
  BY DEF Init, RowsHaveTasks, NoJob, UnclaimedJob
<1>2. TableInv /\ RowsHaveTasks /\ [Next]_vars => RowsHaveTasks'
  BY TasksStay
<1>3. Spec => []RowsHaveTasks BY <1>1, <1>2, TableAlways, PTL DEF Spec
<1>4. Spec => []SettleByLatestClaim BY FenceHolds
<1>5. TableInv /\ SettleByLatestClaim /\ ClaimsInThePast /\ RowsHaveTasks <=> LeaseInv
  BY DEF LeaseInv
<1> QED BY <1>3, <1>4, <1>5, ClaimsNumbered, TableAlways, PTL

\* With one approval drain at a time, or with no operator who resets attempts,
\* the job queue is a lease queue: however many rows, workers, clients, crashes,
\* reaps, lost acknowledgements and slow runs there are, a task leaves the queue
\* only by a step of the run that claimed it last, and goes back in line by such
\* a step or when its lock has left the stale window.
THEOREM Implementation ==
  ASSUME ClaimsNamed
  PROVE  Spec => ImplementsLeaseQueue
<1>1. Spec => []LeaseInv BY LeaseAlways
<1>2. LeaseInv /\ TableInv' /\ [Next]_vars => [Queue!Next]_<<phase, holders, at>>
  BY StepImplements DEF QueueStep
<1>3. <<phase, holders, at>> = Queue!vars BY DEF phase, holders, at, Queue!vars
<1> QED
  BY <1>1, <1>2, <1>3, InitImplements, TableAlways, PTL
  DEF Spec, ImplementsLeaseQueue, Queue!Spec, Queue!vars, phase, holders, at
=============================================================================
