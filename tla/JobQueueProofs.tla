--------------------------- MODULE JobQueueProofs ---------------------------
(***************************************************************************)
(* What holds of the job queue for any number of rows, workers and calls.  *)
(*                                                                         *)
(* The fence (SettleByLatestClaim) rests on worker ids: a loop worker has  *)
(* an id of its own and runs one job at a time, so while it is busy nobody *)
(* else can put that id on its row.  Approval drains share the id of their *)
(* job, and the fence then rests on its other half: attempts counts the    *)
(* claims of a row as long as no operator resets it.  The theorems about   *)
(* the fence assume one or the other (ClaimsNamed); two drains and a retry *)
(* break it.                                                               *)
(***************************************************************************)
EXTENDS JobQueue, TLAPS

SingleDrain == \A d, e \in Drains : d = e

\* No two claims of a row share the pair (locked_by, attempts): either ids
\* differ, or attempts is never reset.
ClaimsNamed == SingleDrain \/ Admins = {}

\* A row that is not running is locked by nobody.
UnlockedUnlessRunning ==
  \A j \in Jobs : job[j].status # "running" => job[j].lockedBy = None

\* Fields a process relies on at each point of its call.
ArgumentsSet ==
  \A p \in Procs :
    /\ run[p].pc \in {"insert", "reselect"} => run[p].task \in Tasks
    /\ run[p].pc \in {"claiming", "retry"} \cup Holding => run[p].job \in Jobs

\* Ids under which runs claim.
IdsSet ==
  /\ \A w \in Workers : run[w].id = w
  /\ \A d \in Drains :
       run[d].pc \in {"poll", "claiming"} \cup Holding => run[d].id \in Jobs

\* A claim statement between its sub-select and its commit: the row stays
\* pending, and no other claim statement has it.
RowLocksHold ==
  \A p \in Runners :
    run[p].pc = "claiming" =>
      /\ job[run[p].job].status = "pending"
      /\ \A q \in Runners : run[q].pc = "claiming" /\ run[q].job = run[p].job => p = q

\* The guard's first half is enough: a row under the run's id carries the
\* run's own claim.
LatestClaimById ==
  \A p \in Runners :
    run[p].pc \in Holding /\ job[run[p].job].lockedBy = run[p].id
      => run[p].claim = claims[run[p].job]

TableInv ==
  /\ TypeOK
  /\ UnlockedUnlessRunning
  /\ ArgumentsSet
  /\ IdsSet
  /\ RowLocksHold
  /\ OneOpenJobPerTask

-----------------------------------------------------------------------------

\* The empty table, with every process at rest, is well formed.
LEMMA InitTable == Init => TableInv
  BY QueueConstants
  DEF Init, TableInv, TypeOK, UnlockedUnlessRunning, ArgumentsSet, IdsSet,
      RowLocksHold, OneOpenJobPerTask, NoJob, UnclaimedJob, IdleRun, JoblessRun, Rest, JobType, RunType,
      Pcs, Statuses, OpenStatuses, Holding, Settling, Procs, Runners

\* No statement of enqueueJob spoils the table: the partial unique index stands
\* behind the racing inserts.
LEMMA EnqueueKeepsTable ==
  ASSUME TableInv, NEW c \in Callers, Enqueue(c)
  PROVE  TableInv'
<1> USE QueueConstants
    DEF TableInv, TypeOK, UnlockedUnlessRunning, ArgumentsSet, IdsSet,
        RowLocksHold, OneOpenJobPerTask, JobType, RunType, Pcs, Statuses,
        OpenStatuses, Holding, Settling, Callers, Procs, Runners,
        OpenJobs, Return, JoblessRun, IdleRun, Rest
<1>1. ASSUME NEW t \in Tasks, EnqueueReuse(c, t) PROVE TableInv'
  BY <1>1 DEF EnqueueReuse
<1>2. ASSUME NEW t \in Tasks, EnqueueCheck(c, t) PROVE TableInv'
  BY <1>2 DEF EnqueueCheck
<1>3. CASE EnqueueInsert(c)
  BY <1>3 DEF EnqueueInsert, Conflicts, UnclaimedJob
<1>4. CASE EnqueueConflict(c)
  BY <1>4 DEF EnqueueConflict, Goto
<1>5. CASE EnqueueReselect(c)
  BY <1>5 DEF EnqueueReselect, Leave
<1> QED BY <1>1, <1>2, <1>3, <1>4, <1>5 DEF Enqueue

\* What the rows owe the other rows and the processes, when a step leaves
\* every open row's task alone, opens no row, and claims none.
RowsOnlyClose ==
  /\ job' \in [Jobs -> JobType]
  /\ \A k \in Jobs :
       /\ job'[k].status # "running" => job'[k].lockedBy = None
       /\ job'[k].status \in OpenStatuses =>
            job[k].status \in OpenStatuses /\ job'[k].task = job[k].task
       /\ job[k].status = "pending" => job'[k].status = "pending"

\* Process p moves to a point outside the claim statement where it still has
\* what it needs; the other processes stay.
StepOf(p) ==
  /\ run' \in [Procs -> RunType]
  /\ \A q \in Procs : q # p => run'[q] = run[q]
  /\ run'[p].pc \in {"insert", "reselect"} => run'[p].task \in Tasks
  /\ run'[p].pc \in {"retry"} \cup Holding => run'[p].job \in Jobs
  /\ p \in Workers => run'[p].id = p
  /\ p \in Drains /\ run'[p].pc \in {"poll"} \cup Holding => run'[p].id \in Jobs
  /\ run'[p].pc # "claiming"

\* A step that claims nothing and whose rows only close or wait keeps the table.
LEMMA Frame ==
  ASSUME TableInv,
         RowsOnlyClose \/ UNCHANGED job,
         (\E p \in Procs : StepOf(p)) \/ UNCHANGED run,
         claims' \in [Jobs -> Nat],
         budget' \in [{"slow", "crash", "fault", "retry"} -> Nat]
  PROVE  TableInv'
<1>1. TypeOK' BY DEF TableInv, TypeOK, RowsOnlyClose, StepOf
<1>2. UnlockedUnlessRunning'
  BY DEF TableInv, UnlockedUnlessRunning, RowsOnlyClose
<1>3. OneOpenJobPerTask' BY DEF TableInv, OneOpenJobPerTask, RowsOnlyClose
<1>4. ArgumentsSet' BY DEF TableInv, ArgumentsSet, StepOf
<1>5. IdsSet' BY DEF TableInv, IdsSet, StepOf, Procs
<1>6. RowLocksHold'
  <2>1. \A p \in Runners : run'[p].pc = "claiming" => run'[p] = run[p]
    BY DEF StepOf, Procs, Runners
  <2>2. \A p \in Runners : run[p].pc = "claiming" => run[p].job \in Jobs
    BY DEF TableInv, ArgumentsSet, Procs, Runners
  <2> QED BY <2>1, <2>2 DEF TableInv, RowLocksHold, RowsOnlyClose
<1> QED BY <1>1, <1>2, <1>3, <1>4, <1>5, <1>6 DEF TableInv

\* Moves of a single process.
LEMMA Moves ==
  ASSUME TableInv, NEW p \in Procs
  PROVE  /\ Leave(p) => StepOf(p)
         /\ p \in Runners /\ NextInBatch(p) => StepOf(p)
         /\ \A pc \in Holding :
              p \in Runners /\ run[p].pc \in Holding /\ Goto(p, pc) => StepOf(p)
<1> USE QueueConstants
    DEF TableInv, TypeOK, ArgumentsSet, IdsSet, RunType, Pcs, StepOf, Procs, Runners
<1>1. Leave(p) => StepOf(p) BY DEF Leave, IdleRun, JoblessRun, Rest, Holding, Settling
<1>2. p \in Runners /\ NextInBatch(p) => StepOf(p)
  BY <1>1 DEF NextInBatch, JoblessRun, Holding, Settling
<1>3. ASSUME NEW pc \in Holding, p \in Runners, run[p].pc \in Holding, Goto(p, pc)
      PROVE  StepOf(p)
  BY <1>3 DEF Goto, Holding, Settling
<1> QED BY <1>1, <1>2, <1>3

\* A settle finds its claim gone and writes nothing, or closes a running row
\* or puts it back in line.
LEMMA SettleClosesRow ==
  ASSUME TableInv, NEW p \in Runners, run[p].pc \in Holding,
         NEW status \in {"done", "dead", "pending"}, SettleRow(p, status)
  PROVE  RowsOnlyClose \/ UNCHANGED job
<1>1. SUFFICES ASSUME Owns(p) PROVE RowsOnlyClose BY DEF SettleRow
<1> DEFINE j == run[p].job
<1>2. /\ job \in [Jobs -> JobType] /\ j \in Jobs /\ run[p].id # None
      /\ UnlockedUnlessRunning
  BY QueueConstants DEF TableInv, TypeOK, ArgumentsSet, IdsSet, Procs, Runners
<1>3. job[j].status = "running"
  BY <1>1, <1>2 DEF Owns, UnlockedUnlessRunning
<1>4. job' = [job EXCEPT ![j].status = status, ![j].lockedBy = None,
                         ![j].fresh = FALSE, ![j].due = FALSE]
  BY <1>1 DEF SettleRow
<1> HIDE DEF j
<1>5. job' \in [Jobs -> JobType]
  <2>1. job[j] \in JobType BY <1>2
  <2>2. job'[j] = [status |-> status, task |-> job[j].task,
                  attempts |-> job[j].attempts, lockedBy |-> None,
                  fresh |-> FALSE, due |-> FALSE]
    BY <1>2, <1>4, <2>1 DEF JobType
  <2>3. job'[j] \in JobType BY <2>1, <2>2 DEF JobType, Statuses
  <2> QED BY <1>2, <1>4, <2>3
<1>6. ASSUME NEW k \in Jobs
      PROVE  /\ job'[k].status # "running" => job'[k].lockedBy = None
             /\ job'[k].status \in OpenStatuses =>
                  job[k].status \in OpenStatuses /\ job'[k].task = job[k].task
             /\ job[k].status = "pending" => job'[k].status = "pending"
  <2>1. CASE k # j
    BY <2>1, <1>2, <1>4 DEF UnlockedUnlessRunning
  <2>2. CASE k = j
    BY <2>2, <1>2, <1>3, <1>4 DEF JobType, OpenStatuses
  <2> QED BY <2>1, <2>2
<1> QED BY <1>5, <1>6 DEF RowsOnlyClose

\* Nor does a step of the claim, preflight, work and settle ladder.
LEMMA LadderKeepsTable ==
  ASSUME TableInv, NEW p \in Runners, Ladder(p)
  PROVE  TableInv'
<1>0. /\ p \in Procs
      /\ claims \in [Jobs -> Nat]
      /\ budget \in [{"slow", "crash", "fault", "retry"} -> Nat]
  BY DEF TableInv, TypeOK, Procs, Runners
<1>1. ASSUME NEW j \in Jobs, ClaimSelect(p, j) PROVE TableInv'
  BY <1>1, QueueConstants
  DEF ClaimSelect, Eligible, RowLocked, TableInv, TypeOK, UnlockedUnlessRunning,
      ArgumentsSet, IdsSet, RowLocksHold, OneOpenJobPerTask, JobType, RunType,
      Pcs, Holding, Settling, Procs, Runners
<1>2. CASE ClaimCommit(p)
  <2> DEFINE j == run[p].job
  <2>1. /\ j \in Jobs /\ job[j].status = "pending"
        /\ job \in [Jobs -> JobType] /\ run \in [Procs -> RunType]
        /\ run[p].id \in Workers \cup Jobs
        /\ p \in Workers => run[p].id = p
    BY <1>2 DEF ClaimCommit, TableInv, TypeOK, ArgumentsSet, IdsSet,
                RowLocksHold, Procs, Runners
  <2>2. /\ job' = [job EXCEPT ![j].status = "running", ![j].lockedBy = run[p].id,
                              ![j].fresh = TRUE, ![j].attempts = @ + 1]
        /\ run' = [run EXCEPT ![p].pc = "preflight",
                              ![p].attempts = job[j].attempts + 1,
                              ![p].claim = claims[j] + 1]
        /\ claims' = [claims EXCEPT ![j] = @ + 1]
        /\ UNCHANGED budget
    BY <1>2 DEF ClaimCommit
  <2> HIDE DEF j
  <2>3. TypeOK'
    BY <1>0, <2>1, <2>2 DEF TypeOK, JobType, RunType, Statuses, Pcs, Holding
  <2>4. /\ \A k \in Jobs : k # j => job'[k] = job[k]
        /\ job'[j].status = "running" /\ job'[j].task = job[j].task
    BY <2>1, <2>2 DEF JobType
  <2>5. /\ \A q \in Procs : q # p => run'[q] = run[q]
        /\ run'[p].pc = "preflight" /\ run'[p].id = run[p].id
        /\ run'[p].job = run[p].job /\ run'[p].task = run[p].task
    BY <1>0, <2>1, <2>2 DEF RunType
  <2>6. (UnlockedUnlessRunning /\ OneOpenJobPerTask)'
    BY <2>1, <2>4 DEF TableInv, UnlockedUnlessRunning, OneOpenJobPerTask, OpenStatuses
  <2>7. (ArgumentsSet /\ IdsSet)'
    BY <1>0, <1>2, <2>1, <2>5, QueueConstants
    DEF ClaimCommit, TableInv, ArgumentsSet, IdsSet, Holding, Procs
  <2>8. RowLocksHold'
    <3>1. ASSUME NEW q \in Runners, run'[q].pc = "claiming"
          PROVE  q # p /\ run'[q] = run[q] /\ run[q].job # j /\ run[q].job \in Jobs
      BY <3>1, <1>2, <2>5
      DEF ClaimCommit, TableInv, RowLocksHold, ArgumentsSet, Procs, Runners, j
    <3> QED BY <3>1, <2>4 DEF TableInv, RowLocksHold
  <2> QED BY <2>3, <2>6, <2>7, <2>8 DEF TableInv
<1>3. CASE ClaimEmpty(p)
  BY <1>0, <1>3, Frame, Moves DEF ClaimEmpty
<1>4. ASSUME NEW view \in TaskViews, Preflight(p, view) PROVE TableInv'
  <2>1. run[p].pc \in Holding /\ \E pc \in Holding : Goto(p, pc)
    BY <1>4 DEF Preflight, TaskViews, Holding, Settling
  <2> QED BY <1>0, <1>4, <2>1, Frame, Moves DEF Preflight
<1>5. CASE PeerCheck(p)
  <2>1. run[p].pc \in Holding /\ \E pc \in Holding : Goto(p, pc)
    BY <1>5 DEF PeerCheck, Holding, Settling
  <2> QED BY <1>0, <1>5, <2>1, Frame, Moves DEF PeerCheck
<1>6. ASSUME NEW outcome \in Outcomes, Work(p, outcome) PROVE TableInv'
  <2>1. run[p].pc \in Holding /\ \E pc \in Holding : Goto(p, pc)
    BY <1>6 DEF Work, Outcomes, Holding, Settling
  <2> QED BY <1>0, <1>6, <2>1, Frame, Moves DEF Work
<1>7. CASE SkipJob(p) \/ CompleteJob(p) \/ DeadLetterJob(p) \/ FailJob(p)
  <2>1. /\ run[p].pc \in Holding /\ NextInBatch(p) /\ UNCHANGED <<claims, budget>>
        /\ \E status \in {"done", "dead", "pending"} : SettleRow(p, status)
    BY <1>7 DEF SkipJob, CompleteJob, DeadLetterJob, FailJob, AfterFailure,
                Holding, Settling
  <2>2. RowsOnlyClose \/ UNCHANGED job BY <2>1, SettleClosesRow
  <2> QED BY <1>0, <2>1, <2>2, Frame, Moves
<1> QED BY <1>1, <1>2, <1>3, <1>4, <1>5, <1>6, <1>7 DEF Ladder

\* Nor do the reaper, an operator retry, time, failing statements and crashes.
LEMMA OthersKeepTable ==
  ASSUME TableInv,
         \/ \E w \in Workers : Reap(w)
         \/ \E a \in Admins : RetryWrite(a) \/ \E j \in Jobs : RetryRead(a, j)
         \/ \E j \in Jobs : BackoffElapses(j) \/ LockAges(j)
         \/ \E p \in Runners : StatementFails(p) \/ AckLost(p)
         \/ \E p \in Procs : Crash(p)
  PROVE  TableInv'
<1>0. /\ job \in [Jobs -> JobType] /\ run \in [Procs -> RunType]
      /\ claims \in [Jobs -> Nat]
      /\ budget \in [{"slow", "crash", "fault", "retry"} -> Nat]
      /\ UnlockedUnlessRunning
  BY DEF TableInv, TypeOK
<1>s. ASSUME NEW kind \in {"slow", "crash", "fault", "retry"}, Spend(kind)
      PROVE  budget' \in [{"slow", "crash", "fault", "retry"} -> Nat]
  BY <1>0, <1>s DEF Spend
<1>1. ASSUME NEW w \in Workers, Reap(w) PROVE TableInv'
  <2>1. RowsOnlyClose
    BY <1>0, <1>1
    DEF Reap, Stale, RowsOnlyClose, JobType, Statuses, OpenStatuses, UnlockedUnlessRunning
  <2>2. w \in Procs /\ run[w].id = w /\ w \notin Drains
    BY QueueConstants DEF Procs, TableInv, IdsSet
  <2>3. run' = [run EXCEPT ![w].pc = "poll"] BY <1>1 DEF Reap, Goto
  <2>4. StepOf(w)
    BY <1>0, <2>2, <2>3 DEF StepOf, RunType, Pcs, Holding, Settling
  <2> QED BY <1>0, <1>1, <2>1, <2>2, <2>4, Frame DEF Reap
<1>2. ASSUME NEW a \in Admins, NEW j \in Jobs, RetryRead(a, j) PROVE TableInv'
  <2>1. a \in Procs /\ StepOf(a)
    BY <1>0, <1>2, QueueConstants
    DEF RetryRead, StepOf, RunType, Pcs, Holding, Settling, Procs
  <2> QED BY <1>0, <1>2, <1>s, <2>1, Frame DEF RetryRead
<1>3. ASSUME NEW a \in Admins, RetryWrite(a) PROVE TableInv'
  <2> DEFINE j == run[a].job
  <2>1. a \in Procs /\ j \in Jobs /\ StepOf(a)
    BY <1>3, Moves DEF RetryWrite, Procs, TableInv, ArgumentsSet
  <2>2. CASE UNCHANGED job
    BY <1>0, <1>3, <2>1, <2>2, Frame DEF RetryWrite
  <2>3. CASE job[j].status = "dead" /\ ~Conflicts(job[j].task)
    <3>1. job' = [job EXCEPT ![j].status = "pending", ![j].lockedBy = None,
                             ![j].attempts = 0, ![j].due = TRUE]
      BY <1>3, <2>3 DEF RetryWrite
    <3> HIDE DEF j
    <3>2. job' \in [Jobs -> JobType]
      <4>1. job[j] \in JobType BY <1>0, <2>1
      <4>2. job'[j] = [status |-> "pending", task |-> job[j].task, attempts |-> 0,
                      lockedBy |-> None, fresh |-> job[j].fresh, due |-> TRUE]
        BY <1>0, <2>1, <3>1, <4>1 DEF JobType
      <4>3. job'[j] \in JobType BY <4>1, <4>2 DEF JobType, Statuses
      <4> QED BY <1>0, <2>1, <3>1, <4>3
    <3>3. /\ \A k \in Jobs : k # j => job'[k] = job[k]
          /\ job'[j].status = "pending" /\ job'[j].lockedBy = None
          /\ job'[j].task = job[j].task
      BY <1>0, <2>1, <3>1 DEF JobType
    <3>4. TypeOK' BY <1>0, <1>3, <2>1, <3>2 DEF TypeOK, StepOf, RetryWrite
    <3>5. UnlockedUnlessRunning' BY <1>0, <3>3 DEF UnlockedUnlessRunning
    <3>6. OneOpenJobPerTask'
      BY <2>3, <3>3 DEF TableInv, OneOpenJobPerTask, Conflicts, OpenJobs, OpenStatuses
    <3>7. ArgumentsSet' BY <2>1 DEF TableInv, ArgumentsSet, StepOf
    <3>8. IdsSet' BY <2>1 DEF TableInv, IdsSet, StepOf, Procs
    <3>9. RowLocksHold'
      <4>1. \A p \in Runners :
              run'[p].pc = "claiming" => run'[p] = run[p] /\ run[p].job \in Jobs
        BY <2>1 DEF StepOf, Procs, Runners, TableInv, ArgumentsSet
      <4> QED BY <2>3, <3>3, <4>1 DEF TableInv, RowLocksHold
    <3> QED BY <3>4, <3>5, <3>6, <3>7, <3>8, <3>9 DEF TableInv
  <2> QED BY <1>3, <2>2, <2>3 DEF RetryWrite
<1>4. ASSUME NEW j \in Jobs, BackoffElapses(j) \/ LockAges(j) PROVE TableInv'
  <2>1. RowsOnlyClose
    <3>1. CASE BackoffElapses(j)
      BY <1>0, <3>1
      DEF BackoffElapses, RowsOnlyClose, JobType, UnlockedUnlessRunning
    <3>2. CASE LockAges(j)
      BY <1>0, <3>2 DEF LockAges, RowsOnlyClose, JobType, UnlockedUnlessRunning
    <3> QED BY <1>4, <3>1, <3>2
  <2>2. UNCHANGED <<run, claims>>
        /\ budget' \in [{"slow", "crash", "fault", "retry"} -> Nat]
    BY <1>0, <1>4, <1>s DEF BackoffElapses, LockAges
  <2> QED BY <1>0, <2>1, <2>2, Frame
<1>5. ASSUME NEW p \in Runners, StatementFails(p) PROVE TableInv'
  <2>1. p \in Procs /\ StepOf(p)
    BY <1>5, Moves DEF StatementFails, Procs, Runners, Holding, Settling
  <2> QED BY <1>0, <1>5, <1>s, <2>1, Frame DEF StatementFails
<1>6. ASSUME NEW p \in Runners, AckLost(p) PROVE TableInv'
  <2>1. p \in Procs /\ StepOf(p) /\ run[p].pc \in Holding
    BY <1>6, Moves DEF AckLost, Procs, Runners, Holding, Settling
  <2>2. RowsOnlyClose \/ UNCHANGED job BY <1>6, <2>1, SettleClosesRow DEF AckLost
  <2> QED BY <1>0, <1>6, <1>s, <2>1, <2>2, Frame DEF AckLost
<1>7. ASSUME NEW p \in Procs, Crash(p) PROVE TableInv'
  BY <1>0, <1>7, <1>s, Moves, Frame DEF Crash
<1> QED BY <1>1, <1>2, <1>3, <1>4, <1>5, <1>6, <1>7

\* The table is inductive.
LEMMA NextKeepsTable == TableInv /\ [Next]_vars => TableInv'
<1> SUFFICES ASSUME TableInv, [Next]_vars PROVE TableInv' OBVIOUS
<1>1. CASE UNCHANGED vars
  BY <1>1
  DEF vars, TableInv, TypeOK, UnlockedUnlessRunning, ArgumentsSet, IdsSet,
      RowLocksHold, OneOpenJobPerTask
<1> QED BY <1>1, EnqueueKeepsTable, LadderKeepsTable, OthersKeepTable DEF Next

\* The table is well formed in every reachable state.
THEOREM TableAlways == Spec => []TableInv
<1>1. Init => TableInv BY InitTable
<1>2. TableInv /\ [Next]_vars => TableInv' BY NextKeepsTable
<1> QED BY <1>1, <1>2, PTL DEF Spec

\* The tables and processes of jobs.ts keep their types, for any instance.
THEOREM TypeCorrect == Spec => []TypeOK
<1>1. TableInv => TypeOK BY DEF TableInv
<1> QED BY <1>1, TableAlways, PTL

\* However many clients enqueue, operators retry and workers reap, a task
\* never has two open jobs.
THEOREM OneOpenJob == Spec => []OneOpenJobPerTask
<1>1. TableInv => OneOpenJobPerTask BY DEF TableInv
<1> QED BY <1>1, TableAlways, PTL

-----------------------------------------------------------------------------
(* The fence *)

\* Two runs that are both at work claim under different ids.
LEMMA IdsDiffer ==
  ASSUME TableInv, SingleDrain, NEW p \in Runners, NEW q \in Runners, p # q,
         run[p].pc \in {"claiming"} \cup Holding,
         run[q].pc \in {"claiming"} \cup Holding
  PROVE  run[p].id # run[q].id
<1>1. \A r \in {p, q} :
        \/ r \in Workers /\ run[r].id = r
        \/ r \in Drains /\ run[r].id \in Jobs
  BY DEF TableInv, IdsSet, Runners
<1> QED BY <1>1, QueueConstants DEF SingleDrain, Procs

\* Process q is at work only if it was before, on the same claim.
KeepsClaim(q) ==
  run'[q].pc \in Holding =>
    /\ run[q].pc \in Holding /\ run'[q].job = run[q].job
    /\ run'[q].id = run[q].id /\ run'[q].claim = run[q].claim
    /\ run'[q].attempts = run[q].attempts

NobodyClaims ==
  /\ UNCHANGED claims
  /\ \A k \in Jobs : job'[k].lockedBy \in {job[k].lockedBy, None}
  /\ \A q \in Procs : KeepsClaim(q)

\* No step but a claim's commit gives a run a claim or a row a lock.
LEMMA OnlyClaimsLock ==
  ASSUME TableInv, [Next]_vars, \A p \in Runners : ~ClaimCommit(p)
  PROVE  NobodyClaims
<1>0. job \in [Jobs -> JobType] /\ run \in [Procs -> RunType]
  BY DEF TableInv, TypeOK
<1> USE DEF KeepsClaim, NobodyClaims
<1>l. ASSUME NEW p \in Procs, Leave(p) PROVE \A q \in Procs : KeepsClaim(q)
  BY <1>0, <1>l DEF Leave, IdleRun, JoblessRun, Rest, Holding, Settling
<1>b. ASSUME NEW p \in Procs, NextInBatch(p) PROVE \A q \in Procs : KeepsClaim(q)
  BY <1>0, <1>l, <1>b DEF NextInBatch, JoblessRun, Holding, Settling
<1>g. ASSUME NEW p \in Procs, NEW pc, Goto(p, pc), pc \in Holding => run[p].pc \in Holding
      PROVE  \A q \in Procs : KeepsClaim(q)
  BY <1>0, <1>g DEF Goto, RunType
<1>r. ASSUME NEW c \in Procs, NEW t, NEW j, Return(c, t, j)
      PROVE  \A q \in Procs : KeepsClaim(q)
  BY <1>0, <1>r DEF Return, IdleRun, JoblessRun, Rest, Holding, Settling
<1>s. ASSUME NEW p \in Procs, run[p].job \in Jobs, NEW status, SettleRow(p, status)
      PROVE  \A k \in Jobs : job'[k].lockedBy \in {job[k].lockedBy, None}
  <2>1. CASE ~Owns(p) BY <2>1, <1>s DEF SettleRow
  <2>2. CASE Owns(p)
    <3> DEFINE j == run[p].job
    <3>1. job' = [job EXCEPT ![j].status = status, ![j].lockedBy = None,
                             ![j].fresh = FALSE, ![j].due = FALSE]
      BY <1>s, <2>2 DEF SettleRow
    <3> HIDE DEF j
    <3> QED BY <1>0, <3>1 DEF JobType
  <2> QED BY <2>1, <2>2
<1>1. ASSUME NEW c \in Callers, Enqueue(c) PROVE NobodyClaims
  <2>1. c \in Procs BY DEF Callers, Procs
  <2>2. ASSUME NEW t \in Tasks, EnqueueReuse(c, t) PROVE NobodyClaims
    BY <1>r, <2>1, <2>2 DEF EnqueueReuse
  <2>3. ASSUME NEW t \in Tasks, EnqueueCheck(c, t) PROVE NobodyClaims
    BY <1>0, <2>1, <2>3 DEF EnqueueCheck, Holding, Settling
  <2>4. CASE EnqueueInsert(c)
    BY <1>0, <1>r, <2>1, <2>4 DEF EnqueueInsert, UnclaimedJob
  <2>5. CASE EnqueueConflict(c)
    BY <1>g, <2>1, <2>5 DEF EnqueueConflict, Holding, Settling
  <2>6. CASE EnqueueReselect(c)
    BY <1>l, <1>r, <2>1, <2>6 DEF EnqueueReselect
  <2> QED BY <1>1, <2>2, <2>3, <2>4, <2>5, <2>6 DEF Enqueue
<1>2. ASSUME NEW w \in Workers, Reap(w) PROVE NobodyClaims
  <2>1. w \in Procs /\ Goto(w, "poll") /\ UNCHANGED claims
    BY <1>2 DEF Reap, Procs
  <2>2. \A q \in Procs : KeepsClaim(q) BY <1>g, <2>1 DEF Holding, Settling
  <2>3. \A k \in Jobs : job'[k].lockedBy \in {job[k].lockedBy, None}
    BY <1>0, <1>2 DEF Reap, JobType
  <2> QED BY <2>1, <2>2, <2>3
<1>3. ASSUME NEW p \in Runners, Ladder(p) PROVE NobodyClaims
  <2>1. p \in Procs BY DEF Procs, Runners
  <2>2. ASSUME NEW j \in Jobs, ClaimSelect(p, j) PROVE NobodyClaims
    BY <1>0, <2>1, <2>2 DEF ClaimSelect, Holding, Settling
  <2>3. CASE ClaimEmpty(p) BY <1>l, <2>1, <2>3 DEF ClaimEmpty
  <2>4. ASSUME NEW view \in TaskViews, Preflight(p, view) PROVE NobodyClaims
    BY <1>g, <2>1, <2>4 DEF Preflight, Holding
  <2>5. CASE PeerCheck(p) BY <1>g, <2>1, <2>5 DEF PeerCheck, Holding
  <2>6. ASSUME NEW outcome \in Outcomes, Work(p, outcome) PROVE NobodyClaims
    BY <1>g, <2>1, <2>6 DEF Work, Holding
  <2>7. CASE SkipJob(p) \/ CompleteJob(p) \/ DeadLetterJob(p) \/ FailJob(p)
    <3>1. run[p].job \in Jobs
      BY <2>1, <2>7 DEF SkipJob, CompleteJob, DeadLetterJob, FailJob,
                        TableInv, ArgumentsSet, Holding, Settling
    <3> QED BY <1>b, <1>s, <2>1, <2>7, <3>1
            DEF SkipJob, CompleteJob, DeadLetterJob, FailJob
  <2> QED BY <1>3, <2>2, <2>3, <2>4, <2>5, <2>6, <2>7 DEF Ladder
<1>4. ASSUME NEW a \in Admins, NEW j \in Jobs, RetryRead(a, j) PROVE NobodyClaims
  BY <1>0, <1>4 DEF RetryRead, Procs, Holding, Settling
<1>5. ASSUME NEW a \in Admins, RetryWrite(a) PROVE NobodyClaims
  <2>1. a \in Procs /\ Leave(a) /\ UNCHANGED claims BY <1>5 DEF RetryWrite, Procs
  <2>2. \A k \in Jobs : job'[k].lockedBy \in {job[k].lockedBy, None}
    <3> DEFINE j == run[a].job
    <3>1. \/ UNCHANGED job
          \/ job' = [job EXCEPT ![j].status = "pending", ![j].lockedBy = None,
                                ![j].attempts = 0, ![j].due = TRUE]
      BY <1>5 DEF RetryWrite
    <3> HIDE DEF j
    <3> QED BY <1>0, <3>1 DEF JobType
  <2> QED BY <1>l, <2>1, <2>2
<1>6. ASSUME NEW j \in Jobs, BackoffElapses(j) \/ LockAges(j) PROVE NobodyClaims
  <2>1. UNCHANGED <<run, claims>> BY <1>6 DEF BackoffElapses, LockAges
  <2>2. \/ job' = [job EXCEPT ![j].due = TRUE]
        \/ job' = [job EXCEPT ![j].fresh = FALSE]
    BY <1>6 DEF BackoffElapses, LockAges
  <2>3. \A k \in Jobs : job'[k].lockedBy = job[k].lockedBy
    BY <1>0, <2>2 DEF JobType
  <2> QED BY <2>1, <2>3
<1>7. ASSUME NEW p \in Runners, StatementFails(p) PROVE NobodyClaims
  BY <1>g, <1>l, <1>7 DEF StatementFails, Procs, Runners, Holding, Settling
<1>8. ASSUME NEW p \in Runners, AckLost(p) PROVE NobodyClaims
  <2>1. p \in Procs /\ run[p].pc \in Holding /\ run[p].job \in Jobs
    BY <1>8 DEF AckLost, Procs, Runners, TableInv, ArgumentsSet, Holding, Settling
  <2> QED BY <1>g, <1>s, <1>8, <2>1 DEF AckLost
<1>9. ASSUME NEW p \in Procs, Crash(p) PROVE NobodyClaims
  BY <1>l, <1>9 DEF Crash
<1>10. CASE UNCHANGED vars BY <1>10 DEF vars
<1> HIDE DEF KeepsClaim, NobodyClaims
<1>11. \/ \E c \in Callers : Enqueue(c)
       \/ \E w \in Workers : Reap(w)
       \/ \E p \in Runners : Ladder(p)
       \/ \E a \in Admins : RetryWrite(a)
       \/ \E a \in Admins : \E j \in Jobs : RetryRead(a, j)
       \/ \E j \in Jobs : BackoffElapses(j) \/ LockAges(j)
       \/ \E p \in Runners : StatementFails(p)
       \/ \E p \in Runners : AckLost(p)
       \/ \E p \in Procs : Crash(p)
       \/ UNCHANGED vars
  BY Zenon DEF Next
<1> QED
  BY <1>1, <1>2, <1>3, <1>4, <1>5, <1>6, <1>7, <1>8, <1>9, <1>10, <1>11

\* The fence is inductive on top of the table: only a claim locks a row, and it
\* locks it under the id of the run that makes it.
LEMMA FenceStep ==
  ASSUME TableInv, SingleDrain, LatestClaimById, [Next]_vars
  PROVE  LatestClaimById'
<1>1. CASE \A p \in Runners : ~ClaimCommit(p)
  <2> SUFFICES ASSUME NEW p \in Runners, run'[p].pc \in Holding,
                      job'[run'[p].job].lockedBy = run'[p].id
               PROVE  run'[p].claim = claims'[run'[p].job]
    BY DEF LatestClaimById
  <2>1. /\ run[p].pc \in Holding /\ run'[p].job = run[p].job
        /\ run'[p].id = run[p].id /\ run'[p].claim = run[p].claim
        /\ UNCHANGED claims
        /\ \A k \in Jobs : job'[k].lockedBy \in {job[k].lockedBy, None}
    BY <1>1, OnlyClaimsLock DEF NobodyClaims, KeepsClaim, Procs, Runners
  <2>2. run[p].job \in Jobs /\ run[p].id # None
    BY <2>1, QueueConstants
    DEF TableInv, ArgumentsSet, IdsSet, Procs, Runners
  <2> QED BY <2>1, <2>2 DEF LatestClaimById
<1>2. ASSUME NEW q \in Runners, ClaimCommit(q) PROVE LatestClaimById'
  <2> DEFINE j == run[q].job
  <2>1. /\ j \in Jobs /\ job \in [Jobs -> JobType] /\ run \in [Procs -> RunType]
        /\ claims \in [Jobs -> Nat] /\ q \in Procs
    BY <1>2 DEF ClaimCommit, TableInv, TypeOK, ArgumentsSet, Procs, Runners
  <2>2. /\ \A k \in Jobs : k # j => job'[k] = job[k] /\ claims'[k] = claims[k]
        /\ job'[j].lockedBy = run[q].id /\ claims'[j] = claims[j] + 1
        /\ \A p \in Procs : p # q => run'[p] = run[p]
        /\ run'[q].job = j /\ run'[q].id = run[q].id /\ run'[q].claim = claims[j] + 1
    BY <1>2, <2>1 DEF ClaimCommit, JobType, RunType
  <2> SUFFICES ASSUME NEW p \in Runners, run'[p].pc \in Holding,
                      job'[run'[p].job].lockedBy = run'[p].id
               PROVE  run'[p].claim = claims'[run'[p].job]
    BY DEF LatestClaimById
  <2>3. CASE p = q BY <2>2, <2>3
  <2>4. CASE p # q
    <3>1. run'[p] = run[p] /\ run[p].job \in Jobs
      BY <2>2, <2>4 DEF TableInv, ArgumentsSet, Procs, Runners
    <3>2. run[p].id # run[q].id
      BY <1>2, <2>4, <3>1, IdsDiffer DEF ClaimCommit
    <3> QED BY <2>2, <3>1, <3>2 DEF LatestClaimById
  <2> QED BY <2>3, <2>4
<1> QED BY <1>1, <1>2

-----------------------------------------------------------------------------
(* The other half of the guard: attempts *)

\* attempts counts the claims of a row, and a run keeps the count it made.
AttemptsCount ==
  /\ \A j \in Jobs : job[j].attempts = claims[j]
  /\ \A j \in Jobs : job[j].status = "absent" => claims[j] = 0
  /\ \A p \in Runners : run[p].pc \in Holding => run[p].attempts = run[p].claim

\* No run holds a claim its row has not seen yet.
ClaimsInThePast ==
  \A p \in Runners : run[p].pc \in Holding => run[p].claim <= claims[run[p].job]

\* A claim of a row is one run's.
ClaimsUnique ==
  \A p, q \in Runners :
    /\ run[p].pc \in Holding /\ run[q].pc \in Holding
    /\ run[p].job = run[q].job /\ run[p].claim = run[q].claim
    => p = q

\* A claim is counted on its row when the run takes it.
LEMMA ClaimsStayInThePast ==
  ASSUME TableInv, ClaimsInThePast, [Next]_vars
  PROVE  ClaimsInThePast'
<1>0. claims \in [Jobs -> Nat] /\ \A p \in Runners : run[p].pc \in Holding => run[p].job \in Jobs
  BY DEF TableInv, TypeOK, ArgumentsSet, Procs, Runners
<1>1. CASE \A p \in Runners : ~ClaimCommit(p)
  <2>1. \A p \in Runners : KeepsClaim(p) /\ UNCHANGED claims
    BY <1>1, OnlyClaimsLock DEF NobodyClaims, Procs, Runners
  <2> QED BY <2>1 DEF ClaimsInThePast, KeepsClaim
<1>2. ASSUME NEW q \in Runners, ClaimCommit(q) PROVE ClaimsInThePast'
  <2> DEFINE j == run[q].job
  <2>1. /\ j \in Jobs /\ run \in [Procs -> RunType] /\ q \in Procs
        /\ Runners \subseteq Procs
    BY <1>2 DEF ClaimCommit, TableInv, TypeOK, ArgumentsSet, Procs, Runners
  <2>2. /\ \A k \in Jobs : k # j => claims'[k] = claims[k]
        /\ claims'[j] = claims[j] + 1
        /\ \A p \in Procs : p # q => run'[p] = run[p]
        /\ run'[q].job = j /\ run'[q].claim = claims[j] + 1
    BY <1>0, <1>2, <2>1 DEF ClaimCommit, RunType
  <2> HIDE DEF j
  <2>3. ASSUME NEW p \in Runners, run'[p].pc \in Holding
        PROVE  run'[p].claim <= claims'[run'[p].job]
    <3>1. CASE p = q BY <1>0, <2>1, <2>2, <3>1
    <3>2. CASE p # q
      <4>1. /\ run'[p] = run[p] /\ run[p].job \in Jobs
            /\ run[p].claim <= claims[run[p].job] /\ run[p].claim \in Nat
        BY <1>0, <2>1, <2>2, <2>3, <3>2 DEF ClaimsInThePast, RunType
      <4> QED BY <1>0, <2>1, <2>2, <4>1
    <3> QED BY <3>1, <3>2
  <2> QED BY <2>3 DEF ClaimsInThePast
<1> QED BY <1>1, <1>2

\* A new claim has a number nobody holds.
LEMMA ClaimsStayUnique ==
  ASSUME TableInv, ClaimsInThePast, ClaimsUnique, [Next]_vars
  PROVE  ClaimsUnique'
<1>0. /\ claims \in [Jobs -> Nat] /\ run \in [Procs -> RunType]
      /\ Runners \subseteq Procs
      /\ \A p \in Runners : run[p].pc \in Holding => run[p].job \in Jobs
  BY DEF TableInv, TypeOK, ArgumentsSet, Procs, Runners
<1>1. CASE \A p \in Runners : ~ClaimCommit(p)
  <2>1. \A p \in Runners : KeepsClaim(p)
    BY <1>1, OnlyClaimsLock DEF NobodyClaims, Procs, Runners
  <2> QED BY <2>1 DEF ClaimsUnique, KeepsClaim
<1>2. ASSUME NEW c \in Runners, ClaimCommit(c) PROVE ClaimsUnique'
  <2>1. run[c].job \in Jobs
    BY <1>2 DEF ClaimCommit, TableInv, ArgumentsSet, Procs, Runners
  <2>2. /\ \A p \in Runners : p # c => run'[p] = run[p]
        /\ run'[c].job = run[c].job /\ run'[c].claim = claims[run[c].job] + 1
    BY <1>0, <1>2 DEF ClaimCommit, RunType
  <2>3. ASSUME NEW p \in Runners, p # c, run'[p].pc \in Holding,
               run'[p].job = run[c].job
        PROVE  run'[p].claim # run'[c].claim
    <3>1. run[p].claim <= claims[run[c].job] /\ run[p].claim \in Nat
      BY <1>0, <2>2, <2>3 DEF ClaimsInThePast, RunType
    <3> QED BY <1>0, <2>1, <2>2, <2>3, <3>1
  <2> SUFFICES ASSUME NEW p \in Runners, NEW q \in Runners, p # q,
                      run'[p].pc \in Holding, run'[q].pc \in Holding,
                      run'[p].job = run'[q].job, run'[p].claim = run'[q].claim
               PROVE  FALSE
    BY DEF ClaimsUnique
  <2>4. CASE p = c BY <2>2, <2>3, <2>4
  <2>5. CASE q = c BY <2>2, <2>3, <2>5
  <2>6. CASE p # c /\ q # c BY <2>2, <2>6 DEF ClaimsUnique
  <2> QED BY <2>4, <2>5, <2>6
<1> QED BY <1>1, <1>2

\* A row's count of attempts, and that it was never claimed, stay.
CountStays ==
  \A k \in Jobs :
    /\ job'[k].attempts = job[k].attempts \/ (job[k].status = "absent" /\ job'[k].attempts = 0)
    /\ job'[k].status = "absent" => job[k].status = "absent"

\* Without operators only a claim touches attempts.
LEMMA OnlyClaimsCount ==
  ASSUME TableInv, Admins = {}, [Next]_vars, \A p \in Runners : ~ClaimCommit(p)
  PROVE  CountStays
<1>0. job \in [Jobs -> JobType] /\ run \in [Procs -> RunType]
  BY DEF TableInv, TypeOK
<1>1. CASE UNCHANGED job BY <1>1 DEF CountStays
<1>2. ASSUME NEW p \in Runners, run[p].pc \in Holding,
             NEW status \in {"done", "dead", "pending"}, SettleRow(p, status)
      PROVE  CountStays
  <2> DEFINE j == run[p].job
  <2>1. CASE ~Owns(p) BY <1>1, <1>2, <2>1 DEF SettleRow
  <2>2. CASE Owns(p)
    <3>1. job' = [job EXCEPT ![j].status = status, ![j].lockedBy = None,
                             ![j].fresh = FALSE, ![j].due = FALSE]
      BY <1>2, <2>2 DEF SettleRow
    <3> HIDE DEF j
    <3> QED BY <1>0, <3>1 DEF JobType, CountStays
  <2> QED BY <2>1, <2>2
<1>3. ASSUME NEW c \in Callers, EnqueueInsert(c) PROVE CountStays
  BY <1>0, <1>3 DEF EnqueueInsert, UnclaimedJob, JobType, CountStays
<1>4. ASSUME NEW w \in Workers, Reap(w) PROVE CountStays
  BY <1>0, <1>4 DEF Reap, Stale, JobType, CountStays
<1>5. ASSUME NEW p \in Runners, Ladder(p) PROVE CountStays
  BY <1>1, <1>2, <1>5
  DEF Ladder, ClaimSelect, ClaimEmpty, Preflight, PeerCheck, Work, SkipJob,
      CompleteJob, DeadLetterJob, FailJob, AfterFailure, Holding, Settling
<1>6. ASSUME NEW j \in Jobs, BackoffElapses(j) \/ LockAges(j) PROVE CountStays
  BY <1>0, <1>6 DEF BackoffElapses, LockAges, JobType, CountStays
<1>7. ASSUME NEW p \in Runners, AckLost(p) PROVE CountStays
  BY <1>2, <1>7 DEF AckLost, Holding, Settling
<1>8. \/ \E c \in Callers : EnqueueInsert(c)
      \/ \E w \in Workers : Reap(w)
      \/ \E p \in Runners : Ladder(p)
      \/ \E j \in Jobs : BackoffElapses(j) \/ LockAges(j)
      \/ \E p \in Runners : AckLost(p)
      \/ UNCHANGED job
  BY DEF Next, vars, StatementFails, Crash, Enqueue, EnqueueReuse,
         EnqueueCheck, EnqueueConflict, EnqueueReselect
<1> QED BY <1>1, <1>3, <1>4, <1>5, <1>6, <1>7, <1>8

\* Without operators attempts counts claims for ever.
LEMMA CountStep ==
  ASSUME TableInv, Admins = {}, AttemptsCount, [Next]_vars
  PROVE  AttemptsCount'
<1>0. /\ job \in [Jobs -> JobType] /\ run \in [Procs -> RunType]
      /\ claims \in [Jobs -> Nat] /\ Runners \subseteq Procs
  BY DEF TableInv, TypeOK, Procs, Runners
<1>1. CASE \A p \in Runners : ~ClaimCommit(p)
  <2>1. CountStays BY <1>1, OnlyClaimsCount
  <2>2. UNCHANGED claims /\ \A p \in Runners : KeepsClaim(p)
    BY <1>1, OnlyClaimsLock DEF NobodyClaims, Procs, Runners
  <2> QED BY <2>1, <2>2 DEF AttemptsCount, CountStays, KeepsClaim
<1>2. ASSUME NEW c \in Runners, ClaimCommit(c) PROVE AttemptsCount'
  <2>1. PICK j \in Jobs : j = run[c].job
    BY <1>2 DEF ClaimCommit, TableInv, ArgumentsSet, Procs, Runners
  <2>2. /\ \A k \in Jobs : k # j => job'[k] = job[k] /\ claims'[k] = claims[k]
        /\ job'[j].attempts = job[j].attempts + 1 /\ claims'[j] = claims[j] + 1
        /\ job'[j].status = "running"
    BY <1>0, <1>2, <2>1 DEF ClaimCommit, JobType
  <2>3. /\ \A p \in Runners : p # c => run'[p] = run[p]
        /\ run'[c].attempts = job[j].attempts + 1 /\ run'[c].claim = claims[j] + 1
    BY <1>0, <1>2, <2>1 DEF ClaimCommit, RunType
  <2> QED BY <2>2, <2>3 DEF AttemptsCount
<1> QED BY <1>1, <1>2

-----------------------------------------------------------------------------
(* The fence, on either half *)

\* Different ids make the fence.
LEMMA FenceOfIds ==
  ASSUME SingleDrain
  PROVE  Spec => []SettleByLatestClaim
<1>1. Init => LatestClaimById
  BY DEF Init, LatestClaimById, IdleRun, JoblessRun, Rest, Holding, Settling,
         Procs, Runners
<1>2. TableInv /\ LatestClaimById /\ [Next]_vars => LatestClaimById'
  BY FenceStep
<1>3. LatestClaimById => SettleByLatestClaim
  BY DEF LatestClaimById, SettleByLatestClaim, Owns
<1> QED BY <1>1, <1>2, <1>3, TableAlways, PTL DEF Spec

\* So do attempts that are never reset.
LEMMA CountAlways ==
  ASSUME Admins = {}
  PROVE  Spec => []AttemptsCount
<1>1. Init => AttemptsCount
  BY DEF Init, AttemptsCount, NoJob, UnclaimedJob, IdleRun, JoblessRun, Rest,
         Holding, Settling, Procs, Runners
<1>2. TableInv /\ AttemptsCount /\ [Next]_vars => AttemptsCount'
  BY CountStep
<1> QED BY <1>1, <1>2, TableAlways, PTL DEF Spec

LEMMA FenceOfAttempts ==
  ASSUME Admins = {}
  PROVE  Spec => []SettleByLatestClaim
<1>1. TableInv /\ AttemptsCount => SettleByLatestClaim
  BY DEF TableInv, ArgumentsSet, AttemptsCount, SettleByLatestClaim, Owns, Procs, Runners
<1> QED BY <1>1, CountAlways, TableAlways, PTL

\* Claims are numbered, and each number is one run's.
LEMMA ClaimsNumbered == Spec => [](ClaimsInThePast /\ ClaimsUnique)
<1>1. Init => ClaimsInThePast /\ ClaimsUnique
  BY DEF Init, ClaimsInThePast, ClaimsUnique, IdleRun, JoblessRun, Rest,
         Holding, Settling, Procs, Runners
<1>2. TableInv /\ ClaimsInThePast /\ ClaimsUnique /\ [Next]_vars
        => ClaimsInThePast' /\ ClaimsUnique'
  BY ClaimsStayInThePast, ClaimsStayUnique
<1> QED BY <1>1, <1>2, TableAlways, PTL DEF Spec

\* A settle that lands is the settle of the row's latest claim: the comment on
\* JobClaim (jobs.ts:215-221) holds for any number of workers, rows, crashes and
\* reaps while drains run one at a time, or while no operator resets attempts.
THEOREM FenceHolds ==
  ASSUME ClaimsNamed
  PROVE  Spec => []SettleByLatestClaim
BY FenceOfIds, FenceOfAttempts DEF ClaimsNamed

\* Two runs that own rows of one task own the same row.
LEMMA OwnersShareRow ==
  ASSUME TableInv, NEW p \in Runners, NEW q \in Runners,
         run[p].pc \in Holding, run[q].pc \in Holding, Owns(p), Owns(q),
         job[run[p].job].task = job[run[q].job].task
  PROVE  run[p].job = run[q].job
<1>1. /\ run[p].job \in Jobs /\ run[q].job \in Jobs
      /\ run[p].id # None /\ run[q].id # None
  BY QueueConstants DEF TableInv, ArgumentsSet, IdsSet, Procs, Runners
<1>2. job[run[p].job].status = "running" /\ job[run[q].job].status = "running"
  BY <1>1 DEF TableInv, UnlockedUnlessRunning, Owns
<1> QED BY <1>1, <1>2 DEF TableInv, OneOpenJobPerTask, OpenStatuses

LEMMA OneOwnerStated ==
  ASSUME TableInv, SettleByLatestClaim, ClaimsUnique
  PROVE  OneOwnerPerTask
<1> SUFFICES ASSUME NEW p \in Runners, NEW q \in Runners,
                    run[p].pc \in Holding, run[q].pc \in Holding,
                    Owns(p), Owns(q),
                    job[run[p].job].task = job[run[q].job].task
             PROVE  p = q
  BY DEF OneOwnerPerTask
<1>1. run[p].job = run[q].job BY OwnersShareRow
<1>2. run[p].claim = run[q].claim BY <1>1 DEF SettleByLatestClaim
<1> QED BY <1>1, <1>2 DEF ClaimsUnique

\* No two runs of a task can both settle, under the same hypothesis: both would
\* be its row's latest claim.
THEOREM OneOwner ==
  ASSUME ClaimsNamed
  PROVE  Spec => []OneOwnerPerTask
<1>1. TableInv /\ SettleByLatestClaim /\ ClaimsUnique => OneOwnerPerTask
  BY OneOwnerStated
<1>2. Spec => []SettleByLatestClaim BY FenceHolds
<1> QED BY <1>1, <1>2, ClaimsNumbered, TableAlways, PTL

-----------------------------------------------------------------------------
(* Settled rows *)

RowStaysSettled(j) ==
  /\ job[j].status = "done" => job'[j].status = "done"
  /\ job[j].status = "dead" /\ job'[j].status # "dead"
       => job'[j].status = "pending" /\ job'[j].attempts = 0

\* A settle statement leaves done and dead rows alone.
LEMMA SettleSparesSettled ==
  ASSUME TableInv, NEW p \in Runners, run[p].pc \in Holding, NEW status,
         SettleRow(p, status), NEW k \in Jobs
  PROVE  RowStaysSettled(k)
<1> DEFINE j == run[p].job
<1>1. /\ job \in [Jobs -> JobType] /\ j \in Jobs /\ run[p].id # None
      /\ UnlockedUnlessRunning
  BY QueueConstants DEF TableInv, TypeOK, ArgumentsSet, IdsSet, Procs, Runners
<1>2. CASE ~Owns(p) BY <1>2 DEF SettleRow, RowStaysSettled
<1>3. CASE Owns(p)
  <2>1. job[j].status = "running"
    BY <1>1, <1>3 DEF Owns, UnlockedUnlessRunning
  <2>2. job' = [job EXCEPT ![j].status = status, ![j].lockedBy = None,
                           ![j].fresh = FALSE, ![j].due = FALSE]
    BY <1>3 DEF SettleRow
  <2> HIDE DEF j
  <2>3. k # j => job'[k] = job[k] BY <1>1, <2>2
  <2> QED BY <2>1, <2>3 DEF RowStaysSettled
<1> QED BY <1>2, <1>3

\* A step leaves a done row done, and a dead row dead unless an operator retries it.
LEMMA SettledStep ==
  ASSUME TableInv, [Next]_vars, NEW k \in Jobs
  PROVE  RowStaysSettled(k)
<1>0. job \in [Jobs -> JobType] BY DEF TableInv, TypeOK
<1>1. ASSUME UNCHANGED job PROVE RowStaysSettled(k) BY <1>1 DEF RowStaysSettled
<1>2. ASSUME NEW c \in Callers, Enqueue(c) PROVE RowStaysSettled(k)
  <2>1. CASE EnqueueInsert(c)
    BY <1>0, <2>1 DEF EnqueueInsert, UnclaimedJob, RowStaysSettled
  <2> QED
    BY <1>1, <1>2, <2>1
    DEF Enqueue, EnqueueReuse, EnqueueCheck, EnqueueConflict, EnqueueReselect
<1>3. ASSUME NEW w \in Workers, Reap(w) PROVE RowStaysSettled(k)
  BY <1>0, <1>3 DEF Reap, Stale, RowStaysSettled
<1>4. ASSUME NEW p \in Runners, Ladder(p) PROVE RowStaysSettled(k)
  <2>1. CASE ClaimCommit(p)
    <3> DEFINE j == run[p].job
    <3>1. j \in Jobs /\ job[j].status = "pending"
      BY <2>1 DEF ClaimCommit, TableInv, ArgumentsSet, RowLocksHold, Procs, Runners
    <3>2. k # j => job'[k] = job[k] BY <1>0, <2>1, <3>1 DEF ClaimCommit
    <3> QED BY <3>1, <3>2 DEF RowStaysSettled
  <2>2. CASE SkipJob(p) \/ CompleteJob(p) \/ DeadLetterJob(p) \/ FailJob(p)
    <3>1. run[p].pc \in Holding
      BY <2>2 DEF SkipJob, CompleteJob, DeadLetterJob, FailJob, Holding, Settling
    <3> QED BY <2>2, <3>1, SettleSparesSettled
            DEF SkipJob, CompleteJob, DeadLetterJob, FailJob
  <2> QED
    BY <1>1, <1>4, <2>1, <2>2
    DEF Ladder, ClaimSelect, ClaimEmpty, Preflight, PeerCheck, Work
<1>5. ASSUME NEW a \in Admins, RetryWrite(a) PROVE RowStaysSettled(k)
  <2> DEFINE j == run[a].job
  <2>1. CASE job[j].status = "dead" /\ ~Conflicts(job[j].task)
    <3>1. job' = [job EXCEPT ![j].status = "pending", ![j].lockedBy = None,
                             ![j].attempts = 0, ![j].due = TRUE]
      BY <1>5, <2>1 DEF RetryWrite
    <3>2. j \in Jobs BY <1>5 DEF RetryWrite, TableInv, ArgumentsSet, Procs
    <3> HIDE DEF j
    <3>3. /\ k # j => job'[k] = job[k]
          /\ job'[j].status = "pending" /\ job'[j].attempts = 0
      BY <1>0, <3>1, <3>2 DEF JobType
    <3> QED BY <2>1, <3>3 DEF RowStaysSettled
  <2> QED BY <1>1, <1>5, <2>1 DEF RetryWrite
<1>6. ASSUME NEW j \in Jobs, BackoffElapses(j) \/ LockAges(j)
      PROVE  RowStaysSettled(k)
  BY <1>0, <1>6 DEF BackoffElapses, LockAges, JobType, RowStaysSettled
<1>7. ASSUME NEW p \in Runners, AckLost(p) PROVE RowStaysSettled(k)
  BY <1>7, SettleSparesSettled DEF AckLost, Holding, Settling
<1>8. \/ \E c \in Callers : Enqueue(c)
      \/ \E w \in Workers : Reap(w)
      \/ \E p \in Runners : Ladder(p)
      \/ \E a \in Admins : RetryWrite(a)
      \/ \E j \in Jobs : BackoffElapses(j) \/ LockAges(j)
      \/ \E p \in Runners : AckLost(p)
      \/ UNCHANGED job
  BY DEF Next, vars, RetryRead, StatementFails, Crash
<1> QED BY <1>1, <1>2, <1>3, <1>4, <1>5, <1>6, <1>7, <1>8

\* A settled row stays settled through every interleaving; only an operator's
\* retry takes a row out of `dead'.
THEOREM SettledForGood == Spec => SettledStaysSettled
<1>1. TableInv /\ [Next]_vars =>
        [\A j \in Jobs :
           /\ job[j].status = "done" => job'[j].status = "done"
           /\ job[j].status = "dead" /\ job'[j].status # "dead"
                => job'[j].status = "pending" /\ job'[j].attempts = 0]_vars
  BY SettledStep DEF RowStaysSettled
<1> QED BY <1>1, TableAlways, PTL DEF Spec, SettledStaysSettled
=============================================================================
