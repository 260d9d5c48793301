------------------------- MODULE JobQueueCapProofs -------------------------
(***************************************************************************)
(* How far the tenant cap can be overshot (CapOvershootBounded), for any   *)
(* number of rows, tasks, tenants and runners.                             *)
(*                                                                         *)
(* A claim counts the tenant's running rows in its sub-select and adds one *)
(* at its commit.  The bound is therefore kept by the sum of the two: the  *)
(* rows that run and the claims under way.                                 *)
(***************************************************************************)
EXTENDS JobQueueProofs, FiniteSetTheorems

Claiming(o) ==
  {p \in Runners : run[p].pc = "claiming" /\ OrgOf[job[run[p].job].task] = o}

CapSum(o) ==
  Cardinality(FreshRunning(o)) + Cardinality(Claiming(o))
    <= MaxPerOrg - 1 + Cardinality(Runners)

CapInv == \A o \in Orgs : CapSum(o)

\* Finitely many rows and runners, and a cap.
Capped == IsFiniteSet(Jobs) /\ IsFiniteSet(Runners) /\ MaxPerOrg > 0

\* The sets counted are finite, and so many runners at most are claiming.
LEMMA Counted ==
  ASSUME Capped, NEW o
  PROVE  /\ IsFiniteSet(FreshRunning(o)) /\ IsFiniteSet(Claiming(o))
         /\ Cardinality(FreshRunning(o)) \in Nat /\ Cardinality(Claiming(o)) \in Nat
         /\ Cardinality(Runners) \in Nat
         /\ Cardinality(Claiming(o)) <= Cardinality(Runners)
<1>1. FreshRunning(o) \subseteq Jobs /\ Claiming(o) \subseteq Runners
  BY DEF FreshRunning, Claiming
<1> QED BY <1>1, FS_Subset, FS_CardinalityType DEF Capped

\* As Counted, of the next state.
LEMMA CountedNext ==
  ASSUME Capped, NEW o
  PROVE  /\ IsFiniteSet(FreshRunning(o)') /\ IsFiniteSet(Claiming(o)')
         /\ Cardinality(FreshRunning(o)') \in Nat /\ Cardinality(Claiming(o)') \in Nat
         /\ Cardinality(Claiming(o)') <= Cardinality(Runners)
<1>1. FreshRunning(o)' \subseteq Jobs /\ Claiming(o)' \subseteq Runners
  BY DEF FreshRunning, Claiming
<1> QED BY <1>1, FS_Subset, FS_CardinalityType DEF Capped

\* No row starts running and no claim begins.
NothingStarts ==
  /\ \A k \in Jobs :
       job'[k].status = "running" /\ job'[k].fresh =>
         job[k].status = "running" /\ job[k].fresh /\ job'[k].task = job[k].task
  /\ \A p \in Runners :
       run'[p].pc = "claiming" =>
         /\ run[p].pc = "claiming" /\ run'[p].job = run[p].job
         /\ job'[run[p].job].task = job[run[p].job].task

\* Then neither count grows.
LEMMA NothingStartsKeepsCap ==
  ASSUME Capped, CapInv, NothingStarts
  PROVE  CapInv'
<1> SUFFICES ASSUME NEW o \in Orgs PROVE CapSum(o)' BY DEF CapInv
<1>1. FreshRunning(o)' \subseteq FreshRunning(o) BY DEF NothingStarts, FreshRunning
<1>2. Claiming(o)' \subseteq Claiming(o) BY DEF NothingStarts, Claiming
<1>3. Cardinality(FreshRunning(o)') <= Cardinality(FreshRunning(o))
      /\ Cardinality(Claiming(o)') <= Cardinality(Claiming(o))
  BY <1>1, <1>2, Counted, FS_Subset
<1>4. Cardinality(FreshRunning(o)) + Cardinality(Claiming(o))
        <= MaxPerOrg - 1 + Cardinality(Runners)
  BY DEF CapInv, CapSum
<1>5. Cardinality(FreshRunning(o)') + Cardinality(Claiming(o)')
        <= MaxPerOrg - 1 + Cardinality(Runners)
  BY <1>3, <1>4, Counted, CountedNext, QueueConstants
<1> QED BY <1>5 DEF CapSum

\* A claim begins only while its tenant is under the cap, and there are no more
\* claims under way than runners.
LEMMA SelectKeepsCap ==
  ASSUME TableInv, Capped, CapInv, NEW p \in Runners, NEW j \in Jobs, ClaimSelect(p, j)
  PROVE  CapInv'
<1> SUFFICES ASSUME NEW o \in Orgs PROVE CapSum(o)' BY DEF CapInv
<1>0. run \in [Procs -> RunType] /\ Runners \subseteq Procs
  BY DEF TableInv, TypeOK, Procs, Runners
<1>1. FreshRunning(o)' = FreshRunning(o) BY DEF ClaimSelect, FreshRunning
<1>2. CASE OrgOf[job[j].task] = o
  <2>1. Cardinality(FreshRunning(o)) < MaxPerOrg
    BY <1>2 DEF ClaimSelect, Eligible, UnderCap, Capped
  <2>2. Cardinality(FreshRunning(o)') + Cardinality(Claiming(o)')
          <= MaxPerOrg - 1 + Cardinality(Runners)
    BY <1>1, <2>1, Counted, CountedNext, QueueConstants
  <2> QED BY <2>2 DEF CapSum
<1>3. CASE OrgOf[job[j].task] # o
  <2>1. Claiming(o)' \subseteq Claiming(o)
    BY <1>0, <1>3 DEF ClaimSelect, Claiming
  <2>2. Cardinality(Claiming(o)') <= Cardinality(Claiming(o))
    BY <2>1, Counted, FS_Subset
  <2>3. Cardinality(FreshRunning(o)) + Cardinality(Claiming(o))
          <= MaxPerOrg - 1 + Cardinality(Runners)
    BY DEF CapInv, CapSum
  <2>4. Cardinality(FreshRunning(o)') + Cardinality(Claiming(o)')
          <= MaxPerOrg - 1 + Cardinality(Runners)
    BY <1>1, <2>2, <2>3, Counted, CountedNext, QueueConstants
  <2> QED BY <2>4 DEF CapSum
<1> QED BY <1>2, <1>3

\* A commit turns a claim under way into a running row.
LEMMA CommitKeepsCap ==
  ASSUME TableInv, Capped, CapInv, NEW p \in Runners, ClaimCommit(p)
  PROVE  CapInv'
<1> SUFFICES ASSUME NEW o \in Orgs PROVE CapSum(o)' BY DEF CapInv
<1>j. PICK j \in Jobs : j = run[p].job
  BY DEF ClaimCommit, TableInv, ArgumentsSet, Procs, Runners
<1>0. /\ job \in [Jobs -> JobType] /\ run \in [Procs -> RunType]
      /\ Runners \subseteq Procs /\ job[j].status = "pending"
      /\ \A q \in Runners : run[q].pc = "claiming" => run[q].job \in Jobs
      /\ \A q \in Runners : run[q].pc = "claiming" /\ run[q].job = j => q = p
  BY <1>j DEF ClaimCommit, TableInv, TypeOK, RowLocksHold, ArgumentsSet, Procs, Runners
<1>1. /\ \A k \in Jobs : k # j => job'[k] = job[k]
      /\ job'[j].task = job[j].task /\ job'[j].status = "running"
      /\ \A q \in Runners : q # p => run'[q] = run[q]
      /\ run'[p].pc = "preflight" /\ run[p].pc = "claiming"
  BY <1>j, <1>0 DEF ClaimCommit, JobType, RunType
<1>2. CASE OrgOf[job[j].task] = o
  <2>1. FreshRunning(o)' \subseteq FreshRunning(o) \cup {j}
    BY <1>1 DEF FreshRunning
  <2>2. Claiming(o)' \subseteq Claiming(o) \ {p} /\ p \in Claiming(o)
    <3>1. p \in Claiming(o) BY <1>j, <1>1, <1>2 DEF Claiming
    <3>2. p \notin Claiming(o)' BY <1>1 DEF Claiming
    <3>3. Claiming(o)' \subseteq Claiming(o)
      <4> SUFFICES ASSUME NEW q \in Claiming(o)' PROVE q \in Claiming(o) OBVIOUS
      <4>1. /\ q \in Runners /\ q # p /\ run'[q] = run[q]
            /\ run'[q].pc = "claiming" /\ OrgOf[job'[run'[q].job].task] = o
        BY <1>1, <3>2 DEF Claiming
      <4>2. job'[run[q].job] = job[run[q].job] BY <1>0, <1>1, <4>1
      <4> QED BY <4>1, <4>2 DEF Claiming
    <3> QED BY ONLY <3>1, <3>2, <3>3
  <2>3. /\ IsFiniteSet(FreshRunning(o) \cup {j})
        /\ Cardinality(FreshRunning(o) \cup {j}) <= Cardinality(FreshRunning(o)) + 1
    <3>1. IsFiniteSet(FreshRunning(o)) /\ Cardinality(FreshRunning(o)) \in Nat BY Counted
    <3>2. \/ Cardinality(FreshRunning(o) \cup {j}) = Cardinality(FreshRunning(o))
          \/ Cardinality(FreshRunning(o) \cup {j}) = Cardinality(FreshRunning(o)) + 1
      BY <3>1, FS_AddElement
    <3>3. IsFiniteSet(FreshRunning(o) \cup {j}) BY <3>1, FS_AddElement
    <3> QED BY <3>1, <3>2, <3>3
  <2>4. /\ IsFiniteSet(Claiming(o) \ {p})
        /\ Cardinality(Claiming(o) \ {p}) = Cardinality(Claiming(o)) - 1
    BY <2>2, Counted, FS_RemoveElement
  <2>5. /\ Cardinality(FreshRunning(o)') <= Cardinality(FreshRunning(o) \cup {j})
        /\ Cardinality(Claiming(o)') <= Cardinality(Claiming(o) \ {p})
    BY <2>1, <2>2, <2>3, <2>4, FS_Subset
  <2>6. Cardinality(FreshRunning(o)) + Cardinality(Claiming(o))
          <= MaxPerOrg - 1 + Cardinality(Runners)
    BY DEF CapInv, CapSum
  <2>7. Cardinality(FreshRunning(o) \cup {j}) \in Nat BY <2>3, FS_CardinalityType
  <2>8. Cardinality(FreshRunning(o)') + Cardinality(Claiming(o)')
          <= MaxPerOrg - 1 + Cardinality(Runners)
    BY <2>3, <2>4, <2>5, <2>6, <2>7, Counted, CountedNext, QueueConstants
  <2> QED BY <2>8 DEF CapSum
<1>3. CASE OrgOf[job[j].task] # o
  <2>1. FreshRunning(o)' \subseteq FreshRunning(o) BY <1>1, <1>3 DEF FreshRunning
  <2>2. Claiming(o)' \subseteq Claiming(o)
    BY <1>j, <1>0, <1>1 DEF Claiming
  <2>3. Cardinality(FreshRunning(o)') <= Cardinality(FreshRunning(o))
        /\ Cardinality(Claiming(o)') <= Cardinality(Claiming(o))
    BY <2>1, <2>2, Counted, FS_Subset
  <2>4. Cardinality(FreshRunning(o)) + Cardinality(Claiming(o))
          <= MaxPerOrg - 1 + Cardinality(Runners)
    BY DEF CapInv, CapSum
  <2>5. Cardinality(FreshRunning(o)') + Cardinality(Claiming(o)')
          <= MaxPerOrg - 1 + Cardinality(Runners)
    BY <2>3, <2>4, Counted, CountedNext, QueueConstants
  <2> QED BY <2>5 DEF CapSum
<1> QED BY <1>2, <1>3
-----------------------------------------------------------------------------
(* Every other step *)

\* No row starts running, and no row in the table changes its task.
RowsQuiet ==
  \A k \in Jobs :
    /\ job'[k].status = "running" /\ job'[k].fresh =>
         job[k].status = "running" /\ job[k].fresh
    /\ job[k].status # "absent" => job'[k].task = job[k].task

\* No claim begins.
RunsQuiet ==
  \A p \in Procs :
    run'[p].pc = "claiming" => run[p].pc = "claiming" /\ run'[p].job = run[p].job

LEMMA QuietStartsNothing ==
  ASSUME TableInv, RowsQuiet, RunsQuiet
  PROVE  NothingStarts
<1>1. \A p \in Runners :
        p \in Procs /\ (run[p].pc = "claiming" =>
          run[p].job \in Jobs /\ job[run[p].job].status = "pending")
  BY DEF TableInv, ArgumentsSet, RowLocksHold, Procs, Runners
<1> QED BY <1>1 DEF NothingStarts, RowsQuiet, RunsQuiet

\* Only a claim's sub-select begins a claim, only its commit makes a row run.
LEMMA OthersAreQuiet ==
  ASSUME TableInv, [Next]_vars,
         \A p \in Runners : ~ClaimCommit(p) /\ \A j \in Jobs : ~ClaimSelect(p, j)
  PROVE  RowsQuiet /\ RunsQuiet
<1>0. /\ job \in [Jobs -> JobType] /\ run \in [Procs -> RunType]
      /\ Runners \subseteq Procs /\ Callers \subseteq Procs /\ Admins \subseteq Procs
  BY DEF TableInv, TypeOK, Procs, Runners, Callers
<1>j. ASSUME UNCHANGED job PROVE RowsQuiet BY <1>j DEF RowsQuiet
<1>u. ASSUME UNCHANGED run PROVE RunsQuiet BY <1>u DEF RunsQuiet
<1>l. ASSUME NEW p \in Procs, Leave(p) PROVE RunsQuiet
  BY <1>0, <1>l DEF Leave, IdleRun, JoblessRun, Rest, RunsQuiet
<1>b. ASSUME NEW p \in Procs, NextInBatch(p) PROVE RunsQuiet
  BY <1>0, <1>l, <1>b DEF NextInBatch, JoblessRun, RunsQuiet
<1>g. ASSUME NEW p \in Procs, NEW pc, Goto(p, pc), pc # "claiming" PROVE RunsQuiet
  BY <1>0, <1>g DEF Goto, RunType, RunsQuiet
<1>r. ASSUME NEW c \in Procs, NEW t, NEW k, Return(c, t, k) PROVE RunsQuiet
  BY <1>0, <1>r DEF Return, IdleRun, JoblessRun, Rest, RunsQuiet
<1>s. ASSUME NEW p \in Runners, run[p].pc \in Holding,
             NEW status \in {"done", "dead", "pending"}, SettleRow(p, status)
      PROVE  RowsQuiet
  <2>1. PICK j \in Jobs : j = run[p].job
    BY <1>0, <1>s DEF TableInv, ArgumentsSet
  <2>2. CASE ~Owns(p) BY <1>j, <1>s, <2>2 DEF SettleRow
  <2>3. CASE Owns(p)
    <3>1. job' = [job EXCEPT ![j].status = status, ![j].lockedBy = None,
                             ![j].fresh = FALSE, ![j].due = FALSE]
      BY <1>s, <2>1, <2>3 DEF SettleRow
    <3> QED BY <1>0, <3>1 DEF JobType, RowsQuiet
  <2> QED BY <2>2, <2>3
<1>1. ASSUME NEW c \in Callers, Enqueue(c) PROVE RowsQuiet /\ RunsQuiet
  <2>0. c \in Procs BY <1>0
  <2>1. ASSUME NEW t \in Tasks, EnqueueReuse(c, t) PROVE RowsQuiet /\ RunsQuiet
    BY <1>j, <1>r, <2>0, <2>1 DEF EnqueueReuse
  <2>2. ASSUME NEW t \in Tasks, EnqueueCheck(c, t) PROVE RowsQuiet /\ RunsQuiet
    <3>1. RunsQuiet BY <1>0, <2>0, <2>2 DEF EnqueueCheck, RunType, RunsQuiet
    <3> QED BY <1>j, <2>2, <3>1 DEF EnqueueCheck
  <2>3. CASE EnqueueInsert(c)
    <3>1. PICK k \in Jobs :
            /\ job[k].status = "absent"
            /\ job' = [job EXCEPT ![k] = UnclaimedJob("pending", run[c].task, TRUE)]
            /\ Return(c, run[c].task, k)
      BY <2>3 DEF EnqueueInsert
    <3>2. RowsQuiet BY <1>0, <3>1 DEF UnclaimedJob, RowsQuiet
    <3> QED BY <1>r, <2>0, <3>1, <3>2
  <2>4. CASE EnqueueConflict(c) BY <1>j, <1>g, <2>0, <2>4 DEF EnqueueConflict
  <2>5. CASE EnqueueReselect(c) BY <1>j, <1>l, <1>r, <2>0, <2>5 DEF EnqueueReselect
  <2> QED BY <1>1, <2>1, <2>2, <2>3, <2>4, <2>5 DEF Enqueue
<1>2. ASSUME NEW w \in Workers, Reap(w) PROVE RowsQuiet /\ RunsQuiet
  <2>1. w \in Procs /\ Goto(w, "poll") BY <1>2 DEF Reap, Procs
  <2>2. RowsQuiet BY <1>0, <1>2 DEF Reap, Stale, JobType, RowsQuiet
  <2> QED BY <1>g, <2>1, <2>2
<1>3. ASSUME NEW p \in Runners, Ladder(p) PROVE RowsQuiet /\ RunsQuiet
  <2>0. p \in Procs BY <1>0
  <2>1. CASE ClaimEmpty(p) BY <1>j, <1>l, <2>0, <2>1 DEF ClaimEmpty
  <2>2. ASSUME NEW view \in TaskViews, Preflight(p, view) PROVE RowsQuiet /\ RunsQuiet
    BY <1>j, <1>g, <2>0, <2>2 DEF Preflight, TaskViews
  <2>3. CASE PeerCheck(p) BY <1>j, <1>g, <2>0, <2>3 DEF PeerCheck
  <2>4. ASSUME NEW outcome \in Outcomes, Work(p, outcome) PROVE RowsQuiet /\ RunsQuiet
    BY <1>j, <1>g, <2>0, <2>4 DEF Work, Outcomes
  <2>5. CASE SkipJob(p) \/ CompleteJob(p) \/ DeadLetterJob(p) \/ FailJob(p)
    <3>1. /\ run[p].pc \in Holding /\ NextInBatch(p)
          /\ \E status \in {"done", "dead", "pending"} : SettleRow(p, status)
      BY <2>5 DEF SkipJob, CompleteJob, DeadLetterJob, FailJob, AfterFailure,
                  Holding, Settling
    <3> QED BY <1>b, <1>s, <2>0, <3>1
  <2> QED BY <1>3, <2>1, <2>2, <2>3, <2>4, <2>5 DEF Ladder
<1>4. ASSUME NEW a \in Admins, NEW j \in Jobs, RetryRead(a, j)
      PROVE  RowsQuiet /\ RunsQuiet
  <2>1. RunsQuiet BY <1>0, <1>4 DEF RetryRead, RunType, RunsQuiet
  <2> QED BY <1>j, <1>4, <2>1 DEF RetryRead
<1>5. ASSUME NEW a \in Admins, RetryWrite(a) PROVE RowsQuiet /\ RunsQuiet
  <2>1. PICK j \in Jobs : j = run[a].job
    BY <1>0, <1>5 DEF RetryWrite, TableInv, ArgumentsSet
  <2>2. CASE job[j].status = "dead" /\ ~Conflicts(job[j].task)
    <3>1. job' = [job EXCEPT ![j].status = "pending", ![j].lockedBy = None,
                             ![j].attempts = 0, ![j].due = TRUE]
      BY <1>5, <2>1, <2>2 DEF RetryWrite
    <3>2. RowsQuiet BY <1>0, <3>1 DEF JobType, RowsQuiet
    <3> QED BY <1>0, <1>l, <1>5, <3>2 DEF RetryWrite
  <2>3. CASE ~(job[j].status = "dead" /\ ~Conflicts(job[j].task))
    BY <1>0, <1>j, <1>l, <1>5, <2>1, <2>3 DEF RetryWrite
  <2> QED BY <2>2, <2>3
<1>6. ASSUME NEW j \in Jobs, BackoffElapses(j) \/ LockAges(j)
      PROVE  RowsQuiet /\ RunsQuiet
  <2>1. RowsQuiet BY <1>0, <1>6 DEF BackoffElapses, LockAges, JobType, RowsQuiet
  <2> QED BY <1>u, <1>6, <2>1 DEF BackoffElapses, LockAges
<1>7. ASSUME NEW p \in Runners, StatementFails(p) PROVE RowsQuiet /\ RunsQuiet
  BY <1>0, <1>j, <1>g, <1>l, <1>7 DEF StatementFails
<1>8. ASSUME NEW p \in Runners, AckLost(p) PROVE RowsQuiet /\ RunsQuiet
  BY <1>0, <1>g, <1>s, <1>8 DEF AckLost, Holding, Settling
<1>9. ASSUME NEW p \in Procs, Crash(p) PROVE RowsQuiet /\ RunsQuiet
  BY <1>j, <1>l, <1>9 DEF Crash
<1>10. CASE UNCHANGED vars BY <1>j, <1>u, <1>10 DEF vars
<1>11. \/ \E c \in Callers : Enqueue(c)
       \/ \E w \in Workers : Reap(w)
       \/ \E p \in Runners : Ladder(p)
       \/ \E a \in Admins : RetryWrite(a)
       \/ \E a \in Admins : \E j \in Jobs : RetryRead(a, j)
       \/ \E j \in Jobs : BackoffElapses(j) \/ LockAges(j)
       \/ \E p \in Runners : StatementFails(p)
       \/ \E p \in Runners : AckLost(p)
       \/ \E p \in Procs : Crash(p)
       \/ UNCHANGED vars
  BY Zenon DEF Next
<1> QED
  BY <1>1, <1>2, <1>3, <1>4, <1>5, <1>6, <1>7, <1>8, <1>9, <1>10, <1>11

-----------------------------------------------------------------------------

LEMMA StepKeepsCap ==
  ASSUME TableInv, Capped, CapInv, [Next]_vars
  PROVE  CapInv'
<1>1. CASE \E p \in Runners : \E j \in Jobs : ClaimSelect(p, j)
  BY <1>1, SelectKeepsCap
<1>2. CASE \E p \in Runners : ClaimCommit(p) BY <1>2, CommitKeepsCap
<1>3. CASE \A p \in Runners : ~ClaimCommit(p) /\ \A j \in Jobs : ~ClaimSelect(p, j)
  <2>1. NothingStarts BY <1>3, OthersAreQuiet, QuietStartsNothing
  <2> QED BY <2>1, NothingStartsKeepsCap
<1> QED BY <1>1, <1>2, <1>3

\* Nothing runs and nobody claims in the beginning.
LEMMA InitCap ==
  ASSUME Capped, Init
  PROVE  CapInv
<1> SUFFICES ASSUME NEW o \in Orgs PROVE CapSum(o) BY DEF CapInv
<1>1. FreshRunning(o) = {}
  BY DEF Init, FreshRunning, NoJob, UnclaimedJob
<1>2. Claiming(o) = {}
  BY DEF Init, Claiming, IdleRun, JoblessRun, Rest, Procs, Runners
<1>3. Cardinality(FreshRunning(o)) = 0 /\ Cardinality(Claiming(o)) = 0
  BY <1>1, <1>2, FS_EmptySet
<1>4. Cardinality(FreshRunning(o)) + Cardinality(Claiming(o))
        <= MaxPerOrg - 1 + Cardinality(Runners)
  BY <1>3, Counted, QueueConstants DEF Capped
<1> QED BY <1>4 DEF CapSum

\* In a finite table with finitely many claimers, the running rows of a tenant
\* exceed its cap by fewer than there are claimers (jobs.ts:174-182 counts
\* before the rows it races with are committed).
THEOREM CapBounded ==
  ASSUME IsFiniteSet(Jobs), IsFiniteSet(Runners)
  PROVE  Spec => []CapOvershootBounded
<1>1. CASE MaxPerOrg > 0
  <2>0. Capped BY <1>1 DEF Capped
  <2>1. Init => CapInv BY <2>0, InitCap
  <2>2. TableInv /\ CapInv /\ [Next]_vars => CapInv' BY <2>0, StepKeepsCap
  <2>3. CapInv => CapOvershootBounded
    <3> SUFFICES ASSUME CapInv, NEW o \in Orgs
                 PROVE  Cardinality(FreshRunning(o)) < MaxPerOrg + Cardinality(Runners)
      BY DEF CapOvershootBounded
    <3>1. Cardinality(FreshRunning(o)) + Cardinality(Claiming(o))
            <= MaxPerOrg - 1 + Cardinality(Runners)
      BY DEF CapInv, CapSum
    <3> QED BY <2>0, <3>1, Counted, QueueConstants
  <2> QED BY <2>1, <2>2, <2>3, TableAlways, PTL DEF Spec
<1>2. CASE ~(MaxPerOrg > 0)
  <2>1. CapOvershootBounded BY <1>2 DEF CapOvershootBounded
  <2> QED BY <2>1, PTL
<1> QED BY <1>1, <1>2
=============================================================================
