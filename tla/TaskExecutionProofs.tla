------------------------ MODULE TaskExecutionProofs ------------------------
(***************************************************************************)
(* What holds of one task for any number of runs, gates and tool calls.    *)
(*                                                                         *)
(* The argument has two halves.  What a run may do follows from its own    *)
(* record and from the gates it spent (RunFits, GrantsFit); the gates of   *)
(* others only grow under it: a decision is taken once and a release is    *)
(* never undone (GatesGrow).  Who may write follows from the row: the lock *)
(* is handed over by a claim alone (OwnerIsLatest).                        *)
(*                                                                         *)
(* The last part proves that the job of the task implements LeaseQueue.    *)
(***************************************************************************)
EXTENDS TaskExecution, FiniteSetTheorems, TLAPS

\* Points before the claim, and points before the model has picked a call.
Unclaimed == {"idle", "preflight", "reset", "load", "claim"}
PreModel == Unclaimed \cup {"agent", "autonomy", "estimate", "ceiling",
                            "reserve", "budget", "reserve again"}

\* Points at which every question asked so far has been answered yes, and
\* points at which the last one is still to be.
Paid == Unclaimed \cup Working \cup {"agent", "estimate", "reserve", "reserve again"}
Asking == {"autonomy", "ceiling", "budget"}

\* What the record of a run tells of itself.
RunFits(r) ==
  /\ run[r].pc \in PreModel => run[r].call = TaskToken
  /\ run[r].pc \in {"tool", "effect"} => run[r].call \in Calls
  /\ run[r].pc = "spend" =>
       /\ run[r].grant \in Gates
       /\ \/ run[r].then = "effect" /\ run[r].call \in Calls
          \/ /\ run[r].then \in {"estimate", "reserve", "reserve again"}
             /\ run[r].call = TaskToken
  /\ run[r].pc = "settle" => run[r].landed
  /\ run[r].hold = "settled" => run[r].landed /\ run[r].pc \in {"finish", "throw", "done"}
  /\ IsFiniteSet(run[r].asked)
  /\ IsFiniteSet(run[r].spent)

\* The gates a run has spent, or found and is about to spend.
SpentFits(r) == \A g \in run[r].spent : gate[g].status = "approved" /\ gate[g].released
FoundFits(r) ==
  run[r].pc = "spend" =>
    /\ gate[run[r].grant].status = "approved"
    /\ gate[run[r].grant].call = run[r].call
    /\ run[r].grant \notin run[r].spent
HasYesFor(r, c) == \E g \in run[r].spent : gate[g].call = c
DeedsFit(r) ==
  /\ run[r].pc = "effect" => HasYesFor(r, run[r].call)
  /\ \A c \in run[r].did : HasYesFor(r, c)

\* Checks against yeses: even, or one short while a question is open.
CountFits(r) ==
  /\ run[r].pc \in Paid \/ (run[r].pc = "spend" /\ run[r].then = "effect")
       => Cardinality(run[r].asked) <= Cardinality(TaskGrants(r))
  /\ run[r].pc \in Asking \cup {"spend"}
       => Cardinality(run[r].asked) <= Cardinality(TaskGrants(r)) + 1

GrantsFit(r) == SpentFits(r) /\ FoundFits(r) /\ DeedsFit(r) /\ CountFits(r)

\* One open question, without counting.
OnlyQuestion == \A g, h \in OpenGates : g = h

\* Finitely many gates are decided: a next one can be numbered.
Answered == {g \in Gates : gate[g].at > 0}
FewAnswers == IsFiniteSet(Answered)

\* A run that owns the row claimed it last, unless it is dead.
OwnerIsLatest ==
  \A r \in Runs :
    Owns(r) => \/ run[r].pc = "done"
               \/ run[r].pc \notin Unclaimed /\ run[r].claim = claims

TaskInv ==
  /\ TypeOK
  /\ \A r \in Runs : RunFits(r) /\ GrantsFit(r)
  /\ OnlyQuestion
  /\ FewAnswers
  /\ OwnerIsLatest

-----------------------------------------------------------------------------
(* What a step leaves to the runs that do not take it *)

\* Decided gates stay as they are, but for their release.
GatesGrow ==
  \A g \in Gates :
    gate[g].status = "approved" =>
      /\ gate'[g].status = "approved"
      /\ gate'[g].call = gate[g].call
      /\ gate[g].released => gate'[g].released

\* Run r moves and still fits; it keeps its claim until it is done, and the
\* other runs stay.
RunMoves(r) ==
  /\ run' \in [Runs -> RunType]
  /\ \A q \in Runs : q # r => run'[q] = run[q]
  /\ RunFits(r)' /\ GrantsFit(r)'
  /\ run[r].pc \notin Unclaimed =>
       /\ run'[r].pc \notin Unclaimed
       /\ (run'[r].pc = "done" \/ run'[r].claim = run[r].claim)

\* One field of a run's record may take any value of its type.
LEMMA FieldsTyped ==
  ASSUME NEW f \in [Runs -> RunType], NEW r \in Runs
  PROVE  /\ \A v \in Pcs : [f EXCEPT ![r].pc = v] \in [Runs -> RunType]
         /\ \A v \in Pcs : [f EXCEPT ![r].then = v] \in [Runs -> RunType]
         /\ \A v \in AllKinds : [f EXCEPT ![r].kind = v] \in [Runs -> RunType]
         /\ \A v \in Calls : [f EXCEPT ![r].call = v] \in [Runs -> RunType]
         /\ \A v \in Gates : [f EXCEPT ![r].grant = v] \in [Runs -> RunType]
         /\ \A v \in Nat : [f EXCEPT ![r].claim = v] \in [Runs -> RunType]
         /\ \A v \in Nat : [f EXCEPT ![r].rounds = v] \in [Runs -> RunType]
         /\ \A v \in BOOLEAN : [f EXCEPT ![r].ok = v] \in [Runs -> RunType]
         /\ \A v \in BOOLEAN : [f EXCEPT ![r].landed = v] \in [Runs -> RunType]
         /\ \A v \in BOOLEAN : [f EXCEPT ![r].threw = v] \in [Runs -> RunType]
         /\ \A v \in {"active", "settled", "released"} :
              [f EXCEPT ![r].hold = v] \in [Runs -> RunType]
         /\ \A v \in {"off", "on", "expired"} :
              [f EXCEPT ![r].timer = v] \in [Runs -> RunType]
         /\ \A v \in SUBSET AllAsks : [f EXCEPT ![r].asked = v] \in [Runs -> RunType]
         /\ \A v \in SUBSET Gates : [f EXCEPT ![r].spent = v] \in [Runs -> RunType]
         /\ \A v \in SUBSET Calls : [f EXCEPT ![r].did = v] \in [Runs -> RunType]
<1>1. \A v \in Pcs : [f EXCEPT ![r].pc = v] \in [Runs -> RunType]
  BY DEF RunType
<1>2. \A v \in Pcs : [f EXCEPT ![r].then = v] \in [Runs -> RunType]
  BY DEF RunType
<1>3. \A v \in AllKinds : [f EXCEPT ![r].kind = v] \in [Runs -> RunType]
  BY DEF RunType
<1>4. \A v \in Calls : [f EXCEPT ![r].call = v] \in [Runs -> RunType]
  BY DEF RunType
<1>5. \A v \in Gates : [f EXCEPT ![r].grant = v] \in [Runs -> RunType]
  BY DEF RunType
<1>6. \A v \in Nat : [f EXCEPT ![r].claim = v] \in [Runs -> RunType]
  BY DEF RunType
<1>7. \A v \in Nat : [f EXCEPT ![r].rounds = v] \in [Runs -> RunType]
  BY DEF RunType
<1>8. \A v \in BOOLEAN : [f EXCEPT ![r].ok = v] \in [Runs -> RunType]
  BY DEF RunType
<1>9. \A v \in BOOLEAN : [f EXCEPT ![r].landed = v] \in [Runs -> RunType]
  BY DEF RunType
<1>10. \A v \in BOOLEAN : [f EXCEPT ![r].threw = v] \in [Runs -> RunType]
  BY DEF RunType
<1>11. \A v \in {"active", "settled", "released"} :
        [f EXCEPT ![r].hold = v] \in [Runs -> RunType]
  BY DEF RunType
<1>12. \A v \in {"off", "on", "expired"} :
        [f EXCEPT ![r].timer = v] \in [Runs -> RunType]
  BY DEF RunType
<1>13. \A v \in SUBSET AllAsks : [f EXCEPT ![r].asked = v] \in [Runs -> RunType]
  BY DEF RunType
<1>14. \A v \in SUBSET Gates : [f EXCEPT ![r].spent = v] \in [Runs -> RunType]
  BY DEF RunType
<1>15. \A v \in SUBSET Calls : [f EXCEPT ![r].did = v] \in [Runs -> RunType]
  BY DEF RunType
<1> QED
  BY <1>1, <1>2, <1>3, <1>4, <1>5, <1>6, <1>7, <1>8, <1>9, <1>10, <1>11, <1>12, <1>13, <1>14, <1>15

\* The yeses of a run count the same while it spends none.
LEMMA GrantsSteady ==
  ASSUME TypeOK, GatesGrow, NEW r \in Runs, SpentFits(r), run' \in [Runs -> RunType],
         run'[r].spent = run[r].spent
  PROVE  /\ SpentFits(r)'
         /\ TaskGrants(r)' = TaskGrants(r)
         /\ \A c : HasYesFor(r, c) => HasYesFor(r, c)'
<1>1. run[r].spent \subseteq Gates BY DEF TypeOK, RunType
<1>2. \A g \in run[r].spent :
        /\ gate[g].status = "approved" /\ gate'[g].status = "approved"
        /\ gate'[g].call = gate[g].call /\ gate'[g].released
  BY <1>1 DEF GatesGrow, SpentFits
<1> QED BY <1>2 DEF SpentFits, TaskGrants, HasYesFor

\* A run whose record stays keeps all it relies on.
LEMMA BystanderFits ==
  ASSUME TypeOK, GatesGrow, NEW q \in Runs, RunFits(q), GrantsFit(q),
         run' \in [Runs -> RunType], run'[q] = run[q]
  PROVE  RunFits(q)' /\ GrantsFit(q)'
<1>1. RunFits(q)' BY DEF RunFits
<1>2. /\ SpentFits(q)'
      /\ TaskGrants(q)' = TaskGrants(q)
      /\ \A c : HasYesFor(q, c) => HasYesFor(q, c)'
  BY GrantsSteady DEF GrantsFit
<1>3. FoundFits(q)' BY DEF GrantsFit, FoundFits, RunFits, GatesGrow
<1>4. DeedsFit(q)' BY <1>2 DEF GrantsFit, DeedsFit
<1>5. CountFits(q)' BY <1>2 DEF GrantsFit, CountFits
<1> QED BY <1>1, <1>2, <1>3, <1>4, <1>5 DEF GrantsFit

\* A run that spends nothing, does nothing and asks nothing.
LEMMA QuietFits ==
  ASSUME TypeOK, GatesGrow, NEW r \in Runs, GrantsFit(r),
         run' \in [Runs -> RunType],
         run'[r].spent = run[r].spent, run'[r].did = run[r].did,
         run'[r].pc \notin {"spend", "effect"} \cup Asking,
         run'[r].pc \in Paid => run[r].pc \in Paid /\ run'[r].asked = run[r].asked
  PROVE  GrantsFit(r)'
<1>1. /\ SpentFits(r)'
      /\ TaskGrants(r)' = TaskGrants(r)
      /\ \A c : HasYesFor(r, c) => HasYesFor(r, c)'
  BY GrantsSteady DEF GrantsFit
<1>2. FoundFits(r)' /\ DeedsFit(r)' BY <1>1 DEF GrantsFit, FoundFits, DeedsFit
<1>3. CountFits(r)' BY <1>1 DEF GrantsFit, CountFits
<1> QED BY <1>1, <1>2, <1>3 DEF GrantsFit

\* A run that only goes on to another point.
LEMMA GoingOnMoves ==
  ASSUME TypeOK, GatesGrow, NEW r \in Runs, RunFits(r), GrantsFit(r),
         NEW to \in Pcs \ {"spend", "tool", "effect", "settle", "done"},
         run[r].pc # "done",
         run[r].pc \in {"finish", "throw"} => to \in {"finish", "throw"},
         to \in PreModel => run[r].pc \in PreModel,
         to \in Paid => run[r].pc \in Paid,
         to \in Unclaimed => run[r].pc \in Unclaimed,
         to \notin Asking,
         Goto(r, to)
  PROVE  RunMoves(r)
<1>1. /\ run' = [run EXCEPT ![r].pc = to] /\ run \in [Runs -> RunType]
      /\ to \in Pcs
  BY DEF Goto, TypeOK
<1>2. run' \in [Runs -> RunType] BY ONLY <1>1, FieldsTyped, r \in Runs
<1>3. \A q \in Runs : q # r => run'[q] = run[q] BY <1>1
<1>4. /\ run'[r].pc = to /\ run'[r].call = run[r].call
      /\ run'[r].hold = run[r].hold /\ run'[r].landed = run[r].landed
      /\ run'[r].spent = run[r].spent /\ run'[r].asked = run[r].asked
      /\ run'[r].did = run[r].did /\ run'[r].claim = run[r].claim
  BY <1>1 DEF RunType
<1>5. RunFits(r)' BY <1>4 DEF RunFits
<1>6. GrantsFit(r)' BY <1>2, <1>4, QuietFits
<1> QED BY <1>2, <1>3, <1>4, <1>5, <1>6 DEF RunMoves

\* A check that asks: one question more than there are answers.
LEMMA AskingMoves ==
  ASSUME TypeOK, GatesGrow, NEW r \in Runs, RunFits(r), GrantsFit(r),
         NEW check \in Asking,
         run[r].pc \in {"agent", "estimate", "reserve"},
         AskFor(r, check)
  PROVE  RunMoves(r)
<1>1. /\ run' = [run EXCEPT ![r].pc = check, ![r].asked = @ \cup {check}]
      /\ run \in [Runs -> RunType] /\ check \in AllAsks /\ check \in Pcs
  BY TaskConstants DEF AskFor, TypeOK, Asking, Pcs
<1>2. run' \in [Runs -> RunType]
  <2>1. PICK A \in SUBSET AllAsks : A = run[r].asked \cup {check}
    BY <1>1 DEF RunType
  <2> DEFINE asking == [run EXCEPT ![r].pc = check]
  <2>2. asking \in [Runs -> RunType] BY <1>1 DEF RunType
  <2>3. run' = [asking EXCEPT ![r].asked = A] BY <1>1, <2>1
  <2> HIDE DEF asking
  <2> QED BY ONLY <2>2, <2>3, FieldsTyped, r \in Runs
<1>3. \A q \in Runs : q # r => run'[q] = run[q] BY <1>1
<1>4. /\ run'[r].pc = check /\ run'[r].call = run[r].call
      /\ run'[r].hold = run[r].hold /\ run'[r].landed = run[r].landed
      /\ run'[r].spent = run[r].spent
      /\ run'[r].asked = run[r].asked \cup {check}
      /\ run'[r].did = run[r].did /\ run'[r].claim = run[r].claim
  BY <1>1 DEF RunType
<1>5. /\ IsFiniteSet(run'[r].asked)
      /\ Cardinality(run'[r].asked) <= Cardinality(run[r].asked) + 1
      /\ Cardinality(run[r].asked) \in Nat
  <2>1. IsFiniteSet(run[r].asked) BY DEF RunFits
  <2>2. Cardinality(run[r].asked) \in Nat BY <2>1, FS_CardinalityType
  <2>3. /\ IsFiniteSet(run[r].asked \cup {check})
        /\ Cardinality(run[r].asked \cup {check}) =
             IF check \in run[r].asked THEN Cardinality(run[r].asked)
                                       ELSE Cardinality(run[r].asked) + 1
    BY <2>1, FS_AddElement
  <2> QED BY <1>4, <2>2, <2>3
<1>6. RunFits(r)' BY <1>4, <1>5 DEF RunFits, PreModel, Unclaimed, Asking
<1>7. /\ SpentFits(r)'
      /\ TaskGrants(r)' = TaskGrants(r)
      /\ \A c : HasYesFor(r, c) => HasYesFor(r, c)'
  BY <1>2, <1>4, GrantsSteady DEF GrantsFit
<1>8. FoundFits(r)' /\ DeedsFit(r)'
  BY <1>4, <1>7 DEF GrantsFit, FoundFits, DeedsFit, Asking
<1>9. CountFits(r)'
  <2>1. Cardinality(TaskGrants(r)) \in Nat
    BY FS_Subset, FS_CardinalityType DEF RunFits, TaskGrants
  <2>2. Cardinality(run[r].asked) <= Cardinality(TaskGrants(r))
    BY DEF GrantsFit, CountFits, Paid
  <2>3. Cardinality(run'[r].asked) <= Cardinality(TaskGrants(r)) + 1
    BY <1>5, <2>1, <2>2, FS_CardinalityType
  <2>4. run'[r].pc \notin Paid /\ run'[r].pc # "spend"
    BY <1>4 DEF Asking, Paid, Unclaimed, Working
  <2> QED BY <1>7, <2>3, <2>4 DEF CountFits
<1> QED BY <1>2, <1>3, <1>4, <1>6, <1>7, <1>8, <1>9
        DEF RunMoves, GrantsFit, Unclaimed, Asking

\* Every way into executeTask.
LEMMA StartMoves ==
  ASSUME TypeOK, GatesGrow, NEW r \in Runs, RunFits(r), GrantsFit(r),
         NEW kind \in AllKinds, NEW to \in {"preflight", "reset", "load"},
         Start(r, kind, to)
  PROVE  RunMoves(r)
<1> DEFINE timer == IF kind = "command" THEN "on" ELSE "off"
           placed == [run EXCEPT ![r].pc = to]
           named == [placed EXCEPT ![r].kind = kind]
<1>1. /\ run' = [named EXCEPT ![r].timer = timer]
      /\ run \in [Runs -> RunType] /\ run[r].pc = "idle"
  BY DEF Start, TypeOK
<1>2. run' \in [Runs -> RunType]
  <2>1. to \in Pcs /\ timer \in {"off", "on", "expired"} BY DEF Pcs
  <2>2. placed \in [Runs -> RunType] BY <1>1, <2>1, FieldsTyped
  <2> HIDE DEF placed, timer
  <2>3. named \in [Runs -> RunType]
    BY ONLY <2>2, FieldsTyped, r \in Runs, kind \in AllKinds
  <2> HIDE DEF named
  <2> QED BY ONLY <1>1, <2>1, <2>3, FieldsTyped, r \in Runs
<1>3. \A q \in Runs : q # r => run'[q] = run[q] BY <1>1
<1>4. /\ run'[r].pc = to /\ run'[r].call = run[r].call
      /\ run'[r].hold = run[r].hold /\ run'[r].landed = run[r].landed
      /\ run'[r].spent = run[r].spent /\ run'[r].asked = run[r].asked
      /\ run'[r].did = run[r].did
  BY <1>1 DEF RunType
<1>5. RunFits(r)' BY <1>1, <1>4 DEF RunFits, PreModel, Unclaimed
<1>6. GrantsFit(r)' BY <1>1, <1>2, <1>4, QuietFits DEF Asking, Paid, Unclaimed
<1> QED BY <1>1, <1>2, <1>3, <1>5, <1>6 DEF RunMoves, Unclaimed

\* The claim of the row.
LEMMA ClaimMoves ==
  ASSUME TypeOK, GatesGrow, NEW r \in Runs, RunFits(r), GrantsFit(r),
         ClaimTask(r)
  PROVE  RunMoves(r) /\ run'[r].pc = "agent" /\ run'[r].claim = claims + 1
<1> DEFINE placed == [run EXCEPT ![r].pc = "agent"]
<1>1. /\ run' = [placed EXCEPT ![r].claim = claims + 1]
      /\ run \in [Runs -> RunType] /\ run[r].pc = "claim"
  BY DEF ClaimTask, TypeOK
<1>2. run' \in [Runs -> RunType]
  <2>1. "agent" \in Pcs /\ claims + 1 \in Nat BY DEF Pcs, TypeOK
  <2>2. placed \in [Runs -> RunType] BY <1>1, <2>1, FieldsTyped
  <2> HIDE DEF placed
  <2> QED BY ONLY <1>1, <2>1, <2>2, FieldsTyped, r \in Runs
<1>3. \A q \in Runs : q # r => run'[q] = run[q] BY <1>1
<1>4. /\ run'[r].pc = "agent" /\ run'[r].call = run[r].call
      /\ run'[r].hold = run[r].hold /\ run'[r].landed = run[r].landed
      /\ run'[r].spent = run[r].spent /\ run'[r].asked = run[r].asked
      /\ run'[r].did = run[r].did /\ run'[r].claim = claims + 1
  BY <1>1 DEF RunType
<1>5. RunFits(r)' BY <1>1, <1>4 DEF RunFits, PreModel, Unclaimed
<1>6. GrantsFit(r)' BY <1>1, <1>2, <1>4, QuietFits DEF Asking, Paid, Unclaimed
<1> QED BY <1>1, <1>2, <1>3, <1>4, <1>5, <1>6 DEF RunMoves, Unclaimed

\* The reservation is granted, at the first or the second attempt.
LEMMA HoldMoves ==
  ASSUME TypeOK, GatesGrow, NEW r \in Runs, RunFits(r), GrantsFit(r),
         run[r].pc \in {"reserve", "reserve again"},
         run' = [run EXCEPT ![r].pc = "beat", ![r].hold = "active"]
  PROVE  RunMoves(r)
<1> DEFINE placed == [run EXCEPT ![r].pc = "beat"]
<1>1. run' = [placed EXCEPT ![r].hold = "active"] /\ run \in [Runs -> RunType]
  BY DEF TypeOK
<1>2. run' \in [Runs -> RunType]
  <2>1. placed \in [Runs -> RunType] BY <1>1, FieldsTyped DEF Pcs
  <2> HIDE DEF placed
  <2> QED BY ONLY <1>1, <2>1, FieldsTyped, r \in Runs
<1>3. \A q \in Runs : q # r => run'[q] = run[q] BY <1>1
<1>4. /\ run'[r].pc = "beat" /\ run'[r].hold = "active"
      /\ run'[r].spent = run[r].spent /\ run'[r].asked = run[r].asked
      /\ run'[r].did = run[r].did /\ run'[r].claim = run[r].claim
  BY ONLY <1>1, r \in Runs DEF RunType
<1>5. RunFits(r)' BY <1>4 DEF RunFits, PreModel, Unclaimed
<1>6. GrantsFit(r)'
  BY <1>2, <1>4, QuietFits DEF Asking, Paid, Unclaimed, Working
<1> QED BY <1>2, <1>3, <1>4, <1>5, <1>6 DEF RunMoves, Unclaimed

\* A grant for the run's own call is found: the run has not spent it yet.
LEMMA FoundMoves ==
  ASSUME TypeOK, GatesGrow, NEW r \in Runs, RunFits(r), GrantsFit(r),
         NEW g \in Gates, IsNewest(g), TokenFits(g, run[r].call),
         NEW stage \in Asking \cup {"tool"}, run[r].pc = stage,
         run' = [run EXCEPT ![r].pc = "spend", ![r].grant = g,
                            ![r].then = Resume(stage)]
  PROVE  RunMoves(r)
<1> DEFINE next == Resume(stage)
           placed == [run EXCEPT ![r].pc = "spend"]
           given == [placed EXCEPT ![r].grant = g]
<1>1. /\ run' = [given EXCEPT ![r].then = next]
      /\ run \in [Runs -> RunType]
  BY DEF TypeOK
<1>2. /\ next \in {"estimate", "reserve", "reserve again", "effect"}
      /\ next = "effect" <=> stage = "tool"
  BY DEF Resume, Asking
<1>3. run' \in [Runs -> RunType]
  <2>1. next \in Pcs /\ "spend" \in Pcs BY <1>2 DEF Pcs
  <2>2. placed \in [Runs -> RunType] BY <1>1, <2>1, FieldsTyped
  <2> HIDE DEF placed, next
  <2>3. given \in [Runs -> RunType]
    BY ONLY <2>2, FieldsTyped, r \in Runs, g \in Gates
  <2> HIDE DEF given
  <2> QED BY ONLY <1>1, <2>1, <2>3, FieldsTyped, r \in Runs
<1> HIDE DEF next
<1>4. \A q \in Runs : q # r => run'[q] = run[q] BY <1>1
<1>5. /\ run'[r].pc = "spend" /\ run'[r].grant = g /\ run'[r].then = next
      /\ run'[r].call = run[r].call
      /\ run'[r].hold = run[r].hold /\ run'[r].landed = run[r].landed
      /\ run'[r].spent = run[r].spent /\ run'[r].asked = run[r].asked
      /\ run'[r].did = run[r].did /\ run'[r].claim = run[r].claim
  BY ONLY <1>1, r \in Runs DEF RunType
<1>6. RunFits(r)'
  BY <1>2, <1>5 DEF RunFits, PreModel, Unclaimed, Asking
<1>7. /\ SpentFits(r)'
      /\ TaskGrants(r)' = TaskGrants(r)
      /\ \A c : HasYesFor(r, c) => HasYesFor(r, c)'
  BY <1>3, <1>5, GrantsSteady DEF GrantsFit
<1>8. FoundFits(r)'
  <2>1. gate[g].status = "approved" /\ ~gate[g].released /\ gate[g].call = run[r].call
    BY DEF IsNewest, Grants, TokenFits
  <2>2. gate'[g].status = "approved" /\ gate'[g].call = run[r].call
    BY <2>1 DEF GatesGrow
  <2>3. g \notin run[r].spent BY <2>1 DEF GrantsFit, SpentFits
  <2> QED BY <1>5, <2>2, <2>3 DEF FoundFits
<1>9. DeedsFit(r)' BY <1>5, <1>7 DEF GrantsFit, DeedsFit
<1>10. CountFits(r)'
  <2>1. /\ Cardinality(run[r].asked) \in Nat
        /\ Cardinality(TaskGrants(r)) \in Nat
    BY FS_Subset, FS_CardinalityType DEF RunFits, TaskGrants
  <2>2. stage = "tool" => Cardinality(run[r].asked) <= Cardinality(TaskGrants(r))
    BY DEF GrantsFit, CountFits, Paid, Working
  <2>3. stage \in Asking => Cardinality(run[r].asked) <= Cardinality(TaskGrants(r)) + 1
    BY DEF GrantsFit, CountFits
  <2>4. Cardinality(run[r].asked) <= Cardinality(TaskGrants(r)) + 1
    BY <2>1, <2>2, <2>3
  <2> QED BY <1>2, <1>5, <1>7, <2>2, <2>4 DEF CountFits, Paid, Working, Unclaimed
<1> QED BY <1>3, <1>4, <1>5, <1>6, <1>7, <1>8, <1>9, <1>10
        DEF RunMoves, GrantsFit, Unclaimed

\* The grant is spent: one more yes, and the call it was given for.
LEMMA SpendMoves ==
  ASSUME TypeOK, GatesGrow, NEW r \in Runs, RunFits(r), GrantsFit(r),
         SpendGrant(r)
  PROVE  RunMoves(r)
<1> DEFINE g == run[r].grant
           all == run[r].spent \cup {g}
           placed == [run EXCEPT ![r].pc = run[r].then]
<1>1. /\ run' = [placed EXCEPT ![r].spent = all]
      /\ run \in [Runs -> RunType] /\ gate \in [Gates -> GateType]
      /\ run[r].pc = "spend" /\ gate' = [gate EXCEPT ![g].released = TRUE]
  BY DEF SpendGrant, TypeOK
<1>2. /\ g \in Gates /\ g \notin run[r].spent
      /\ gate[g].status = "approved" /\ gate[g].call = run[r].call
      /\ \/ run[r].then = "effect" /\ run[r].call \in Calls
         \/ /\ run[r].then \in {"estimate", "reserve", "reserve again"}
            /\ run[r].call = TaskToken
  BY <1>1 DEF RunFits, GrantsFit, FoundFits
<1>3. /\ gate'[g].status = "approved" /\ gate'[g].call = run[r].call
      /\ gate'[g].released
  BY <1>1, <1>2 DEF GateType
<1>4. run' \in [Runs -> RunType]
  <2>1. run[r].then \in Pcs /\ all \in SUBSET Gates BY <1>1, <1>2 DEF RunType
  <2>2. placed \in [Runs -> RunType] BY <1>1, <2>1, FieldsTyped
  <2> HIDE DEF placed, all
  <2> QED BY ONLY <1>1, <2>1, <2>2, FieldsTyped, r \in Runs
<1>5. \A q \in Runs : q # r => run'[q] = run[q] BY ONLY <1>1, r \in Runs
<1>6. /\ run'[r].pc = run[r].then /\ run'[r].call = run[r].call
      /\ run'[r].hold = run[r].hold /\ run'[r].landed = run[r].landed
      /\ run'[r].spent = run[r].spent \cup {g} /\ run'[r].asked = run[r].asked
      /\ run'[r].did = run[r].did /\ run'[r].claim = run[r].claim
  BY ONLY <1>1, r \in Runs DEF RunType
<1> HIDE DEF g
<1>7. RunFits(r)'
  <2>1. IsFiniteSet(run[r].spent) BY DEF RunFits
  <2>2. IsFiniteSet(run[r].spent \cup {g}) BY <2>1, FS_AddElement
  <2> QED BY <1>1, <1>2, <1>6, <2>2 DEF RunFits, PreModel, Unclaimed
<1>8. run[r].spent \subseteq Gates BY <1>1 DEF RunType
<1>9. \A h \in run[r].spent :
        /\ gate[h].status = "approved" /\ gate'[h].status = "approved"
        /\ gate'[h].call = gate[h].call /\ gate'[h].released
  BY <1>8 DEF GatesGrow, GrantsFit, SpentFits
<1>10. SpentFits(r)' BY <1>3, <1>6, <1>9 DEF SpentFits
<1>11. FoundFits(r)' BY <1>2, <1>6 DEF FoundFits
<1>12. DeedsFit(r)' BY <1>3, <1>6, <1>9 DEF GrantsFit, DeedsFit, HasYesFor
<1>13. CountFits(r)'
  <2>1. /\ Cardinality(run[r].asked) \in Nat
        /\ Cardinality(TaskGrants(r)) \in Nat
        /\ IsFiniteSet(TaskGrants(r))
    BY FS_Subset, FS_CardinalityType DEF RunFits, TaskGrants
  <2>2. CASE run[r].then = "effect"
    <3>1. TaskGrants(r)' = TaskGrants(r)
      BY <1>2, <1>3, <1>6, <1>9, <2>2, TaskConstants DEF TaskGrants
    <3>2. Cardinality(run[r].asked) <= Cardinality(TaskGrants(r))
      BY <1>1, <2>2 DEF GrantsFit, CountFits
    <3> QED BY <1>2, <1>6, <2>2, <3>1, <3>2 DEF CountFits, Asking
  <2>3. CASE run[r].then # "effect"
    <3>1. TaskGrants(r)' = TaskGrants(r) \cup {g}
      BY <1>2, <1>3, <1>6, <1>9, <2>3 DEF TaskGrants
    <3>2. g \notin TaskGrants(r) BY <1>2 DEF TaskGrants
    <3>3. Cardinality(TaskGrants(r)') = Cardinality(TaskGrants(r)) + 1
      BY <2>1, <3>1, <3>2, FS_AddElement
    <3>4. Cardinality(run[r].asked) <= Cardinality(TaskGrants(r)) + 1
      BY <1>1 DEF GrantsFit, CountFits
    <3> QED BY <1>2, <1>6, <2>3, <3>3, <3>4 DEF CountFits, Asking
  <2> QED BY <2>2, <2>3
<1> QED BY <1>1, <1>2, <1>4, <1>5, <1>6, <1>7, <1>10, <1>11, <1>12, <1>13
        DEF RunMoves, GrantsFit, Unclaimed

\* The model asks for a tool that needs the founder.
LEMMA ToolAskedMoves ==
  ASSUME TypeOK, GatesGrow, NEW r \in Runs, RunFits(r), GrantsFit(r),
         NEW c \in Calls, run[r].pc = "model",
         run' = [run EXCEPT ![r].pc = "tool", ![r].call = c, ![r].rounds = @ + 1]
  PROVE  RunMoves(r)
<1> DEFINE rounds == run[r].rounds + 1
           placed == [run EXCEPT ![r].pc = "tool"]
           picked == [placed EXCEPT ![r].call = c]
<1>1. /\ run' = [picked EXCEPT ![r].rounds = rounds]
      /\ run \in [Runs -> RunType]
  BY DEF TypeOK
<1>2. run' \in [Runs -> RunType]
  <2>0. run[r].rounds \in Nat BY ONLY <1>1, r \in Runs DEF RunType
  <2>1. "tool" \in Pcs /\ rounds \in Nat BY <2>0 DEF Pcs
  <2>2. placed \in [Runs -> RunType] BY <1>1, <2>1, FieldsTyped
  <2> HIDE DEF placed, rounds
  <2>3. picked \in [Runs -> RunType]
    BY ONLY <2>2, FieldsTyped, r \in Runs, c \in Calls
  <2> HIDE DEF picked
  <2> QED BY ONLY <1>1, <2>1, <2>3, FieldsTyped, r \in Runs
<1>3. \A q \in Runs : q # r => run'[q] = run[q] BY ONLY <1>1, r \in Runs
<1>4. /\ run'[r].pc = "tool" /\ run'[r].call = c
      /\ run'[r].hold = run[r].hold /\ run'[r].landed = run[r].landed
      /\ run'[r].spent = run[r].spent /\ run'[r].asked = run[r].asked
      /\ run'[r].did = run[r].did /\ run'[r].claim = run[r].claim
  BY ONLY <1>1, r \in Runs DEF RunType
<1>5. RunFits(r)' BY <1>4 DEF RunFits, PreModel, Unclaimed
<1>6. GrantsFit(r)'
  BY <1>2, <1>4, QuietFits DEF Asking, Paid, Unclaimed, Working
<1> QED BY <1>2, <1>3, <1>4, <1>5, <1>6 DEF RunMoves, Unclaimed

\* Both attempts at the model failed.
LEMMA NoAnswerMoves ==
  ASSUME TypeOK, GatesGrow, NEW r \in Runs, RunFits(r), GrantsFit(r),
         run[r].pc = "model",
         run' = [run EXCEPT ![r].pc = "terminal", ![r].ok = FALSE]
  PROVE  RunMoves(r)
<1> DEFINE placed == [run EXCEPT ![r].pc = "terminal"]
<1>1. run' = [placed EXCEPT ![r].ok = FALSE] /\ run \in [Runs -> RunType]
  BY DEF TypeOK
<1>2. run' \in [Runs -> RunType]
  <2>1. placed \in [Runs -> RunType] BY <1>1, FieldsTyped DEF Pcs
  <2> HIDE DEF placed
  <2> QED BY ONLY <1>1, <2>1, FieldsTyped, r \in Runs
<1>3. \A q \in Runs : q # r => run'[q] = run[q] BY ONLY <1>1, r \in Runs
<1>4. /\ run'[r].pc = "terminal" /\ run'[r].hold = run[r].hold
      /\ run'[r].spent = run[r].spent /\ run'[r].asked = run[r].asked
      /\ run'[r].did = run[r].did /\ run'[r].claim = run[r].claim
  BY ONLY <1>1, r \in Runs DEF RunType
<1>5. RunFits(r)' BY <1>4 DEF RunFits, PreModel, Unclaimed
<1>6. GrantsFit(r)'
  BY <1>2, <1>4, QuietFits DEF Asking, Paid, Unclaimed, Working
<1> QED BY <1>2, <1>3, <1>4, <1>5, <1>6 DEF RunMoves, Unclaimed

\* The tool runs: a deed with a yes behind it.
LEMMA ToolRunMoves ==
  ASSUME TypeOK, GatesGrow, NEW r \in Runs, RunFits(r), GrantsFit(r),
         RunTool(r)
  PROVE  RunMoves(r)
<1> DEFINE deeds == run[r].did \cup {run[r].call}
           placed == [run EXCEPT ![r].pc = "beat"]
<1>1. /\ run' = [placed EXCEPT ![r].did = deeds]
      /\ run \in [Runs -> RunType] /\ run[r].pc = "effect"
  BY DEF RunTool, TypeOK
<1>2. run' \in [Runs -> RunType]
  <2>1. "beat" \in Pcs /\ deeds \in SUBSET Calls BY <1>1 DEF Pcs, RunType, RunFits
  <2>2. placed \in [Runs -> RunType] BY <1>1, <2>1, FieldsTyped
  <2> HIDE DEF placed, deeds
  <2> QED BY ONLY <1>1, <2>1, <2>2, FieldsTyped, r \in Runs
<1>3. \A q \in Runs : q # r => run'[q] = run[q] BY ONLY <1>1, r \in Runs
<1>4. /\ run'[r].pc = "beat" /\ run'[r].hold = run[r].hold
      /\ run'[r].spent = run[r].spent /\ run'[r].asked = run[r].asked
      /\ run'[r].did = run[r].did \cup {run[r].call}
      /\ run'[r].claim = run[r].claim
  BY ONLY <1>1, r \in Runs DEF RunType
<1>5. RunFits(r)' BY <1>1, <1>4 DEF RunFits, PreModel, Unclaimed
<1>6. /\ SpentFits(r)'
      /\ TaskGrants(r)' = TaskGrants(r)
      /\ \A c : HasYesFor(r, c) => HasYesFor(r, c)'
  BY <1>2, <1>4, GrantsSteady DEF GrantsFit
<1>7. FoundFits(r)' BY <1>4 DEF FoundFits
<1>8. DeedsFit(r)' BY <1>1, <1>4, <1>6 DEF GrantsFit, DeedsFit
<1>9. CountFits(r)'
  BY <1>1, <1>4, <1>6 DEF GrantsFit, CountFits, Paid, Working, Asking
<1> QED BY <1>2, <1>3, <1>4, <1>5, <1>6, <1>7, <1>8, <1>9
        DEF RunMoves, GrantsFit, Unclaimed

\* The terminal write: only an owner's result lands and is charged.
LEMMA TerminalMoves ==
  ASSUME TypeOK, GatesGrow, NEW r \in Runs, RunFits(r), GrantsFit(r),
         TerminalWrite(r)
  PROVE  RunMoves(r)
<1> DEFINE next == AfterTerminal(r)
           owned == Owns(r)
           placed == [run EXCEPT ![r].pc = next]
<1>1. /\ run' = [placed EXCEPT ![r].landed = owned]
      /\ run \in [Runs -> RunType] /\ run[r].pc = "terminal"
  BY DEF TerminalWrite, TypeOK
<1>2. next \in {"settle", "release"} /\ (next = "settle" => owned)
  BY DEF AfterTerminal
<1>3. run' \in [Runs -> RunType]
  <2>1. next \in Pcs BY <1>2 DEF Pcs
  <2>2. owned \in BOOLEAN BY DEF Owns
  <2>3. placed \in [Runs -> RunType] BY <1>1, <2>1, FieldsTyped
  <2> HIDE DEF placed, owned
  <2> QED BY ONLY <1>1, <2>2, <2>3, FieldsTyped, r \in Runs
<1> HIDE DEF next, owned
<1>4. \A q \in Runs : q # r => run'[q] = run[q] BY ONLY <1>1, r \in Runs
<1>5. /\ run'[r].pc = next /\ run'[r].landed = owned
      /\ run'[r].hold = run[r].hold /\ run'[r].call = run[r].call
      /\ run'[r].spent = run[r].spent /\ run'[r].asked = run[r].asked
      /\ run'[r].did = run[r].did /\ run'[r].claim = run[r].claim
  BY ONLY <1>1, r \in Runs DEF RunType
<1>6. RunFits(r)' BY <1>1, <1>2, <1>5 DEF RunFits, PreModel, Unclaimed
<1>7. GrantsFit(r)'
  BY <1>1, <1>2, <1>3, <1>5, QuietFits DEF Asking, Paid, Unclaimed, Working
<1> QED BY <1>2, <1>3, <1>4, <1>5, <1>6, <1>7 DEF RunMoves, Unclaimed

\* The reservation ends, charged or returned.
LEMMA EndHoldMoves ==
  ASSUME TypeOK, GatesGrow, NEW r \in Runs, RunFits(r), GrantsFit(r),
         EndHold(r)
  PROVE  RunMoves(r)
<1>1. PICK end \in {"settled", "released"} :
        /\ run' = [run EXCEPT ![r].pc = "finish", ![r].hold = end]
        /\ run[r].pc \in {"settle", "release"}
        /\ end = "settled" => run[r].pc = "settle"
  BY DEF EndHold
<1> DEFINE placed == [run EXCEPT ![r].pc = "finish"]
<1>2. run' = [placed EXCEPT ![r].hold = end] /\ run \in [Runs -> RunType]
  BY <1>1 DEF TypeOK
<1>3. run' \in [Runs -> RunType]
  <2>1. placed \in [Runs -> RunType] BY <1>2, FieldsTyped DEF Pcs
  <2> HIDE DEF placed
  <2> QED BY ONLY <1>2, <2>1, FieldsTyped, r \in Runs, end \in {"settled", "released"}
<1>4. \A q \in Runs : q # r => run'[q] = run[q] BY ONLY <1>2, r \in Runs
<1>5. /\ run'[r].pc = "finish" /\ run'[r].landed = run[r].landed
      /\ run'[r].hold = end /\ run'[r].call = run[r].call
      /\ run'[r].spent = run[r].spent /\ run'[r].asked = run[r].asked
      /\ run'[r].did = run[r].did /\ run'[r].claim = run[r].claim
  BY ONLY <1>2, r \in Runs DEF RunType
<1>6. RunFits(r)' BY <1>1, <1>5 DEF RunFits, PreModel, Unclaimed
<1>7. GrantsFit(r)'
  BY <1>1, <1>3, <1>5, QuietFits DEF Asking, Paid, Unclaimed, Working
<1> QED BY <1>3, <1>4, <1>5, <1>6, <1>7 DEF RunMoves, Unclaimed

\* A statement failed and nobody caught it.
LEMMA ThrowMoves ==
  ASSUME TypeOK, GatesGrow, NEW r \in Runs, RunFits(r), GrantsFit(r),
         Throw(r)
  PROVE  RunMoves(r)
<1> DEFINE placed == [run EXCEPT ![r].pc = "finish"]
<1>1. /\ run' = [placed EXCEPT ![r].threw = TRUE]
      /\ run \in [Runs -> RunType] /\ run[r].pc = "throw"
  BY DEF Throw, TypeOK
<1>2. run' \in [Runs -> RunType]
  <2>1. placed \in [Runs -> RunType] BY <1>1, FieldsTyped DEF Pcs
  <2> HIDE DEF placed
  <2> QED BY ONLY <1>1, <2>1, FieldsTyped, r \in Runs
<1>3. \A q \in Runs : q # r => run'[q] = run[q] BY ONLY <1>1, r \in Runs
<1>4. /\ run'[r].pc = "finish" /\ run'[r].landed = run[r].landed
      /\ run'[r].hold = run[r].hold /\ run'[r].call = run[r].call
      /\ run'[r].spent = run[r].spent /\ run'[r].asked = run[r].asked
      /\ run'[r].did = run[r].did /\ run'[r].claim = run[r].claim
  BY ONLY <1>1, r \in Runs DEF RunType
<1>5. RunFits(r)' BY <1>1, <1>4 DEF RunFits, PreModel, Unclaimed
<1>6. GrantsFit(r)'
  BY <1>1, <1>2, <1>4, QuietFits DEF Asking, Paid, Unclaimed, Working
<1> QED BY <1>2, <1>3, <1>4, <1>5, <1>6 DEF RunMoves, Unclaimed

\* The call is over: it returned, died, or never began.
LEMMA OverMoves ==
  ASSUME TypeOK, GatesGrow, NEW r \in Runs, RunFits(r), GrantsFit(r),
         NEW timer \in {"off", "on", "expired"},
         run' = [run EXCEPT ![r] = Over(r, timer)]
  PROVE  RunMoves(r)
<1>1. run \in [Runs -> RunType] BY DEF TypeOK
<1>2. Over(r, timer) \in RunType
  <2>1. run[r] \in RunType BY <1>1
  <2>2. /\ run[r].hold \in {"none", "active", "settled", "released"}
        /\ run[r].landed \in BOOLEAN /\ run[r].spent \in SUBSET Gates
        /\ run[r].did \in SUBSET Calls
    BY ONLY <2>1 DEF RunType
  <2>3. {"idle", "done"} \subseteq Pcs /\ {} \in SUBSET AllAsks BY DEF Pcs
  <2> QED BY ONLY <2>2, <2>3, timer \in {"off", "on", "expired"}
          DEF Over, IdleRun, RunType
<1>3. /\ run' \in [Runs -> RunType]
      /\ \A q \in Runs : q # r => run'[q] = run[q]
      /\ run'[r] = Over(r, timer)
  BY <1>1, <1>2
<1>4. /\ run'[r].pc = "done" /\ run'[r].hold = run[r].hold
      /\ run'[r].landed = run[r].landed /\ run'[r].spent = run[r].spent
      /\ run'[r].did = run[r].did /\ run'[r].asked = {}
  BY <1>3 DEF Over, IdleRun
<1>5. RunFits(r)' BY <1>4, FS_EmptySet DEF RunFits, PreModel, Unclaimed
<1>6. GrantsFit(r)'
  BY <1>3, <1>4, QuietFits DEF Asking, Paid, Unclaimed, Working
<1> QED BY <1>3, <1>4, <1>5, <1>6 DEF RunMoves, Unclaimed

\* Only the budget timer of the run moves.
LEMMA TimerMoves ==
  ASSUME TypeOK, GatesGrow, NEW r \in Runs, RunFits(r), GrantsFit(r),
         NEW timer \in {"off", "on", "expired"},
         run' = [run EXCEPT ![r].timer = timer]
  PROVE  RunMoves(r)
<1>1. run \in [Runs -> RunType] BY DEF TypeOK
<1>2. run' \in [Runs -> RunType]
  BY ONLY <1>1, FieldsTyped, r \in Runs, timer \in {"off", "on", "expired"},
          run' = [run EXCEPT ![r].timer = timer]
<1>3. \A q \in Runs : q # r => run'[q] = run[q] BY <1>1
<1>4. /\ run'[r].pc = run[r].pc /\ run'[r].call = run[r].call
      /\ run'[r].hold = run[r].hold /\ run'[r].landed = run[r].landed
      /\ run'[r].spent = run[r].spent /\ run'[r].asked = run[r].asked
      /\ run'[r].did = run[r].did /\ run'[r].claim = run[r].claim
      /\ run'[r].grant = run[r].grant /\ run'[r].then = run[r].then
  BY <1>1 DEF RunType
<1>5. RunFits(r)' BY <1>4 DEF RunFits
<1>6. /\ SpentFits(r)'
      /\ TaskGrants(r)' = TaskGrants(r)
      /\ \A c : HasYesFor(r, c) => HasYesFor(r, c)'
  BY <1>2, <1>4, GrantsSteady DEF GrantsFit
<1>7. FoundFits(r)' BY <1>4 DEF GrantsFit, FoundFits, RunFits, GatesGrow
<1>8. DeedsFit(r)' BY <1>4, <1>6 DEF GrantsFit, DeedsFit
<1>9. CountFits(r)' BY <1>4, <1>6 DEF GrantsFit, CountFits
<1> QED BY <1>2, <1>3, <1>4, <1>5, <1>6, <1>7, <1>8, <1>9 DEF RunMoves, GrantsFit

-----------------------------------------------------------------------------
(* Every step *)

\* What run r may do by itself or have done to it.
RunAction(r) ==
  \/ Begin(r) \/ Step(r) \/ BudgetExpires(r) \/ ConvergeToPending(r)
  \/ StatementFails(r) \/ RunDies(r)

\* The steps of everybody else: they leave every run alone.
WorldAction ==
  \/ EnqueueTask \/ ReaperReads \/ ReaperWrites \/ PulseAges \/ LockAges \/ ReapJob
  \/ \E status \in Edits : EditTask(status)
  \/ \E g \in Gates : Approve(g) \/ Reject(g) \/ Expire(g)
  \/ \E g \in Gates : ReleaseWork(g) \/ CancelTask(g) \/ PauseTask(g) \/ HandlerDies(g)

\* Every step is a run's or the world's.
LEMMA NextSplits == Next => WorldAction \/ \E r \in Runs : RunAction(r)
  BY DEF Next, RunAction, WorldAction

\* The world leaves the runs alone.
LEMMA WorldLeavesRuns == WorldAction => UNCHANGED <<run, claims>>
  BY DEF WorldAction, EnqueueTask, ReaperReads, ReaperWrites, PulseAges, LockAges, ReapJob,
         EditTask, Approve, Reject, Expire, Decide, ReleaseWork, CancelTask,
         PauseTask, HandlerDies

\* A gate is decided once and its release is final.
LEMMA StepGrowsGates ==
  ASSUME TypeOK, [Next]_vars,
         \A r \in Runs : run[r].pc = "spend" => run[r].grant \in Gates
  PROVE  GatesGrow
<1>0. gate \in [Gates -> GateType] BY DEF TypeOK
<1>1. CASE UNCHANGED gate BY <1>1 DEF GatesGrow
<1>2. ASSUME NEW r \in Runs, SpendGrant(r) PROVE GatesGrow
  BY <1>0, <1>2 DEF SpendGrant, GatesGrow, GateType
<1>3. ASSUME NEW r \in Runs, RaiseGate(r) PROVE GatesGrow
  BY <1>0, <1>3 DEF RaiseGate, GatesGrow, GateType
<1>4. ASSUME NEW g \in Gates, NEW status, NEW todo, Decide(g, status, todo)
      PROVE  GatesGrow
  BY <1>0, <1>4 DEF Decide, GatesGrow, GateType
<1>5. ASSUME NEW g \in Gates, Handled(g) PROVE GatesGrow
  BY <1>0, <1>5 DEF Handled, GatesGrow, GateType
<1>6. ASSUME WorldAction PROVE GatesGrow
  BY <1>1, <1>4, <1>5, <1>6
  DEF WorldAction, EnqueueTask, ReaperReads, ReaperWrites, PulseAges, LockAges, ReapJob,
      EditTask, Approve, Reject, Expire, ReleaseWork, CancelTask, PauseTask,
      HandlerDies
<1>7. ASSUME NEW r \in Runs, RunAction(r) PROVE GatesGrow
  <2>1. CASE Begin(r)
    BY <1>1, <2>1 DEF Begin, StartJob, StartExecute, StartCommand, StartBatch, StartRetry
  <2>2. CASE Step(r)
    BY <1>1, <1>2, <1>3, <2>2
    DEF Step, Preflight, ResetForRetry, LoadTask, ClaimTask, CheckAgent,
        EstimateCredits, PreExecutionBlock, Reserve, ReserveApproved, FindGrant,
        FindOpenGate, RaiseGateRefused, StopForApproval, Beat, Model, RunTool,
        TerminalWrite, EndHold, Throw, Finish
  <2>3. CASE BudgetExpires(r) \/ ConvergeToPending(r) \/ StatementFails(r) \/ RunDies(r)
    BY <1>1, <2>3 DEF BudgetExpires, ConvergeToPending, StatementFails, RunDies
  <2> QED BY <1>7, <2>1, <2>2, <2>3 DEF RunAction
<1> QED BY <1>1, <1>6, <1>7, NextSplits DEF vars

\* Whatever a run does, it still fits, and the others stay.
LEMMA RunActionMoves ==
  ASSUME TypeOK, GatesGrow, NEW r \in Runs, RunFits(r), GrantsFit(r), RunAction(r)
  PROVE  RunMoves(r)
<1> USE DEF PreModel, Unclaimed, Paid, Working, Asking, Pcs
<1>1. ASSUME NEW to \in Pcs \ {"spend", "tool", "effect", "settle", "done"},
             run[r].pc # "done",
             run[r].pc \in {"finish", "throw"} => to \in {"finish", "throw"},
             to \in PreModel => run[r].pc \in PreModel,
             to \in Paid => run[r].pc \in Paid,
             to \in Unclaimed => run[r].pc \in Unclaimed,
             to \notin Asking,
             Goto(r, to)
      PROVE  RunMoves(r)
  BY ONLY <1>1, GoingOnMoves, TypeOK, GatesGrow, r \in Runs, RunFits(r), GrantsFit(r)
<1>2. CASE Begin(r)
  <2>1. \E kind \in AllKinds, to \in {"preflight", "reset", "load"} : Start(r, kind, to)
    BY <1>2 DEF Begin, StartJob, StartExecute, StartCommand, StartBatch,
                StartRetry, AllKinds
  <2> QED BY ONLY <2>1, StartMoves, TypeOK, GatesGrow, r \in Runs, RunFits(r), GrantsFit(r)
<1>3. CASE Preflight(r) BY <1>1, <1>3 DEF Preflight
<1>4. CASE ResetForRetry(r) BY <1>1, <1>4 DEF ResetForRetry
<1>5. CASE LoadTask(r) BY <1>1, <1>5 DEF LoadTask
<1>6. CASE ClaimTask(r) BY <1>6, ClaimMoves
<1>7. CASE CheckAgent(r) BY <1>1, <1>7, AskingMoves DEF CheckAgent
<1>8. CASE EstimateCredits(r) BY <1>1, <1>8, AskingMoves DEF EstimateCredits
<1>9. CASE PreExecutionBlock(r) BY <1>1, <1>9 DEF PreExecutionBlock
<1>10. CASE Reserve(r) BY <1>1, <1>10, AskingMoves, HoldMoves DEF Reserve
<1>11. CASE ReserveApproved(r) BY <1>1, <1>11, HoldMoves DEF ReserveApproved
<1>12. CASE FindGrant(r)
  <2>1. CASE Goto(r, "ask") BY <1>1, <1>12, <2>1 DEF FindGrant
  <2>2. CASE run[r].pc = "tool" /\ Goto(r, "beat") BY <1>1, <2>2
  <2>3. ASSUME NEW g \in Gates, IsNewest(g), TokenFits(g, run[r].call),
               run' = [run EXCEPT ![r].pc = "spend", ![r].grant = g,
                                  ![r].then = Resume(run[r].pc)]
        PROVE  RunMoves(r)
    <3>1. run[r].pc \in {"autonomy", "ceiling", "budget"} \cup {"tool"}
      BY <1>12 DEF FindGrant
    <3> QED BY <2>3, <3>1, FoundMoves
  <2> QED BY <1>12, <2>1, <2>2, <2>3 DEF FindGrant
<1>13. CASE SpendGrant(r) BY <1>13, SpendMoves
<1>14. CASE FindOpenGate(r) BY <1>1, <1>14 DEF FindOpenGate
<1>15. CASE RaiseGate(r) BY <1>1, <1>15 DEF RaiseGate
<1>16. CASE RaiseGateRefused(r) BY <1>1, <1>16 DEF RaiseGateRefused
<1>17. CASE StopForApproval(r) BY <1>1, <1>17 DEF StopForApproval
<1>18. CASE Beat(r) BY <1>1, <1>18 DEF Beat
<1>19. CASE Model(r) BY <1>1, <1>19, NoAnswerMoves, ToolAskedMoves DEF Model
<1>20. CASE RunTool(r) BY <1>20, ToolRunMoves
<1>21. CASE TerminalWrite(r) BY <1>21, TerminalMoves
<1>22. CASE EndHold(r) BY <1>22, EndHoldMoves
<1>23. CASE Throw(r) BY <1>23, ThrowMoves
<1>24. run[r].timer \in {"off", "on", "expired"} BY DEF TypeOK, RunType
<1>25. CASE Finish(r) BY <1>24, <1>25, OverMoves DEF Finish
<1>26. CASE BudgetExpires(r) BY <1>26, OverMoves, TimerMoves DEF BudgetExpires
<1>27. CASE ConvergeToPending(r) BY <1>27, TimerMoves DEF ConvergeToPending
<1>28. CASE StatementFails(r) BY <1>1, <1>28 DEF StatementFails, Ended
<1>29. CASE RunDies(r) BY <1>29, OverMoves DEF RunDies
<1> QED BY <1>2, <1>3, <1>4, <1>5, <1>6, <1>7, <1>8, <1>9, <1>10, <1>11, <1>12,
           <1>13, <1>14, <1>15, <1>16, <1>17, <1>18, <1>19, <1>20, <1>21,
           <1>22, <1>23, <1>25, <1>26, <1>27, <1>28, <1>29, RunAction(r)
        DEF RunAction, Step

-----------------------------------------------------------------------------
(* The rows *)

\* The start: no run has moved and no gate is open.
LEMMA InitFits == Init => TaskInv
<1> SUFFICES ASSUME Init PROVE TaskInv OBVIOUS
<1>1. IsFiniteSet({}) /\ Cardinality({}) = 0 BY FS_EmptySet
<1>2. IdleRun \in RunType
  <2>1. "idle" \in Pcs BY DEF Pcs
  <2> QED BY ONLY <2>1 DEF IdleRun, RunType
<1>3. NoGate \in GateType BY DEF NoGate, GateType
<1>4. /\ run = [r \in Runs |-> IdleRun] /\ gate = [g \in Gates |-> NoGate]
      /\ task = [status |-> "pending", lock |-> None, pulse |-> "orphaned"]
      /\ job = [status |-> "none", owner |-> None, fresh |-> FALSE]
      /\ reaper = FALSE /\ claims = 0
      /\ left = [slow |-> MaxSlow, fault |-> MaxFaults, crash |-> MaxCrashes]
  BY DEF Init
<1>5. TypeOK
  <2>1. run \in [Runs -> RunType] BY ONLY <1>2, <1>4
  <2>2. gate \in [Gates -> GateType] BY ONLY <1>3, <1>4
  <2>3. task \in TaskType BY <1>4 DEF TaskType, Statuses
  <2>4. job \in JobType /\ (job.status = "running" <=> job.owner # None)
    BY <1>4 DEF JobType
  <2>5. left \in [{"slow", "fault", "crash"} -> Nat]
    <3>1. MaxSlow \in Nat /\ MaxFaults \in Nat /\ MaxCrashes \in Nat
      BY TaskConstants
    <3> QED BY ONLY <1>4, <3>1
  <2> QED BY <1>4, <2>1, <2>2, <2>3, <2>4, <2>5 DEF TypeOK
<1>6. ASSUME NEW r \in Runs PROVE RunFits(r) /\ GrantsFit(r)
  <2>1. /\ run[r].pc = "idle" /\ run[r].call = TaskToken /\ run[r].hold = "none"
        /\ run[r].asked = {} /\ run[r].spent = {} /\ run[r].did = {}
    BY ONLY <1>4, r \in Runs DEF IdleRun
  <2>2. RunFits(r) BY ONLY <1>1, <2>1 DEF RunFits, PreModel, Unclaimed
  <2>3. SpentFits(r) /\ FoundFits(r) /\ DeedsFit(r)
    BY ONLY <2>1 DEF SpentFits, FoundFits, DeedsFit
  <2>4. TaskGrants(r) = {} BY ONLY <2>1 DEF TaskGrants
  <2>5. CountFits(r) BY ONLY <1>1, <2>1, <2>4 DEF CountFits, Asking
  <2> QED BY <2>2, <2>3, <2>5 DEF GrantsFit
<1>7. OnlyQuestion
  <2>1. OpenGates = {} BY ONLY <1>4 DEF OpenGates, NoGate
  <2> QED BY ONLY <2>1 DEF OnlyQuestion
<1>8. OwnerIsLatest BY <1>4, TaskConstants DEF OwnerIsLatest, Owns
<1>9. FewAnswers
  <2>1. Answered = {} BY ONLY <1>4 DEF Answered, NoGate
  <2> QED BY ONLY <1>1, <2>1 DEF FewAnswers
<1> QED BY <1>5, <1>6, <1>7, <1>8, <1>9 DEF TaskInv

\* What the steps do to the task row, the gates and the job stays typed.
LEMMA PartsTyped ==
  ASSUME TypeOK
  PROVE  /\ \A s \in Statuses, l \in Runs \cup {None} :
              [task EXCEPT !.status = s, !.lock = l] \in TaskType
         /\ \A s \in Statuses : [task EXCEPT !.status = s] \in TaskType
         /\ \A p \in {"fresh", "stale", "orphaned"} : [task EXCEPT !.pulse = p] \in TaskType
         /\ \A s \in Statuses, p \in {"fresh", "stale", "orphaned"} :
              [task EXCEPT !.status = s, !.pulse = p] \in TaskType
         /\ task.status \in Statuses /\ task.lock \in Runs \cup {None}
         /\ task.pulse \in {"fresh", "stale", "orphaned"}
BY DEF TypeOK, TaskType

\* The task row stays typed.
LEMMA TaskRowTyped ==
  ASSUME TypeOK, Next
  PROVE  task' \in TaskType
<1> USE DEF Statuses
<1>1. task \in TaskType BY DEF TypeOK
<1>2. CASE UNCHANGED task BY <1>1, <1>2
<1>3. ASSUME NEW status \in Statuses, Revoke(status) PROVE task' \in TaskType
  BY <1>3, PartsTyped DEF Revoke
<1>4. ASSUME NEW r \in Runs, NEW status \in Statuses, NEW lock \in Runs \cup {None},
             FencedWrite(r, status, lock)
      PROVE  task' \in TaskType
  BY <1>1, <1>4, PartsTyped DEF FencedWrite
<1>5. ASSUME WorldAction PROVE task' \in TaskType
  <2>1. ASSUME NEW status \in Edits, EditTask(status) PROVE task' \in TaskType
    <3>1. status \in Statuses BY TaskConstants
    <3> QED BY <2>1, <3>1, PartsTyped DEF EditTask
  <2>2. CASE PulseAges BY <2>2, PartsTyped DEF PulseAges
  <2> QED BY <1>2, <1>3, <1>5, <2>1, <2>2
      DEF WorldAction, EnqueueTask, ReaperReads, ReaperWrites, LockAges, ReapJob, Approve,
          Reject, Expire, Decide, ReleaseWork, CancelTask, PauseTask, HandlerDies
<1>6. ASSUME NEW r \in Runs, RunAction(r) PROVE task' \in TaskType
  <2>1. CASE Begin(r)
    BY <1>2, <2>1 DEF Begin, StartJob, StartExecute, StartCommand, StartBatch, StartRetry
  <2>2. CASE ClaimTask(r) BY <2>2 DEF ClaimTask, TaskType
  <2>3. CASE PreExecutionBlock(r) BY <1>4, <2>3 DEF PreExecutionBlock
  <2>4. CASE StopForApproval(r) BY <1>4, <2>4, PartsTyped DEF StopForApproval
  <2>5. CASE Beat(r) BY <1>1, <2>5, PartsTyped DEF Beat
  <2>6. CASE TerminalWrite(r) BY <1>4, <2>6 DEF TerminalWrite
  <2>7. CASE Throw(r) BY <1>1, <2>7, PartsTyped DEF Throw
  <2>8. CASE ResetForRetry(r) BY <1>3, <2>8 DEF ResetForRetry
  <2>9. CASE Step(r)
    BY <1>2, <2>2, <2>3, <2>4, <2>5, <2>6, <2>7, <2>8, <2>9
    DEF Step, Preflight, LoadTask, CheckAgent, EstimateCredits, Reserve,
        ReserveApproved, FindGrant, SpendGrant, FindOpenGate, RaiseGate,
        RaiseGateRefused, Model, RunTool, EndHold, Finish
  <2>10. CASE BudgetExpires(r) \/ ConvergeToPending(r) \/ StatementFails(r) \/ RunDies(r)
    BY <1>2, <1>3, <2>10 DEF BudgetExpires, ConvergeToPending, StatementFails, RunDies
  <2> QED BY <1>6, <2>1, <2>9, <2>10 DEF RunAction
<1> QED BY <1>5, <1>6, NextSplits

\* The approvals rows stay typed.
LEMMA GateRowsTyped ==
  ASSUME TypeOK, FewAnswers, Next
  PROVE  gate' \in [Gates -> GateType]
<1>1. gate \in [Gates -> GateType] BY DEF TypeOK
<1>2. CASE UNCHANGED gate BY <1>1, <1>2
<1>3. ASSUME NEW g \in Gates, Handled(g) PROVE gate' \in [Gates -> GateType]
  BY <1>1, <1>3 DEF Handled, GateType
<1>4. ASSUME NEW r \in Runs, SpendGrant(r) PROVE gate' \in [Gates -> GateType]
  BY <1>1, <1>4 DEF SpendGrant, GateType
<1>5. ASSUME NEW r \in Runs, RaiseGate(r) PROVE gate' \in [Gates -> GateType]
  <2>1. PICK c \in Calls \cup {TaskToken} : c = run[r].call BY DEF TypeOK, RunType
  <2>2. PICK g \in Gates : gate' = [gate EXCEPT ![g].status = "pending", ![g].call = c]
    BY <1>5, <2>1 DEF RaiseGate
  <2> QED BY ONLY <1>1, <2>2, c \in Calls \cup {TaskToken} DEF GateType
<1>6. ASSUME NEW g \in Gates, NEW status \in {"approved", "rejected", "expired"},
             NEW todo \in {"release", "cancel", "pause"}, Decide(g, status, todo)
      PROVE  gate' \in [Gates -> GateType]
  <2>1. DecidedCount \in Nat BY FS_CardinalityType DEF FewAnswers, Answered, DecidedCount
  <2>2. PICK n \in Nat : n = DecidedCount + 1 BY <2>1
  <2> DEFINE answered == [gate EXCEPT ![g].status = status]
             owed == [answered EXCEPT ![g].todo = todo]
  <2>3. gate' = [owed EXCEPT ![g].at = n] BY <1>6, <2>2 DEF Decide
  <2>4. answered \in [Gates -> GateType] BY <1>1 DEF GateType
  <2> HIDE DEF answered
  <2>5. owed \in [Gates -> GateType] BY <2>4 DEF GateType
  <2> HIDE DEF owed
  <2> QED BY <2>2, <2>3, <2>5 DEF GateType
<1>7. ASSUME WorldAction PROVE gate' \in [Gates -> GateType]
  BY <1>2, <1>3, <1>6, <1>7
  DEF WorldAction, EnqueueTask, ReaperReads, ReaperWrites, PulseAges, LockAges, ReapJob,
      EditTask, Approve, Reject, Expire, ReleaseWork, CancelTask, PauseTask,
      HandlerDies
<1>8. ASSUME NEW r \in Runs, RunAction(r) PROVE gate' \in [Gates -> GateType]
  <2>1. CASE Begin(r)
    BY <1>2, <2>1 DEF Begin, StartJob, StartExecute, StartCommand, StartBatch, StartRetry
  <2>2. CASE Step(r)
    BY <1>2, <1>4, <1>5, <2>2
    DEF Step, Preflight, ResetForRetry, LoadTask, ClaimTask, CheckAgent,
        EstimateCredits, PreExecutionBlock, Reserve, ReserveApproved, FindGrant,
        FindOpenGate, RaiseGateRefused, StopForApproval, Beat, Model, RunTool,
        TerminalWrite, EndHold, Throw, Finish
  <2>3. CASE BudgetExpires(r) \/ ConvergeToPending(r) \/ StatementFails(r) \/ RunDies(r)
    BY <1>2, <2>3 DEF BudgetExpires, ConvergeToPending, StatementFails, RunDies
  <2> QED BY <1>8, <2>1, <2>2, <2>3 DEF RunAction
<1> QED BY <1>7, <1>8, NextSplits

\* The job stays typed, and is owned just while it runs.
LEMMA JobTyped ==
  ASSUME TypeOK, Next
  PROVE  job' \in JobType /\ (job'.status = "running" <=> job'.owner # None)
<1> USE DEF JobType
<1>1. job \in JobType /\ (job.status = "running" <=> job.owner # None) BY DEF TypeOK
<1>2. CASE UNCHANGED job BY <1>1, <1>2
<1>3. CASE job' = PendingJob BY <1>3 DEF PendingJob
<1>a. ASSUME LockAges
      PROVE  job' \in JobType /\ (job'.status = "running" <=> job'.owner # None)
  BY <1>1, <1>a DEF LockAges
<1>4. ASSUME WorldAction
      PROVE  job' \in JobType /\ (job'.status = "running" <=> job'.owner # None)
  BY <1>2, <1>3, <1>4, <1>a
  DEF WorldAction, EnqueueTask, ReaperReads, ReaperWrites, PulseAges, ReapJob,
      EditTask, Approve, Reject, Expire, Decide, ReleaseWork, CancelTask,
      PauseTask, HandlerDies
<1>5. ASSUME NEW r \in Runs, RunAction(r)
      PROVE  job' \in JobType /\ (job'.status = "running" <=> job'.owner # None)
  <2>1. CASE StartJob(r) BY <2>1, TaskConstants DEF StartJob
  <2>2. CASE Finish(r)
    <3>1. \/ job' = job
          \/ job' \in [status : {"none", "pending"}, owner : {None}, fresh : {FALSE}]
      BY <2>2 DEF Finish
    <3> QED BY <1>1, <3>1
  <2>3. CASE Begin(r)
    BY <1>2, <2>1, <2>3 DEF Begin, StartExecute, StartCommand, StartBatch, StartRetry
  <2>4. CASE Step(r)
    BY <1>2, <2>2, <2>4
    DEF Step, Preflight, ResetForRetry, LoadTask, ClaimTask, CheckAgent,
        EstimateCredits, PreExecutionBlock, Reserve, ReserveApproved, FindGrant,
        SpendGrant, FindOpenGate, RaiseGate, RaiseGateRefused, StopForApproval,
        Beat, Model, RunTool, TerminalWrite, EndHold, Throw
  <2>5. CASE BudgetExpires(r) \/ ConvergeToPending(r) \/ StatementFails(r) \/ RunDies(r)
    BY <1>2, <2>5 DEF BudgetExpires, ConvergeToPending, StatementFails, RunDies
  <2> QED BY <1>5, <2>3, <2>4, <2>5 DEF RunAction
<1> QED BY <1>4, <1>5, NextSplits

\* The flag, the count of claims and the bounds stay typed.
LEMMA RestTyped ==
  ASSUME TypeOK, Next
  PROVE  reaper' \in BOOLEAN /\ claims' \in Nat /\ left' \in [{"slow", "fault", "crash"} -> Nat]
<1>1. /\ reaper \in BOOLEAN /\ claims \in Nat
      /\ left \in [{"slow", "fault", "crash"} -> Nat]
  BY DEF TypeOK
<1>2. ASSUME NEW kind \in {"slow", "fault", "crash"}, Spend(kind)
      PROVE  left' \in [{"slow", "fault", "crash"} -> Nat]
  BY <1>1, <1>2 DEF Spend
<1>3. CASE WorldAction
  BY <1>1, <1>2, <1>3
  DEF WorldAction, EnqueueTask, ReaperReads, ReaperWrites, PulseAges, LockAges, ReapJob,
      EditTask, Approve, Reject, Expire, Decide, ReleaseWork, CancelTask,
      PauseTask, HandlerDies
<1>4. ASSUME NEW r \in Runs, RunAction(r)
      PROVE  /\ UNCHANGED reaper
             /\ claims' \in {claims, claims + 1}
             /\ UNCHANGED left \/ Spend("fault") \/ Spend("crash")
  <2>1. CASE Begin(r)
    BY <2>1 DEF Begin, StartJob, StartExecute, StartCommand, StartBatch, StartRetry
  <2>2. CASE Step(r)
    BY <2>2
    DEF Step, Preflight, ResetForRetry, LoadTask, ClaimTask, CheckAgent,
        EstimateCredits, PreExecutionBlock, Reserve, ReserveApproved, FindGrant,
        SpendGrant, FindOpenGate, RaiseGate, RaiseGateRefused, StopForApproval,
        Beat, Model, RunTool, TerminalWrite, EndHold, Throw, Finish
  <2>3. CASE BudgetExpires(r) \/ ConvergeToPending(r) \/ StatementFails(r) \/ RunDies(r)
    BY <2>3 DEF BudgetExpires, ConvergeToPending, StatementFails, RunDies
  <2> QED BY <1>4, <2>1, <2>2, <2>3 DEF RunAction
<1> QED BY <1>1, <1>2, <1>3, <1>4, NextSplits

-----------------------------------------------------------------------------
(* The open question and the owner of the row *)

\* What a step does to the approvals rows as a whole.
LEMMA GateSteps ==
  ASSUME TypeOK, Next
  PROVE  \/ UNCHANGED gate
         \/ \E g \in Gates :
              /\ \A h \in Gates : h # g => gate'[h] = gate[h]
              /\ gate'[g].status = "pending" => gate[g].status = "pending" \/ OpenGates = {}
<1>0. gate \in [Gates -> GateType] BY DEF TypeOK
<1> DEFINE One(g) == /\ \A h \in Gates : h # g => gate'[h] = gate[h]
                     /\ gate'[g].status = "pending" =>
                          gate[g].status = "pending" \/ OpenGates = {}
<1>1. ASSUME NEW g \in Gates, Handled(g) PROVE One(g)
  BY <1>0, <1>1 DEF Handled, GateType
<1>2. ASSUME NEW g \in Gates, NEW status \in {"approved", "rejected", "expired"},
             NEW todo, Decide(g, status, todo)
      PROVE  One(g)
  BY <1>0, <1>2 DEF Decide, GateType
<1>3. ASSUME NEW r \in Runs, SpendGrant(r) PROVE UNCHANGED gate \/ \E g \in Gates : One(g)
  <2>1. CASE run[r].grant \in Gates
    BY <1>0, <1>3, <2>1 DEF SpendGrant, GateType
  <2>2. CASE run[r].grant \notin Gates
    BY <1>0, <1>3, <2>2 DEF SpendGrant
  <2> QED BY <2>1, <2>2
<1>4. ASSUME NEW r \in Runs, RaiseGate(r) PROVE \E g \in Gates : One(g)
  <2>1. PICK g \in Gates :
          gate' = [gate EXCEPT ![g].status = "pending", ![g].call = run[r].call]
    BY <1>4 DEF RaiseGate
  <2>2. OpenGates = {} BY <1>4 DEF RaiseGate, GateConflict
  <2>3. \A h \in Gates : h # g => gate'[h] = gate[h] BY ONLY <1>0, <2>1
  <2> QED BY <2>2, <2>3
<1> HIDE DEF One
<1>5. ASSUME WorldAction PROVE UNCHANGED gate \/ \E g \in Gates : One(g)
  BY <1>1, <1>2, <1>5
  DEF WorldAction, EnqueueTask, ReaperReads, ReaperWrites, PulseAges, LockAges, ReapJob,
      EditTask, Approve, Reject, Expire, ReleaseWork, CancelTask, PauseTask,
      HandlerDies
<1>6. ASSUME NEW r \in Runs, RunAction(r) PROVE UNCHANGED gate \/ \E g \in Gates : One(g)
  <2>1. CASE Begin(r)
    BY <2>1 DEF Begin, StartJob, StartExecute, StartCommand, StartBatch, StartRetry
  <2>2. CASE Step(r)
    BY <1>3, <1>4, <2>2
    DEF Step, Preflight, ResetForRetry, LoadTask, ClaimTask, CheckAgent,
        EstimateCredits, PreExecutionBlock, Reserve, ReserveApproved, FindGrant,
        FindOpenGate, RaiseGateRefused, StopForApproval, Beat, Model, RunTool,
        TerminalWrite, EndHold, Throw, Finish
  <2>3. CASE BudgetExpires(r) \/ ConvergeToPending(r) \/ StatementFails(r) \/ RunDies(r)
    BY <2>3 DEF BudgetExpires, ConvergeToPending, StatementFails, RunDies
  <2> QED BY <1>6, <2>1, <2>2, <2>3 DEF RunAction
<1>7. UNCHANGED gate \/ \E g \in Gates : One(g) BY <1>5, <1>6, NextSplits
<1> QED BY <1>7 DEF One

\* A question is only asked when none is open.
LEMMA OnlyQuestionStep ==
  ASSUME TypeOK, OnlyQuestion, Next
  PROVE  OnlyQuestion'
BY GateSteps DEF OnlyQuestion, OpenGates

\* One more answer at most.
LEMMA FewAnswersStep ==
  ASSUME TypeOK, FewAnswers, Next
  PROVE  FewAnswers'
<1>1. CASE UNCHANGED gate BY <1>1 DEF FewAnswers, Answered
<1>2. ASSUME NEW g \in Gates, \A h \in Gates : h # g => gate'[h] = gate[h]
      PROVE  FewAnswers'
  <2>1. Answered' \subseteq Answered \cup {g} BY <1>2 DEF Answered
  <2>2. IsFiniteSet(Answered \cup {g}) BY FS_AddElement DEF FewAnswers
  <2> QED BY <2>1, <2>2, FS_Subset DEF FewAnswers
<1> QED BY <1>1, <1>2, GateSteps

\* The lock goes from nobody to a run by a claim alone.
LEMMA LockMoves ==
  ASSUME TypeOK, Next
  PROVE  \/ task'.lock = None /\ UNCHANGED claims
         \/ task'.lock = task.lock /\ UNCHANGED claims
         \/ \E r \in Runs : task'.lock = r /\ ClaimTask(r)
<1> DEFINE Kept == (task'.lock = None \/ task'.lock = task.lock) /\ UNCHANGED claims
<1>0. task \in TaskType BY DEF TypeOK
<1>1. CASE UNCHANGED <<task, claims>> BY <1>1
<1>2. ASSUME NEW status, Revoke(status), UNCHANGED claims PROVE Kept
  BY <1>0, <1>2 DEF Revoke, TaskType
<1>3. ASSUME NEW r \in Runs, NEW status, NEW lock \in {None, task.lock},
             FencedWrite(r, status, lock), UNCHANGED claims
      PROVE  Kept
  BY <1>0, <1>3 DEF FencedWrite, TaskType
<1>4. ASSUME WorldAction PROVE Kept
  <2>1. UNCHANGED claims BY <1>4, WorldLeavesRuns
  <2>2. CASE \E status \in Edits : EditTask(status)
    BY <1>0, <2>1, <2>2 DEF EditTask, TaskType
  <2>3. CASE PulseAges BY <1>0, <2>1, <2>3 DEF PulseAges, TaskType
  <2> QED BY <1>1, <1>2, <1>4, <2>1, <2>2, <2>3
      DEF WorldAction, EnqueueTask, ReaperReads, ReaperWrites, LockAges, ReapJob, Approve,
          Reject, Expire, Decide, ReleaseWork, CancelTask, PauseTask, HandlerDies
<1>5. ASSUME NEW r \in Runs, RunAction(r)
      PROVE  Kept \/ (task'.lock = r /\ ClaimTask(r))
  <2>1. CASE Begin(r)
    BY <1>1, <2>1 DEF Begin, StartJob, StartExecute, StartCommand, StartBatch, StartRetry
  <2>2. CASE ClaimTask(r) BY <2>2 DEF ClaimTask
  <2>3. CASE PreExecutionBlock(r) BY <1>3, <2>3 DEF PreExecutionBlock
  <2>4. CASE StopForApproval(r) BY <1>3, <2>4 DEF StopForApproval
  <2>5. CASE Beat(r) BY <1>0, <2>5 DEF Beat, TaskType
  <2>6. CASE TerminalWrite(r) BY <1>3, <2>6 DEF TerminalWrite
  <2>7. CASE Throw(r) BY <1>0, <2>7 DEF Throw, TaskType
  <2>8. CASE ResetForRetry(r) BY <1>2, <2>8 DEF ResetForRetry
  <2>9. CASE Step(r)
    BY <1>1, <2>2, <2>3, <2>4, <2>5, <2>6, <2>7, <2>8, <2>9
    DEF Step, Preflight, LoadTask, CheckAgent, EstimateCredits, Reserve,
        ReserveApproved, FindGrant, SpendGrant, FindOpenGate, RaiseGate,
        RaiseGateRefused, Model, RunTool, EndHold, Finish
  <2>10. CASE BudgetExpires(r) \/ ConvergeToPending(r) \/ StatementFails(r) \/ RunDies(r)
    BY <1>1, <1>2, <2>10 DEF BudgetExpires, ConvergeToPending, StatementFails, RunDies
  <2> QED BY <1>5, <2>1, <2>9, <2>10 DEF RunAction
<1> QED BY <1>4, <1>5, NextSplits

-----------------------------------------------------------------------------
(* The invariant and what follows from it *)

\* A gate that is found is a gate.
LEMMA FoundIsGate ==
  ASSUME \A r \in Runs : RunFits(r)
  PROVE  \A r \in Runs : run[r].pc = "spend" => run[r].grant \in Gates
BY DEF RunFits

\* A call that is over stays over.
LEMMA DoneStays ==
  ASSUME TypeOK, NEW r \in Runs, RunAction(r), run[r].pc = "done"
  PROVE  run'[r].pc = "done"
<1>1. BudgetExpires(r) \/ ConvergeToPending(r)
  BY DEF RunAction, Begin, StartJob, StartExecute, StartCommand, StartBatch,
         StartRetry, Start, StatementFails, RunDies, Alive, Ended, Step, Preflight,
         ResetForRetry, LoadTask, ClaimTask, CheckAgent, EstimateCredits,
         PreExecutionBlock, Reserve, ReserveApproved, FindGrant, SpendGrant,
         FindOpenGate, RaiseGate, RaiseGateRefused, StopForApproval, Beat, Model,
         RunTool, TerminalWrite, EndHold, Throw, Finish
<1>2. run \in [Runs -> RunType] BY DEF TypeOK
<1>3. \E timer \in {"off", "expired"} : run' = [run EXCEPT ![r].timer = timer]
  BY <1>1 DEF BudgetExpires, ConvergeToPending
<1> QED BY <1>2, <1>3 DEF RunType

\* The owner of the row stays the latest claimer.
LEMMA OwnerStep ==
  ASSUME TaskInv, Next, GatesGrow
  PROVE  OwnerIsLatest'
<1>1. TypeOK /\ OwnerIsLatest BY DEF TaskInv
<1>2. CASE \E q \in Runs : task'.lock = q /\ ClaimTask(q)
  <2>1. PICK q \in Runs : task'.lock = q /\ ClaimTask(q) BY <1>2
  <2>2. run'[q].pc = "agent" /\ run'[q].claim = claims + 1
    BY <2>1, ClaimMoves DEF TaskInv
  <2>3. claims' = claims + 1 BY <2>1 DEF ClaimTask
  <2> QED BY <2>1, <2>2, <2>3 DEF OwnerIsLatest, Owns, Unclaimed
<1>3. CASE task'.lock = None /\ UNCHANGED claims
  BY <1>3, TaskConstants DEF OwnerIsLatest, Owns
<1>4. CASE task'.lock = task.lock /\ UNCHANGED claims
  <2>1. CASE WorldAction
    BY <1>1, <1>4, <2>1, WorldLeavesRuns DEF OwnerIsLatest, Owns
  <2>2. ASSUME NEW r \in Runs, RunAction(r) PROVE OwnerIsLatest'
    <3>1. RunMoves(r) BY <2>2, RunActionMoves DEF TaskInv
    <3>2. ASSUME NEW q \in Runs, Owns(q)'
          PROVE  run'[q].pc = "done" \/ (run'[q].pc \notin Unclaimed /\ run'[q].claim = claims')
      <4>1. \/ run[q].pc = "done"
            \/ run[q].pc \notin Unclaimed /\ run[q].claim = claims
        BY <1>1, <1>4, <3>2 DEF OwnerIsLatest, Owns
      <4>2. CASE q # r BY <1>4, <3>1, <4>1, <4>2 DEF RunMoves
      <4>3. CASE q = r /\ run[q].pc # "done"
        BY <1>4, <3>1, <4>1, <4>3 DEF RunMoves
      <4>4. CASE q = r /\ run[q].pc = "done"
        BY <1>1, <2>2, <4>4, DoneStays
      <4> QED BY <4>2, <4>3, <4>4
    <3> QED BY <3>2 DEF OwnerIsLatest
  <2> QED BY <2>1, <2>2, NextSplits
<1>5. \/ task'.lock = None /\ UNCHANGED claims
      \/ task'.lock = task.lock /\ UNCHANGED claims
      \/ \E q \in Runs : task'.lock = q /\ ClaimTask(q)
  BY ONLY <1>1, Next, LockMoves
<1> QED BY ONLY <1>2, <1>3, <1>4, <1>5

\* TaskInv is inductive.
LEMMA Inductive == TaskInv /\ [Next]_vars => TaskInv'
<1> SUFFICES ASSUME TaskInv, [Next]_vars PROVE TaskInv' OBVIOUS
<1>1. CASE UNCHANGED vars
  <2>1. ASSUME NEW r \in Runs PROVE RunFits(r)' /\ GrantsFit(r)'
    <3>1. GatesGrow BY <1>1 DEF vars, GatesGrow
    <3>2. run' = run /\ run \in [Runs -> RunType] BY <1>1 DEF vars, TaskInv, TypeOK
    <3> QED BY <3>1, <3>2, BystanderFits DEF TaskInv
  <2>2. TypeOK' BY <1>1 DEF vars, TaskInv, TypeOK
  <2>3. OnlyQuestion' /\ FewAnswers' /\ OwnerIsLatest'
    BY <1>1 DEF vars, TaskInv, OnlyQuestion, OpenGates, FewAnswers, Answered,
                OwnerIsLatest, Owns
  <2> QED BY <2>1, <2>2, <2>3 DEF TaskInv
<1>2. CASE Next
  <2>1. TypeOK /\ OnlyQuestion /\ FewAnswers BY DEF TaskInv
  <2>2. GatesGrow BY <1>2, <2>1, StepGrowsGates, FoundIsGate DEF TaskInv
  <2>3. /\ run' \in [Runs -> RunType]
        /\ \A r \in Runs : RunFits(r)' /\ GrantsFit(r)'
    <3>1. CASE WorldAction
      <4>1. run' = run /\ run \in [Runs -> RunType]
        BY <2>1, <3>1, WorldLeavesRuns DEF TypeOK
      <4> QED BY <2>1, <2>2, <4>1, BystanderFits DEF TaskInv
    <3>2. ASSUME NEW r \in Runs, RunAction(r)
          PROVE  /\ run' \in [Runs -> RunType]
                 /\ \A q \in Runs : RunFits(q)' /\ GrantsFit(q)'
      <4>1. RunMoves(r) BY <2>1, <2>2, <3>2, RunActionMoves DEF TaskInv
      <4>2. /\ run' \in [Runs -> RunType] /\ RunFits(r)' /\ GrantsFit(r)'
            /\ \A q \in Runs : q # r => run'[q] = run[q]
        BY <4>1 DEF RunMoves
      <4>3. ASSUME NEW q \in Runs, q # r PROVE RunFits(q)' /\ GrantsFit(q)'
        BY <2>1, <2>2, <4>2, <4>3, BystanderFits DEF TaskInv
      <4> QED BY <4>2, <4>3
    <3> QED BY <1>2, <3>1, <3>2, NextSplits
  <2>4. TypeOK'
    BY <1>2, <2>1, <2>3, TaskRowTyped, GateRowsTyped, JobTyped, RestTyped DEF TypeOK
  <2>5. OnlyQuestion' BY <1>2, <2>1, OnlyQuestionStep
  <2>6. FewAnswers' BY <1>2, <2>1, FewAnswersStep
  <2>7. OwnerIsLatest' BY <1>2, <2>2, OwnerStep
  <2> QED BY <2>3, <2>4, <2>5, <2>6, <2>7 DEF TaskInv
<1> QED BY <1>1, <1>2

\* Every reachable state satisfies TaskInv.
LEMMA Invariance == Spec => []TaskInv
  BY InitFits, Inductive, PTL DEF Spec

\* The rows of one task, its runs and its approvals keep their types.
THEOREM TypeCorrect == Spec => []TypeOK
<1>1. TaskInv => TypeOK BY DEF TaskInv
<1> QED BY <1>1, Invariance, PTL

\* No tool call that needs the founder runs without a yes for exactly that
\* call, for any number of runs, calls and approvals (findGrantedGate and the
\* decision token of authorizeCall).
THEOREM ToolCallsAuthorised == Spec => []CallsAuthorised
<1>1. TaskInv => CallsAuthorised
  <2> SUFFICES ASSUME TaskInv, NEW r \in Runs, NEW c \in run[r].did
               PROVE  \E g \in run[r].spent : gate[g].status = "approved" /\ gate[g].call = c
    BY DEF CallsAuthorised
  <2> QED BY DEF TaskInv, GrantsFit, DeedsFit, SpentFits, HasYesFor
<1> QED BY <1>1, Invariance, PTL

\* A run that works has been given as many yeses for its task as it asked for
\* (the gates of executeTask).
THEOREM WorkIsAuthorised == Spec => []WorkAuthorised
<1>1. TaskInv => WorkAuthorised
  <2> SUFFICES ASSUME TaskInv, NEW r \in Runs, run[r].pc \in Working
               PROVE  Cardinality(TaskGrants(r)) >= Cardinality(run[r].asked)
    BY DEF WorkAuthorised
  <2>1. IsFiniteSet(run[r].asked) /\ IsFiniteSet(TaskGrants(r))
    BY FS_Subset DEF TaskInv, RunFits, TaskGrants
  <2>2. Cardinality(run[r].asked) \in Nat /\ Cardinality(TaskGrants(r)) \in Nat
    BY <2>1, FS_CardinalityType
  <2>3. Cardinality(run[r].asked) <= Cardinality(TaskGrants(r))
    BY DEF TaskInv, GrantsFit, CountFits, Paid
  <2> QED BY <2>2, <2>3
<1> QED BY <1>1, Invariance, PTL

\* However many runs and decisions meet, a task has one open question
\* (approvals_one_pending_per_task of migration 0036).
THEOREM OneQuestion == Spec => []OneOpenQuestion
<1>1. TaskInv => OneOpenQuestion
  <2> SUFFICES ASSUME OnlyQuestion PROVE Cardinality(OpenGates) <= 1
    BY DEF TaskInv, OneOpenQuestion
  <2>1. CASE OpenGates = {} BY <2>1, FS_EmptySet
  <2>2. CASE OpenGates # {}
    <3>1. PICK g \in OpenGates : OpenGates = {g} BY <2>2 DEF OnlyQuestion
    <3>2. Cardinality({g}) = 1 BY FS_Singleton
    <3> QED BY <3>1, <3>2
  <2> QED BY <2>1, <2>2
<1> QED BY <1>1, Invariance, PTL

\* Whoever can write the row claimed it last: retries, rejections, expiries,
\* the orphan reaper and crashes included (the execution_lock of executeTask).
THEOREM FenceHolds == Spec => []WritesByLatestClaim
<1>1. TaskInv => WritesByLatestClaim
  BY DEF TaskInv, OwnerIsLatest, WritesByLatestClaim, Claimed
<1> QED BY <1>1, Invariance, PTL

\* A run whose result was discarded is never charged (the terminal write of
\* executeTask and what follows it).
THEOREM DiscardsFree == Spec => []DiscardedRunsAreFree
<1>1. TaskInv => DiscardedRunsAreFree
  BY DEF TaskInv, RunFits, DiscardedRunsAreFree
<1> QED BY <1>1, Invariance, PTL

-----------------------------------------------------------------------------
(* The job of a task implements LeaseQueue                                 *)
(*                                                                         *)
(* One more fact is needed: the owner of a running job has started, so no  *)
(* idle call ever holds it.  Then the steps of the mapping are those that  *)
(* touch the job or end a run: StartJob leases, the owner's Finish settles *)
(* or hands back, RunDies loses, LockAges makes the lease overdue, ReapJob *)
(* expires it, EnqueueTask and ReleaseWork submit.  Every other step       *)
(* leaves the lease as it is, and moves one run or none.                   *)

OwnerHasStarted == job.status = "running" => run[job.owner].pc # "idle"

HeldInv == TaskInv /\ OwnerHasStarted

\* The abstract state, by name.
phases  == [t \in {TaskToken} |-> JobPhase]
holders == [t \in {TaskToken} |-> {r \in Runs : WorksOnJob(r)}]
at      == [r \in Runs |-> run[r].pc]

QueueStep == [Queue!Next]_<<phases, holders, at>>

\* A step of a call that is not its return leaves it alive.
LEMMA StepsGoOn ==
  ASSUME TypeOK, NEW r \in Runs, RunFits(r), Step(r), ~Finish(r)
  PROVE  Alive(r) /\ Alive(r)'
<1>0. run \in [Runs -> RunType] BY DEF TypeOK
<1>1. ASSUME NEW to, Goto(r, to), to \notin Ended PROVE Alive(r)'
  BY <1>0, <1>1 DEF Goto, Alive, RunType
<1>2. ASSUME NEW check, AskFor(r, check), check \notin Ended PROVE Alive(r)'
  BY <1>0, <1>2 DEF AskFor, Alive, RunType
<1>3. Alive(r)
  BY DEF Alive, Ended, Step, Preflight, ResetForRetry, LoadTask, ClaimTask,
         CheckAgent, EstimateCredits, PreExecutionBlock, Reserve, ReserveApproved,
         FindGrant, SpendGrant, FindOpenGate, RaiseGate, RaiseGateRefused,
         StopForApproval, Beat, Model, RunTool, TerminalWrite, EndHold, Throw
<1> SUFFICES Alive(r)' BY <1>3
<1>4. CASE ClaimTask(r) \/ RunTool(r) \/ TerminalWrite(r) \/ EndHold(r) \/ Throw(r)
  BY <1>0, <1>4 DEF ClaimTask, RunTool, TerminalWrite, AfterTerminal, EndHold, Throw,
                    Alive, Ended, RunType
<1>5. CASE Reserve(r) \/ ReserveApproved(r) \/ CheckAgent(r) \/ EstimateCredits(r)
  BY <1>0, <1>1, <1>2, <1>5 DEF Reserve, ReserveApproved, CheckAgent,
                                EstimateCredits, Alive, Ended, RunType
<1>6. CASE FindGrant(r)
  <2>1. CASE \E to \in {"ask", "beat"} : Goto(r, to) BY <1>1, <2>1 DEF Ended
  <2>2. CASE \E g, then : run' = [run EXCEPT ![r].pc = "spend", ![r].grant = g,
                                            ![r].then = then]
    BY <1>0, <2>2 DEF Alive, Ended, RunType
  <2> QED BY <1>6, <2>1, <2>2 DEF FindGrant
<1>7. CASE SpendGrant(r)
  <2>1. run[r].then \in {"effect", "estimate", "reserve", "reserve again"}
    BY <1>7 DEF SpendGrant, RunFits
  <2>2. run'[r].pc = run[r].then BY <1>0, <1>7 DEF SpendGrant, RunType
  <2> QED BY <2>1, <2>2 DEF Alive, Ended
<1>8. CASE Model(r)
  <2>1. CASE Goto(r, "terminal") BY <1>1, <2>1 DEF Ended
  <2>2. CASE run' = [run EXCEPT ![r].pc = "terminal", ![r].ok = FALSE]
    BY <1>0, <2>2 DEF Alive, Ended, RunType
  <2>3. CASE \E c, n : run' = [run EXCEPT ![r].pc = "tool", ![r].call = c,
                                         ![r].rounds = n]
    BY <1>0, <2>3 DEF Alive, Ended, RunType
  <2> QED BY <1>8, <2>1, <2>2, <2>3 DEF Model
<1>9. CASE \/ Preflight(r) \/ ResetForRetry(r) \/ LoadTask(r) \/ PreExecutionBlock(r)
           \/ FindOpenGate(r) \/ RaiseGate(r) \/ RaiseGateRefused(r)
           \/ StopForApproval(r) \/ Beat(r)
  BY <1>1, <1>9 DEF Preflight, ResetForRetry, LoadTask, PreExecutionBlock,
                    FindOpenGate, RaiseGate, RaiseGateRefused, StopForApproval,
                    Beat, Ended
<1> QED BY <1>3, <1>4, <1>5, <1>6, <1>7, <1>8, <1>9 DEF Step

\* The calls that are under way are the same after the step, but for the ones
\* that had not started; and nobody is idle again.
LivesOn(r) ==
  /\ run[r].pc # "idle" => (Alive(r)' <=> Alive(r))
  /\ run[r].pc # "idle" => run'[r].pc # "idle"

LEMMA RunActionLives ==
  ASSUME TaskInv, NEW r \in Runs, RunAction(r),
         ~StartJob(r), ~Finish(r), ~RunDies(r)
  PROVE  UNCHANGED job /\ LivesOn(r)
<1>0. TypeOK /\ RunFits(r) /\ run \in [Runs -> RunType] BY DEF TaskInv, TypeOK
<1>1. CASE Step(r)
  <2>1. Alive(r) /\ Alive(r)' BY <1>0, <1>1, StepsGoOn
  <2>2. UNCHANGED job
    BY <1>1 DEF Step, Preflight, ResetForRetry, LoadTask, ClaimTask,
         CheckAgent, EstimateCredits, PreExecutionBlock, Reserve, ReserveApproved,
         FindGrant, SpendGrant, FindOpenGate, RaiseGate, RaiseGateRefused,
         StopForApproval, Beat, Model, RunTool, TerminalWrite, EndHold, Throw
  <2> QED BY <2>1, <2>2 DEF LivesOn, Alive, Ended
<1>2. CASE Begin(r)
  BY <1>2 DEF Begin, StartExecute, StartCommand, StartBatch, StartRetry, Start, LivesOn
<1>3. CASE BudgetExpires(r)
  BY <1>0, <1>3 DEF BudgetExpires, LivesOn, Alive, RunType
<1>4. CASE ConvergeToPending(r)
  BY <1>0, <1>4 DEF ConvergeToPending, LivesOn, Alive, RunType
<1>5. CASE StatementFails(r)
  BY <1>0, <1>5 DEF StatementFails, Goto, LivesOn, Alive, Ended, RunType
<1> QED BY <1>1, <1>2, <1>3, <1>4, <1>5 DEF RunAction

\* What a call's end leaves.
LEMMA EndIsDone ==
  ASSUME TaskInv, NEW r \in Runs, Finish(r) \/ RunDies(r)
  PROVE  Alive(r) /\ run'[r].pc = "done"
<1>1. run \in [Runs -> RunType] BY DEF TaskInv, TypeOK
<1>2. \E timer : run' = [run EXCEPT ![r] = Over(r, timer)]
  BY DEF Finish, RunDies
<1>3. run'[r].pc = "done" BY <1>1, <1>2 DEF Over, IdleRun
<1> QED BY <1>3 DEF Finish, RunDies, Alive, Ended

LEMMA StartIsAlive ==
  ASSUME TaskInv, NEW r \in Runs, StartJob(r)
  PROVE  run[r].pc = "idle" /\ Alive(r)'
<1>1. run \in [Runs -> RunType] BY DEF TaskInv, TypeOK
<1>2. run'[r].pc = "preflight" BY <1>1 DEF StartJob, Start, RunType
<1> QED BY <1>2 DEF StartJob, Start, Alive, Ended

\* Only run r moves in an action of its own.
LEMMA OthersStay ==
  ASSUME TaskInv, Next, NEW r \in Runs, RunAction(r)
  PROVE  \A q \in Runs : q # r => run'[q] = run[q]
<1>1. GatesGrow BY StepGrowsGates, FoundIsGate DEF TaskInv
<1>2. RunMoves(r) BY <1>1, RunActionMoves DEF TaskInv
<1> QED BY <1>2 DEF RunMoves

\* What the world does to the job.
LEMMA WorldOnJob ==
  ASSUME WorldAction
  PROVE  \/ UNCHANGED job
         \/ job.status = "none" /\ job' = PendingJob
         \/ StaleJob /\ job' = PendingJob
         \/ /\ job.status = "running" /\ job.fresh
            /\ job' = [job EXCEPT !.fresh = FALSE]
BY DEF WorldAction, EnqueueTask, ReaperReads, ReaperWrites, PulseAges, LockAges, ReapJob,
       EditTask, Approve, Reject, Expire, Decide, ReleaseWork, CancelTask,
       PauseTask, HandlerDies

\* HeldInv is inductive.
LEMMA HeldStep == HeldInv /\ [Next]_vars => HeldInv'
<1> SUFFICES ASSUME HeldInv, [Next]_vars PROVE HeldInv' OBVIOUS
<1>1. TaskInv' BY Inductive DEF HeldInv
<1>2. TaskInv /\ TypeOK /\ OwnerHasStarted BY DEF HeldInv, TaskInv
<1>3. CASE UNCHANGED vars BY <1>1, <1>2, <1>3 DEF vars, HeldInv, OwnerHasStarted
<1>4. ASSUME Next, WorldAction PROVE OwnerHasStarted'
  <2>1. run' = run BY <1>4, WorldLeavesRuns
  <2>2. \/ job'.status # "running"
        \/ job'.status = job.status /\ job'.owner = job.owner
    <3>1. job \in JobType BY <1>2 DEF TypeOK
    <3> QED BY <1>4, <3>1, WorldOnJob DEF PendingJob, JobType
  <2> QED BY <1>2, <2>1, <2>2 DEF OwnerHasStarted
<1>5. ASSUME Next, NEW r \in Runs, RunAction(r) PROVE OwnerHasStarted'
  <2>0. \A q \in Runs : q # r => run'[q] = run[q] BY <1>2, <1>5, OthersStay
  <2>1. job.status = "running" => job.owner \in Runs
    BY <1>2, TaskConstants DEF TypeOK, JobType
  <2>2. CASE StartJob(r)
    BY <1>2, <2>2, StartIsAlive DEF StartJob, OwnerHasStarted, Alive, Ended
  <2>3. CASE Finish(r) \/ RunDies(r)
    <3>1. run'[r].pc = "done" BY <1>2, <2>3, EndIsDone
    <3>2. job' = job \/ job'.status # "running" BY <2>3 DEF Finish, RunDies
    <3> QED BY <1>2, <2>0, <2>1, <3>1, <3>2 DEF OwnerHasStarted
  <2>4. CASE ~StartJob(r) /\ ~Finish(r) /\ ~RunDies(r)
    <3>1. UNCHANGED job /\ LivesOn(r) BY <1>2, <1>5, <2>4, RunActionLives
    <3> QED BY <1>2, <2>0, <2>1, <3>1 DEF OwnerHasStarted, LivesOn
  <2> QED BY <2>2, <2>3, <2>4
<1> QED BY <1>1, <1>3, <1>4, <1>5, NextSplits DEF HeldInv

LEMMA HeldAlways == Spec => []HeldInv
<1>1. Init => HeldInv BY InitFits DEF Init, HeldInv, OwnerHasStarted
<1> QED BY <1>1, HeldStep, PTL DEF Spec

\* A job that does not change, with its owner alive or not as before.
LEMMA LeaseStays ==
  ASSUME UNCHANGED job, job.status = "running" => (Alive(job.owner)' <=> Alive(job.owner))
  PROVE  UNCHANGED <<phases, holders>>
<1>1. \A r \in Runs : WorksOnJob(r)' <=> WorksOnJob(r) BY DEF WorksOnJob
<1> QED BY <1>1 DEF phases, holders, JobPhase, StaleJob

\* A step of run r moves r to another point and nobody else, or nobody at all.
LEMMA OneMoves ==
  ASSUME TaskInv, Next, NEW r \in Runs, RunAction(r)
  PROVE  /\ run'[r].pc = run[r].pc => UNCHANGED at
         /\ run'[r].pc # run[r].pc => Queue!Move(r)
<1>1. \A q \in Runs : q # r => run'[q] = run[q] BY OthersStay
<1>2. run'[r].pc \in Pcs
  <2>1. TaskInv' BY Inductive
  <2> QED BY <2>1 DEF TaskInv, TypeOK, RunType
<1>3. CASE run'[r].pc = run[r].pc BY <1>1, <1>3 DEF at
<1>4. CASE run'[r].pc # run[r].pc
  <2>1. at'[r] # at[r] /\ at'[r] \in Pcs BY <1>2, <1>4 DEF at
  <2>2. at' = [at EXCEPT ![r] = at'[r]] BY <1>1 DEF at
  <2> QED BY <1>4, <2>1, <2>2 DEF Queue!Move, at
<1> QED BY <1>3, <1>4

\* A submitted or expired job is held by nobody.
LEMMA JobOpens ==
  ASSUME job' = PendingJob, job.status = "none" \/ StaleJob, UNCHANGED at
  PROVE  Queue!Next
<1>0. Queue!AnyMove BY DEF Queue!AnyMove, at
<1>1. phases' = [t \in {TaskToken} |-> "queued"]
  BY DEF phases, JobPhase, StaleJob, PendingJob
<1>2. holders' = [t \in {TaskToken} |-> {}]
  BY DEF holders, WorksOnJob, PendingJob
<1>3. CASE job.status = "none"
  <2>1. holders = [t \in {TaskToken} |-> {}] BY <1>3 DEF holders, WorksOnJob
  <2>2. phases = [t \in {TaskToken} |-> "none"] BY <1>3 DEF phases, JobPhase, StaleJob
  <2>3. Queue!Submit(TaskToken)
    BY <1>0, <1>1, <1>2, <2>1, <2>2 DEF Queue!Submit, phases, holders
  <2> QED BY <2>3 DEF Queue!Next
<1>4. CASE StaleJob
  <2>1. phases = [t \in {TaskToken} |-> "overdue"] BY <1>4 DEF phases, JobPhase, StaleJob
  <2>2. Queue!Expire({TaskToken})
    BY <1>0, <1>1, <1>2, <2>1 DEF Queue!Expire, phases, holders
  <2> QED BY <2>2 DEF Queue!Next
<1> QED BY <1>3, <1>4

\* The window of the lock passes.
LEMMA LockOverdue ==
  ASSUME TypeOK, job.status = "running", job.fresh,
         job' = [job EXCEPT !.fresh = FALSE], run' = run
  PROVE  Queue!Age(TaskToken)
<1>1. /\ job'.status = "running" /\ job'.owner = job.owner
      /\ job'.fresh = FALSE
  BY DEF TypeOK, JobType
<1>2. phases = [t \in {TaskToken} |-> "leased"] BY DEF phases, JobPhase, StaleJob
<1>3. phases' = [t \in {TaskToken} |-> "overdue"]
  BY <1>1 DEF phases, JobPhase, StaleJob
<1>4. \A r \in Runs : WorksOnJob(r)' <=> WorksOnJob(r) BY <1>1 DEF WorksOnJob, Alive
<1>5. UNCHANGED <<holders, at>> BY <1>4 DEF holders, at
<1> QED BY <1>2, <1>3, <1>5 DEF Queue!Age, phases, holders, at

\* A consumer that claims the job holds the task.
LEMMA StartLeases ==
  ASSUME HeldInv, Next, NEW r \in Runs, StartJob(r)
  PROVE  Queue!Lease(TaskToken, r)
<1>0. TaskInv BY DEF HeldInv
<1>1. /\ job.status = "pending" /\ job'.status = "running" /\ job'.owner = r
      /\ job'.fresh = TRUE
  BY DEF StartJob
<1>2. run[r].pc = "idle" /\ Alive(r)' BY <1>0, StartIsAlive
<1>3. phases = [t \in {TaskToken} |-> "queued"] BY <1>1 DEF phases, JobPhase, StaleJob
<1>4. phases' = [t \in {TaskToken} |-> "leased"]
  BY <1>1 DEF phases, JobPhase, StaleJob
<1>5. \A q \in Runs : WorksOnJob(q)' <=> q = r BY <1>1, <1>2 DEF WorksOnJob
<1>6. holders' = [holders EXCEPT ![TaskToken] = {r}] BY <1>5 DEF holders
<1>7. Queue!Move(r)
  <2>1. RunAction(r) BY DEF RunAction, Begin
  <2>2. run'[r].pc # run[r].pc BY <1>2 DEF Alive, Ended
  <2> QED BY <1>0, <2>1, <2>2, OneMoves
<1> QED BY <1>3, <1>4, <1>6, <1>7 DEF Queue!Lease, phases, holders

\* A call that returns settles its job or puts it back; another's it leaves.
LEMMA FinishSettles ==
  ASSUME HeldInv, Next, NEW r \in Runs, Finish(r)
  PROVE  Queue!Finish(TaskToken, r) \/ Queue!Work(r)
<1>0. TaskInv /\ TypeOK BY DEF HeldInv, TaskInv
<1>1. Alive(r) BY <1>0, EndIsDone
<1>m. Queue!Move(r)
  <2>1. RunAction(r) BY DEF RunAction, Step
  <2>2. run'[r].pc # run[r].pc BY <1>0, EndIsDone DEF Finish
  <2> QED BY <1>0, <2>1, <2>2, OneMoves
<1>2. CASE HoldsJob(r)
  <2>1. job.owner = r /\ job.status = "running"
    BY <1>0, <1>2, TaskConstants DEF TypeOK, HoldsJob
  <2>2. job'.status \in {"none", "pending"} BY <1>2 DEF Finish
  <2>3. phases[TaskToken] \in Queue!OnLease /\ r \in holders[TaskToken]
    BY <1>0, <1>1, <2>1
    DEF phases, JobPhase, StaleJob, holders, WorksOnJob, Queue!OnLease, TypeOK, JobType
  <2>4. \E next \in {"none", "queued"} : phases' = [phases EXCEPT ![TaskToken] = next]
    BY <2>2 DEF phases, JobPhase, StaleJob
  <2>5. holders' = [holders EXCEPT ![TaskToken] = {}]
    BY <2>2 DEF holders, WorksOnJob
  <2> QED BY <1>m, <2>3, <2>4, <2>5 DEF Queue!Finish, phases, holders
<1>3. CASE ~HoldsJob(r)
  <2>1. UNCHANGED job BY <1>3 DEF Finish
  <2>2. \A q \in Runs : q # r => run'[q] = run[q]
    BY <1>0, OthersStay DEF RunAction, Step
  <2>3. job.status = "running" => job.owner \in Runs
    BY <1>0, TaskConstants DEF TypeOK, JobType
  <2>4. UNCHANGED <<phases, holders>>
    BY <1>3, <2>1, <2>2, <2>3, LeaseStays DEF Alive, HoldsJob
  <2> QED BY <1>m, <2>4 DEF Queue!Work, phases, holders
<1> QED BY <1>2, <1>3

\* A process that dies gives up what it held, and leaves the task leased.
LEMMA DeathLoses ==
  ASSUME HeldInv, Next, NEW r \in Runs, RunDies(r)
  PROVE  Queue!Lose(r)
<1>0. TaskInv BY DEF HeldInv
<1>1. Alive(r) /\ run'[r].pc = "done" /\ ~Alive(r)'
  BY <1>0, EndIsDone DEF Alive, Ended
<1>2. \A q \in Runs : q # r => run'[q] = run[q] BY <1>0, OthersStay DEF RunAction
<1>3. UNCHANGED job BY DEF RunDies
<1>4. \A q \in Runs : WorksOnJob(q)' <=> WorksOnJob(q) /\ q # r
  BY <1>1, <1>2, <1>3 DEF WorksOnJob, Alive
<1>5. holders' = [t \in {TaskToken} |-> holders[t] \ {r}] BY <1>4 DEF holders
<1>6. UNCHANGED phases BY <1>3 DEF phases, JobPhase, StaleJob
<1>7. Queue!Move(r)
  <2>1. RunAction(r) BY DEF RunAction
  <2>2. run'[r].pc # run[r].pc BY <1>1 DEF Alive, Ended
  <2> QED BY <1>0, <2>1, <2>2, OneMoves
<1> QED BY <1>5, <1>6, <1>7 DEF Queue!Lose, phases, holders

\* Every step of the task is a step of LeaseQueue or none.
LEMMA StepOfQueue ==
  ASSUME HeldInv, [Next]_vars
  PROVE  QueueStep
<1>0. TaskInv /\ TypeOK /\ OwnerHasStarted BY DEF HeldInv, TaskInv
<1>n. Queue!Next => QueueStep BY DEF QueueStep
<1>1. CASE UNCHANGED vars
  BY <1>1 DEF vars, QueueStep, phases, holders, at, JobPhase, StaleJob, WorksOnJob, Alive
<1>2. ASSUME Next, WorldAction PROVE QueueStep
  <2>1. run' = run /\ UNCHANGED at BY <1>2, WorldLeavesRuns DEF at
  <2>2. CASE UNCHANGED job
    <3>1. UNCHANGED <<phases, holders>> BY <2>1, <2>2, LeaseStays DEF Alive
    <3> QED BY <2>1, <3>1 DEF QueueStep
  <2>3. CASE job' = PendingJob /\ (job.status = "none" \/ StaleJob)
    BY <1>n, <2>1, <2>3, JobOpens
  <2>4. CASE /\ job.status = "running" /\ job.fresh
             /\ job' = [job EXCEPT !.fresh = FALSE]
    <3>1. Queue!Age(TaskToken) BY <1>0, <2>1, <2>4, LockOverdue
    <3> QED BY <1>n, <3>1 DEF Queue!Next
  <2> QED BY <1>2, <2>2, <2>3, <2>4, WorldOnJob
<1>3. ASSUME Next, NEW r \in Runs, RunAction(r) PROVE QueueStep
  <2>1. CASE StartJob(r)
    <3>1. Queue!Lease(TaskToken, r) BY <1>3, <2>1, StartLeases
    <3> QED BY <1>n, <3>1 DEF Queue!Next
  <2>2. CASE Finish(r)
    <3>1. Queue!Finish(TaskToken, r) \/ Queue!Work(r)
      BY <1>3, <2>2, FinishSettles
    <3> QED BY <1>n, <3>1 DEF Queue!Next
  <2>3. CASE RunDies(r)
    <3>1. Queue!Lose(r) BY <1>3, <2>3, DeathLoses
    <3> QED BY <1>n, <3>1 DEF Queue!Next
  <2>4. CASE ~StartJob(r) /\ ~Finish(r) /\ ~RunDies(r)
    <3>1. UNCHANGED job /\ LivesOn(r) BY <1>0, <1>3, <2>4, RunActionLives
    <3>2. \A q \in Runs : q # r => run'[q] = run[q] BY <1>0, <1>3, OthersStay
    <3>3. job.status = "running" => job.owner \in Runs
      BY <1>0, TaskConstants DEF TypeOK, JobType
    <3>4. job.status = "running" => (Alive(job.owner)' <=> Alive(job.owner))
      BY <1>0, <3>1, <3>2, <3>3 DEF OwnerHasStarted, LivesOn, Alive
    <3>5. UNCHANGED <<phases, holders>> BY <3>1, <3>4, LeaseStays
    <3>6. UNCHANGED at \/ Queue!Work(r)
      <4>1. UNCHANGED at \/ Queue!Move(r) BY <1>0, <1>3, OneMoves
      <4> QED BY <3>5, <4>1 DEF Queue!Work, phases, holders
    <3>7. Queue!Work(r) => Queue!Next BY DEF Queue!Next
    <3> QED BY <1>n, <3>5, <3>6, <3>7 DEF QueueStep
  <2> QED BY <2>1, <2>2, <2>3, <2>4
<1> QED BY <1>1, <1>2, <1>3, NextSplits

\* The job of a task, for any number of calls of executeTask in any order of
\* claims, returns, deaths, reaps and approvals, is a task of LeaseQueue: a
\* step of the run that claimed it last ends it or puts it back, and the
\* reaper does once its lock has left the stale window; the late return of a
\* reaped run leaves the next run's job alone (claimJob, settleJob and
\* reapStaleJobs of jobs.ts as the task sees them).
THEOREM TaskIsLeased == Spec => ImplementsLeaseQueue
<1>1. Init => Queue!Init
  <2> SUFFICES ASSUME Init PROVE Queue!Init OBVIOUS
  <2>1. job.status = "none" /\ job.owner = None /\ \A r \in Runs : run[r].pc = "idle"
    BY DEF Init, IdleRun
  <2>2. phases = [t \in {TaskToken} |-> "none"] /\ holders = [t \in {TaskToken} |-> {}]
    BY <2>1 DEF phases, JobPhase, StaleJob, holders, WorksOnJob
  <2>3. at \in [Runs -> Pcs] BY <2>1 DEF at, Pcs
  <2> QED BY <2>2, <2>3 DEF Queue!Init, phases, holders, at
<1>2. HeldInv /\ [Next]_vars => [Queue!Next]_<<phases, holders, at>>
  BY StepOfQueue DEF QueueStep
<1>3. <<phases, holders, at>> = Queue!vars BY DEF phases, holders, at, Queue!vars
<1> QED BY <1>1, <1>2, <1>3, HeldAlways, PTL
        DEF Spec, ImplementsLeaseQueue, Queue!Spec, Queue!vars, phases, holders, at
=============================================================================
