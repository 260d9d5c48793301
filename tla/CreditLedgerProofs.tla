------------------------- MODULE CreditLedgerProofs -------------------------
(***************************************************************************)
(* What holds of the credit ledger for any number of runs, charges,        *)
(* grants, sweepers, months, crashes and amounts.                          *)
(*                                                                         *)
(* The properties about amounts (HoldsAreBacked, NoOverspend,              *)
(* UsedMatchesLedger, ImplementsAccount) are about calls that start and    *)
(* end within one month (OneMonth); the others need no such hypothesis.    *)
(* Sums of amounts are cardinalities of sets of units (Units), which the   *)
(* library's theorems about finite sets add and subtract.                  *)
(***************************************************************************)
EXTENDS CreditLedger, FiniteSetTheorems, TLAPS

OneMonth == LastMonth = 0

\* No adjustment takes credits away.
GrantsGive == \A g \in Grants : CreditsOf[g] >= 0

-----------------------------------------------------------------------------
(* What a call record may be in for a process *)

\* A run passes itself as the reservation to end; a sweeper only releases.
Fits(p, c) ==
  /\ p \in Runs /\ c.pc # "off" => c.run = p
  /\ p \in Sweepers /\ c.pc # "off" => c.op \in {"release", "none"}
  /\ p \in Sweepers /\ c.op = "release" => c.run \in Runs
  /\ c.pc = "fetch" => c.op \in {"settle", "release"}

\* A run that has not yet got its hold.
Early(c) == c.pc = "off" \/ (c.op = "reserve" /\ c.pc \notin {"work", "crashed", "done"})

\* Every call in progress is one its process makes.
CallsFit == \A p \in Procs : Fits(p, call[p])

\* A run on its way to a reservation has none.
HoldComesOnce == \A r \in Runs : Early(call[r]) => hold[r].status = "none"

\* A run writes its ledger row with the step that ends it.
BilledOnce == \A r \in Runs : rows[r] > 0 => rows[r] = 1 /\ call[r].pc = "done"

\* The ledger holds the key of every keyed row.
KeyedOnce ==
  \A p \in Charges \cup Grants : KeyOf[p] # None /\ rows[p] > 0 => KeyOf[p] \in keys

\* Keys are not shared between rows.
OneRowPerKey ==
  \A p, q \in Charges \cup Grants :
    /\ KeyOf[p] # None /\ KeyOf[p] = KeyOf[q]
    /\ rows[p] > 0 /\ rows[q] > 0
    => p = q /\ rows[p] = 1

\* Only a charge that was made is refunded.
RefundsFollow == \A c \in Charges : call[c].op = "refund" => rows[c] > 0

CallInv ==
  /\ TypeOK
  /\ CallsFit
  /\ RefundsFollow
  /\ HoldComesOnce
  /\ BilledOnce
  /\ KeyedOnce
  /\ OneRowPerKey

-----------------------------------------------------------------------------
(* Moves of a single process *)

\* Process p goes on with its call, without a hold it did not have before.
CallMove(p) ==
  /\ call' \in [Procs -> CallType]
  /\ \A q \in Procs : q # p => call'[q] = call[q]
  /\ Fits(p, call'[p])
  /\ p \in Runs =>
       /\ Early(call'[p]) => Early(call[p])
       /\ call[p].pc # "done"
  /\ p \in Charges /\ call'[p].op = "refund" => rows[p] > 0

\* The other fields of the tables keep their types.
TablesTyped ==
  /\ month' \in Months /\ sub' \in Months
  /\ bal' \in [Months -> RowType]
  /\ ledger' \in [Months -> BookType]
  /\ crashes' \in Nat

\* A process goes to another point of its call.
LEMMA GotoMoves ==
  ASSUME CallInv, NEW p \in Procs, NEW pc \in Pcs, Goto(p, pc),
         call[p].pc \notin {"off", "done"},
         p \in Runs /\ call[p].pc \in {"work", "crashed"} => pc \in {"crashed", "done"},
         pc = "off" => p \notin Runs,
         pc # "fetch"
  PROVE  CallMove(p)
<1>1. /\ call \in [Procs -> CallType] /\ call[p] \in CallType
      /\ Fits(p, call[p])
      /\ p \in Charges /\ call[p].op = "refund" => rows[p] > 0
  BY DEF CallInv, TypeOK, CallsFit, RefundsFollow
<1>2. call'[p] = [pc |-> pc, op |-> call[p].op, now |-> call[p].now,
                  run |-> call[p].run, actual |-> call[p].actual]
  BY <1>1 DEF Goto, CallType
<1>3. /\ call'[p] \in CallType
      /\ \A q \in Procs : q # p => call'[q] = call[q]
  BY <1>1, <1>2 DEF Goto, CallType
<1>4. call' \in [Procs -> CallType] BY <1>1, <1>3 DEF Goto
<1>5. Fits(p, call'[p]) BY <1>1, <1>2 DEF Fits
<1> QED BY <1>1, <1>2, <1>3, <1>4, <1>5 DEF CallMove, Early

\* A call ends.
LEMMA FinishMoves ==
  ASSUME CallInv, NEW p \in Procs, Finish(p), call[p].pc \notin {"off", "done"}
  PROVE  CallMove(p)
<1>1. /\ call \in [Procs -> CallType] /\ call[p] \in CallType
      /\ Fits(p, call[p])
  BY DEF CallInv, TypeOK, CallsFit
<1>2. call'[p] = [pc |-> Rest(p), op |-> "none", now |-> call[p].now,
                  run |-> call[p].run, actual |-> call[p].actual]
  BY <1>1 DEF Finish, CallType
<1>3. /\ call'[p] \in CallType
      /\ \A q \in Procs : q # p => call'[q] = call[q]
  BY <1>1, <1>2 DEF Finish, CallType, Rest, Pcs, Ops
<1>4. call' \in [Procs -> CallType] BY <1>1, <1>3 DEF Finish
<1>5. Fits(p, call'[p]) BY <1>1, <1>2 DEF Fits, Rest
<1>6. p \in Runs => ~Early(call'[p]) BY <1>2 DEF Early, Rest
<1> QED BY <1>2, <1>3, <1>4, <1>5, <1>6 DEF CallMove

\* A call opens, or begins again under another operation.
LEMMA OpenMoves ==
  ASSUME CallInv, NEW p \in Procs, NEW op \in Ops, NEW r \in Runs \cup {None},
         NEW actual \in Nat, Open(p, op, r, actual),
         p \in Runs =>
           /\ r = p /\ call[p].pc # "done"
           /\ op = "reserve" => Early(call[p]),
         p \in Sweepers => op = "release" /\ r \in Runs,
         p \in Charges /\ op = "refund" => rows[p] > 0
  PROVE  CallMove(p)
<1>1. call \in [Procs -> CallType] /\ month \in Months
  BY DEF CallInv, TypeOK
<1>2. call'[p] = [pc |-> "sub", op |-> op, now |-> month, run |-> r, actual |-> actual]
  BY <1>1 DEF Open
<1>3. /\ call'[p] \in CallType
      /\ \A q \in Procs : q # p => call'[q] = call[q]
  BY <1>1, <1>2 DEF Open, CallType, Pcs
<1>4. call' \in [Procs -> CallType] BY <1>1, <1>3 DEF Open
<1>5. Fits(p, call'[p]) BY <1>2 DEF Fits
<1>6. p \in Runs /\ Early(call'[p]) => Early(call[p]) BY <1>2 DEF Early
<1> QED BY <1>2, <1>3, <1>4, <1>5, <1>6 DEF CallMove

\* What the caller does with its balance is a move of its call.
LEMMA JudgeMoves ==
  ASSUME CallInv, NEW p \in Procs, NEW row,
         Judge(p, row) \/ Refuse(p),
         call[p].pc \notin {"off", "done", "work", "crashed"}
  PROVE  CallMove(p)
<1>1. \/ Finish(p)
      \/ Goto(p, "tx")
      \/ Goto(p, "unbilled")
  BY DEF Judge, Refuse
<1> QED BY <1>1, FinishMoves, GotoMoves DEF Pcs

-----------------------------------------------------------------------------
(* The inductive invariant *)

\* At first every process is idle and no row is written.
LEMMA InitCalls == Init => CallInv
  BY LedgerConstants
  DEF Init, CallInv, TypeOK, CallsFit, RefundsFollow, Fits, HoldComesOnce, BilledOnce, KeyedOnce,
      OneRowPerKey, NoRow, EmptyBook, Idle, RowType, BookType, HoldType, CallType,
      Pcs, Ops, Months, Procs, Payers

\* A step that moves a call and touches neither reservations nor history.
LEMMA QuietFrame ==
  ASSUME CallInv, NEW p \in Procs, CallMove(p), TablesTyped,
         UNCHANGED <<hold, keys, rows>>
  PROVE  CallInv'
<1>1. TypeOK' BY DEF CallInv, TypeOK, CallMove, TablesTyped
<1>2. CallsFit' /\ RefundsFollow'
  BY DEF CallInv, CallsFit, RefundsFollow, CallMove, Procs
<1>3. HoldComesOnce' BY DEF CallInv, HoldComesOnce, CallMove, Procs
<1>4. BilledOnce' BY DEF CallInv, BilledOnce, CallMove, Procs
<1>5. KeyedOnce' /\ OneRowPerKey' BY DEF CallInv, KeyedOnce, OneRowPerKey
<1> QED BY <1>1, <1>2, <1>3, <1>4, <1>5 DEF CallInv

\* A row of a month inserted, or its insert in conflict with one that is there.
LEMMA InsertTyped ==
  ASSUME CallInv, NEW m \in Months
  PROVE  InsertRow(m) \in [Months -> RowType]
<1>1. FreshRow \in RowType BY DEF FreshRow, RowType
<1> QED BY <1>1 DEF CallInv, TypeOK, InsertRow

\* Opening the period keeps the invariant, wherever its statements interleave.
LEMMA BalanceKeepsCalls ==
  ASSUME CallInv, NEW p \in Procs, GetOrCreateBalance(p)
  PROVE  CallInv'
<1>1. /\ call[p] \in CallType /\ call[p].now \in Months
      /\ month \in Months /\ sub \in Months /\ crashes \in Nat
      /\ bal \in [Months -> RowType] /\ ledger \in [Months -> BookType]
      /\ call[p].pc \notin {"off", "done", "work", "crashed"}
  BY DEF CallInv, TypeOK, CallType, GetOrCreateBalance, ReadSub, RollSub, ProbeRow,
         AllocateRow, LogRollover, ReadRow, CreateRow
<1>2. UNCHANGED <<hold, keys, rows>> /\ UNCHANGED <<month, crashes>>
  BY DEF GetOrCreateBalance, ReadSub, RollSub, ProbeRow,
         AllocateRow, LogRollover, ReadRow, CreateRow, MoneyUnchanged
<1>3. CallMove(p)
  <2>1. \/ \E pc \in {"roll", "read", "probe", "allocate", "log", "create"} : Goto(p, pc)
        \/ \E row : Judge(p, row)
    BY DEF GetOrCreateBalance, ReadSub, RollSub, ProbeRow,
           AllocateRow, LogRollover, ReadRow, CreateRow
  <2> QED BY <1>1, <2>1, GotoMoves, JudgeMoves DEF Pcs
<1>4. sub' \in Months
  BY <1>1 DEF GetOrCreateBalance, ReadSub, RollSub, ProbeRow,
              AllocateRow, LogRollover, ReadRow, CreateRow
<1>5. bal' \in [Months -> RowType]
  <2>1. UNCHANGED bal \/ bal' = InsertRow(call[p].now)
    BY DEF GetOrCreateBalance, ReadSub, RollSub, ProbeRow,
           AllocateRow, LogRollover, ReadRow, CreateRow
  <2> QED BY <1>1, <2>1, InsertTyped
<1>6. ledger' \in [Months -> BookType]
  <2>1. UNCHANGED ledger \/ LogRollover(p)
    BY DEF GetOrCreateBalance, ReadSub, RollSub, ProbeRow, AllocateRow, ReadRow, CreateRow
  <2>2. CASE LogRollover(p)
    BY <1>1, <2>2, LedgerConstants DEF LogRollover, BookType
  <2> QED BY <1>1, <2>1, <2>2
<1> QED BY <1>1, <1>2, <1>3, <1>4, <1>5, <1>6, QuietFrame DEF TablesTyped

\* Calls that open, reads of a hold, and the measuring of a run's cost.
LEMMA OpeningsKeepCalls ==
  ASSUME CallInv,
         \/ \E r \in Runs : StartRun(r) \/ \E actual \in 0..MaxActual : Work(r, actual)
         \/ \E w \in Sweepers, r \in Runs : PickOverdue(w, r)
         \/ \E p \in Runs \cup Sweepers : FetchHold(p)
         \/ \E c \in Charges : StartCharge(c) \/ StartRefund(c)
         \/ \E g \in Grants : StartGrant(g)
         \/ \E v \in Viewers : StartView(v)
  PROVE  CallInv'
<1>0. UNCHANGED <<month, sub, bal, ledger, hold, keys, rows, crashes>>
  BY DEF StartRun, Work, PickOverdue, FetchHold, StartCharge, StartRefund,
         StartGrant, StartView, MoneyUnchanged
<1>t. TablesTyped BY <1>0 DEF TablesTyped, CallInv, TypeOK
<1>c. /\ call \in [Procs -> CallType]
      /\ \A p \in Procs : call[p] \in CallType /\ Fits(p, call[p])
  BY DEF CallInv, TypeOK, CallsFit
<1> SUFFICES \E p \in Procs : CallMove(p) BY <1>0, <1>t, QuietFrame
<1>1. ASSUME NEW r \in Runs, StartRun(r) PROVE CallMove(r)
  BY <1>1, OpenMoves, LedgerConstants DEF StartRun, Procs, Ops, Early
<1>2. ASSUME NEW r \in Runs, NEW actual \in 0..MaxActual, Work(r, actual)
      PROVE  CallMove(r)
  <2> DEFINE op == IF actual > 0 THEN "settle" ELSE "release"
  <2>0. op \in {"settle", "release"} OBVIOUS
  <2>1. r \in Procs /\ r \notin Sweepers /\ call[r].pc = "work"
    BY <1>2, LedgerConstants DEF Procs, Work
  <2>2. call'[r] = [pc |-> "fetch", op |-> op, now |-> call[r].now,
                    run |-> call[r].run, actual |-> actual]
    BY <1>2, <1>c, <2>1 DEF Work, CallType
  <2> HIDE DEF op
  <2>3. call'[r] \in CallType
    BY <1>c, <2>0, <2>1, <2>2, LedgerConstants DEF CallType, Pcs, Ops
  <2>4. Fits(r, call'[r]) BY <1>c, <2>0, <2>1, <2>2 DEF Fits
  <2>5. \A q \in Procs : q # r => call'[q] = call[q] BY <1>2, <1>c DEF Work
  <2>6. call' \in [Procs -> CallType] BY <1>2, <1>c, <2>3, <2>5 DEF Work
  <2>7. ~Early(call'[r]) BY <2>0, <2>2 DEF Early
  <2>8. call'[r].op # "refund" BY <2>0, <2>2
  <2> QED BY <2>1, <2>4, <2>5, <2>6, <2>7, <2>8 DEF CallMove
<1>3. ASSUME NEW w \in Sweepers, NEW r \in Runs, PickOverdue(w, r)
      PROVE  CallMove(w)
  <2>1. w \in Procs /\ w \notin Runs BY LedgerConstants DEF Procs
  <2>2. call'[w] = [pc |-> "fetch", op |-> "release", now |-> call[w].now,
                    run |-> r, actual |-> call[w].actual]
    BY <1>3, <1>c, <2>1 DEF PickOverdue, CallType
  <2>3. call'[w] \in CallType BY <1>c, <2>1, <2>2 DEF CallType, Pcs, Ops
  <2>4. \A q \in Procs : q # w => call'[q] = call[q] BY <1>3, <1>c DEF PickOverdue
  <2>5. call' \in [Procs -> CallType] BY <1>3, <1>c, <2>3, <2>4 DEF PickOverdue
  <2>6. Fits(w, call'[w]) BY <2>1, <2>2 DEF Fits
  <2> QED BY <2>1, <2>2, <2>4, <2>5, <2>6 DEF CallMove
<1>4. ASSUME NEW p \in Runs \cup Sweepers, FetchHold(p) PROVE CallMove(p)
  <2>1. /\ p \in Procs /\ call[p].pc = "fetch"
        /\ call[p].op \in Ops /\ call[p].actual \in Nat /\ call[p].run \in Runs \cup {None}
    BY <1>4, <1>c DEF FetchHold, CallType, Procs
  <2>2. /\ call[p].op \in {"settle", "release"}
        /\ p \in Runs => p \notin Sweepers /\ call[p].run = p
        /\ p \in Sweepers => call[p].op = "release" /\ call[p].run \in Runs
    BY <1>c, <2>1, LedgerConstants DEF Fits
  <2>3. CASE Open(p, call[p].op, call[p].run, call[p].actual)
    BY <2>1, <2>2, <2>3, OpenMoves
  <2>4. CASE /\ p \in Runs
             /\ Open(p, "consume", call[p].run, call[p].actual)
    BY <2>1, <2>2, <2>4, OpenMoves DEF Ops
  <2>5. CASE Finish(p)
    BY <2>1, <2>5, FinishMoves
  <2> QED BY <1>4, <2>2, <2>3, <2>4, <2>5 DEF FetchHold, AfterDuplicate
<1>5. ASSUME NEW p \in Charges, StartCharge(p) \/ StartRefund(p) PROVE CallMove(p)
  BY <1>5, OpenMoves, LedgerConstants DEF StartCharge, StartRefund, Procs, Ops
<1>6. ASSUME NEW p \in Grants, StartGrant(p) PROVE CallMove(p)
  BY <1>6, OpenMoves, LedgerConstants DEF StartGrant, Procs, Ops
<1>7. ASSUME NEW p \in Viewers, StartView(p) PROVE CallMove(p)
  BY <1>7, OpenMoves, LedgerConstants DEF StartView, Procs, Ops
<1> QED BY <1>1, <1>2, <1>3, <1>4, <1>5, <1>6, <1>7 DEF Procs

\* What the transactions write into a balance row is a balance row: the floor
\* keeps its columns from going negative.
LEMMA RowsTyped ==
  ASSUME NEW row \in RowType
  PROVE  /\ \A n \in Nat : [row EXCEPT !.reserved = @ + n] \in RowType
         /\ \A n \in Nat : [row EXCEPT !.used = @ + n] \in RowType
         /\ \A n \in Nat : [row EXCEPT !.used = Floor(@ - n)] \in RowType
         /\ \A i \in Int : [row EXCEPT !.purchased = @ + i] \in RowType
         /\ \A n, k \in Nat : EndHoldInRow(row, n, k) \in RowType
<1>1. /\ row.purchased \in Int /\ row.used \in Nat /\ row.reserved \in Nat
      /\ \A n, k \in Nat : Floor(n - k) \in Nat
  BY DEF RowType, Floor
<1>2. \A n \in Nat : [row EXCEPT !.reserved = n] \in RowType BY DEF RowType
<1>3. \A n \in Nat : [row EXCEPT !.used = n] \in RowType BY DEF RowType
<1>4. \A i \in Int : [row EXCEPT !.purchased = i] \in RowType BY DEF RowType
<1>5. \A n, k \in Nat : [row EXCEPT !.used = k, !.reserved = n] \in RowType
  BY DEF RowType
<1>6. \A n \in Nat : row.reserved + n \in Nat /\ row.used + n \in Nat BY <1>1
<1>7. \A i \in Int : row.purchased + i \in Int BY <1>1
<1>8. \A n, k \in Nat : EndHoldInRow(row, n, k) \in RowType
  BY <1>1, <1>5, <1>6 DEF EndHoldInRow
<1> QED BY <1>1, <1>2, <1>3, <1>4, <1>6, <1>7, <1>8

\* A reservation made, or refused by the guard of its update.
LEMMA ReserveKeepsCalls ==
  ASSUME CallInv, NEW r \in Runs, ReserveTx(r)
  PROVE  CallInv'
<1> DEFINE e == HoldOf[r]
           reached == {m \in RowsSince(call[r].now) : Covers(bal[m], e)}
<1>1. /\ r \in Procs /\ call[r].pc = "tx" /\ call[r].op = "reserve"
      /\ UNCHANGED <<month, sub, ledger, keys, rows, crashes>>
      /\ e \in Nat
  BY LedgerConstants DEF ReserveTx, Procs
<1>2. CASE Refuse(r) /\ UNCHANGED <<bal, hold>>
  <2>1. CallMove(r) BY <1>1, <1>2, JudgeMoves
  <2>2. TablesTyped BY <1>1, <1>2 DEF TablesTyped, CallInv, TypeOK
  <2> QED BY <1>1, <1>2, <2>1, <2>2, QuietFrame
<1>3. CASE /\ bal' = [m \in Months |-> IF m \in reached
                                     THEN [bal[m] EXCEPT !.reserved = @ + e] ELSE bal[m]]
           /\ hold' = [hold EXCEPT ![r].status = "active"]
           /\ Goto(r, "work")
  <2>1. CallMove(r) BY <1>1, <1>3, GotoMoves DEF Pcs
  <2>2. bal' \in [Months -> RowType]
    <3> HIDE DEF e, reached
    <3>1. \A m \in Months : bal[m] \in RowType /\ [bal[m] EXCEPT !.reserved = @ + e] \in RowType
      BY <1>1, RowsTyped DEF CallInv, TypeOK
    <3> QED BY <1>3, <3>1
  <2>3. hold' \in [Runs -> HoldType]
    BY <1>3 DEF CallInv, TypeOK, HoldType
  <2>4. TypeOK' BY <1>1, <2>1, <2>2, <2>3 DEF CallInv, TypeOK, CallMove
  <2>5. HoldComesOnce'
    <3>1. call'[r].pc = "work"
      BY <1>1, <1>3 DEF Goto, CallInv, TypeOK, CallType
    <3>2. \A s \in Runs : s # r => hold'[s] = hold[s] /\ call'[s] = call[s]
      BY <1>3, <2>1 DEF CallMove, CallInv, TypeOK, Procs
    <3> QED BY <3>1, <3>2 DEF HoldComesOnce, CallInv, Early
  <2> QED
    BY <1>1, <2>1, <2>4, <2>5
    DEF CallInv, CallsFit, RefundsFollow, BilledOnce, KeyedOnce, OneRowPerKey, CallMove, Procs
<1> QED BY <1>2, <1>3 DEF ReserveTx

\* The balances and reservations after a hold ended.
LEMMA EndHoldTyped ==
  ASSUME CallInv, NEW p \in Procs, call[p].run \in Runs,
         NEW status \in Ended, NEW spent \in Nat, EndHold(p, status, spent)
  PROVE  /\ bal' \in [Months -> RowType]
         /\ hold' \in [Runs -> HoldType]
         /\ \A r \in Runs : r # call[p].run => hold'[r] = hold[r]
<1> DEFINE r == call[p].run
<1>1. HoldOf[r] \in Nat BY LedgerConstants
<1>2. \A m \in Months : bal[m] \in RowType /\ EndHoldInRow(bal[m], HoldOf[r], spent) \in RowType
  BY <1>1, RowsTyped DEF CallInv, TypeOK
<1>3. bal' \in [Months -> RowType] BY <1>2 DEF EndHold
<1>4. /\ hold' = [hold EXCEPT ![r].status = status]
      /\ hold \in [Runs -> HoldType]
  BY DEF EndHold, CallInv, TypeOK
<1> HIDE DEF r
<1>5. hold' \in [Runs -> HoldType] BY <1>4 DEF HoldType
<1> QED BY <1>3, <1>4, <1>5 DEF r

\* Ending an active hold leaves no run ahead of its reservation.
LEMMA EndHoldKeepsOrder ==
  ASSUME CallInv, NEW p \in Procs, CallMove(p),
         NEW status \in Ended, NEW spent \in Nat, EndHold(p, status, spent),
         call[p].run \in Runs, HoldIsActive(call[p].run)
  PROVE  HoldComesOnce'
<1>1. hold[call[p].run].status = "active" BY DEF HoldIsActive
<1>2. \A r \in Runs : Early(call'[r]) => Early(call[r])
  BY DEF CallMove, Procs
<1>3. \A r \in Runs : Early(call[r]) => hold[r].status = "none"
  BY DEF CallInv, HoldComesOnce
<1>4. \A r \in Runs : r # call[p].run => hold'[r] = hold[r] BY EndHoldTyped
<1> QED BY <1>1, <1>2, <1>3, <1>4 DEF HoldComesOnce

\* A settle bills the hold it ended; one that came second changes nothing.
LEMMA SettleKeepsCalls ==
  ASSUME CallInv, NEW r \in Runs, SettleTx(r)
  PROVE  CallInv'
<1> DEFINE spent == Billable(r, call[r].actual)
<1>1. /\ r \in Procs /\ call[r].pc = "tx" /\ call[r].op = "settle" /\ call[r].run = r
      /\ spent \in Nat
      /\ UNCHANGED <<month, sub, keys, crashes>>
      /\ r \notin Charges \cup Grants
      /\ \A m \in Months : ledger[m] \in BookType
  BY LedgerConstants
  DEF SettleTx, CallInv, TypeOK, CallsFit, Fits, CallType, Procs, Billable
<1>2. CASE ~HoldIsActive(r)
  <2>1. Finish(r) /\ UNCHANGED <<bal, hold, ledger, rows>>
    BY <1>1, <1>2 DEF SettleTx, AfterDuplicate
  <2>2. CallMove(r) BY <1>1, <2>1, FinishMoves
  <2>3. TablesTyped BY <1>1, <2>1 DEF TablesTyped, CallInv, TypeOK
  <2> QED BY <1>1, <2>1, <2>2, <2>3, QuietFrame
<1>3. CASE HoldIsActive(r)
  <2>1. /\ Finish(r)
        /\ EndHold(r, "settled", spent)
        /\ ledger' = [ledger EXCEPT ![month].usage = @ + spent]
        /\ rows' = [rows EXCEPT ![r] = @ + 1] \/ UNCHANGED rows
    BY <1>1, <1>3 DEF SettleTx
  <2> HIDE DEF spent
  <2>2. CallMove(r) BY <1>1, <2>1, FinishMoves
  <2>3. /\ bal' \in [Months -> RowType] /\ hold' \in [Runs -> HoldType]
    BY <1>1, <2>1, EndHoldTyped DEF Ended
  <2>4. ledger' \in [Months -> BookType]
    BY <1>1, <2>1 DEF CallInv, TypeOK, BookType
  <2>5. /\ rows \in [Payers \cup Grants -> Nat] /\ r \in Payers \cup Grants
        /\ rows[r] = 0
    BY <1>1 DEF CallInv, TypeOK, BilledOnce, Payers
  <2>6. /\ rows' \in [Payers \cup Grants -> Nat]
        /\ rows'[r] \in {0, 1}
        /\ \A q \in Payers \cup Grants : q # r => rows'[q] = rows[q]
    BY <2>1, <2>5
  <2>7. TypeOK'
    BY <1>1, <2>2, <2>3, <2>4, <2>6 DEF CallInv, TypeOK, CallMove
  <2>8. HoldComesOnce' BY <1>1, <1>3, <2>1, <2>2, EndHoldKeepsOrder DEF Ended
  <2>9. BilledOnce'
    <3>1. call'[r].pc = "done"
      BY <1>1, <2>1 DEF Finish, Rest, CallInv, TypeOK, CallType
    <3>2. \A s \in Runs : s # r => rows'[s] = rows[s] /\ call'[s] = call[s]
      BY <2>2, <2>6 DEF CallMove, Procs, Payers
    <3> QED BY <2>6, <3>1, <3>2 DEF CallInv, BilledOnce
  <2>a. \A q \in Charges \cup Grants : rows'[q] = rows[q]
    BY <1>1, <2>6 DEF Payers
  <2> QED
    BY <1>1, <2>2, <2>7, <2>8, <2>9, <2>a
    DEF CallInv, CallsFit, RefundsFollow, CallMove, KeyedOnce, OneRowPerKey, Procs
<1> QED BY <1>2, <1>3

\* A release, by the run itself or by the sweep.
LEMMA ReleaseKeepsCalls ==
  ASSUME CallInv, NEW p \in Runs \cup Sweepers, ReleaseTx(p)
  PROVE  CallInv'
<1>1. /\ p \in Procs /\ call[p].pc = "tx" /\ call[p].op = "release"
      /\ call[p].run \in Runs
      /\ UNCHANGED <<month, sub, ledger, keys, rows, crashes>>
      /\ Finish(p)
  BY LedgerConstants DEF ReleaseTx, CallInv, CallsFit, Fits, Procs
<1>2. CallMove(p) BY <1>1, FinishMoves
<1>3. CASE UNCHANGED <<bal, hold>>
  <2>1. TablesTyped BY <1>1, <1>3 DEF TablesTyped, CallInv, TypeOK
  <2> QED BY <1>1, <1>2, <1>3, <2>1, QuietFrame
<1>4. ASSUME HoldIsActive(call[p].run), NEW status \in Ended, EndHold(p, status, 0)
      PROVE  CallInv'
  <2>1. bal' \in [Months -> RowType] /\ hold' \in [Runs -> HoldType]
    BY <1>1, <1>4, EndHoldTyped
  <2>2. TypeOK' BY <1>1, <1>2, <2>1 DEF CallInv, TypeOK, CallMove
  <2>3. HoldComesOnce' BY <1>1, <1>2, <1>4, EndHoldKeepsOrder
  <2>4. BilledOnce'
    BY <1>1, <1>2 DEF CallInv, BilledOnce, CallMove, Procs
  <2> QED
    BY <1>1, <1>2, <2>2, <2>3, <2>4
    DEF CallInv, CallsFit, RefundsFollow, CallMove, KeyedOnce, OneRowPerKey, Procs
<1> QED BY <1>3, <1>4 DEF ReleaseTx, Ended

\* A ledger row written under a key nobody holds, or under none.
LEMMA RowUnderKey ==
  ASSUME CallInv, NEW p \in Charges \cup Grants, ~KeyTaken(KeyOf[p]),
         keys' = keys \cup ({KeyOf[p]} \ {None}),
         rows' = [rows EXCEPT ![p] = @ + 1]
  PROVE  /\ rows' \in [Payers \cup Grants -> Nat]
         /\ keys' \subseteq Keys \cup Charges
         /\ \A r \in Runs : rows'[r] = rows[r]
         /\ \A q \in Charges : rows[q] > 0 => rows'[q] > 0
         /\ KeyedOnce' /\ OneRowPerKey'
<1>1. /\ rows \in [Payers \cup Grants -> Nat] /\ keys \subseteq Keys \cup Charges
      /\ p \in Payers \cup Grants /\ p \notin Runs
      /\ KeyOf[p] \in Keys \cup {None}
  BY LedgerConstants DEF CallInv, TypeOK, Payers
<1>2. /\ rows' \in [Payers \cup Grants -> Nat]
      /\ rows'[p] = rows[p] + 1
      /\ \A q \in Payers \cup Grants : q # p => rows'[q] = rows[q]
  BY <1>1
<1>3. \A q \in Charges \cup Grants : KeyOf[q] = KeyOf[p] /\ KeyOf[p] # None => rows[q] = 0
  BY <1>1 DEF KeyTaken, CallInv, KeyedOnce, Payers
<1>4. KeyedOnce'
  BY <1>1, <1>2 DEF CallInv, KeyedOnce, Payers
<1>5. OneRowPerKey'
  BY <1>1, <1>2, <1>3 DEF CallInv, OneRowPerKey, Payers
<1> QED BY <1>1, <1>2, <1>4, <1>5 DEF Payers

\* A direct charge, by a tool call or by a run that lost its hold.
LEMMA ConsumeKeepsCalls ==
  ASSUME CallInv, NEW p \in Runs \cup Charges, ConsumeTx(p)
  PROVE  CallInv'
<1> DEFINE cost == Price(p)
           reached == {m \in RowsSince(call[p].now) : Covers(bal[m], cost)}
<1>1. /\ p \in Procs /\ call[p] \in CallType
      /\ call[p].pc = "tx" /\ call[p].op = "consume"
      /\ UNCHANGED <<month, sub, hold, crashes>>
      /\ cost \in Nat
  BY LedgerConstants DEF ConsumeTx, Procs, Price, CallInv, TypeOK, CallType
<1>2. CASE (Finish(p) \/ Refuse(p)) /\ UNCHANGED <<bal, ledger, keys, rows>>
  <2>1. CallMove(p) BY <1>1, <1>2, FinishMoves, JudgeMoves
  <2>2. TablesTyped BY <1>1, <1>2 DEF TablesTyped, CallInv, TypeOK
  <2> QED BY <1>1, <1>2, <2>1, <2>2, QuietFrame
<1>3. CASE /\ ~KeyTaken(ChargeKey(p))
           /\ bal' = [m \in Months |-> IF m \in reached
                                     THEN [bal[m] EXCEPT !.used = @ + cost] ELSE bal[m]]
           /\ ledger' = [ledger EXCEPT ![month].usage = @ + cost]
           /\ keys' = keys \cup ({ChargeKey(p)} \ {None})
           /\ rows' = [rows EXCEPT ![p] = @ + 1]
           /\ Finish(p)
  <2>1. CallMove(p) BY <1>1, <1>3, FinishMoves
  <2>2. bal' \in [Months -> RowType] /\ ledger' \in [Months -> BookType]
    <3> HIDE DEF cost, reached
    <3>1. \A m \in Months : bal[m] \in RowType /\ [bal[m] EXCEPT !.used = @ + cost] \in RowType
      BY <1>1, RowsTyped DEF CallInv, TypeOK
    <3>2. ledger' \in [Months -> BookType]
      BY <1>1, <1>3 DEF CallInv, TypeOK, BookType
    <3> QED BY <1>3, <3>1, <3>2
  <2>3. HoldComesOnce'
    BY <1>1, <2>1 DEF CallInv, HoldComesOnce, CallMove, Procs
  <2>4. CASE p \in Charges
    <3>1. ChargeKey(p) = KeyOf[p] BY <2>4 DEF ChargeKey
    <3>2. /\ rows' \in [Payers \cup Grants -> Nat]
          /\ keys' \subseteq Keys \cup Charges
          /\ \A r \in Runs : rows'[r] = rows[r]
          /\ \A q \in Charges : rows[q] > 0 => rows'[q] > 0
          /\ KeyedOnce' /\ OneRowPerKey'
      BY <1>3, <2>4, <3>1, RowUnderKey
    <3>3. TypeOK' BY <1>1, <2>1, <2>2, <3>2 DEF CallInv, TypeOK, CallMove
    <3>4. BilledOnce' BY <2>1, <3>2 DEF CallInv, BilledOnce, CallMove, Procs
    <3> QED BY <2>1, <2>3, <3>2, <3>3, <3>4 DEF CallInv, CallsFit, RefundsFollow, CallMove, Procs
  <2>5. CASE p \in Runs
    <3>1. p \notin Charges \cup Grants /\ ChargeKey(p) = None
      BY <2>5, LedgerConstants DEF ChargeKey
    <3>2. rows \in [Payers \cup Grants -> Nat] /\ p \in Payers \cup Grants /\ rows[p] = 0
      BY <1>1, <2>5 DEF CallInv, TypeOK, BilledOnce, Payers
    <3>3. /\ rows' \in [Payers \cup Grants -> Nat] /\ rows'[p] = 1
          /\ \A q \in Payers \cup Grants : q # p => rows'[q] = rows[q]
          /\ keys' = keys
      BY <1>3, <3>1, <3>2
    <3>4. TypeOK' BY <1>1, <2>1, <2>2, <3>3 DEF CallInv, TypeOK, CallMove
    <3>5. call'[p].pc = "done"
      BY <1>1, <1>3, <2>5 DEF Finish, Rest, CallInv, TypeOK, CallType
    <3>6. BilledOnce'
      BY <2>1, <3>3, <3>5 DEF CallInv, BilledOnce, CallMove, Procs, Payers
    <3>7. KeyedOnce' /\ OneRowPerKey'
      BY <3>1, <3>3 DEF CallInv, KeyedOnce, OneRowPerKey, Payers
    <3>8. CallsFit' /\ RefundsFollow'
      BY <2>1, <3>1, <3>3 DEF CallInv, CallsFit, RefundsFollow, CallMove, Procs, Payers
    <3> QED BY <2>3, <3>4, <3>6, <3>7, <3>8 DEF CallInv
  <2> QED BY <2>4, <2>5
<1> QED BY <1>2, <1>3 DEF ConsumeTx

\* A grant of credits, once per key.
LEMMA GrantKeepsCalls ==
  ASSUME CallInv, NEW g \in Grants, GrantTx(g)
  PROVE  CallInv'
<1>1. /\ g \in Procs /\ call[g].pc = "tx"
      /\ UNCHANGED <<month, sub, hold, crashes>>
      /\ Finish(g) /\ CreditsOf[g] \in Int
  BY LedgerConstants DEF GrantTx, Procs
<1>2. CallMove(g) BY <1>1, FinishMoves
<1>3. CASE UNCHANGED <<bal, ledger, keys, rows>>
  <2>1. TablesTyped BY <1>1, <1>3 DEF TablesTyped, CallInv, TypeOK
  <2> QED BY <1>1, <1>2, <1>3, <2>1, QuietFrame
<1>4. CASE ~KeyTaken(KeyOf[g]) /\ ~UNCHANGED <<bal, ledger, keys, rows>>
  <2> DEFINE reached == RowsSince(call[g].now)
  <2>1. /\ bal' = [m \in Months |-> IF m \in reached
                                  THEN [bal[m] EXCEPT !.purchased = @ + CreditsOf[g]] ELSE bal[m]]
        /\ ledger' = [ledger EXCEPT ![month].supply = @ + CreditsOf[g]]
        /\ keys' = keys \cup ({KeyOf[g]} \ {None})
        /\ rows' = [rows EXCEPT ![g] = @ + 1]
    BY <1>4 DEF GrantTx
  <2>2. /\ rows' \in [Payers \cup Grants -> Nat]
        /\ keys' \subseteq Keys \cup Charges
        /\ \A r \in Runs : rows'[r] = rows[r]
        /\ \A q \in Charges : rows[q] > 0 => rows'[q] > 0
        /\ KeyedOnce' /\ OneRowPerKey'
    BY <1>4, <2>1, RowUnderKey
  <2> HIDE DEF reached
  <2>3. \A m \in Months :
          bal[m] \in RowType /\ [bal[m] EXCEPT !.purchased = @ + CreditsOf[g]] \in RowType
    BY <1>1, RowsTyped DEF CallInv, TypeOK
  <2>4. bal' \in [Months -> RowType] BY <2>1, <2>3
  <2>5. ledger' \in [Months -> BookType]
    BY <1>1, <2>1 DEF CallInv, TypeOK, BookType
  <2>6. TypeOK' BY <1>1, <1>2, <2>2, <2>4, <2>5 DEF CallInv, TypeOK, CallMove
  <2>7. HoldComesOnce' /\ BilledOnce'
    BY <1>1, <1>2, <2>2 DEF CallInv, HoldComesOnce, BilledOnce, CallMove, Procs
  <2> QED BY <1>2, <2>2, <2>6, <2>7 DEF CallInv, CallsFit, RefundsFollow, CallMove, Procs
<1> QED BY <1>3, <1>4 DEF GrantTx

\* A refund, once per charge.
LEMMA RefundKeepsCalls ==
  ASSUME CallInv, NEW c \in Charges, RefundTx(c)
  PROVE  CallInv'
<1>1. /\ c \in Procs /\ c \notin Runs /\ call[c].pc = "tx"
      /\ UNCHANGED <<month, sub, hold, rows, crashes>>
      /\ Finish(c) /\ CostOf[c] \in Nat
  BY LedgerConstants DEF RefundTx, Procs
<1>2. CallMove(c) BY <1>1, FinishMoves
<1>3. CASE UNCHANGED <<bal, ledger, keys>>
  <2>1. TablesTyped BY <1>1, <1>3 DEF TablesTyped, CallInv, TypeOK
  <2> QED BY <1>1, <1>2, <1>3, <2>1, QuietFrame
<1>4. CASE ~UNCHANGED <<bal, ledger, keys>>
  <2> DEFINE reached == RowsSince(call[c].now)
  <2>1. /\ bal' = [m \in Months |-> IF m \in reached
                                  THEN [bal[m] EXCEPT !.used = Floor(@ - CostOf[c])] ELSE bal[m]]
        /\ ledger' = [ledger EXCEPT ![month].refund = @ + CostOf[c]]
        /\ keys' = keys \cup {c}
    BY <1>4 DEF RefundTx
  <2> HIDE DEF reached
  <2>2. \A m \in Months :
          bal[m] \in RowType /\ [bal[m] EXCEPT !.used = Floor(@ - CostOf[c])] \in RowType
    BY <1>1, RowsTyped DEF CallInv, TypeOK
  <2>3. bal' \in [Months -> RowType] BY <2>1, <2>2
  <2>4. ledger' \in [Months -> BookType]
    BY <1>1, <2>1 DEF CallInv, TypeOK, BookType
  <2>5. TypeOK' BY <1>1, <1>2, <2>1, <2>3, <2>4 DEF CallInv, TypeOK, CallMove
  <2>6. HoldComesOnce' /\ BilledOnce'
    BY <1>1, <1>2 DEF CallInv, HoldComesOnce, BilledOnce, CallMove, Procs
  <2>7. KeyedOnce' /\ OneRowPerKey'
    BY <1>1, <2>1 DEF CallInv, KeyedOnce, OneRowPerKey
  <2> QED BY <1>1, <1>2, <2>5, <2>6, <2>7 DEF CallInv, CallsFit, RefundsFollow, CallMove, Procs
<1> QED BY <1>3, <1>4

\* Deadlines, the calendar and crashes.
LEMMA TimeKeepsCalls ==
  ASSUME CallInv,
         (\E r \in Runs : HoldExpires(r)) \/ (\E p \in Procs : Crash(p)) \/ NextMonth
  PROVE  CallInv'
<1>1. ASSUME NEW r \in Runs, HoldExpires(r) PROVE CallInv'
  <2>1. /\ hold \in [Runs -> HoldType]
        /\ hold' = [hold EXCEPT ![r].overdue = TRUE]
        /\ UNCHANGED <<month, sub, bal, ledger, keys, call, rows, crashes>>
    BY <1>1 DEF HoldExpires, CallInv, TypeOK
  <2>2. /\ hold' \in [Runs -> HoldType]
        /\ \A s \in Runs : hold'[s].status = hold[s].status
    BY <2>1 DEF HoldType
  <2> QED
    BY <2>1, <2>2 DEF CallInv, TypeOK, CallsFit, RefundsFollow, HoldComesOnce, BilledOnce, KeyedOnce, OneRowPerKey
<1>2. ASSUME NEW p \in Procs, Crash(p) PROVE CallInv'
  <2>1. /\ call[p].pc \notin {"off", "done"}
        /\ Goto(p, IF p \in Runs THEN "crashed" ELSE Rest(p))
        /\ crashes' = crashes - 1 /\ crashes > 0
        /\ UNCHANGED <<month, sub, bal, hold, ledger, keys, rows>>
    BY <1>2 DEF Crash
  <2>2. CallMove(p) BY <2>1, GotoMoves DEF Rest, Pcs
  <2>3. TablesTyped BY <2>1 DEF TablesTyped, CallInv, TypeOK
  <2> QED BY <2>1, <2>2, <2>3, QuietFrame
<1>3. CASE NextMonth
  BY <1>3, LedgerConstants
  DEF NextMonth, Months, CallInv, TypeOK, CallsFit, RefundsFollow, HoldComesOnce, BilledOnce,
      KeyedOnce, OneRowPerKey
<1> QED BY <1>1, <1>2, <1>3

\* The invariant is inductive.
LEMMA NextKeepsCalls == CallInv /\ [Next]_vars => CallInv'
<1> SUFFICES ASSUME CallInv, [Next]_vars PROVE CallInv' OBVIOUS
<1>1. CASE UNCHANGED vars
  BY <1>1 DEF vars, CallInv, TypeOK, CallsFit, RefundsFollow, HoldComesOnce, BilledOnce, KeyedOnce, OneRowPerKey
<1>2. ASSUME NEW r \in Runs, StartRun(r) \/ RunStep(r) \/ HoldExpires(r) PROVE CallInv'
  BY <1>2, OpeningsKeepCalls, BalanceKeepsCalls, ReserveKeepsCalls, SettleKeepsCalls,
     ReleaseKeepsCalls, ConsumeKeepsCalls, TimeKeepsCalls
  DEF RunStep, Procs
<1>3. ASSUME NEW w \in Sweepers, SweepStep(w) PROVE CallInv'
  BY <1>3, OpeningsKeepCalls, BalanceKeepsCalls, ReleaseKeepsCalls DEF SweepStep, Procs
<1>4. ASSUME NEW c \in Charges, ChargeStep(c) PROVE CallInv'
  BY <1>4, OpeningsKeepCalls, BalanceKeepsCalls, ConsumeKeepsCalls, RefundKeepsCalls
  DEF ChargeStep, Procs
<1>5. ASSUME NEW g \in Grants, GrantStep(g) PROVE CallInv'
  BY <1>5, OpeningsKeepCalls, BalanceKeepsCalls, GrantKeepsCalls DEF GrantStep, Procs
<1>6. ASSUME NEW v \in Viewers, ViewStep(v) PROVE CallInv'
  BY <1>6, OpeningsKeepCalls, BalanceKeepsCalls DEF ViewStep, Procs
<1> QED BY <1>1, <1>2, <1>3, <1>4, <1>5, <1>6, TimeKeepsCalls DEF Next

\* In every reachable state the calls fit the reservations and the rows.
THEOREM CallsAlways == Spec => []CallInv
<1>1. CallInv /\ [Next]_vars => CallInv' BY NextKeepsCalls
<1> QED BY <1>1, InitCalls, PTL DEF Spec

\* The tables and calls of credits.ts keep their types in any month: no
\* aggregate column goes negative, whatever is settled, released or refunded.
THEOREM TypeCorrect == Spec => []TypeOK
<1>1. CallInv => TypeOK BY DEF CallInv
<1> QED BY <1>1, CallsAlways, PTL

\* One ledger row per idempotency key and per run, however often a payment or
\* a charge is delivered again and whoever wins a run's hold.
THEOREM BilledAtMostOnce == Spec => []AppliedOnce
<1>1. CallInv => AppliedOnce
  BY LedgerConstants DEF CallInv, TypeOK, OneRowPerKey, BilledOnce, AppliedOnce, Payers
<1> QED BY <1>1, CallsAlways, PTL

-----------------------------------------------------------------------------
(* A reservation ends once *)

HoldEnds(r) ==
  /\ hold[r].status \in Ended => hold'[r].status = hold[r].status
  /\ hold'[r].status \in Ended => hold[r].status # "none"

\* The status transition arbitrates: only an active hold is ended.
LEMMA HoldStep ==
  ASSUME CallInv, [Next]_vars, NEW r \in Runs
  PROVE  HoldEnds(r)
<1>0. hold \in [Runs -> HoldType] BY DEF CallInv, TypeOK
<1>1. ASSUME UNCHANGED hold PROVE HoldEnds(r)
  BY <1>1 DEF HoldEnds, Ended
<1>2. ASSUME NEW s \in Runs, ReserveTx(s), ~UNCHANGED hold PROVE HoldEnds(r)
  <2>1. hold[s].status = "none"
    BY <1>2 DEF ReserveTx, CallInv, HoldComesOnce, Early
  <2>2. hold' = [hold EXCEPT ![s].status = "active"] BY <1>2 DEF ReserveTx
  <2> QED BY <1>0, <2>1, <2>2 DEF HoldEnds, Ended, HoldType
<1>3. ASSUME NEW p \in Procs, NEW status \in Ended, NEW spent, EndHold(p, status, spent),
             call[p].run \in Runs, HoldIsActive(call[p].run)
      PROVE  HoldEnds(r)
  <2> DEFINE s == call[p].run
  <2>1. hold' = [hold EXCEPT ![s].status = status] /\ hold[s].status = "active" /\ s \in Runs
    BY <1>3 DEF EndHold, HoldIsActive
  <2> HIDE DEF s
  <2> QED BY <1>0, <2>1 DEF HoldEnds, Ended, HoldType
<1>4. ASSUME NEW s \in Runs, SettleTx(s), ~UNCHANGED hold PROVE HoldEnds(r)
  <2>1. s \in Procs /\ call[s].run = s
    BY <1>4 DEF SettleTx, CallInv, CallsFit, Fits, Procs
  <2>2. HoldIsActive(s) /\ EndHold(s, "settled", Billable(s, call[s].actual))
    BY <1>4, <2>1 DEF SettleTx
  <2> QED BY <1>3, <2>1, <2>2 DEF Ended
<1>5. ASSUME NEW p \in Runs \cup Sweepers, ReleaseTx(p), ~UNCHANGED hold PROVE HoldEnds(r)
  <2>1. p \in Procs /\ call[p].run \in Runs
    BY <1>5 DEF ReleaseTx, CallInv, CallsFit, Fits, Procs
  <2>2. HoldIsActive(call[p].run) /\ \E status \in Ended : EndHold(p, status, 0)
    BY <1>5 DEF ReleaseTx, Ended
  <2> QED BY <1>3, <2>1, <2>2
<1>6. ASSUME NEW s \in Runs, HoldExpires(s) PROVE HoldEnds(r)
  <2>1. hold' = [hold EXCEPT ![s].overdue = TRUE] BY <1>6 DEF HoldExpires
  <2> QED BY <1>0, <2>1 DEF HoldEnds, Ended, HoldType
<1>7. \/ UNCHANGED hold
      \/ \E s \in Runs : ReserveTx(s) \/ SettleTx(s) \/ HoldExpires(s)
      \/ \E p \in Runs \cup Sweepers : ReleaseTx(p)
  BY DEF Next, vars, RunStep, SweepStep, ChargeStep, GrantStep, ViewStep, GetOrCreateBalance,
         ReadSub, RollSub, ProbeRow, AllocateRow, LogRollover, ReadRow, CreateRow, MoneyUnchanged,
         StartRun, Work, PickOverdue, FetchHold, StartCharge, StartRefund, StartGrant, StartView,
         ConsumeTx, GrantTx, RefundTx, Crash, NextMonth
<1> QED BY <1>1, <1>2, <1>4, <1>5, <1>6, <1>7

\* Settle, release and sweep never undo one another, in any month.
THEOREM HoldsEndOnce == Spec => HoldEndsOnce
<1>1. CallInv /\ [Next]_vars =>
        [\A r \in Runs :
           /\ hold[r].status \in Ended => hold'[r].status = hold[r].status
           /\ hold'[r].status \in Ended => hold[r].status # "none"]_vars
  BY HoldStep DEF HoldEnds
<1> QED BY <1>1, CallsAlways, PTL DEF Spec, HoldEndsOnce

-----------------------------------------------------------------------------
(* Credits within one month *)

\* The sum behind reserved_credits, and the guard the aggregates obey.
MoneyInv ==
  /\ IsFiniteSet(HeldCredits(ActiveHolds))
  /\ bal[0].reserved = Held
  /\ ActiveHolds # {} => bal[0].exists
  /\ GrantsGive => NoOverspend

\* Unit counting: f[x] units for each x of S, so that a cardinality is a sum.
Units(S, f) == UNION {{x} \X (1..f[x]) : x \in S}

\* One element more adds its units to the sum.
LEMMA UnitsAdd ==
  ASSUME NEW S, NEW f, NEW x, x \notin S, f[x] \in Nat, IsFiniteSet(Units(S, f))
  PROVE  /\ IsFiniteSet(Units(S \cup {x}, f))
         /\ Cardinality(Units(S \cup {x}, f)) = Cardinality(Units(S, f)) + f[x]
<1> DEFINE units == {x} \X (1..f[x])
<1>1. /\ IsFiniteSet({x}) /\ Cardinality({x}) = 1
      /\ IsFiniteSet(1..f[x]) /\ Cardinality(1..f[x]) = f[x]
  <2>1. IsFiniteSet({x}) /\ Cardinality({x}) = 1 BY FS_Singleton
  <2>2. /\ IsFiniteSet(1..f[x])
        /\ Cardinality(1..f[x]) = IF 1 > f[x] THEN 0 ELSE f[x] - 1 + 1
    BY FS_Interval
  <2> QED BY <2>1, <2>2
<1>2. IsFiniteSet(units) /\ Cardinality(units) = f[x]
  <2>1. IsFiniteSet(units) /\ Cardinality(units) = Cardinality({x}) * Cardinality(1..f[x])
    BY <1>1, FS_Product
  <2> QED BY <1>1, <2>1
<1>3. Units(S \cup {x}, f) = Units(S, f) \cup units BY DEF Units
<1>4. Units(S, f) \cap units = {} BY DEF Units
<1> HIDE DEF units
<1>5. /\ IsFiniteSet(Units(S, f) \cup units)
      /\ Cardinality(Units(S, f) \cup units)
           = Cardinality(Units(S, f)) + Cardinality(units) - Cardinality(Units(S, f) \cap units)
  BY <1>2, FS_Union
<1>6. Cardinality(Units(S, f) \cap units) = 0 BY <1>4, FS_EmptySet
<1>7. Cardinality(Units(S, f)) \in Nat BY FS_CardinalityType
<1>8. Cardinality(Units(S, f) \cup units) = Cardinality(Units(S, f)) + f[x]
  BY <1>2, <1>5, <1>6, <1>7
<1> QED BY <1>3, <1>5, <1>8

\* One element less takes its units out of the sum.
LEMMA UnitsDrop ==
  ASSUME NEW S, NEW f, NEW x, x \in S, f[x] \in Nat, IsFiniteSet(Units(S, f))
  PROVE  /\ IsFiniteSet(Units(S \ {x}, f))
         /\ Cardinality(Units(S, f)) = Cardinality(Units(S \ {x}, f)) + f[x]
<1>1. Units(S \ {x}, f) \subseteq Units(S, f) BY DEF Units
<1>2. IsFiniteSet(Units(S \ {x}, f)) BY <1>1, FS_Subset
<1>3. (S \ {x}) \cup {x} = S BY Zenon
<1> QED BY <1>2, <1>3, UnitsAdd

\* The credits under reservation are counted that way.
LEMMA HeldUnits == \A S : HeldCredits(S) = Units(S, HoldOf)
  BY DEF HeldCredits, Units

\* Within one month a call reaches the one row there is.
LEMMA OneRow ==
  ASSUME OneMonth, CallInv, NEW p \in Procs
  PROVE  /\ Months = {0} /\ call[p].now = 0 /\ bal[0] \in RowType
         /\ RowsSince(call[p].now) = IF bal[0].exists THEN {0} ELSE {}
<1>1. Months = {0} BY DEF OneMonth, Months
<1>2. call[p].now \in Months /\ bal[0] \in RowType
  BY <1>1 DEF CallInv, TypeOK, CallType
<1> QED BY <1>1, <1>2 DEF RowsSince

\* At first nothing is held and no credit is used.
LEMMA InitMoney == Init => MoneyInv
<1> SUFFICES ASSUME Init PROVE MoneyInv OBVIOUS
<1>1. ActiveHolds = {} BY DEF Init, ActiveHolds
<1>2. HeldCredits({}) = {} BY DEF HeldCredits
<1>3. IsFiniteSet(HeldCredits(ActiveHolds)) /\ Held = 0
  BY <1>1, <1>2, FS_EmptySet DEF Held
<1>4. bal[0] = NoRow BY LedgerConstants DEF Init, Months
<1> QED BY <1>1, <1>3, <1>4, LedgerConstants DEF MoneyInv, NoOverspend, NoRow, Total

\* Steps that neither take nor end a hold, and keep the row under its total.
LEMMA MoneyFrame ==
  ASSUME MoneyInv, ActiveHolds' = ActiveHolds,
         bal'[0].reserved = bal[0].reserved,
         bal[0].exists => bal'[0].exists,
         GrantsGive => NoOverspend'
  PROVE  MoneyInv'
<1>1. HeldCredits(ActiveHolds)' = HeldCredits(ActiveHolds) BY DEF HeldCredits
<1> QED BY <1>1 DEF MoneyInv, Held

\* Opening the period may create the row, on which nothing is held yet.
LEMMA BalanceKeepsMoney ==
  ASSUME OneMonth, CallInv, MoneyInv, NEW p \in Procs, GetOrCreateBalance(p)
  PROVE  MoneyInv'
<1>1. /\ UNCHANGED hold
      /\ UNCHANGED bal \/ bal' = InsertRow(call[p].now)
  BY DEF GetOrCreateBalance, ReadSub, RollSub, ProbeRow, AllocateRow, LogRollover,
         ReadRow, CreateRow, MoneyUnchanged
<1>2. ActiveHolds' = ActiveHolds BY <1>1 DEF ActiveHolds
<1>3. CASE UNCHANGED bal
  BY <1>2, <1>3, MoneyFrame DEF MoneyInv, NoOverspend
<1>4. CASE bal' = [bal EXCEPT ![0] = FreshRow] /\ ~bal[0].exists
  <2>1. bal'[0] = FreshRow
    BY <1>4, OneRow DEF CallInv, TypeOK
  <2>2. HeldCredits({}) = {} BY DEF HeldCredits
  <2>3. ActiveHolds = {} /\ Held = 0
    BY <1>4, <2>2, FS_EmptySet DEF MoneyInv, Held
  <2>4. bal[0].reserved = bal'[0].reserved
    BY <2>1, <2>3 DEF MoneyInv, FreshRow
  <2>5. NoOverspend' BY <2>1, LedgerConstants DEF NoOverspend, FreshRow, Total
  <2> QED BY <1>2, <1>4, <2>4, <2>5, MoneyFrame
<1> QED BY <1>1, <1>3, <1>4, OneRow DEF InsertRow

\* A reservation holds what it adds to the row.
LEMMA ReserveKeepsMoney ==
  ASSUME OneMonth, CallInv, MoneyInv, NEW r \in Runs, ReserveTx(r)
  PROVE  MoneyInv'
<1> DEFINE e == HoldOf[r]
           reached == {m \in RowsSince(call[r].now) : Covers(bal[m], e)}
<1>1. r \in Procs /\ e \in Nat /\ hold[r].status = "none" /\ hold \in [Runs -> HoldType]
  BY LedgerConstants DEF ReserveTx, Procs, CallInv, TypeOK, HoldComesOnce, Early
<1>2. CASE UNCHANGED <<bal, hold>>
  BY <1>2, MoneyFrame DEF ActiveHolds, MoneyInv, NoOverspend
<1>3. CASE ~UNCHANGED <<bal, hold>>
  <2>1. /\ reached # {}
        /\ bal' = [m \in Months |-> IF m \in reached
                                  THEN [bal[m] EXCEPT !.reserved = @ + e] ELSE bal[m]]
        /\ hold' = [hold EXCEPT ![r].status = "active"]
    BY <1>3 DEF ReserveTx
  <2>2. 0 \in reached /\ bal[0].exists /\ Covers(bal[0], e) /\ bal[0] \in RowType
    BY <1>1, <2>1, OneRow
  <2>3. bal'[0] = [bal[0] EXCEPT !.reserved = @ + e]
    BY <1>1, <2>1, <2>2, OneRow
  <2> HIDE DEF e, reached
  <2>4. /\ bal'[0].reserved = bal[0].reserved + e
        /\ bal'[0].exists = bal[0].exists
        /\ bal'[0].used = bal[0].used /\ bal'[0].purchased = bal[0].purchased
    BY <2>2, <2>3 DEF RowType
  <2>5. ActiveHolds' = ActiveHolds \cup {r} /\ r \notin ActiveHolds
    BY <1>1, <2>1 DEF ActiveHolds, HoldType
  <2>6. /\ IsFiniteSet(HeldCredits(ActiveHolds \cup {r}))
        /\ Cardinality(HeldCredits(ActiveHolds \cup {r})) = Held + e
    BY <1>1, <2>5, UnitsAdd, HeldUnits DEF MoneyInv, Held, e
  <2>7. HeldCredits(ActiveHolds)' = HeldCredits(ActiveHolds \cup {r})
    BY <2>5 DEF HeldCredits
  <2>8. GrantsGive => NoOverspend'
    BY <1>1, <2>2, <2>4, LedgerConstants DEF NoOverspend, Covers, Total, RowType
  <2> QED BY <2>2, <2>4, <2>6, <2>7, <2>8 DEF MoneyInv, Held
<1> QED BY <1>2, <1>3

\* The end of a hold takes its whole estimate off the row and adds at most
\* that much to what is used.  The floor never bites: the row still contains
\* the estimate of every active hold.
LEMMA EndHoldKeepsMoney ==
  ASSUME OneMonth, CallInv, MoneyInv, NEW p \in Procs, call[p].run \in Runs,
         HoldIsActive(call[p].run), NEW status \in Ended, NEW spent \in Nat,
         spent <= HoldOf[call[p].run], EndHold(p, status, spent)
  PROVE  MoneyInv'
<1> DEFINE r == call[p].run
           e == HoldOf[r]
           rest == Cardinality(HeldCredits(ActiveHolds \ {r}))
<1>1. /\ r \in Runs /\ r \in ActiveHolds /\ e \in Nat /\ hold \in [Runs -> HoldType]
      /\ hold' = [hold EXCEPT ![r].status = status]
  BY LedgerConstants DEF ActiveHolds, HoldIsActive, CallInv, TypeOK, EndHold
<1>2. bal[0].exists /\ bal[0] \in RowType /\ 0 \in RowsSince(call[p].now) /\ 0 \in Months
  BY <1>1, OneRow DEF MoneyInv
<1>3. bal'[0] = EndHoldInRow(bal[0], e, spent) BY <1>2 DEF EndHold
<1>4. /\ IsFiniteSet(HeldCredits(ActiveHolds \ {r})) /\ Held = rest + e
  BY <1>1, UnitsDrop, HeldUnits DEF MoneyInv, Held
<1>5. rest \in Nat BY <1>4, FS_CardinalityType
<1>6. spent <= e OBVIOUS
<1> HIDE DEF r, e, rest
<1>7. bal[0].reserved = rest + e BY <1>4 DEF MoneyInv
<1>8. Floor(bal[0].reserved - e) = rest BY <1>1, <1>5, <1>7 DEF Floor
<1>9. /\ bal'[0].reserved = rest /\ bal'[0].used = bal[0].used + spent
      /\ bal'[0].exists = bal[0].exists /\ bal'[0].purchased = bal[0].purchased
  <2>1. \A u, v \in Nat :
          LET row == [bal[0] EXCEPT !.used = u, !.reserved = v] IN
          /\ row.used = u /\ row.reserved = v
          /\ row.exists = bal[0].exists /\ row.purchased = bal[0].purchased
    BY <1>2 DEF RowType
  <2>2. bal'[0] = [bal[0] EXCEPT !.used = bal[0].used + spent, !.reserved = rest]
    BY <1>3, <1>8 DEF EndHoldInRow
  <2>3. bal[0].used + spent \in Nat BY <1>2 DEF RowType
  <2> QED BY <1>5, <2>1, <2>2, <2>3
<1>a. ActiveHolds' = ActiveHolds \ {r}
  BY <1>1 DEF ActiveHolds, Ended, HoldType
<1>b. HeldCredits(ActiveHolds)' = HeldCredits(ActiveHolds \ {r})
  BY <1>a DEF HeldCredits
<1>c. ASSUME GrantsGive PROVE NoOverspend'
  <2>1. bal[0].used \in Nat /\ bal[0].purchased \in Int BY <1>2 DEF RowType
  <2>2. bal[0].used + (rest + e) <= Included + bal[0].purchased
    BY <1>7, <1>c DEF MoneyInv, NoOverspend, Total
  <2>3. bal[0].used + spent + rest <= Included + bal[0].purchased
    BY <1>1, <1>5, <1>6, <2>1, <2>2, LedgerConstants
  <2> QED BY <1>9, <2>3 DEF NoOverspend, Total
<1> QED BY <1>2, <1>4, <1>9, <1>b, <1>c DEF MoneyInv, Held, rest

\* Settles and releases: those that came second change nothing.
LEMMA SettleKeepsMoney ==
  ASSUME OneMonth, CallInv, MoneyInv,
         (\E r \in Runs : SettleTx(r)) \/ (\E p \in Runs \cup Sweepers : ReleaseTx(p))
  PROVE  MoneyInv'
<1>1. CASE UNCHANGED <<bal, hold>>
  BY <1>1, MoneyFrame DEF ActiveHolds, MoneyInv, NoOverspend
<1>2. ASSUME NEW r \in Runs, SettleTx(r), ~UNCHANGED <<bal, hold>> PROVE MoneyInv'
  <2> DEFINE spent == Billable(r, call[r].actual)
  <2>1. r \in Procs /\ call[r].run = r /\ call[r].actual \in Nat /\ HoldOf[r] \in Nat
    BY <1>2, LedgerConstants
    DEF SettleTx, CallInv, TypeOK, CallsFit, Fits, CallType, Procs
  <2>2. spent \in Nat /\ spent <= HoldOf[r] BY <2>1 DEF Billable
  <2>3. HoldIsActive(r) /\ EndHold(r, "settled", spent)
    BY <1>2, <2>1 DEF SettleTx
  <2> HIDE DEF spent
  <2> QED BY <2>1, <2>2, <2>3, EndHoldKeepsMoney DEF Ended
<1>3. ASSUME NEW p \in Runs \cup Sweepers, ReleaseTx(p), ~UNCHANGED <<bal, hold>>
      PROVE  MoneyInv'
  <2>1. p \in Procs /\ call[p].run \in Runs /\ HoldOf[call[p].run] >= 0
    BY <1>3, LedgerConstants DEF ReleaseTx, CallInv, CallsFit, Fits, Procs
  <2>2. HoldIsActive(call[p].run) /\ \E status \in Ended : EndHold(p, status, 0)
    BY <1>3 DEF ReleaseTx, Ended
  <2> QED BY <2>1, <2>2, EndHoldKeepsMoney
<1> QED BY <1>1, <1>2, <1>3

\* Direct charges, grants and refunds do not touch what is held.
LEMMA ChargesKeepMoney ==
  ASSUME OneMonth, CallInv, MoneyInv,
         \/ \E p \in Runs \cup Charges : ConsumeTx(p)
         \/ \E g \in Grants : GrantTx(g)
         \/ \E c \in Charges : RefundTx(c)
  PROVE  MoneyInv'
<1>0. UNCHANGED hold BY DEF ConsumeTx, GrantTx, RefundTx
<1>1. ActiveHolds' = ActiveHolds BY <1>0 DEF ActiveHolds
<1>2. CASE UNCHANGED bal
  BY <1>1, <1>2, MoneyFrame DEF MoneyInv, NoOverspend
<1>3. ASSUME NEW p \in Runs \cup Charges, ConsumeTx(p), ~UNCHANGED bal PROVE MoneyInv'
  <2> DEFINE cost == Price(p)
             reached == {m \in RowsSince(call[p].now) : Covers(bal[m], cost)}
  <2>1. p \in Procs /\ cost \in Nat
    BY LedgerConstants DEF Procs, Price, CallInv, TypeOK, CallType
  <2>2. /\ reached # {}
        /\ bal' = [m \in Months |-> IF m \in reached
                                  THEN [bal[m] EXCEPT !.used = @ + cost] ELSE bal[m]]
    BY <1>3 DEF ConsumeTx
  <2>3. 0 \in reached /\ Covers(bal[0], cost) /\ bal[0] \in RowType
    BY <2>1, <2>2, OneRow
  <2>4. bal'[0] = [bal[0] EXCEPT !.used = @ + cost] BY <2>1, <2>2, <2>3, OneRow
  <2> HIDE DEF cost, reached
  <2>5. /\ bal'[0].reserved = bal[0].reserved /\ bal'[0].exists = bal[0].exists
        /\ bal'[0].used = bal[0].used + cost /\ bal'[0].purchased = bal[0].purchased
    BY <2>3, <2>4 DEF RowType
  <2>6. NoOverspend'
    BY <2>1, <2>3, <2>5, LedgerConstants DEF NoOverspend, Covers, Total, RowType
  <2> QED BY <1>1, <2>5, <2>6, MoneyFrame
<1>4. ASSUME NEW g \in Grants, GrantTx(g), ~UNCHANGED bal PROVE MoneyInv'
  <2>1. g \in Procs /\ CreditsOf[g] \in Int BY LedgerConstants DEF Procs
  <2>2. bal' = [m \in Months |-> IF m \in RowsSince(call[g].now)
                              THEN [bal[m] EXCEPT !.purchased = @ + CreditsOf[g]] ELSE bal[m]]
    BY <1>4 DEF GrantTx
  <2>3. bal'[0] \in {bal[0], [bal[0] EXCEPT !.purchased = @ + CreditsOf[g]]}
    BY <2>1, <2>2, OneRow
  <2>4. bal[0] \in RowType BY <2>1, OneRow
  <2>5. /\ bal'[0].reserved = bal[0].reserved /\ bal'[0].exists = bal[0].exists
        /\ bal'[0].used = bal[0].used
        /\ bal'[0].purchased \in {bal[0].purchased, bal[0].purchased + CreditsOf[g]}
    BY <2>3, <2>4 DEF RowType
  <2>6. GrantsGive => NoOverspend'
    BY <2>1, <2>4, <2>5, LedgerConstants DEF MoneyInv, GrantsGive, NoOverspend, Total, RowType
  <2> QED BY <1>1, <2>5, <2>6, MoneyFrame
<1>5. ASSUME NEW c \in Charges, RefundTx(c), ~UNCHANGED bal PROVE MoneyInv'
  <2>1. c \in Procs /\ CostOf[c] \in Nat BY LedgerConstants DEF Procs
  <2>2. bal' = [m \in Months |-> IF m \in RowsSince(call[c].now)
                              THEN [bal[m] EXCEPT !.used = Floor(@ - CostOf[c])] ELSE bal[m]]
    BY <1>5 DEF RefundTx
  <2>3. bal'[0] \in {bal[0], [bal[0] EXCEPT !.used = Floor(@ - CostOf[c])]}
    BY <2>1, <2>2, OneRow
  <2>4. bal[0] \in RowType BY <2>1, OneRow
  <2>5. /\ bal'[0].reserved = bal[0].reserved /\ bal'[0].exists = bal[0].exists
        /\ bal'[0].purchased = bal[0].purchased
        /\ bal'[0].used \in {bal[0].used, Floor(bal[0].used - CostOf[c])}
    BY <2>3, <2>4 DEF RowType
  <2>6. bal'[0].used <= bal[0].used /\ bal'[0].used \in Nat
    BY <2>1, <2>4, <2>5 DEF RowType, Floor
  <2>7. GrantsGive => NoOverspend'
    BY <2>4, <2>5, <2>6, LedgerConstants DEF MoneyInv, NoOverspend, Total, RowType
  <2> QED BY <1>1, <2>5, <2>7, MoneyFrame
<1> QED BY <1>2, <1>3, <1>4, <1>5

\* The invariant is inductive within one month.
LEMMA NextKeepsMoney ==
  ASSUME OneMonth, CallInv, MoneyInv, [Next]_vars
  PROVE  MoneyInv'
<1>1. ASSUME UNCHANGED bal, UNCHANGED hold PROVE MoneyInv'
  BY <1>1, MoneyFrame DEF ActiveHolds, MoneyInv, NoOverspend
<1>2. ASSUME NEW p \in Procs, GetOrCreateBalance(p) PROVE MoneyInv'
  BY <1>2, BalanceKeepsMoney
<1>3. ASSUME NEW r \in Runs, HoldExpires(r) PROVE MoneyInv'
  <2>1. UNCHANGED bal /\ hold' = [hold EXCEPT ![r].overdue = TRUE] /\ hold \in [Runs -> HoldType]
    BY <1>3 DEF HoldExpires, CallInv, TypeOK
  <2>2. \A s \in Runs : hold'[s].status = hold[s].status BY <2>1 DEF HoldType
  <2>3. ActiveHolds' = ActiveHolds BY <2>2 DEF ActiveHolds
  <2> QED BY <2>1, <2>3, MoneyFrame DEF MoneyInv, NoOverspend
<1>4. CASE UNCHANGED vars BY <1>1, <1>4 DEF vars
<1>5. ASSUME NEW r \in Runs, RunStep(r) PROVE MoneyInv'
  <2>1. ASSUME FetchHold(r) \/ \E actual \in 0..MaxActual : Work(r, actual) PROVE MoneyInv'
    BY <1>1, <2>1 DEF FetchHold, Work, MoneyUnchanged
  <2> QED
    BY <1>2, <1>5, <2>1, ReserveKeepsMoney, SettleKeepsMoney, ChargesKeepMoney
    DEF RunStep, Procs
<1>6. ASSUME NEW w \in Sweepers, SweepStep(w) PROVE MoneyInv'
  <2>1. ASSUME FetchHold(w) \/ \E r \in Runs : PickOverdue(w, r) PROVE MoneyInv'
    BY <1>1, <2>1 DEF FetchHold, PickOverdue, MoneyUnchanged
  <2> QED BY <1>2, <1>6, <2>1, SettleKeepsMoney DEF SweepStep, Procs
<1>7. ASSUME \/ \E r \in Runs : StartRun(r)
             \/ \E c \in Charges : StartCharge(c) \/ StartRefund(c)
             \/ \E g \in Grants : StartGrant(g)
             \/ \E v \in Viewers : StartView(v)
             \/ \E p \in Procs : Crash(p)
             \/ NextMonth
      PROVE  MoneyInv'
  BY <1>1, <1>7
  DEF StartRun, StartCharge, StartRefund, StartGrant, StartView, Crash, NextMonth, MoneyUnchanged
<1>8. ASSUME NEW c \in Charges, ChargeStep(c) PROVE MoneyInv'
  BY <1>2, <1>7, <1>8, ChargesKeepMoney DEF ChargeStep, Procs
<1>9. ASSUME NEW g \in Grants, GrantStep(g) PROVE MoneyInv'
  BY <1>2, <1>7, <1>9, ChargesKeepMoney DEF GrantStep, Procs
<1>a. ASSUME NEW v \in Viewers, ViewStep(v) PROVE MoneyInv'
  BY <1>2, <1>7, <1>a DEF ViewStep, Procs
<1> QED BY <1>3, <1>4, <1>5, <1>6, <1>7, <1>8, <1>9, <1>a DEF Next

\* Within a month the invariant holds in every reachable state.
THEOREM MoneyAlways == ASSUME OneMonth PROVE Spec => []MoneyInv
<1>1. CallInv /\ MoneyInv /\ [Next]_vars => MoneyInv' BY NextKeepsMoney
<1>2. Init => MoneyInv BY InitMoney
<1> QED BY <1>1, <1>2, CallsAlways, PTL DEF Spec

\* reserved_credits is the sum of the active reservations, for any number of
\* runs and sweepers and any estimates.
THEOREM HoldsBacked == ASSUME OneMonth PROVE Spec => []HoldsAreBacked
<1>1. MoneyInv => HoldsAreBacked BY DEF MoneyInv, HoldsAreBacked
<1> QED BY <1>1, MoneyAlways, PTL

\* Spent and held credits never exceed the credits there are: the guard of the
\* updates, not the balance the callers checked, protects the row.
THEOREM NeverOverspent == ASSUME OneMonth, GrantsGive PROVE Spec => []NoOverspend
<1>1. MoneyInv => NoOverspend BY DEF MoneyInv
<1> QED BY <1>1, MoneyAlways, PTL

-----------------------------------------------------------------------------
(* The balance and its ledger *)

\* Charges made and not given back.
Charged == {c \in Charges : rows[c] > 0 /\ c \notin keys}

\* What is used contains every charge that may still be refunded, so the floor
\* of a refund never bites.
BookInv ==
  /\ IsFiniteSet(Units(Charged, CostOf))
  /\ bal[0].used >= Cardinality(Units(Charged, CostOf))
  /\ ~bal[0].exists => bal[0].used = 0
  /\ UsedMatchesLedger

\* At first nothing is charged.
LEMMA InitBook == Init => BookInv
<1> SUFFICES ASSUME Init PROVE BookInv OBVIOUS
<1>1. 0 \in Months /\ bal[0] = NoRow /\ ledger[0] = EmptyBook
  BY LedgerConstants DEF Init, Months
<1>2. Charged = {} BY DEF Init, Charged, Payers
<1>3. Units({}, CostOf) = {} BY DEF Units
<1>4. IsFiniteSet(Units(Charged, CostOf)) /\ Cardinality(Units(Charged, CostOf)) = 0
  BY <1>2, <1>3, FS_EmptySet
<1> QED BY <1>1, <1>4 DEF BookInv, UsedMatchesLedger, NoRow, EmptyBook

\* Used and its ledger rows grow by the same amount, the charges stay.
LEMMA BookFrame ==
  ASSUME BookInv, bal[0].used \in Nat, Charged' = Charged, NEW n \in Nat,
         bal'[0].used = bal[0].used + n,
         bal'[0].exists \/ bal'[0].used = 0,
         ledger[0].usage \in Nat, ledger[0].refund \in Nat,
         ledger'[0].usage = ledger[0].usage + n, ledger'[0].refund = ledger[0].refund
  PROVE  BookInv'
<1>1. /\ IsFiniteSet(Units(Charged, CostOf))
      /\ Cardinality(Units(Charged, CostOf)) \in Nat
  BY FS_CardinalityType DEF BookInv
<1>2. Units(Charged, CostOf)' = Units(Charged, CostOf) BY DEF Units
<1>3. UsedMatchesLedger' BY DEF BookInv, UsedMatchesLedger
<1>4. Cardinality(Units(Charged, CostOf)) <= bal[0].used BY DEF BookInv
<1>5. Cardinality(Units(Charged, CostOf)) <= bal'[0].used BY <1>1, <1>4
<1> QED BY <1>1, <1>2, <1>3, <1>5 DEF BookInv

\* The tables of the one month.
LEMMA OneBook ==
  ASSUME OneMonth, CallInv
  PROVE  /\ Months = {0} /\ month = 0
         /\ bal \in [{0} -> RowType] /\ bal[0] \in RowType /\ bal[0].used \in Nat
         /\ ledger \in [{0} -> BookType] /\ ledger[0] \in BookType
         /\ ledger[0].usage \in Nat /\ ledger[0].refund \in Nat
<1>1. Months = {0} BY DEF OneMonth, Months
<1> QED BY <1>1 DEF CallInv, TypeOK, RowType, BookType

\* A step that leaves used, usage and refunds alone.
LEMMA BookStays ==
  ASSUME OneMonth, CallInv, BookInv, UNCHANGED <<rows, keys>>,
         bal'[0].used = bal[0].used, bal[0].exists => bal'[0].exists,
         ledger'[0].usage = ledger[0].usage, ledger'[0].refund = ledger[0].refund
  PROVE  BookInv'
<1>1. Charged' = Charged BY DEF Charged
<1>2. bal'[0].exists \/ bal'[0].used = 0 BY DEF BookInv
<1>3. bal'[0].used = bal[0].used + 0 /\ ledger'[0].usage = ledger[0].usage + 0
  BY OneBook
<1> QED BY <1>1, <1>2, <1>3, OneBook, BookFrame

\* Opening the period creates an unused row and logs no spending.
LEMMA BalanceKeepsBook ==
  ASSUME OneMonth, CallInv, BookInv, NEW p \in Procs, GetOrCreateBalance(p)
  PROVE  BookInv'
<1>1. /\ UNCHANGED <<rows, keys>>
      /\ UNCHANGED bal \/ bal' = InsertRow(call[p].now)
      /\ UNCHANGED ledger \/ ledger' = [ledger EXCEPT ![month].rollover = @ + Included]
  BY DEF GetOrCreateBalance, ReadSub, RollSub, ProbeRow, AllocateRow, LogRollover,
         ReadRow, CreateRow, MoneyUnchanged
<1>2. bal'[0].used = bal[0].used /\ (bal[0].exists => bal'[0].exists)
  <2>1. CASE bal' = [bal EXCEPT ![0] = FreshRow] /\ ~bal[0].exists
    BY <2>1, OneBook DEF FreshRow, BookInv
  <2> QED BY <1>1, <2>1, OneRow DEF InsertRow
<1>3. ledger'[0].usage = ledger[0].usage /\ ledger'[0].refund = ledger[0].refund
  BY <1>1, OneBook DEF BookType
<1> QED BY <1>1, <1>2, <1>3, BookStays

\* Reservations and releases spend nothing.
LEMMA HoldsKeepBook ==
  ASSUME OneMonth, CallInv, BookInv,
         (\E r \in Runs : ReserveTx(r)) \/ (\E p \in Runs \cup Sweepers : ReleaseTx(p))
  PROVE  BookInv'
<1>1. UNCHANGED <<rows, keys, ledger>> BY DEF ReserveTx, ReleaseTx
<1>2. CASE UNCHANGED bal BY <1>1, <1>2, BookStays
<1>3. ASSUME NEW r \in Runs, ReserveTx(r), ~UNCHANGED bal PROVE BookInv'
  <2>1. r \in Procs BY DEF Procs
  <2>2. PICK reached : bal' = [m \in Months |-> IF m \in reached
                                 THEN [bal[m] EXCEPT !.reserved = @ + HoldOf[r]] ELSE bal[m]]
    BY <1>3 DEF ReserveTx
  <2>3. bal'[0] \in {bal[0], [bal[0] EXCEPT !.reserved = @ + HoldOf[r]]} BY <2>2, OneBook
  <2>4. bal'[0].used = bal[0].used /\ bal'[0].exists = bal[0].exists
    BY <2>3, OneBook DEF RowType
  <2> QED BY <1>1, <2>4, BookStays
<1>4. ASSUME NEW p \in Runs \cup Sweepers, ReleaseTx(p), ~UNCHANGED bal PROVE BookInv'
  <2>1. \E status \in Ended : EndHold(p, status, 0) BY <1>4 DEF ReleaseTx, Ended
  <2>2. bal'[0] \in {bal[0], EndHoldInRow(bal[0], HoldOf[call[p].run], 0)}
    BY <2>1, OneBook DEF EndHold
  <2>3. \A u \in Nat : \A v :
          LET row == [bal[0] EXCEPT !.used = u, !.reserved = v] IN
          row.used = u /\ row.exists = bal[0].exists
    BY OneBook DEF RowType
  <2>4. bal[0].used + 0 = bal[0].used /\ bal[0].used + 0 \in Nat BY OneBook
  <2>5. LET row == EndHoldInRow(bal[0], HoldOf[call[p].run], 0) IN
        row.used = bal[0].used /\ row.exists = bal[0].exists
    BY <2>3, <2>4 DEF EndHoldInRow
  <2>6. bal'[0].used = bal[0].used /\ bal'[0].exists = bal[0].exists
    BY <2>2, <2>5
  <2> QED BY <1>1, <2>6, BookStays
<1> QED BY <1>2, <1>3, <1>4

\* A settle that ended its hold adds what it bills to the row and the ledger.
LEMMA SettleKeepsBook ==
  ASSUME OneMonth, CallInv, MoneyInv, BookInv, NEW r \in Runs, SettleTx(r)
  PROVE  BookInv'
<1> DEFINE spent == Billable(r, call[r].actual)
<1>1. /\ r \in Procs /\ call[r].run = r /\ r \notin Charges
      /\ rows \in [Payers \cup Grants -> Nat]
      /\ spent \in Nat /\ UNCHANGED keys
  BY LedgerConstants
  DEF SettleTx, CallInv, TypeOK, CallsFit, Fits, CallType, Procs, Billable
<1>2. CASE UNCHANGED <<bal, ledger, rows>>
  BY <1>1, <1>2, BookStays
<1>3. CASE ~UNCHANGED <<bal, ledger, rows>>
  <2>1. /\ HoldIsActive(r)
        /\ EndHold(r, "settled", spent)
        /\ ledger' = [ledger EXCEPT ![month].usage = @ + spent]
        /\ rows' = [rows EXCEPT ![r] = @ + 1] \/ UNCHANGED rows
    BY <1>1, <1>3 DEF SettleTx
  <2> HIDE DEF spent
  <2>2. bal[0].exists /\ 0 \in RowsSince(call[r].now)
    BY <1>1, <2>1, OneRow DEF MoneyInv, HoldIsActive, ActiveHolds
  <2>3. bal'[0] = EndHoldInRow(bal[0], HoldOf[r], spent)
    BY <1>1, <2>1, <2>2, OneBook DEF EndHold
  <2>4. \A u \in Nat : \A v :
          LET row == [bal[0] EXCEPT !.used = u, !.reserved = v] IN
          row.used = u /\ row.exists = bal[0].exists
    BY OneBook DEF RowType
  <2>5. bal[0].used + spent \in Nat BY <1>1, OneBook
  <2>6. bal'[0].used = bal[0].used + spent /\ bal'[0].exists
    BY <2>2, <2>3, <2>4, <2>5 DEF EndHoldInRow
  <2>7. ledger'[0].usage = ledger[0].usage + spent /\ ledger'[0].refund = ledger[0].refund
    BY <2>1, OneBook DEF BookType
  <2>8. \A c \in Charges : rows'[c] = rows[c] BY <1>1, <2>1 DEF Payers
  <2>9. Charged' = Charged BY <1>1, <2>8 DEF Charged
  <2> QED BY <1>1, <2>6, <2>7, <2>9, OneBook, BookFrame
<1> QED BY <1>2, <1>3

\* A direct charge adds its price to the row and the ledger, and a charge to
\* what may be refunded.
LEMMA ConsumeKeepsBook ==
  ASSUME OneMonth, CallInv, BookInv, NEW p \in Runs \cup Charges, ConsumeTx(p)
  PROVE  BookInv'
<1> DEFINE cost == Price(p)
           reached == {m \in RowsSince(call[p].now) : Covers(bal[m], cost)}
<1>1. /\ p \in Procs /\ cost \in Nat /\ p \in Payers \cup Grants
      /\ rows \in [Payers \cup Grants -> Nat]
  BY LedgerConstants DEF Procs, Price, Payers, CallInv, TypeOK, CallType
<1>2. CASE UNCHANGED <<bal, ledger, keys, rows>> BY <1>2, BookStays
<1>3. CASE ~UNCHANGED <<bal, ledger, keys, rows>>
  <2>1. /\ reached # {}
        /\ bal' = [m \in Months |-> IF m \in reached
                                  THEN [bal[m] EXCEPT !.used = @ + cost] ELSE bal[m]]
        /\ ledger' = [ledger EXCEPT ![month].usage = @ + cost]
        /\ keys' = keys \cup ({ChargeKey(p)} \ {None})
        /\ rows' = [rows EXCEPT ![p] = @ + 1]
    BY <1>3 DEF ConsumeTx
  <2>2. 0 \in reached /\ bal[0].exists BY <1>1, <2>1, OneRow
  <2>3. bal'[0] = [bal[0] EXCEPT !.used = @ + cost] BY <2>1, <2>2, OneBook
  <2> HIDE DEF cost, reached
  <2>4. bal'[0].used = bal[0].used + cost /\ bal'[0].exists
    BY <2>2, <2>3, OneBook DEF RowType
  <2>5. ledger'[0].usage = ledger[0].usage + cost /\ ledger'[0].refund = ledger[0].refund
    BY <2>1, OneBook DEF BookType
  <2>6. \A c \in Charges : c \in keys' <=> c \in keys
    BY <2>1, LedgerConstants DEF ChargeKey
  <2>7. \A c \in Charges : c # p => rows'[c] = rows[c] BY <1>1, <2>1 DEF Payers
  <2>8. CASE Charged' = Charged
    BY <1>1, <2>4, <2>5, <2>8, OneBook, BookFrame
  <2>9. CASE Charged' # Charged
    <3>1. p \in Charges /\ p \notin Charged /\ Charged' = Charged \cup {p}
      <4>1. rows'[p] = rows[p] + 1 /\ rows[p] \in Nat BY <1>1, <2>1
      <4> QED BY <2>6, <2>7, <2>9, <4>1 DEF Charged
    <3>2. cost = CostOf[p] BY <3>1 DEF cost, Price
    <3>3. /\ IsFiniteSet(Units(Charged \cup {p}, CostOf))
          /\ Cardinality(Units(Charged \cup {p}, CostOf))
               = Cardinality(Units(Charged, CostOf)) + cost
      BY <1>1, <3>1, <3>2, UnitsAdd DEF BookInv
    <3>4. Cardinality(Units(Charged, CostOf)) \in Nat BY FS_CardinalityType DEF BookInv
    <3>5. Cardinality(Units(Charged, CostOf)) <= bal[0].used BY DEF BookInv
    <3>6. Cardinality(Units(Charged \cup {p}, CostOf)) <= bal'[0].used
      BY <1>1, <2>4, <3>3, <3>4, <3>5, OneBook
    <3>7. Units(Charged, CostOf)' = Units(Charged \cup {p}, CostOf)
      BY <3>1 DEF Units
    <3>8. Cardinality(Units(Charged \cup {p}, CostOf)) \in Nat BY <3>3, FS_CardinalityType
    <3>9. UsedMatchesLedger'
      BY <1>1, <2>4, <2>5, OneBook DEF BookInv, UsedMatchesLedger
    <3> QED BY <1>1, <2>4, <3>3, <3>6, <3>7, <3>8, <3>9, OneBook DEF BookInv
  <2> QED BY <2>8, <2>9
<1> QED BY <1>2, <1>3

\* A grant moves no usage.
LEMMA GrantKeepsBook ==
  ASSUME OneMonth, CallInv, BookInv, NEW g \in Grants, GrantTx(g)
  PROVE  BookInv'
<1>1. CASE UNCHANGED <<bal, ledger, keys, rows>> BY <1>1, BookStays
<1>2. CASE ~UNCHANGED <<bal, ledger, keys, rows>>
  <2>1. PICK reached :
          /\ bal' = [m \in Months |-> IF m \in reached
                       THEN [bal[m] EXCEPT !.purchased = @ + CreditsOf[g]] ELSE bal[m]]
          /\ ledger' = [ledger EXCEPT ![month].supply = @ + CreditsOf[g]]
          /\ keys' = keys \cup ({KeyOf[g]} \ {None})
          /\ rows' = [rows EXCEPT ![g] = @ + 1]
    BY <1>2 DEF GrantTx
  <2>2. bal'[0] \in {bal[0], [bal[0] EXCEPT !.purchased = @ + CreditsOf[g]]}
    BY <2>1, OneBook
  <2>3. bal'[0].used = bal[0].used + 0 /\ bal'[0].exists = bal[0].exists
    <3>1. bal'[0].used = bal[0].used /\ bal'[0].exists = bal[0].exists
      BY <2>2, OneBook DEF RowType
    <3> QED BY <3>1, OneBook
  <2>4. ledger'[0].usage = ledger[0].usage + 0 /\ ledger'[0].refund = ledger[0].refund
    <3>1. ledger'[0].usage = ledger[0].usage /\ ledger'[0].refund = ledger[0].refund
      BY <2>1, OneBook DEF BookType
    <3> QED BY <3>1, OneBook
  <2>5. \A c \in Charges : (c \in keys' <=> c \in keys) /\ rows'[c] = rows[c]
    BY <2>1, LedgerConstants DEF CallInv, TypeOK, Payers
  <2>6. Charged' = Charged BY <2>5 DEF Charged
  <2>7. bal'[0].exists \/ bal'[0].used = 0
    BY <2>3, OneBook DEF BookInv
  <2> QED BY <2>3, <2>4, <2>6, <2>7, OneBook, BookFrame
<1> QED BY <1>1, <1>2

\* A refund takes off what its charge added: never more than is used.
LEMMA RefundKeepsBook ==
  ASSUME OneMonth, CallInv, BookInv, NEW c \in Charges, RefundTx(c)
  PROVE  BookInv'
<1> DEFINE cost == CostOf[c]
           rest == Cardinality(Units(Charged \ {c}, CostOf))
<1>1. c \in Procs /\ cost \in Nat \ {0} /\ rows[c] > 0 /\ UNCHANGED rows
  BY LedgerConstants DEF RefundTx, Procs, CallInv, RefundsFollow
<1>2. CASE UNCHANGED <<bal, ledger, keys>> BY <1>1, <1>2, BookStays
<1>3. CASE ~UNCHANGED <<bal, ledger, keys>>
  <2>1. /\ c \notin keys
        /\ bal' = [m \in Months |-> IF m \in RowsSince(call[c].now)
                     THEN [bal[m] EXCEPT !.used = Floor(@ - cost)] ELSE bal[m]]
        /\ ledger' = [ledger EXCEPT ![month].refund = @ + cost]
        /\ keys' = keys \cup {c}
    <3>1. c # None BY LedgerConstants DEF Procs
    <3> QED BY <1>3, <3>1 DEF RefundTx, KeyTaken
  <2>2. c \in Charged /\ Charged' = Charged \ {c} BY <1>1, <2>1 DEF Charged
  <2>3. /\ IsFiniteSet(Units(Charged \ {c}, CostOf))
        /\ Cardinality(Units(Charged, CostOf)) = rest + cost
    BY <1>1, <2>2, UnitsDrop DEF BookInv
  <2>4. rest \in Nat BY <2>3, FS_CardinalityType
  <2>5. Cardinality(Units(Charged, CostOf)) <= bal[0].used
    BY <2>3, <2>4, <1>1, OneBook DEF BookInv
  <2>6. Units(Charged, CostOf)' = Units(Charged \ {c}, CostOf) BY <2>2 DEF Units
  <2>p. Cardinality(Units(Charged \ {c}, CostOf)) = rest OBVIOUS
  <2>l. ledger'[0].usage = ledger[0].usage /\ ledger'[0].refund = ledger[0].refund + cost
    BY <2>1, OneBook DEF BookType
  <2> HIDE DEF cost, rest
  <2>7. rest + cost <= bal[0].used BY <2>3, <2>5
  <2>8. bal[0].exists BY <1>1, <2>4, <2>7, OneBook DEF BookInv
  <2>9. bal'[0] = [bal[0] EXCEPT !.used = Floor(@ - cost)]
    BY <1>1, <2>1, <2>8, OneRow
  <2>a. Floor(bal[0].used - cost) = bal[0].used - cost
    BY <1>1, <2>4, <2>7, OneBook DEF Floor
  <2>b. bal'[0].used = bal[0].used - cost /\ bal'[0].exists
    BY <2>8, <2>9, <2>a, OneBook DEF RowType
  <2>c. rest <= bal'[0].used BY <1>1, <2>4, <2>7, <2>b, OneBook
  <2>d. UsedMatchesLedger'
    BY <1>1, <2>b, <2>l, OneBook DEF BookInv, UsedMatchesLedger
  <2> QED BY <2>3, <2>4, <2>6, <2>b, <2>c, <2>d, <2>p, <1>1, OneBook DEF BookInv
<1> QED BY <1>2, <1>3

\* The invariant is inductive within one month.
LEMMA NextKeepsBook ==
  ASSUME OneMonth, CallInv, MoneyInv, BookInv, [Next]_vars
  PROVE  BookInv'
<1>1. ASSUME UNCHANGED <<bal, ledger, keys, rows>> PROVE BookInv'
  BY <1>1, BookStays
<1>2. ASSUME NEW p \in Procs, GetOrCreateBalance(p) PROVE BookInv'
  BY <1>2, BalanceKeepsBook
<1>3. ASSUME \/ UNCHANGED vars
             \/ \E r \in Runs : \/ StartRun(r) \/ HoldExpires(r)
                               \/ \E actual \in 0..MaxActual : Work(r, actual)
             \/ \E p \in Runs \cup Sweepers : FetchHold(p)
             \/ \E w \in Sweepers, r \in Runs : PickOverdue(w, r)
             \/ \E c \in Charges : StartCharge(c) \/ StartRefund(c)
             \/ \E g \in Grants : StartGrant(g)
             \/ \E v \in Viewers : StartView(v)
             \/ \E p \in Procs : Crash(p)
             \/ NextMonth
      PROVE  BookInv'
  BY <1>1, <1>3
  DEF vars, StartRun, HoldExpires, Work, FetchHold, PickOverdue, StartCharge, StartRefund,
      StartGrant, StartView, Crash, NextMonth, MoneyUnchanged
<1>4. ASSUME NEW r \in Runs, RunStep(r) PROVE BookInv'
  BY <1>2, <1>3, <1>4, HoldsKeepBook, SettleKeepsBook, ConsumeKeepsBook DEF RunStep, Procs
<1>5. ASSUME NEW w \in Sweepers, SweepStep(w) PROVE BookInv'
  BY <1>2, <1>3, <1>5, HoldsKeepBook DEF SweepStep, Procs
<1>6. ASSUME NEW c \in Charges, ChargeStep(c) PROVE BookInv'
  BY <1>2, <1>3, <1>6, ConsumeKeepsBook, RefundKeepsBook DEF ChargeStep, Procs
<1>7. ASSUME NEW g \in Grants, GrantStep(g) PROVE BookInv'
  BY <1>2, <1>3, <1>7, GrantKeepsBook DEF GrantStep, Procs
<1>8. ASSUME NEW v \in Viewers, ViewStep(v) PROVE BookInv'
  BY <1>2, <1>3, <1>8 DEF ViewStep, Procs
<1> QED BY <1>3, <1>4, <1>5, <1>6, <1>7, <1>8 DEF Next

\* The balance of the month is the sum of its usage and refund rows, for any
\* number of charges, settlements, redeliveries and refunds.
THEOREM UsedIsLedger == ASSUME OneMonth PROVE Spec => []UsedMatchesLedger
<1>1. CallInv /\ MoneyInv /\ BookInv /\ [Next]_vars => BookInv' BY NextKeepsBook
<1>2. Init => BookInv BY InitBook
<1>3. BookInv => UsedMatchesLedger BY DEF BookInv
<1> QED BY <1>1, <1>2, <1>3, CallsAlways, MoneyAlways, PTL DEF Spec

-----------------------------------------------------------------------------
(* The ledger implements the account *)

\* The credits bought are the supply rows of the ledger, and an absent row has
\* none.  A call that reached its transaction found its row.  A run pays directly
\* only after its hold was given back, and has paid only when the hold is over.
BoughtIsSupply ==
  /\ bal[0].purchased = ledger[0].supply
  /\ ~bal[0].exists => bal[0].purchased = 0
RowsAreReady == \A p \in Procs : call[p].pc = "tx" => bal[0].exists
FreedBeforePaying ==
  \A r \in Runs : call[r].op = "consume" => hold[r].status \in {"released", "expired"}
PaidHoldsEnded == \A r \in Runs : rows[r] > 0 => hold[r].status \in Ended

PayInv == BoughtIsSupply /\ RowsAreReady /\ FreedBeforePaying /\ PaidHoldsEnded

\* At first no call has begun and nothing was bought.
LEMMA InitPay == Init => PayInv
<1> SUFFICES ASSUME Init PROVE PayInv OBVIOUS
<1>1. 0 \in Months /\ bal[0] = NoRow /\ ledger[0] = EmptyBook
  BY LedgerConstants DEF Init, Months
<1>2. /\ \A p \in Procs : call[p] = Idle
      /\ \A r \in Runs : rows[r] = 0 /\ r \in Procs
  BY DEF Init, Payers, Procs
<1> QED
  BY <1>1, <1>2
  DEF PayInv, BoughtIsSupply, RowsAreReady, FreedBeforePaying, PaidHoldsEnded,
      NoRow, EmptyBook, Idle

\* What process p does to its call, of which the others take no part.
Steps(p) ==
  \/ \E pc \in Pcs : Goto(p, pc)
  \/ Finish(p)
  \/ \E op \in Ops : \E r, n : Open(p, op, r, n)

\* Where a call stands after each of these.
LEMMA CallAfter ==
  ASSUME CallInv, NEW p \in Procs
  PROVE  /\ \A pc : Goto(p, pc) => call'[p].pc = pc /\ call'[p].op = call[p].op
         /\ Finish(p) => call'[p].pc \in {"off", "done"} /\ call'[p].op = "none"
         /\ \A op, r, n : Open(p, op, r, n) => call'[p].pc = "sub" /\ call'[p].op = op
         /\ Steps(p) => \A q \in Procs : q # p => call'[q] = call[q]
<1>1. call \in [Procs -> CallType] /\ call[p] \in CallType BY DEF CallInv, TypeOK
<1>2. ASSUME NEW pc, Goto(p, pc) PROVE call'[p].pc = pc /\ call'[p].op = call[p].op
  <2>1. call'[p] = [call[p] EXCEPT !.pc = pc] BY <1>1, <1>2 DEF Goto
  <2> QED BY <1>1, <2>1 DEF CallType
<1>3. ASSUME Finish(p) PROVE call'[p].pc \in {"off", "done"} /\ call'[p].op = "none"
  <2>1. call'[p] = [call[p] EXCEPT !.pc = Rest(p), !.op = "none"] BY <1>1, <1>3 DEF Finish
  <2> QED BY <1>1, <2>1 DEF CallType, Rest
<1>4. ASSUME NEW op, NEW r, NEW n, Open(p, op, r, n)
      PROVE  call'[p].pc = "sub" /\ call'[p].op = op
  BY <1>1, <1>4 DEF Open
<1>5. ASSUME Steps(p) PROVE \A q \in Procs : q # p => call'[q] = call[q]
  BY <1>1, <1>5 DEF Steps, Goto, Finish, Open
<1> QED BY <1>2, <1>3, <1>4, <1>5

\* The caller handed its balance goes on to its transaction, or ends.
LEMMA JudgeSteps ==
  ASSUME CallInv, NEW p \in Procs, NEW row, Judge(p, row) \/ Refuse(p)
  PROVE  /\ Steps(p)
         /\ call'[p].op \in {call[p].op, "none"}
         /\ Refuse(p) => call'[p].pc # "tx"
<1>1. Goto(p, "tx") \/ Goto(p, "unbilled") \/ Finish(p) BY DEF Judge, Refuse
<1>2. Refuse(p) => Goto(p, "unbilled") \/ Finish(p) BY DEF Refuse
<1> QED BY <1>1, <1>2, CallAfter DEF Steps, Pcs

\* What keeps the invariant: p's call goes on, rows of the balance stay and
\* grow with the ledger, holds that ended stay so.
LEMMA PayFrame ==
  ASSUME CallInv, PayInv, NEW p \in Procs,
         \A q \in Procs : q # p => call'[q] = call[q],
         bal[0].exists => bal'[0].exists,
         call'[p].pc = "tx" => bal'[0].exists,
         BoughtIsSupply',
         \A r \in Runs : hold[r].status \in Ended => hold'[r].status = hold[r].status,
         p \in Runs /\ call'[p].op = "consume" =>
           call[p].op = "consume" \/ hold[p].status \in {"released", "expired"},
         \A r \in Runs : rows'[r] > 0 => rows[r] > 0 \/ hold'[r].status \in Ended
  PROVE  PayInv'
<1>1. RowsAreReady' BY DEF PayInv, RowsAreReady
<1>2. FreedBeforePaying' BY DEF PayInv, FreedBeforePaying, Ended, Procs
<1>3. PaidHoldsEnded' BY DEF PayInv, PaidHoldsEnded
<1> QED BY <1>1, <1>2, <1>3 DEF PayInv

\* A call on its way that leaves all tables alone.
LEMMA QuietKeepsPay ==
  ASSUME CallInv, PayInv, NEW p \in Procs, UNCHANGED <<bal, ledger, hold, rows>>,
         \/ UNCHANGED call
         \/ /\ Steps(p)
            /\ call'[p].pc # "tx"
            /\ p \in Runs /\ call'[p].op = "consume" =>
                 call[p].op = "consume" \/ hold[p].status \in {"released", "expired"}
  PROVE  PayInv'
<1>1. CASE UNCHANGED call
  BY <1>1
  DEF PayInv, BoughtIsSupply, RowsAreReady, FreedBeforePaying, PaidHoldsEnded
<1>2. CASE ~UNCHANGED call
  <2>1. \A q \in Procs : q # p => call'[q] = call[q] BY <1>2, CallAfter
  <2>2. BoughtIsSupply' BY DEF PayInv, BoughtIsSupply
  <2> QED BY <1>2, <2>1, <2>2, PayFrame
<1> QED BY <1>1, <1>2

\* Opening the period: an absent row has bought nothing, and a row read or
\* created is there when the transaction comes.
LEMMA BalanceKeepsPay ==
  ASSUME OneMonth, CallInv, PayInv, NEW p \in Procs, GetOrCreateBalance(p)
  PROVE  PayInv'
<1>1. /\ UNCHANGED <<hold, rows>>
      /\ UNCHANGED bal \/ bal' = InsertRow(0)
      /\ UNCHANGED ledger \/ ledger' = [ledger EXCEPT ![month].rollover = @ + Included]
  BY OneRow
  DEF GetOrCreateBalance, ReadSub, RollSub, ProbeRow, AllocateRow, LogRollover,
      ReadRow, CreateRow, MoneyUnchanged
<1>2. /\ bal[0].exists => bal'[0].exists
      /\ BoughtIsSupply'
      /\ bal' = InsertRow(0) => bal'[0].exists
  <2>0. InsertRow(0)[0].exists BY OneBook DEF InsertRow, FreshRow
  <2>1. ledger'[0].supply = ledger[0].supply BY <1>1, OneBook DEF BookType
  <2>2. CASE bal' = [bal EXCEPT ![0] = FreshRow] /\ ~bal[0].exists
    BY <2>1, <2>2, OneBook DEF FreshRow, PayInv, BoughtIsSupply
  <2>3. CASE UNCHANGED bal BY <2>0, <2>1, <2>3 DEF PayInv, BoughtIsSupply
  <2> QED BY <1>1, <2>0, <2>2, <2>3 DEF InsertRow
<1>3. /\ Steps(p)
      /\ call'[p].op \in {call[p].op, "none"}
      /\ call'[p].pc = "tx" => bal'[0].exists
  <2>1. ASSUME NEW pc \in {"roll", "read", "probe", "allocate", "log", "create"}, Goto(p, pc)
        PROVE  Steps(p) /\ call'[p].op = call[p].op /\ call'[p].pc # "tx"
    BY <2>1, CallAfter DEF Steps, Pcs
  <2>2. ASSUME NEW row, Judge(p, row), bal'[0].exists
        PROVE  Steps(p) /\ call'[p].op \in {call[p].op, "none"}
    BY <2>2, JudgeSteps
  <2>3. CASE ReadRow(p)
    <3>1. CASE bal[0].exists
      BY <1>2, <2>2, <2>3, <3>1, OneRow DEF ReadRow
    <3>2. CASE ~bal[0].exists
      BY <2>1, <2>3, <3>2, OneRow DEF ReadRow
    <3> QED BY <3>1, <3>2
  <2>4. CASE CreateRow(p)
    BY <1>2, <2>2, <2>4, OneRow DEF CreateRow
  <2> QED
    BY <2>1, <2>3, <2>4
    DEF GetOrCreateBalance, ReadSub, RollSub, ProbeRow, AllocateRow, LogRollover
<1>4. \A q \in Procs : q # p => call'[q] = call[q] BY <1>3, CallAfter
<1> QED BY <1>1, <1>2, <1>3, <1>4, PayFrame DEF PayInv, PaidHoldsEnded

\* Calls that open, reads of a hold, deadlines and crashes.
LEMMA OpeningsKeepPay ==
  ASSUME CallInv, PayInv,
         \/ UNCHANGED vars
         \/ \E r \in Runs : StartRun(r) \/ \E actual \in 0..MaxActual : Work(r, actual)
         \/ \E w \in Sweepers, r \in Runs : PickOverdue(w, r)
         \/ \E p \in Runs \cup Sweepers : FetchHold(p)
         \/ \E c \in Charges : StartCharge(c) \/ StartRefund(c)
         \/ \E g \in Grants : StartGrant(g)
         \/ \E v \in Viewers : StartView(v)
         \/ \E p \in Procs : Crash(p)
         \/ NextMonth
  PROVE  PayInv'
<1>0. UNCHANGED <<bal, ledger, hold, rows>>
  BY DEF vars, StartRun, Work, PickOverdue, FetchHold, StartCharge, StartRefund,
         StartGrant, StartView, Crash, NextMonth, MoneyUnchanged
<1>c. /\ call \in [Procs -> CallType]
      /\ \A p \in Procs : call[p] \in CallType /\ Fits(p, call[p])
  BY DEF CallInv, TypeOK, CallsFit
<1>1. CASE UNCHANGED call
  BY <1>0, <1>1
  DEF PayInv, BoughtIsSupply, RowsAreReady, FreedBeforePaying, PaidHoldsEnded
<1>2. ASSUME NEW p \in Procs, NEW op \in Ops \ {"consume"}, NEW r, NEW n, Open(p, op, r, n)
      PROVE  PayInv'
  BY <1>0, <1>2, CallAfter, QuietKeepsPay DEF Steps
<1>3. ASSUME NEW p \in Procs, Finish(p) PROVE PayInv'
  BY <1>0, <1>3, CallAfter, QuietKeepsPay DEF Steps
<1>4. ASSUME NEW r \in Runs, NEW actual \in 0..MaxActual, Work(r, actual) PROVE PayInv'
  <2>1. r \in Procs BY DEF Procs
  <2>2. /\ call'[r].pc = "fetch" /\ call'[r].op # "consume"
        /\ \A q \in Procs : q # r => call'[q] = call[q]
    BY <1>4, <1>c, <2>1 DEF Work, CallType
  <2>3. BoughtIsSupply' BY <1>0 DEF PayInv, BoughtIsSupply
  <2> QED BY <1>0, <2>1, <2>2, <2>3, PayFrame
<1>5. ASSUME NEW w \in Sweepers, NEW r \in Runs, PickOverdue(w, r) PROVE PayInv'
  <2>1. w \in Procs /\ w \notin Runs BY LedgerConstants DEF Procs
  <2>2. /\ call'[w].pc = "fetch"
        /\ \A q \in Procs : q # w => call'[q] = call[q]
    BY <1>5, <1>c, <2>1 DEF PickOverdue, CallType
  <2>3. BoughtIsSupply' BY <1>0 DEF PayInv, BoughtIsSupply
  <2> QED BY <1>0, <2>1, <2>2, <2>3, PayFrame
<1>6. ASSUME NEW p \in Runs \cup Sweepers, FetchHold(p) PROVE PayInv'
  <2>1. /\ p \in Procs /\ call[p].pc = "fetch"
        /\ call[p].op \in {"settle", "release"}
        /\ p \in Runs => call[p].run = p
    BY <1>6, <1>c DEF FetchHold, Procs, Fits
  <2>2. CASE Open(p, call[p].op, call[p].run, call[p].actual)
    BY <1>2, <2>1, <2>2 DEF Ops
  <2>3. CASE /\ Open(p, "consume", call[p].run, call[p].actual)
             /\ hold[call[p].run].status \in {"released", "expired"}
    BY <1>0, <2>1, <2>3, CallAfter, QuietKeepsPay DEF Steps, Ops
  <2>4. CASE Finish(p) BY <1>3, <2>1, <2>4
  <2> QED BY <1>6, <2>2, <2>3, <2>4 DEF FetchHold, AfterDuplicate
<1>7. ASSUME NEW c \in Charges, StartCharge(c) \/ StartRefund(c) PROVE PayInv'
  <2>1. c \in Procs /\ c \notin Runs BY LedgerConstants DEF Procs
  <2> QED
    BY <1>0, <1>7, <2>1, CallAfter, QuietKeepsPay DEF StartCharge, StartRefund, Steps, Ops
<1>8. ASSUME NEW p \in Procs, Crash(p) PROVE PayInv'
  <2>1. \E pc \in {"crashed", "off", "done"} : Goto(p, pc) BY <1>8 DEF Crash, Rest
  <2> QED BY <1>0, <2>1, CallAfter, QuietKeepsPay DEF Steps, Pcs
<1>9. CASE \/ \E r \in Runs : StartRun(r)
           \/ \E g \in Grants : StartGrant(g)
           \/ \E v \in Viewers : StartView(v)
  BY <1>2, <1>9 DEF StartRun, StartGrant, StartView, Procs, Ops
<1> QED BY <1>1, <1>4, <1>5, <1>6, <1>7, <1>8, <1>9 DEF vars, NextMonth

\* The transactions of a run and of the sweep: they move holds, not supply.
LEMMA HoldsKeepPay ==
  ASSUME OneMonth, CallInv, PayInv, [Next]_vars,
         \/ \E r \in Runs : ReserveTx(r) \/ SettleTx(r) \/ HoldExpires(r)
         \/ \E p \in Runs \cup Sweepers : ReleaseTx(p)
  PROVE  PayInv'
<1>0. \A r \in Runs : hold[r].status \in Ended => hold'[r].status = hold[r].status
  BY HoldStep DEF HoldEnds
<1>1. /\ bal'[0].exists = bal[0].exists
      /\ bal'[0].purchased = bal[0].purchased
      /\ ledger'[0].supply = ledger[0].supply
  <2>1. UNCHANGED ledger \/ \E n : ledger' = [ledger EXCEPT ![month].usage = @ + n]
    BY DEF ReserveTx, SettleTx, HoldExpires, ReleaseTx
  <2>2. ledger'[0].supply = ledger[0].supply BY <2>1, OneBook DEF BookType
  <2>3. ASSUME NEW u, NEW v,
               \/ bal'[0] = bal[0]
               \/ bal'[0] = [bal[0] EXCEPT !.reserved = v]
               \/ bal'[0] = [bal[0] EXCEPT !.used = u, !.reserved = v]
        PROVE  bal'[0].exists = bal[0].exists /\ bal'[0].purchased = bal[0].purchased
    BY <2>3, OneBook DEF RowType
  <2>4. ASSUME NEW p, NEW status, NEW n, EndHold(p, status, n)
        PROVE  \E u, v : bal'[0] = bal[0] \/ bal'[0] = [bal[0] EXCEPT !.used = u, !.reserved = v]
    <3>1. bal'[0] \in {bal[0], EndHoldInRow(bal[0], HoldOf[call[p].run], n)}
      BY <2>4, OneBook DEF EndHold
    <3> QED BY <3>1 DEF EndHoldInRow
  <2>5. ASSUME NEW r, ReserveTx(r)
        PROVE  \E v : bal'[0] = bal[0] \/ bal'[0] = [bal[0] EXCEPT !.reserved = v]
    <3>1. bal'[0] \in {bal[0], [bal[0] EXCEPT !.reserved = @ + HoldOf[r]]}
      BY <2>5, OneBook DEF ReserveTx
    <3> QED BY <3>1
  <2>6. \/ UNCHANGED bal
        \/ \E r : ReserveTx(r)
        \/ \E p, status, n : EndHold(p, status, n)
    BY DEF SettleTx, HoldExpires, ReleaseTx
  <2> QED BY <2>2, <2>3, <2>4, <2>5, <2>6
<1>2. BoughtIsSupply' BY <1>1 DEF PayInv, BoughtIsSupply
<1>3. ASSUME NEW p \in Procs, Steps(p), call'[p].pc # "tx", p \in Runs => call'[p].op # "consume",
             UNCHANGED rows \/ \E r \in Runs : /\ rows' = [rows EXCEPT ![r] = @ + 1]
                                            /\ hold'[r].status \in Ended
      PROVE  PayInv'
  <2>1. \A q \in Procs : q # p => call'[q] = call[q] BY <1>3, CallAfter
  <2>2. \A r \in Runs : rows'[r] > 0 => rows[r] > 0 \/ hold'[r].status \in Ended
    BY <1>3 DEF CallInv, TypeOK, Payers
  <2> QED BY <1>0, <1>1, <1>2, <1>3, <2>1, <2>2, PayFrame
<1>4. ASSUME NEW r \in Runs, ReserveTx(r) PROVE PayInv'
  <2>1. r \in Procs /\ call[r].op = "reserve" /\ UNCHANGED rows BY <1>4 DEF ReserveTx, Procs
  <2>2. Goto(r, "work") \/ Refuse(r) BY <1>4 DEF ReserveTx
  <2>3. /\ Steps(r)
        /\ call'[r].op \in {call[r].op, "none"}
        /\ call'[r].pc # "tx"
    BY <2>1, <2>2, JudgeSteps, CallAfter DEF Steps, Pcs
  <2> QED BY <1>3, <2>1, <2>3
<1>5. ASSUME NEW r \in Runs, SettleTx(r) PROVE PayInv'
  <2>1. r \in Procs /\ call[r].run = r
    BY <1>5 DEF SettleTx, CallInv, CallsFit, Fits, Procs
  <2>2. /\ Finish(r)
        /\ \/ UNCHANGED rows
           \/ hold' = [hold EXCEPT ![r].status = "settled"] /\ rows' = [rows EXCEPT ![r] = @ + 1]
    BY <1>5, <2>1 DEF SettleTx, AfterDuplicate, EndHold
  <2>3. hold' = [hold EXCEPT ![r].status = "settled"] => hold'[r].status = "settled"
    BY DEF CallInv, TypeOK, HoldType
  <2>4. Steps(r) /\ call'[r].pc # "tx" /\ call'[r].op # "consume"
    BY <2>1, <2>2, CallAfter DEF Steps
  <2> QED BY <1>3, <2>1, <2>2, <2>3, <2>4 DEF Ended
<1>6. ASSUME NEW p \in Runs \cup Sweepers, ReleaseTx(p) PROVE PayInv'
  <2>1. p \in Procs /\ Finish(p) /\ UNCHANGED rows BY <1>6 DEF ReleaseTx, Procs
  <2>2. Steps(p) /\ call'[p].pc # "tx" /\ call'[p].op # "consume"
    BY <2>1, CallAfter DEF Steps
  <2> QED BY <1>3, <2>1, <2>2
<1>7. ASSUME NEW r \in Runs, HoldExpires(r) PROVE PayInv'
  <2>1. UNCHANGED <<call, rows>> /\ r \in Procs BY <1>7 DEF HoldExpires, Procs
  <2> QED BY <1>0, <1>1, <1>2, <2>1, PayFrame DEF PayInv, RowsAreReady
<1> QED BY <1>4, <1>5, <1>6, <1>7

\* Direct charges, grants and refunds: a grant adds to the row, which is there,
\* what it adds to the ledger.
LEMMA ChargesKeepPay ==
  ASSUME OneMonth, CallInv, PayInv, [Next]_vars,
         \/ \E p \in Runs \cup Charges : ConsumeTx(p)
         \/ \E g \in Grants : GrantTx(g)
         \/ \E c \in Charges : RefundTx(c)
  PROVE  PayInv'
<1>0. UNCHANGED hold BY DEF ConsumeTx, GrantTx, RefundTx
<1>1. ASSUME NEW p \in Procs, Steps(p), call'[p].pc # "tx",
             call'[p].op \in {call[p].op, "none"},
             bal[0].exists => bal'[0].exists, BoughtIsSupply',
             \A r \in Runs : r # p => rows'[r] = rows[r],
             p \in Runs => call[p].op = "consume"
      PROVE  PayInv'
  <2>1. \A q \in Procs : q # p => call'[q] = call[q] BY <1>1, CallAfter
  <2>2. \A r \in Runs : rows'[r] > 0 => rows[r] > 0 \/ hold'[r].status \in Ended
    BY <1>0, <1>1 DEF PayInv, FreedBeforePaying, Ended
  <2> QED BY <1>0, <1>1, <2>1, <2>2, PayFrame
<1>2. ASSUME NEW p \in Runs \cup Charges, ConsumeTx(p) PROVE PayInv'
  <2>1. p \in Procs /\ call[p].op = "consume" /\ rows \in [Payers \cup Grants -> Nat]
    BY <1>2 DEF ConsumeTx, Procs, CallInv, TypeOK
  <2>2. /\ bal'[0].exists = bal[0].exists
        /\ bal'[0].purchased = bal[0].purchased
    <3>1. bal'[0] \in {bal[0], [bal[0] EXCEPT !.used = @ + Price(p)]}
      BY <1>2, OneBook DEF ConsumeTx
    <3> QED BY <3>1, OneBook DEF RowType
  <2>3. ledger'[0].supply = ledger[0].supply BY <1>2, OneBook DEF ConsumeTx, BookType
  <2>4. BoughtIsSupply' BY <2>2, <2>3 DEF PayInv, BoughtIsSupply
  <2>5. Finish(p) \/ Refuse(p) BY <1>2 DEF ConsumeTx
  <2>6. Steps(p) /\ call'[p].pc # "tx" /\ call'[p].op \in {call[p].op, "none"}
    BY <2>1, <2>5, CallAfter, JudgeSteps DEF Steps
  <2>7. \A r \in Runs : r # p => rows'[r] = rows[r] BY <1>2, <2>1 DEF ConsumeTx, Payers
  <2> QED BY <1>1, <2>1, <2>2, <2>4, <2>6, <2>7
<1>3. ASSUME NEW g \in Grants, GrantTx(g) PROVE PayInv'
  <2>1. /\ g \in Procs /\ g \notin Runs /\ call[g].pc = "tx" /\ Finish(g)
        /\ rows \in [Payers \cup Grants -> Nat] /\ CreditsOf[g] \in Int
    BY <1>3, LedgerConstants DEF GrantTx, Procs, CallInv, TypeOK
  <2>2. bal[0].exists /\ RowsSince(call[g].now) = {0}
    BY <2>1, OneRow DEF PayInv, RowsAreReady
  <2>3. bal'[0].exists /\ BoughtIsSupply'
    <3>1. CASE UNCHANGED <<bal, ledger>>
      BY <2>2, <3>1 DEF PayInv, BoughtIsSupply
    <3>2. CASE /\ bal' = [m \in Months |->
                        IF m \in RowsSince(call[g].now)
                        THEN [bal[m] EXCEPT !.purchased = @ + CreditsOf[g]] ELSE bal[m]]
               /\ ledger' = [ledger EXCEPT ![month].supply = @ + CreditsOf[g]]
      <4>1. bal'[0] = [bal[0] EXCEPT !.purchased = @ + CreditsOf[g]] BY <2>2, <3>2, OneBook
      <4>2. /\ bal'[0].exists = bal[0].exists
            /\ bal'[0].purchased = bal[0].purchased + CreditsOf[g]
        BY <4>1, OneBook DEF RowType
      <4>3. ledger'[0].supply = ledger[0].supply + CreditsOf[g]
        BY <3>2, OneBook DEF BookType
      <4> QED BY <2>2, <4>2, <4>3 DEF PayInv, BoughtIsSupply
    <3> QED BY <1>3, <3>1, <3>2 DEF GrantTx
  <2>4. Steps(g) /\ call'[g].pc # "tx" /\ call'[g].op = "none"
    BY <2>1, CallAfter DEF Steps
  <2>5. \A r \in Runs : r # g => rows'[r] = rows[r] BY <1>3, <2>1 DEF GrantTx, Payers
  <2> QED BY <1>1, <2>1, <2>3, <2>4, <2>5
<1>4. ASSUME NEW c \in Charges, RefundTx(c) PROVE PayInv'
  <2>1. c \in Procs /\ c \notin Runs /\ Finish(c) /\ UNCHANGED rows
    BY <1>4, LedgerConstants DEF RefundTx, Procs
  <2>2. /\ bal'[0].exists = bal[0].exists
        /\ bal'[0].purchased = bal[0].purchased
    <3>1. bal'[0] \in {bal[0], [bal[0] EXCEPT !.used = Floor(@ - CostOf[c])]}
      BY <1>4, OneBook DEF RefundTx
    <3> QED BY <3>1, OneBook DEF RowType
  <2>3. ledger'[0].supply = ledger[0].supply BY <1>4, OneBook DEF RefundTx, BookType
  <2>4. BoughtIsSupply' BY <2>2, <2>3 DEF PayInv, BoughtIsSupply
  <2>5. Steps(c) /\ call'[c].pc # "tx" /\ call'[c].op = "none"
    BY <2>1, CallAfter DEF Steps
  <2> QED BY <1>1, <2>1, <2>2, <2>4, <2>5
<1> QED BY <1>2, <1>3, <1>4

\* The invariant is inductive within one month.
LEMMA NextKeepsPay ==
  ASSUME OneMonth, CallInv, PayInv, [Next]_vars
  PROVE  PayInv'
<1>1. ASSUME NEW r \in Runs, RunStep(r) PROVE PayInv'
  BY <1>1, BalanceKeepsPay, OpeningsKeepPay, HoldsKeepPay, ChargesKeepPay DEF RunStep, Procs
<1>2. ASSUME NEW w \in Sweepers, SweepStep(w) PROVE PayInv'
  BY <1>2, BalanceKeepsPay, OpeningsKeepPay, HoldsKeepPay DEF SweepStep, Procs
<1>3. ASSUME NEW c \in Charges, ChargeStep(c) PROVE PayInv'
  BY <1>3, BalanceKeepsPay, OpeningsKeepPay, ChargesKeepPay DEF ChargeStep, Procs
<1>4. ASSUME NEW g \in Grants, GrantStep(g) PROVE PayInv'
  BY <1>4, BalanceKeepsPay, OpeningsKeepPay, ChargesKeepPay DEF GrantStep, Procs
<1>5. ASSUME NEW v \in Viewers, ViewStep(v) PROVE PayInv'
  BY <1>5, BalanceKeepsPay, OpeningsKeepPay DEF ViewStep, Procs
<1> QED
  BY <1>1, <1>2, <1>3, <1>4, <1>5, OpeningsKeepPay, HoldsKeepPay DEF Next

\* All that the steps of the account need.
AccountInv == CallInv /\ MoneyInv /\ BookInv /\ PayInv

\* Within a month every reachable state has them.
THEOREM AccountAlways == ASSUME OneMonth PROVE Spec => []AccountInv
<1>1. AccountInv /\ [Next]_vars => AccountInv'
  BY NextKeepsCalls, NextKeepsMoney, NextKeepsBook, NextKeepsPay DEF AccountInv
<1>2. Init => AccountInv BY InitCalls, InitMoney, InitBook, InitPay DEF AccountInv
<1> QED BY <1>1, <1>2, PTL DEF Spec

\* The state of the account, by name.
credits == Included + ledger[0].supply
spent   == ledger[0].usage - ledger[0].refund
stage   == [r \in Runs |-> StageOf(r)]
made    == {c \in Charges : rows[c] > 0}

\* Nothing happens to the account: no row is written and no hold changes hands.
LEMMA AccountStands ==
  ASSUME UNCHANGED <<ledger, keys, rows>>, \A r \in Runs : hold'[r].status = hold[r].status
  PROVE  UNCHANGED Account!vars
<1>1. \A r \in Runs : StageOf(r)' = StageOf(r) BY DEF StageOf
<1>2. UNCHANGED stage BY <1>1 DEF stage
<1>3. UNCHANGED <<credits, spent, made, keys>> BY DEF credits, spent, made
<1> QED BY <1>2, <1>3 DEF Account!vars, credits, spent, stage, made

\* One run moves from stage to stage, the others stay where they are.
LEMMA StageMoves ==
  ASSUME NEW r \in Runs,
         \A s \in Runs : s # r => hold'[s].status = hold[s].status /\ rows'[s] = rows[s]
  PROVE  stage' = [stage EXCEPT ![r] = StageOf(r)']
<1>1. \A s \in Runs : s # r => StageOf(s)' = StageOf(s) BY DEF StageOf
<1> QED BY <1>1 DEF stage

\* What the account holds is what is reserved, and its room is the room of the
\* balance row.
LEMMA RoomOfRow ==
  ASSUME OneMonth, AccountInv
  PROVE  /\ Account!Held = bal[0].reserved
         /\ Account!Room = Total(bal[0]) - bal[0].used - bal[0].reserved
         /\ \A n \in Nat : Covers(bal[0], n) => n <= Account!Room
         /\ Account!Room \in Int /\ spent \in Int
<1>1. \A r \in Runs : StageOf(r) = "held" <=> hold[r].status = "active"
  <2>1. \A r \in Runs : hold[r].status \in {"none", "active", "settled", "released", "expired"}
    BY DEF AccountInv, CallInv, TypeOK, HoldType, Ended
  <2> QED BY <2>1 DEF StageOf
<1>2. {r \in Runs : stage[r] = "held"} = ActiveHolds
  BY <1>1 DEF stage, ActiveHolds
<1>3. Account!Held = Held
  <2>1. Account!Held = Account!Cardinality(HeldCredits({r \in Runs : stage[r] = "held"}))
    BY DEF Account!Held, HeldCredits, stage
  <2>2. \A S : Account!Cardinality(S) = Cardinality(S)
    BY DEF Account!Cardinality, Cardinality
  <2> QED BY <1>2, <2>1, <2>2 DEF Held
<1>4. Held = bal[0].reserved BY DEF AccountInv, MoneyInv
<1>5. /\ bal[0].reserved \in Nat /\ bal[0].used \in Nat /\ bal[0].purchased \in Int
      /\ ledger[0].supply = bal[0].purchased /\ spent = bal[0].used /\ Included \in Nat
  BY OneBook, LedgerConstants
  DEF AccountInv, PayInv, BoughtIsSupply, BookInv, UsedMatchesLedger, RowType, spent
<1>6. Account!Room = Total(bal[0]) - bal[0].used - bal[0].reserved
  BY <1>3, <1>4, <1>5 DEF Account!Room, Total, spent
<1> QED BY <1>3, <1>4, <1>5, <1>6 DEF Covers, Total

\* A reservation that is made holds its estimate.
LEMMA ReserveHolds ==
  ASSUME OneMonth, AccountInv, NEW r \in Runs, ReserveTx(r)
  PROVE  UNCHANGED Account!vars \/ Account!Hold(r)
<1>1. /\ r \in Procs /\ HoldOf[r] \in Nat /\ hold[r].status = "none"
      /\ hold \in [Runs -> HoldType] /\ UNCHANGED <<ledger, keys, rows>>
  BY LedgerConstants
  DEF ReserveTx, Procs, AccountInv, CallInv, TypeOK, HoldComesOnce, Early
<1>2. CASE UNCHANGED hold BY <1>1, <1>2, AccountStands
<1>3. CASE ~UNCHANGED hold
  <2>1. /\ hold' = [hold EXCEPT ![r].status = "active"]
        /\ \E m \in RowsSince(call[r].now) : Covers(bal[m], HoldOf[r])
    BY <1>3 DEF ReserveTx
  <2>2. HoldOf[r] <= Account!Room
    <3>1. Covers(bal[0], HoldOf[r]) BY <1>1, <2>1, OneRow DEF AccountInv
    <3> QED BY <1>1, <3>1, RoomOfRow
  <2>3. StageOf(r) = "none" /\ StageOf(r)' = "held"
    BY <1>1, <2>1 DEF StageOf, HoldType
  <2>4. stage' = [stage EXCEPT ![r] = "held"]
    BY <1>1, <2>1, <2>3, StageMoves
  <2>5. stage[r] = "none" BY <2>3 DEF stage
  <2>6. UNCHANGED <<credits, spent, made, keys>> BY <1>1 DEF credits, spent, made
  <2> QED
    BY <2>2, <2>4, <2>5, <2>6
    DEF Account!Hold, Account!Move, credits, spent, stage, made
<1> QED BY <1>2, <1>3

\* The end of an active hold: until now its run has paid nothing.
LEMMA HeldUntilNow ==
  ASSUME AccountInv, NEW r \in Runs, HoldIsActive(r)
  PROVE  rows[r] = 0 /\ StageOf(r) = "held" /\ stage[r] = "held"
<1>1. rows[r] \in Nat /\ ~(rows[r] > 0)
  BY DEF AccountInv, CallInv, TypeOK, PayInv, PaidHoldsEnded, HoldIsActive, Ended, Payers
<1>2. StageOf(r) = "held" BY DEF StageOf, HoldIsActive
<1> QED BY <1>1, <1>2 DEF stage

\* A settle that ended its hold settles for at most the estimate.
LEMMA SettleSettles ==
  ASSUME OneMonth, AccountInv, NEW r \in Runs, SettleTx(r)
  PROVE  UNCHANGED Account!vars \/ Account!Settle(r)
<1> DEFINE n == Billable(r, call[r].actual)
<1>1. /\ r \in Procs /\ call[r].run = r /\ HoldOf[r] \in Nat
      /\ n \in Nat /\ n <= HoldOf[r] /\ UNCHANGED keys
      /\ r \notin Charges /\ hold \in [Runs -> HoldType]
      /\ rows \in [Payers \cup Grants -> Nat]
  BY LedgerConstants
  DEF SettleTx, AccountInv, CallInv, TypeOK, CallsFit, Fits, CallType, Procs, Billable
<1>2. CASE ~HoldIsActive(r)
  BY <1>1, <1>2, AccountStands DEF SettleTx
<1>3. CASE HoldIsActive(r)
  <2>1. /\ hold' = [hold EXCEPT ![r].status = "settled"]
        /\ ledger' = [ledger EXCEPT ![month].usage = @ + n]
        /\ rows' = [rows EXCEPT ![r] = @ + 1] \/ UNCHANGED rows
    BY <1>1, <1>3 DEF SettleTx, EndHold
  <2> HIDE DEF n
  <2>2. /\ ledger'[0].usage = ledger[0].usage + n
        /\ ledger'[0].refund = ledger[0].refund
        /\ ledger'[0].supply = ledger[0].supply
    BY <2>1, OneBook DEF BookType, AccountInv
  <2>3. \A q \in Payers : q # r => rows'[q] = rows[q] BY <1>1, <2>1 DEF Payers
  <2>4. StageOf(r)' = "settled" BY <1>1, <2>1 DEF StageOf, HoldType
  <2>5. stage' = [stage EXCEPT ![r] = "settled"]
    BY <1>1, <2>1, <2>3, <2>4, StageMoves DEF Payers
  <2>6. UNCHANGED <<credits, made, keys>>
    BY <1>1, <2>2, <2>3 DEF credits, made, Payers
  <2>7. spent' \in spent .. spent + HoldOf[r]
    BY <1>1, <2>2, OneBook DEF spent, AccountInv
  <2>8. stage[r] = "held" BY <1>3, HeldUntilNow
  <2> QED
    BY <2>5, <2>6, <2>7, <2>8
    DEF Account!Settle, Account!Move, credits, spent, stage, made
<1> QED BY <1>2, <1>3

\* A release or a sweep that ended its hold frees it.
LEMMA ReleaseFrees ==
  ASSUME OneMonth, AccountInv, NEW p \in Runs \cup Sweepers, ReleaseTx(p)
  PROVE  UNCHANGED Account!vars \/ \E r \in Runs : Account!Free(r)
<1>1. UNCHANGED <<ledger, keys, rows>> /\ hold \in [Runs -> HoldType]
  BY DEF ReleaseTx, AccountInv, CallInv, TypeOK
<1>r. PICK r \in Runs : r = call[p].run
  BY LedgerConstants DEF ReleaseTx, AccountInv, CallInv, CallsFit, Fits, Procs
<1>2. CASE ~HoldIsActive(r)
  BY <1>1, <1>2, <1>r, AccountStands DEF ReleaseTx
<1>3. CASE HoldIsActive(r)
  <2>1. PICK status \in {"released", "expired"} : hold' = [hold EXCEPT ![r].status = status]
    BY <1>3, <1>r DEF ReleaseTx, EndHold
  <2>2. hold'[r].status = status /\ rows'[r] = 0
    BY <1>1, <1>3, <2>1, HeldUntilNow DEF HoldType
  <2>3. StageOf(r)' = "freed" BY <2>2 DEF StageOf
  <2>4. stage' = [stage EXCEPT ![r] = "freed"]
    BY <1>1, <2>1, <2>3, StageMoves
  <2>5. UNCHANGED <<credits, spent, made, keys>> BY <1>1 DEF credits, spent, made
  <2>6. stage[r] = "held" BY <1>3, HeldUntilNow
  <2> QED
    BY <2>4, <2>5, <2>6
    DEF Account!Free, Account!Move, credits, spent, stage, made
<1> QED BY <1>2, <1>3

\* A direct charge: a run whose hold is gone pays, within the room there is; a
\* charge is made under its key.
LEMMA ConsumePays ==
  ASSUME OneMonth, AccountInv, NEW p \in Runs \cup Charges, ConsumeTx(p)
  PROVE  \/ UNCHANGED Account!vars
         \/ p \in Runs /\ Account!Pay(p)
         \/ p \in Charges /\ Account!Charge(p)
<1> DEFINE cost == Price(p)
           reached == {m \in RowsSince(call[p].now) : Covers(bal[m], cost)}
<1>1. /\ p \in Procs /\ cost \in Nat /\ UNCHANGED hold
      /\ rows \in [Payers \cup Grants -> Nat] /\ p \in Payers
      /\ call[p].pc = "tx" /\ call[p].op = "consume"
  BY LedgerConstants
  DEF ConsumeTx, Procs, Price, Payers, AccountInv, CallInv, TypeOK, CallType
<1>2. CASE UNCHANGED <<bal, ledger, keys, rows>>
  BY <1>1, <1>2, AccountStands
<1>3. CASE ~UNCHANGED <<bal, ledger, keys, rows>>
  <2>1. /\ ~KeyTaken(ChargeKey(p)) /\ reached # {}
        /\ ledger' = [ledger EXCEPT ![month].usage = @ + cost]
        /\ keys' = keys \cup ({ChargeKey(p)} \ {None})
        /\ rows' = [rows EXCEPT ![p] = @ + 1]
    BY <1>3 DEF ConsumeTx
  <2>2. cost <= Account!Room
    <3>1. Covers(bal[0], cost) BY <1>1, <2>1, OneRow DEF AccountInv
    <3> HIDE DEF cost
    <3> QED BY <1>1, <3>1, RoomOfRow
  <2> HIDE DEF cost, reached
  <2>3. /\ ledger'[0].usage = ledger[0].usage + cost
        /\ ledger'[0].refund = ledger[0].refund
        /\ ledger'[0].supply = ledger[0].supply
    BY <2>1, OneBook DEF BookType, AccountInv
  <2>4. credits' = credits /\ spent' = spent + cost
    BY <1>1, <2>3, OneBook DEF credits, spent, AccountInv
  <2>5. /\ \A q \in Payers : q # p => rows'[q] = rows[q]
        /\ rows'[p] = rows[p] + 1
    BY <1>1, <2>1 DEF Payers
  <2>6. CASE p \in Runs
    <3>1. p \notin Charges /\ ChargeKey(p) = None
      BY <2>6, LedgerConstants DEF ChargeKey
    <3>2. UNCHANGED <<made, keys>> BY <2>1, <2>5, <3>1 DEF made, Payers
    <3>3. hold[p].status \in {"released", "expired"} /\ rows[p] = 0
      BY <1>1, <2>6
      DEF AccountInv, PayInv, FreedBeforePaying, CallInv, BilledOnce
    <3>4. StageOf(p) = "freed" /\ StageOf(p)' = "paid"
      BY <1>1, <2>5, <3>3 DEF StageOf
    <3>5. stage' = [stage EXCEPT ![p] = "paid"]
      BY <1>1, <2>5, <2>6, <3>4, StageMoves DEF Payers
    <3>6. stage[p] = "freed" BY <2>6, <3>4 DEF stage
    <3>7. spent' \in spent .. spent + Account!Room
      BY <1>1, <2>2, <2>4, RoomOfRow
    <3> QED
      BY <2>4, <2>6, <3>2, <3>5, <3>6, <3>7
      DEF Account!Pay, Account!Move, credits, spent, stage, made
  <2>7. CASE p \in Charges
    <3>1. ChargeKey(p) = KeyOf[p] /\ cost = CostOf[p]
      BY <2>7 DEF ChargeKey, cost, Price
    <3>2. KeyOf[p] \notin keys
      BY <2>1, <3>1, LedgerConstants
      DEF KeyTaken, AccountInv, CallInv, TypeOK, Procs
    <3>3. made' = made \cup {p} BY <1>1, <2>5, <2>7 DEF made, Payers
    <3>4. UNCHANGED stage
      <4>1. \A r \in Runs : rows'[r] = rows[r]
        BY <2>5, <2>7, LedgerConstants DEF Payers
      <4>2. \A r \in Runs : StageOf(r)' = StageOf(r) BY <1>1, <4>1 DEF StageOf
      <4> QED BY <4>2 DEF stage
    <3> QED
      BY <2>1, <2>2, <2>4, <2>7, <3>1, <3>2, <3>3, <3>4
      DEF Account!Charge, Account!Apply, credits, spent, stage, made
  <2> QED BY <2>6, <2>7
<1> QED BY <1>2, <1>3

\* A grant that is not a redelivery adds its credits, once per key.
LEMMA GrantGrants ==
  ASSUME OneMonth, AccountInv, NEW g \in Grants, GrantTx(g)
  PROVE  UNCHANGED Account!vars \/ Account!Grant(g)
<1>1. /\ UNCHANGED hold /\ g \notin Payers /\ CreditsOf[g] \in Int
      /\ rows \in [Payers \cup Grants -> Nat]
  BY LedgerConstants DEF GrantTx, Payers, AccountInv, CallInv, TypeOK
<1>2. CASE UNCHANGED <<ledger, keys, rows>>
  BY <1>1, <1>2, AccountStands
<1>3. CASE ~UNCHANGED <<ledger, keys, rows>>
  <2>1. /\ ~KeyTaken(KeyOf[g])
        /\ ledger' = [ledger EXCEPT ![month].supply = @ + CreditsOf[g]]
        /\ keys' = keys \cup ({KeyOf[g]} \ {None})
        /\ rows' = [rows EXCEPT ![g] = @ + 1]
    BY <1>3 DEF GrantTx
  <2>2. KeyOf[g] \notin keys
    BY <2>1, LedgerConstants DEF KeyTaken, AccountInv, CallInv, TypeOK, Procs
  <2>3. /\ ledger'[0].usage = ledger[0].usage
        /\ ledger'[0].refund = ledger[0].refund
        /\ ledger'[0].supply = ledger[0].supply + CreditsOf[g]
    BY <2>1, OneBook DEF BookType, AccountInv
  <2>4. credits' = credits + CreditsOf[g] /\ UNCHANGED spent
    <3>1. ledger[0].supply \in Int /\ Included \in Int
      BY OneBook, LedgerConstants DEF BookType, AccountInv
    <3> QED BY <1>1, <2>3, <3>1 DEF credits, spent
  <2>5. \A q \in Payers : rows'[q] = rows[q] BY <1>1, <2>1
  <2>6. UNCHANGED <<stage, made>>
    <3>1. \A r \in Runs : StageOf(r)' = StageOf(r)
      BY <1>1, <2>5 DEF StageOf, Payers
    <3> QED BY <2>5, <3>1 DEF stage, made, Payers
  <2> QED
    BY <2>1, <2>2, <2>4, <2>6
    DEF Account!Grant, Account!Apply, credits, spent, stage, made
<1> QED BY <1>2, <1>3

\* A refund gives back a charge that was made, once.
LEMMA RefundRefunds ==
  ASSUME OneMonth, AccountInv, NEW c \in Charges, RefundTx(c)
  PROVE  UNCHANGED Account!vars \/ Account!Refund(c)
<1>1. UNCHANGED <<hold, rows>> /\ CostOf[c] \in Nat /\ c # None /\ rows[c] > 0
  BY LedgerConstants DEF RefundTx, Procs, AccountInv, CallInv, RefundsFollow
<1>2. CASE UNCHANGED <<ledger, keys>>
  BY <1>1, <1>2, AccountStands
<1>3. CASE ~UNCHANGED <<ledger, keys>>
  <2>1. /\ c \notin keys
        /\ ledger' = [ledger EXCEPT ![month].refund = @ + CostOf[c]]
        /\ keys' = keys \cup {c}
    BY <1>1, <1>3 DEF RefundTx, KeyTaken
  <2>2. /\ ledger'[0].usage = ledger[0].usage
        /\ ledger'[0].refund = ledger[0].refund + CostOf[c]
        /\ ledger'[0].supply = ledger[0].supply
    BY <2>1, OneBook DEF BookType, AccountInv
  <2>3. UNCHANGED credits /\ spent' = spent - CostOf[c]
    BY <1>1, <2>2, OneBook DEF credits, spent, AccountInv
  <2>4. UNCHANGED <<stage, made>>
    <3>1. \A r \in Runs : StageOf(r)' = StageOf(r) BY <1>1 DEF StageOf
    <3> QED BY <1>1, <3>1 DEF stage, made
  <2>5. c \in made /\ {c} \ {None} = {c} BY <1>1 DEF made
  <2> QED
    BY <2>1, <2>3, <2>4, <2>5
    DEF Account!Refund, Account!Apply, credits, spent, stage, made
<1> QED BY <1>2, <1>3

\* Every step of the ledger is one operation on the account, or none.
LEMMA StepOfAccount ==
  ASSUME OneMonth, AccountInv, [Next]_vars
  PROVE  [Account!Next]_(Account!vars)
<1>1. ASSUME \/ UNCHANGED vars
             \/ \E p \in Procs : GetOrCreateBalance(p) \/ Crash(p)
             \/ \E r \in Runs : StartRun(r) \/ \E actual \in 0..MaxActual : Work(r, actual)
             \/ \E p \in Runs \cup Sweepers : FetchHold(p)
             \/ \E w \in Sweepers, r \in Runs : PickOverdue(w, r)
             \/ \E c \in Charges : StartCharge(c) \/ StartRefund(c)
             \/ \E g \in Grants : StartGrant(g)
             \/ \E v \in Viewers : StartView(v)
             \/ NextMonth,
             ~(\E p \in Procs : LogRollover(p))
      PROVE  UNCHANGED Account!vars
  <2>1. UNCHANGED <<ledger, keys, rows, hold>>
    BY <1>1
    DEF vars, GetOrCreateBalance, ReadSub, RollSub, ProbeRow, AllocateRow, ReadRow, CreateRow,
        StartRun, Work, PickOverdue, FetchHold, StartCharge, StartRefund,
        StartGrant, StartView, Crash, NextMonth, MoneyUnchanged
  <2> QED BY <2>1, AccountStands
<1>2. ASSUME NEW p \in Procs, LogRollover(p) PROVE UNCHANGED Account!vars
  <2>1. /\ UNCHANGED <<keys, rows, hold>>
        /\ ledger' = [ledger EXCEPT ![month].rollover = @ + Included]
    BY <1>2 DEF LogRollover, MoneyUnchanged
  <2>2. /\ ledger'[0].usage = ledger[0].usage
        /\ ledger'[0].refund = ledger[0].refund
        /\ ledger'[0].supply = ledger[0].supply
    BY <2>1, OneBook DEF BookType, AccountInv
  <2>3. UNCHANGED <<credits, spent>> BY <2>2 DEF credits, spent
  <2>4. UNCHANGED <<stage, made>>
    <3>1. \A r \in Runs : StageOf(r)' = StageOf(r) BY <2>1 DEF StageOf
    <3> QED BY <2>1, <3>1 DEF stage, made
  <2> QED BY <2>1, <2>3, <2>4 DEF Account!vars, credits, spent, stage, made
<1>3. ASSUME NEW r \in Runs, HoldExpires(r) PROVE UNCHANGED Account!vars
  <2>1. /\ hold' = [hold EXCEPT ![r].overdue = TRUE] /\ hold \in [Runs -> HoldType]
        /\ UNCHANGED <<ledger, keys, rows>>
    BY <1>3 DEF HoldExpires, AccountInv, CallInv, TypeOK
  <2>2. \A s \in Runs : hold'[s].status = hold[s].status BY <2>1 DEF HoldType
  <2> QED BY <2>1, <2>2, AccountStands
<1>4. ASSUME NEW r \in Runs, StartRun(r) \/ RunStep(r) \/ HoldExpires(r)
      PROVE  [Account!Next]_(Account!vars)
  <2>1. \/ UNCHANGED Account!vars
        \/ Account!Hold(r) \/ Account!Settle(r) \/ Account!Pay(r)
        \/ \E s \in Runs : Account!Free(s)
    BY <1>1, <1>2, <1>3, <1>4, ReserveHolds, SettleSettles, ReleaseFrees, ConsumePays,
       LedgerConstants
    DEF RunStep, Procs
  <2> QED BY <2>1 DEF Account!Next
<1>5. ASSUME NEW w \in Sweepers, SweepStep(w) PROVE [Account!Next]_(Account!vars)
  <2>1. UNCHANGED Account!vars \/ \E s \in Runs : Account!Free(s)
    BY <1>1, <1>2, <1>5, ReleaseFrees DEF SweepStep, Procs
  <2> QED BY <2>1 DEF Account!Next
<1>6. ASSUME NEW c \in Charges, ChargeStep(c) PROVE [Account!Next]_(Account!vars)
  <2>1. \/ UNCHANGED Account!vars
        \/ Account!Charge(c) \/ Account!Refund(c)
    BY <1>1, <1>2, <1>6, ConsumePays, RefundRefunds, LedgerConstants DEF ChargeStep, Procs
  <2> QED BY <2>1 DEF Account!Next
<1>7. ASSUME NEW g \in Grants, GrantStep(g) PROVE [Account!Next]_(Account!vars)
  <2>1. UNCHANGED Account!vars \/ Account!Grant(g)
    BY <1>1, <1>2, <1>7, GrantGrants DEF GrantStep, Procs
  <2> QED BY <2>1 DEF Account!Next
<1>8. ASSUME NEW v \in Viewers, ViewStep(v) PROVE UNCHANGED Account!vars
  BY <1>1, <1>2, <1>8 DEF ViewStep, Procs
<1>9. CASE UNCHANGED vars \/ NextMonth \/ \E p \in Procs : Crash(p)
  <2>1. ~(\E p \in Procs : LogRollover(p)) \/ UNCHANGED Account!vars BY <1>2
  <2> QED BY <1>1, <1>9, <2>1
<1> QED BY <1>4, <1>5, <1>6, <1>7, <1>8, <1>9 DEF Next

\* At first the account holds what the plan includes.
LEMMA InitAccount == ASSUME Init PROVE Account!Init
<1>1. ledger[0] = EmptyBook BY LedgerConstants DEF Init, Months
<1>2. credits = Included /\ spent = 0 BY <1>1, LedgerConstants DEF EmptyBook, credits, spent
<1>3. \A r \in Runs : StageOf(r) = "none" BY DEF Init, StageOf
<1>4. stage = [r \in Runs |-> "none"] BY <1>3 DEF stage
<1>5. made = {} BY DEF Init, made, Payers
<1>6. keys = {} BY DEF Init
<1> QED BY <1>2, <1>4, <1>5, <1>6 DEF Account!Init, credits, spent, stage, made

\* Within a month the calls of credits.ts leave ledger rows as if each were one
\* step on one account, for any number of runs, charges, grants and sweepers.
THEOREM LedgerIsAccount == ASSUME OneMonth PROVE Spec => ImplementsAccount
<1>1. Init => Account!Init BY InitAccount
<1>2. AccountInv /\ [Next]_vars => [Account!Next]_(Account!vars) BY StepOfAccount
<1> QED BY <1>1, <1>2, AccountAlways, PTL DEF Spec, ImplementsAccount, Account!Spec
-----------------------------------------------------------------------------
(* What a run that measured a cost leaves behind, in any month *)

\* The run came to its end, measured a cost and had reserved something, and no
\* ledger row bills it.
Unbilled(r) == call[r].pc = "done" /\ call[r].actual > 0 /\ HoldOf[r] > 0 /\ rows[r] = 0

\* A cost is measured once the hold is there.  A run settles what it measured,
\* and releases only when it measured nothing; the settlement writes the row.
BillFollows(r) ==
  /\ call[r].op = "settle" => call[r].actual > 0
  /\ call[r].actual > 0 =>
       /\ call[r].pc = "done" \/ call[r].op \in {"settle", "consume"}
       /\ hold[r].status \in {"active", "settled", "expired"}
  /\ hold[r].status = "settled" => call[r].pc = "done" /\ (HoldOf[r] > 0 => rows[r] > 0)
  /\ call[r].pc = "work" => call[r].op = "reserve" /\ hold[r].status \in {"active", "expired"}
  /\ Unbilled(r) => hold[r].status = "expired"

BillInv == \A r \in Runs : BillFollows(r)

\* The whole of a run's call after each of its moves.
LEMMA CallOfRun ==
  ASSUME CallInv, NEW r \in Runs
  PROVE  /\ call[r] \in CallType /\ hold[r] \in HoldType /\ rows[r] \in Nat /\ HoldOf[r] \in Nat
         /\ r \notin Charges \cup Sweepers /\ r \in Procs
         /\ call[r].pc # "off" => call[r].run = r
         /\ \A pc : Goto(r, pc) =>
              call'[r].pc = pc /\ call'[r].op = call[r].op /\ call'[r].actual = call[r].actual
         /\ Finish(r) =>
              call'[r].pc = "done" /\ call'[r].op = "none" /\ call'[r].actual = call[r].actual
         /\ \A op, s, n : Open(r, op, s, n) =>
              call'[r].pc = "sub" /\ call'[r].op = op /\ call'[r].actual = n
<1>1. /\ call \in [Procs -> CallType] /\ r \in Procs /\ call[r] \in CallType
      /\ Fits(r, call[r]) /\ hold[r] \in HoldType /\ rows[r] \in Nat
  BY DEF CallInv, TypeOK, CallsFit, Procs, Payers
<1>2. HoldOf[r] \in Nat /\ r \notin Charges \cup Sweepers BY LedgerConstants
<1>3. ASSUME NEW pc, Goto(r, pc)
      PROVE  call'[r].pc = pc /\ call'[r].op = call[r].op /\ call'[r].actual = call[r].actual
  <2>1. call'[r] = [call[r] EXCEPT !.pc = pc] BY <1>1, <1>3 DEF Goto
  <2> QED BY <1>1, <2>1 DEF CallType
<1>4. ASSUME Finish(r)
      PROVE  call'[r].pc = "done" /\ call'[r].op = "none" /\ call'[r].actual = call[r].actual
  <2>1. call'[r] = [call[r] EXCEPT !.pc = "done", !.op = "none"]
    BY <1>1, <1>4 DEF Finish, Rest
  <2> QED BY <1>1, <2>1 DEF CallType
<1>5. ASSUME NEW op, NEW s, NEW n, Open(r, op, s, n)
      PROVE  call'[r].pc = "sub" /\ call'[r].op = op /\ call'[r].actual = n
  BY <1>1, <1>5 DEF Open
<1> QED BY <1>1, <1>2, <1>3, <1>4, <1>5 DEF Fits

\* To another process's run, the others do one thing only: the sweep.
LEMMA OthersKeepBill ==
  ASSUME CallInv, NEW r \in Runs, BillFollows(r),
         call'[r] = call[r], rows'[r] = rows[r],
         \/ hold'[r].status = hold[r].status
         \/ hold[r].status = "active" /\ hold'[r].status = "expired"
  PROVE  BillFollows(r)'
BY DEF BillFollows, Unbilled

\* The transactions that end a hold, seen from run r.
LEMMA HoldsOfOthers ==
  ASSUME CallInv, NEW r \in Runs, NEW p \in Procs, p # r,
         \/ p \in Runs /\ (ReserveTx(p) \/ SettleTx(p) \/ HoldExpires(p))
         \/ p \in Runs \cup Sweepers /\ ReleaseTx(p)
  PROVE  \/ hold'[r].status = hold[r].status
         \/ hold[r].status = "active" /\ hold'[r].status = "expired"
<1>0. hold \in [Runs -> HoldType] /\ Fits(p, call[p]) BY DEF CallInv, TypeOK, CallsFit
<1>1. CASE p \in Runs /\ (ReserveTx(p) \/ HoldExpires(p))
  BY <1>0, <1>1 DEF ReserveTx, HoldExpires
<1>2. CASE p \in Runs /\ SettleTx(p)
  <2>1. call[p].run = p BY <1>0, <1>2 DEF SettleTx, Fits
  <2> QED BY <1>0, <1>2, <2>1 DEF SettleTx, EndHold
<1>3. CASE p \in Runs /\ ReleaseTx(p)
  <2>1. call[p].run = p BY <1>0, <1>3 DEF ReleaseTx, Fits
  <2> QED BY <1>0, <1>3, <2>1 DEF ReleaseTx, EndHold
<1>4. CASE p \in Sweepers /\ ReleaseTx(p)
  <2>1. \/ UNCHANGED hold
        \/ /\ hold[call[p].run].status = "active"
           /\ hold' = [hold EXCEPT ![call[p].run].status = "expired"]
    BY <1>4 DEF ReleaseTx, EndHold, HoldIsActive
  <2> QED BY <1>0, <2>1 DEF HoldType
<1> QED BY <1>1, <1>2, <1>3, <1>4

\* Whatever process p does, run r's bill follows, for r another process.
LEMMA OtherSteps ==
  ASSUME CallInv, NEW r \in Runs, BillFollows(r), NEW p \in Procs, p # r,
         \/ p \in Runs /\ (StartRun(p) \/ RunStep(p) \/ HoldExpires(p))
         \/ p \in Sweepers /\ SweepStep(p)
         \/ p \in Charges /\ ChargeStep(p)
         \/ p \in Grants /\ GrantStep(p)
         \/ p \in Viewers /\ ViewStep(p)
         \/ Crash(p)
  PROVE  BillFollows(r)'
<1>0. /\ call \in [Procs -> CallType] /\ r \in Procs
      /\ rows \in [Payers \cup Grants -> Nat] /\ r \in Payers \cup Grants
  BY DEF CallInv, TypeOK, Procs, Payers
<1>1. ASSUME NEW q, Judge(p, q) \/ Refuse(p) PROVE call'[r] = call[r]
  BY <1>0, <1>1 DEF Judge, Refuse, Goto, Finish
<1>2. ASSUME GetOrCreateBalance(p) PROVE call'[r] = call[r] /\ UNCHANGED <<hold, rows>>
  <2>1. \/ \E pc : Goto(p, pc)
        \/ \E q : Judge(p, q)
    BY <1>2
    DEF GetOrCreateBalance, ReadSub, RollSub, ProbeRow, AllocateRow, LogRollover, ReadRow, CreateRow
  <2>2. UNCHANGED <<hold, rows>>
    BY <1>2
    DEF GetOrCreateBalance, ReadSub, RollSub, ProbeRow, AllocateRow, LogRollover, ReadRow,
        CreateRow, MoneyUnchanged
  <2> QED BY <1>0, <1>1, <2>1, <2>2 DEF Goto
<1>3. call'[r] = call[r]
  <2>1. CASE \/ ReserveTx(p) \/ SettleTx(p) \/ ReleaseTx(p) \/ ConsumeTx(p) \/ GrantTx(p)
             \/ RefundTx(p) \/ FetchHold(p)
    BY <1>0, <1>1, <2>1
    DEF ReserveTx, SettleTx, ReleaseTx, ConsumeTx, GrantTx, RefundTx, FetchHold,
        AfterDuplicate, Goto, Finish, Open
  <2>2. CASE \/ StartRun(p) \/ StartCharge(p) \/ StartRefund(p) \/ StartGrant(p) \/ StartView(p)
             \/ (\E actual \in 0..MaxActual : Work(p, actual))
             \/ (\E s \in Runs : PickOverdue(p, s))
             \/ HoldExpires(p) \/ Crash(p)
    BY <1>0, <2>2
    DEF StartRun, StartCharge, StartRefund, StartGrant, StartView, Work, PickOverdue,
        HoldExpires, Crash, Open, Goto
  <2> QED
    BY <1>2, <2>1, <2>2 DEF RunStep, SweepStep, ChargeStep, GrantStep, ViewStep
<1>4. rows'[r] = rows[r]
  <2>1. UNCHANGED rows \/ rows' = [rows EXCEPT ![p] = @ + 1]
    BY <1>2
    DEF RunStep, SweepStep, ChargeStep, GrantStep, ViewStep, ReserveTx, SettleTx, ReleaseTx,
        ConsumeTx, GrantTx, RefundTx, FetchHold, StartRun, StartCharge, StartRefund, StartGrant,
        StartView, Work, PickOverdue, HoldExpires, Crash, MoneyUnchanged
  <2> QED BY <1>0, <2>1
<1>5. \/ UNCHANGED hold
      \/ p \in Runs /\ (ReserveTx(p) \/ SettleTx(p) \/ HoldExpires(p))
      \/ p \in Runs \cup Sweepers /\ ReleaseTx(p)
  BY <1>2
  DEF RunStep, SweepStep, ChargeStep, GrantStep, ViewStep, ConsumeTx, GrantTx, RefundTx,
      FetchHold, StartRun, StartCharge, StartRefund, StartGrant, StartView, Work, PickOverdue,
      Crash, MoneyUnchanged
<1> QED BY <1>3, <1>4, <1>5, HoldsOfOthers, OthersKeepBill
\* Reading the balance changes neither hold nor row, and a run that is turned
\* away there has measured nothing, or says so.
LEMMA BalanceKeepsBill ==
  ASSUME CallInv, NEW r \in Runs, BillFollows(r),
         call[r].pc \notin {"off", "done", "work", "crashed"},
         UNCHANGED <<hold, rows>>,
         \/ \E pc \in Pcs \ {"done", "work"} : Goto(r, pc)
         \/ \E row : Judge(r, row)
         \/ Refuse(r) /\ call[r].op \in {"reserve", "consume"}
  PROVE  BillFollows(r)'
<1>1. ASSUME NEW pc \in Pcs \ {"done", "work"}, Goto(r, pc) PROVE BillFollows(r)'
  BY <1>1, CallOfRun DEF BillFollows, Unbilled
<1>2. ASSUME Finish(r), call[r].op \notin {"settle", "consume"} PROVE BillFollows(r)'
  BY <1>2, CallOfRun DEF BillFollows, Unbilled, CallType
<1>3. ASSUME Refuse(r), call[r].op \in {"reserve", "consume"} PROVE BillFollows(r)'
  BY <1>1, <1>2, <1>3 DEF Refuse, Pcs
<1>4. ASSUME NEW row, Judge(r, row) PROVE BillFollows(r)'
  <2>1. \/ Refuse(r) /\ call[r].op \in {"reserve", "consume"}
        \/ Goto(r, "tx")
        \/ Finish(r) /\ call[r].op \notin {"settle", "consume"}
    BY <1>4 DEF Judge
  <2> QED BY <1>1, <1>2, <1>3, <2>1 DEF Pcs
<1> QED BY <1>1, <1>3, <1>4

\* A settlement that finds its hold ended finds it swept: what it measured is
\* not billed, and nothing else has this effect.
LEMMA SettleKeepsBill ==
  ASSUME CallInv, NEW r \in Runs, BillFollows(r), SettleTx(r)
  PROVE  BillFollows(r)'
<1>1. /\ call[r].run = r /\ call[r].pc = "tx" /\ call[r].op = "settle"
      /\ call[r].actual > 0 /\ call[r].actual \in Nat
      /\ hold[r].status \in {"active", "expired"}
  BY CallOfRun DEF SettleTx, BillFollows, CallType
<1>2. CASE HoldIsActive(r)
  <2>1. /\ hold' = [hold EXCEPT ![r].status = "settled"]
        /\ rows' = IF Billable(r, call[r].actual) > 0 THEN [rows EXCEPT ![r] = @ + 1] ELSE rows
        /\ Finish(r)
    BY <1>1, <1>2 DEF SettleTx, EndHold
  <2>2. hold'[r].status = "settled" BY <2>1 DEF CallInv, TypeOK, HoldType
  <2>3. HoldOf[r] > 0 => Billable(r, call[r].actual) > 0 BY <1>1, CallOfRun DEF Billable
  <2>4. HoldOf[r] > 0 => rows'[r] > 0
    BY <2>1, <2>3, CallOfRun DEF CallInv, TypeOK, Payers
  <2> QED BY <2>1, <2>2, <2>4, CallOfRun DEF BillFollows, Unbilled
<1>3. CASE ~HoldIsActive(r)
  <2>1. Finish(r) /\ UNCHANGED <<hold, rows>> BY <1>1, <1>3 DEF SettleTx, AfterDuplicate
  <2>2. hold[r].status = "expired" BY <1>1, <1>3 DEF HoldIsActive
  <2> QED BY <2>1, <2>2, CallOfRun DEF BillFollows, Unbilled
<1> QED BY <1>2, <1>3

\* The steps of the run itself.
LEMMA OwnSteps ==
  ASSUME CallInv, NEW r \in Runs, BillFollows(r),
         StartRun(r) \/ RunStep(r) \/ HoldExpires(r) \/ Crash(r)
  PROVE  BillFollows(r)'
<1>1. CASE StartRun(r)
  <2>1. call[r].pc = "off" /\ Open(r, "reserve", r, 0) /\ UNCHANGED <<hold, rows>>
    BY <1>1 DEF StartRun, MoneyUnchanged
  <2>2. hold[r].status = "none" BY <2>1 DEF CallInv, HoldComesOnce, Early
  <2> QED BY <2>1, <2>2, CallOfRun DEF BillFollows, Unbilled
<1>2. CASE GetOrCreateBalance(r)
  <2>1. /\ call[r].pc \in {"sub", "roll", "probe", "allocate", "log", "read", "create"}
        /\ UNCHANGED <<hold, rows>>
        /\ \/ \E pc \in Pcs \ {"done", "work"} : Goto(r, pc)
           \/ \E row : Judge(r, row)
    BY <1>2
    DEF GetOrCreateBalance, ReadSub, RollSub, ProbeRow, AllocateRow, LogRollover, ReadRow,
        CreateRow, MoneyUnchanged, Pcs
  <2> QED BY <2>1, BalanceKeepsBill
<1>3. CASE ReserveTx(r)
  <2>1. hold[r].status = "none" /\ call[r].actual = 0
    BY <1>3, CallOfRun DEF ReserveTx, CallInv, HoldComesOnce, Early, BillFollows, CallType
  <2>2. CASE Refuse(r) /\ UNCHANGED hold
    BY <1>3, <2>2, BalanceKeepsBill DEF ReserveTx
  <2>3. CASE Goto(r, "work") /\ hold' = [hold EXCEPT ![r].status = "active"]
    <3>1. hold'[r].status = "active" BY <2>3 DEF CallInv, TypeOK, HoldType
    <3> QED BY <1>3, <2>1, <2>3, <3>1, CallOfRun DEF ReserveTx, BillFollows, Unbilled
  <2> QED BY <1>3, <2>2, <2>3 DEF ReserveTx
<1>4. ASSUME NEW actual \in 0..MaxActual, Work(r, actual) PROVE BillFollows(r)'
  <2>1. /\ call'[r].pc = "fetch" /\ call'[r].actual = actual
        /\ call'[r].op = IF actual > 0 THEN "settle" ELSE "release"
        /\ call[r].pc = "work" /\ UNCHANGED <<hold, rows>>
    BY <1>4, CallOfRun DEF Work, MoneyUnchanged, CallInv, TypeOK, CallType
  <2>2. hold[r].status \in {"active", "expired"} BY <2>1 DEF BillFollows
  <2> QED BY <2>1, <2>2 DEF BillFollows, Unbilled
<1>5. CASE FetchHold(r)
  <2>1. /\ call[r].run = r /\ call[r].pc = "fetch" /\ UNCHANGED <<hold, rows>>
        /\ call[r].op \in {"settle", "release"}
    BY <1>5, CallOfRun DEF FetchHold, MoneyUnchanged, CallInv, CallsFit, Fits
  <2>2. CASE Open(r, call[r].op, r, call[r].actual)
    BY <2>1, <2>2, CallOfRun DEF BillFollows, Unbilled
  <2>3. CASE call[r].op = "settle" /\ Open(r, "consume", r, call[r].actual)
    BY <2>1, <2>3, CallOfRun DEF BillFollows, Unbilled
  <2>4. CASE Finish(r) /\ hold[r].status # "active" /\
             ~(call[r].op = "settle" /\ hold[r].status \in {"released", "expired"})
    <3>1. call[r].actual = 0 /\ hold[r].status # "settled"
      BY <2>1, <2>4, CallOfRun DEF BillFollows, CallType
    <3> QED BY <2>1, <2>4, <3>1, CallOfRun DEF BillFollows, Unbilled
  <2> QED BY <1>5, <2>1, <2>2, <2>3, <2>4 DEF FetchHold, AfterDuplicate
<1>6. CASE ReleaseTx(r)
  <2>1. /\ call[r].run = r /\ call[r].pc = "tx" /\ call[r].op = "release"
        /\ Finish(r) /\ UNCHANGED rows /\ call[r].actual = 0
    BY <1>6, CallOfRun DEF ReleaseTx, BillFollows, CallType
  <2>2. UNCHANGED hold \/ hold' = [hold EXCEPT ![r].status = "released"]
    BY <1>6, <2>1, CallOfRun DEF ReleaseTx, EndHold
  <2>3. hold[r].status # "settled" BY <2>1 DEF BillFollows
  <2>4. hold'[r].status # "settled"
    <3>1. CASE UNCHANGED hold BY <2>3, <3>1
    <3>2. CASE hold' = [hold EXCEPT ![r].status = "released"]
      BY <3>2 DEF CallInv, TypeOK, HoldType
    <3> QED BY <2>2, <3>1, <3>2
  <2> QED BY <2>1, <2>4, CallOfRun DEF BillFollows, Unbilled
<1>7. CASE ConsumeTx(r)
  <2>1. /\ call[r].pc = "tx" /\ UNCHANGED hold
        /\ ~KeyTaken(ChargeKey(r))
    BY <1>7, CallOfRun DEF ConsumeTx, ChargeKey, KeyTaken
  <2>2. CASE Refuse(r) /\ UNCHANGED rows
    BY <1>7, <2>1, <2>2, BalanceKeepsBill DEF ConsumeTx
  <2>3. CASE Finish(r) /\ rows' = [rows EXCEPT ![r] = @ + 1]
    <3>1. rows'[r] > 0 BY <2>3, CallOfRun DEF CallInv, TypeOK, Payers
    <3> QED BY <2>1, <2>3, <3>1, CallOfRun DEF BillFollows, Unbilled
  <2> QED BY <1>7, <2>1, <2>2, <2>3 DEF ConsumeTx
<1>8. CASE Crash(r)
  <2>1. call[r].pc # "done" /\ Goto(r, "crashed") /\ UNCHANGED <<hold, rows>>
    BY <1>8 DEF Crash
  <2> QED BY <2>1, CallOfRun DEF BillFollows, Unbilled
<1>9. CASE HoldExpires(r)
  <2>1. UNCHANGED <<call, rows>> /\ hold' = [hold EXCEPT ![r].overdue = TRUE]
    BY <1>9 DEF HoldExpires
  <2>2. hold'[r] = [hold[r] EXCEPT !.overdue = TRUE] BY <2>1 DEF CallInv, TypeOK
  <2>3. hold'[r].status = hold[r].status BY <2>2, CallOfRun DEF HoldType
  <2>4. call'[r] = call[r] /\ rows'[r] = rows[r] BY <2>1
  <2> QED BY <2>3, <2>4, OthersKeepBill
<1>a. CASE RunStep(r) BY <1>2, <1>3, <1>4, <1>5, <1>6, <1>7, SettleKeepsBill, <1>a DEF RunStep
<1> QED BY <1>1, <1>8, <1>9, <1>a

\* Every bill follows in every reachable state.
LEMMA BillAlways == Spec => []BillInv
<1>1. Init => BillInv
  <2> SUFFICES ASSUME Init, NEW r \in Runs PROVE BillFollows(r) BY DEF BillInv
  <2>1. call[r] = Idle /\ hold[r].status = "none" BY DEF Init, Procs
  <2> QED BY <2>1 DEF BillFollows, Unbilled, Idle
<1>2. CallInv /\ BillInv /\ [Next]_vars => BillInv'
  <2> SUFFICES ASSUME CallInv, BillInv, [Next]_vars, NEW r \in Runs PROVE BillFollows(r)'
    BY DEF BillInv
  <2>0. BillFollows(r) BY DEF BillInv
  <2>1. CASE UNCHANGED <<call, hold, rows>> BY <2>0, <2>1 DEF BillFollows, Unbilled
  <2>2. CASE StartRun(r) \/ RunStep(r) \/ HoldExpires(r) \/ Crash(r) BY <2>0, <2>2, OwnSteps
  <2>3. CASE \E p \in Procs : Crash(p) BY <2>0, <2>2, <2>3, OtherSteps
  <2>4. CASE \E p \in Runs : StartRun(p) \/ RunStep(p) \/ HoldExpires(p)
    BY <2>0, <2>2, <2>4, OtherSteps DEF Procs
  <2>5. CASE \E p \in Sweepers : SweepStep(p)
    BY <2>0, <2>5, OtherSteps, LedgerConstants DEF Procs
  <2>6. CASE \E p \in Charges : ChargeStep(p)
    BY <2>0, <2>6, OtherSteps, LedgerConstants DEF Procs
  <2>7. CASE \E p \in Grants : GrantStep(p)
    BY <2>0, <2>7, OtherSteps, LedgerConstants DEF Procs
  <2>8. CASE \E p \in Viewers : ViewStep(p)
    BY <2>0, <2>8, OtherSteps, LedgerConstants DEF Procs
  <2> QED BY <2>1, <2>3, <2>4, <2>5, <2>6, <2>7, <2>8 DEF Next, NextMonth, vars
<1> QED BY <1>1, <1>2, CallsAlways, PTL DEF Spec

\* The one way to work for nothing: a run that measured a cost, had reserved
\* something and finished, and has no ledger row, had its hold swept.  (The sweep
\* came between the settlement's read and its claim, credits.ts:1059-1076.)
THEOREM OnlyTheSweepUnbills ==
  Spec => [](\A r \in Runs : Unbilled(r) => hold[r].status = "expired")
<1>1. BillInv => \A r \in Runs : Unbilled(r) => hold[r].status = "expired"
  BY DEF BillInv, BillFollows
<1> QED BY <1>1, BillAlways, PTL
-----------------------------------------------------------------------------
(* What a hold leaves on the current row, in any month *)

\* The column reserved_credits of the current month's row (and of any later
\* one) never holds more than the active reservations: whatever the month in
\* which a hold was taken, its end frees it there.
NoPhantomHolds == \A m \in Months : m >= month => bal[m].reserved <= Held

\* No call has a time that is still to come, and an absent row reserves nothing.
NowIsPast == \A p \in Procs : call[p].now <= month
AbsentHoldsNothing == \A m \in Months : ~bal[m].exists => bal[m].reserved = 0

PhantomInv ==
  /\ IsFiniteSet(HeldCredits(ActiveHolds))
  /\ NowIsPast
  /\ AbsentHoldsNothing
  /\ NoPhantomHolds

\* The time of a call is the one it had, or that of the step.
LEMMA NowAfter ==
  ASSUME CallInv, NEW p \in Procs, Steps(p)
  PROVE  call'[p].now \in {call[p].now, month}
<1>1. call \in [Procs -> CallType] /\ call[p] \in CallType BY DEF CallInv, TypeOK
<1>2. ASSUME NEW pc, Goto(p, pc) PROVE call'[p].now = call[p].now
  <2>1. call'[p] = [call[p] EXCEPT !.pc = pc] BY <1>1, <1>2 DEF Goto
  <2> QED BY <1>1, <2>1 DEF CallType
<1>3. ASSUME Finish(p) PROVE call'[p].now = call[p].now
  <2>1. call'[p] = [call[p] EXCEPT !.pc = Rest(p), !.op = "none"] BY <1>1, <1>3 DEF Finish
  <2> QED BY <1>1, <2>1 DEF CallType
<1>4. ASSUME NEW op, NEW r, NEW n, Open(p, op, r, n) PROVE call'[p].now = month
  BY <1>1, <1>4 DEF Open
<1> QED BY <1>2, <1>3, <1>4 DEF Steps

\* Reading the balance is a step of the call that reads.
LEMMA BalanceSteps ==
  ASSUME CallInv, NEW p \in Procs, GetOrCreateBalance(p)
  PROVE  Steps(p)
<1>1. \/ \E pc \in {"roll", "read", "probe", "allocate", "log", "create"} : Goto(p, pc)
      \/ \E row : Judge(p, row)
  BY DEF GetOrCreateBalance, ReadSub, RollSub, ProbeRow, AllocateRow, LogRollover, ReadRow, CreateRow
<1> QED BY <1>1, JudgeSteps DEF Steps, Pcs

\* Time goes forward only.
LEMMA NowStaysPast ==
  ASSUME CallInv, NowIsPast, [Next]_vars
  PROVE  NowIsPast'
<1>0. /\ call \in [Procs -> CallType] /\ month \in Int
      /\ \A p \in Procs : call[p].now \in Int /\ call[p].now <= month
  BY DEF CallInv, TypeOK, CallType, Months, NowIsPast
<1>1. ASSUME NEW p \in Procs, Steps(p), UNCHANGED month PROVE NowIsPast'
  BY <1>0, <1>1, NowAfter, CallAfter DEF NowIsPast
<1>2. ASSUME NEW r \in Runs, NEW actual \in 0..MaxActual, Work(r, actual) PROVE NowIsPast'
  <2>1. /\ call'[r].now = call[r].now /\ UNCHANGED month /\ r \in Procs
        /\ \A q \in Procs : q # r => call'[q] = call[q]
    BY <1>0, <1>2 DEF Work, CallType, Procs
  <2> QED BY <1>0, <2>1 DEF NowIsPast
<1>3. ASSUME NEW w \in Sweepers, NEW r \in Runs, PickOverdue(w, r) PROVE NowIsPast'
  <2>1. /\ call'[w].now = call[w].now /\ UNCHANGED month /\ w \in Procs
        /\ \A q \in Procs : q # w => call'[q] = call[q]
    BY <1>0, <1>3 DEF PickOverdue, CallType, Procs
  <2> QED BY <1>0, <2>1 DEF NowIsPast
<1>4. ASSUME NEW p \in Procs, GetOrCreateBalance(p) PROVE NowIsPast'
  BY <1>1, <1>4, BalanceSteps
  DEF GetOrCreateBalance, ReadSub, RollSub, ProbeRow, AllocateRow, LogRollover, ReadRow, CreateRow
<1>5. ASSUME NEW p \in Runs \cup Sweepers, FetchHold(p) PROVE NowIsPast'
  <2>1. p \in Procs /\ Fits(p, call[p]) /\ call[p].pc = "fetch" /\ UNCHANGED month
    BY <1>5 DEF FetchHold, CallInv, CallsFit, Procs
  <2>2. call[p].op \in Ops BY <2>1 DEF Fits, Ops
  <2>3. Steps(p) BY <1>5, <2>2 DEF FetchHold, AfterDuplicate, Steps, Ops
  <2> QED BY <1>1, <2>1, <2>3
<1>6. ASSUME NEW p \in Procs,
             \/ ReserveTx(p) \/ SettleTx(p) \/ ReleaseTx(p) \/ ConsumeTx(p)
             \/ GrantTx(p) \/ RefundTx(p)
      PROVE  NowIsPast'
  <2>1. /\ UNCHANGED month
        /\ \/ Finish(p) \/ Refuse(p) \/ Goto(p, "work")
           \/ Open(p, "consume", call[p].run, call[p].actual)
    BY <1>6 DEF ReserveTx, SettleTx, ReleaseTx, ConsumeTx, GrantTx, RefundTx, AfterDuplicate
  <2>2. Steps(p) BY <2>1, JudgeSteps DEF Steps, Pcs, Ops
  <2> QED BY <1>1, <2>1, <2>2
<1>7. ASSUME NEW p \in Procs,
             \/ StartRun(p) \/ StartCharge(p) \/ StartRefund(p) \/ StartGrant(p)
             \/ StartView(p) \/ Crash(p)
      PROVE  NowIsPast'
  BY <1>1, <1>7
  DEF StartRun, StartCharge, StartRefund, StartGrant, StartView, Crash, Rest, Steps, Pcs, Ops
<1>8. CASE UNCHANGED vars \/ NextMonth \/ \E r \in Runs : HoldExpires(r)
  <2>1. UNCHANGED call /\ month' \in {month, month + 1}
    BY <1>8 DEF vars, NextMonth, HoldExpires
  <2> QED BY <1>0, <2>1 DEF NowIsPast
<1> QED
  BY <1>2, <1>3, <1>4, <1>5, <1>6, <1>7, <1>8
  DEF Next, RunStep, SweepStep, ChargeStep, GrantStep, ViewStep, Procs

\* Steps that leave holds and the reserved column alone.
LEMMA PhantomFrame ==
  ASSUME CallInv, PhantomInv, [Next]_vars, ActiveHolds' = ActiveHolds,
         \A m \in Months : /\ bal'[m].reserved = bal[m].reserved
                           /\ bal[m].exists => bal'[m].exists
  PROVE  PhantomInv'
<1>1. month \in Int /\ month' \in Int /\ month' >= month
  <2>1. month \in Int BY DEF CallInv, TypeOK, Months
  <2>2. ASSUME NEW p, GetOrCreateBalance(p) PROVE UNCHANGED month
    BY <2>2
    DEF GetOrCreateBalance, ReadSub, RollSub, ProbeRow, AllocateRow, LogRollover, ReadRow, CreateRow
  <2>3. UNCHANGED month \/ NextMonth
    BY <2>2
    DEF Next, vars, RunStep, SweepStep, ChargeStep, GrantStep, ViewStep, StartRun, StartCharge,
        StartRefund, StartGrant, StartView, Crash, HoldExpires, ReserveTx, SettleTx, ReleaseTx,
        ConsumeTx, GrantTx, RefundTx, FetchHold, Work, PickOverdue
  <2> QED BY <2>1, <2>3 DEF NextMonth
<1>2. HeldCredits(ActiveHolds)' = HeldCredits(ActiveHolds) BY DEF HeldCredits
<1>3. NowIsPast' BY NowStaysPast DEF PhantomInv
<1>4. AbsentHoldsNothing' BY DEF PhantomInv, AbsentHoldsNothing
<1>5. NoPhantomHolds' BY <1>1, <1>2 DEF PhantomInv, NoPhantomHolds, Held, Months
<1> QED BY <1>2, <1>3, <1>4, <1>5 DEF PhantomInv

\* A reservation adds its estimate to some rows, and to what is held.
LEMMA ReserveKeepsPhantom ==
  ASSUME CallInv, PhantomInv, NEW r \in Runs, ReserveTx(r), [Next]_vars
  PROVE  PhantomInv'
<1> DEFINE e == HoldOf[r]
           reached == {m \in RowsSince(call[r].now) : Covers(bal[m], e)}
<1>1. /\ r \in Procs /\ e \in Nat /\ hold[r].status = "none" /\ hold \in [Runs -> HoldType]
      /\ \A m \in Months : bal[m] \in RowType
  BY LedgerConstants DEF ReserveTx, Procs, CallInv, TypeOK, HoldComesOnce, Early
<1>2. CASE UNCHANGED <<bal, hold>>
  BY <1>2, PhantomFrame DEF ActiveHolds
<1>3. CASE ~UNCHANGED <<bal, hold>>
  <2>1. /\ bal' = [m \in Months |-> IF m \in reached
                                  THEN [bal[m] EXCEPT !.reserved = @ + e] ELSE bal[m]]
        /\ hold' = [hold EXCEPT ![r].status = "active"]
        /\ UNCHANGED month
    BY <1>3 DEF ReserveTx
  <2>2. \A m \in Months : m \in reached => bal[m].exists BY DEF RowsSince
  <2> HIDE DEF e, reached
  <2>3. ASSUME NEW m \in Months
        PROVE  /\ bal'[m].exists = bal[m].exists
               /\ bal'[m].reserved \in {bal[m].reserved, bal[m].reserved + e}
               /\ ~bal[m].exists => bal'[m].reserved = bal[m].reserved
    BY <1>1, <2>1, <2>2 DEF RowType
  <2>4. ActiveHolds' = ActiveHolds \cup {r} /\ r \notin ActiveHolds
    BY <1>1, <2>1 DEF ActiveHolds, HoldType
  <2>5. /\ IsFiniteSet(HeldCredits(ActiveHolds \cup {r}))
        /\ Cardinality(HeldCredits(ActiveHolds \cup {r})) = Held + e
    BY <1>1, <2>4, UnitsAdd, HeldUnits DEF PhantomInv, Held, e
  <2>6. HeldCredits(ActiveHolds)' = HeldCredits(ActiveHolds \cup {r})
    BY <2>4 DEF HeldCredits
  <2>7. Held' = Held + e /\ Held \in Nat
    BY <2>5, <2>6, FS_CardinalityType DEF Held, PhantomInv
  <2>8. AbsentHoldsNothing' BY <2>3 DEF PhantomInv, AbsentHoldsNothing
  <2>9. NoPhantomHolds'
    BY <1>1, <2>1, <2>3, <2>7 DEF PhantomInv, NoPhantomHolds, RowType
  <2> QED BY <2>5, <2>6, <2>8, <2>9, NowStaysPast DEF PhantomInv
<1> QED BY <1>2, <1>3

\* The end of a hold reaches every row from its own time on, so the current one:
\* there the estimate comes off, down to zero at most.
LEMMA EndHoldKeepsPhantom ==
  ASSUME CallInv, PhantomInv, [Next]_vars, NEW p \in Procs, call[p].run \in Runs,
         HoldIsActive(call[p].run), NEW status \in Ended, NEW n, UNCHANGED month,
         EndHold(p, status, n)
  PROVE  PhantomInv'
<1> DEFINE r == call[p].run
           e == HoldOf[r]
           rest == Cardinality(HeldCredits(ActiveHolds \ {r}))
<1>0. /\ \A m \in Months : bal[m] \in RowType /\ m \in Int
      /\ month \in Int /\ call[p].now \in Int /\ call[p].now <= month
  BY DEF CallInv, TypeOK, CallType, Months, PhantomInv, NowIsPast
<1>1. /\ r \in Runs /\ r \in ActiveHolds /\ e \in Nat /\ hold \in [Runs -> HoldType]
      /\ hold' = [hold EXCEPT ![r].status = status]
  BY LedgerConstants DEF ActiveHolds, HoldIsActive, CallInv, TypeOK, EndHold
<1>2. /\ IsFiniteSet(HeldCredits(ActiveHolds \ {r})) /\ Held = rest + e
  BY <1>1, UnitsDrop, HeldUnits DEF PhantomInv, Held
<1>3. rest \in Nat BY <1>2, FS_CardinalityType
<1>4. ASSUME NEW m \in Months
      PROVE  /\ bal'[m].exists = bal[m].exists
             /\ bal'[m].reserved = IF m \in RowsSince(call[p].now)
                                   THEN Floor(bal[m].reserved - e) ELSE bal[m].reserved
  <2>1. bal'[m] = IF m \in RowsSince(call[p].now)
                  THEN EndHoldInRow(bal[m], e, n) ELSE bal[m]
    BY DEF EndHold
  <2> HIDE DEF r, e
  <2>2. \A u, v : LET row == [bal[m] EXCEPT !.used = u, !.reserved = v] IN
                  row.exists = bal[m].exists /\ row.reserved = v
    BY <1>0 DEF RowType
  <2> QED BY <2>1, <2>2 DEF EndHoldInRow
<1> HIDE DEF r, e, rest
<1>5. ActiveHolds' = ActiveHolds \ {r} BY <1>1 DEF ActiveHolds, Ended, HoldType
<1>6. HeldCredits(ActiveHolds)' = HeldCredits(ActiveHolds \ {r}) BY <1>5 DEF HeldCredits
<1>7. Held' = rest BY <1>6 DEF Held, rest
<1>8. AbsentHoldsNothing'
  BY <1>4 DEF PhantomInv, AbsentHoldsNothing, RowsSince
<1>9. ASSUME NEW m \in Months, m >= month PROVE bal'[m].reserved <= rest
  <2>1. bal[m].reserved \in Nat /\ bal[m].reserved <= rest + e /\ m \in Int
    BY <1>0, <1>2, <1>9 DEF PhantomInv, NoPhantomHolds, RowType
  <2>2. CASE bal[m].exists
    <3>1. m \in RowsSince(call[p].now) BY <1>0, <1>9, <2>1, <2>2 DEF RowsSince
    <3> QED BY <1>1, <1>3, <1>4, <2>1, <3>1 DEF Floor
  <2>3. CASE ~bal[m].exists
    <3>1. bal'[m].reserved = 0
      BY <1>4, <2>3 DEF PhantomInv, AbsentHoldsNothing, RowsSince
    <3> QED BY <1>3, <3>1
  <2> QED BY <2>2, <2>3
<1>a. NoPhantomHolds' BY <1>7, <1>9 DEF NoPhantomHolds
<1> QED BY <1>2, <1>6, <1>8, <1>a, NowStaysPast DEF PhantomInv

\* The invariant is inductive, in any month.
LEMMA NextKeepsPhantom ==
  ASSUME CallInv, PhantomInv, [Next]_vars
  PROVE  PhantomInv'
<1>0. /\ \A m \in Months : bal[m] \in RowType
      /\ bal \in [Months -> RowType] /\ hold \in [Runs -> HoldType]
  BY DEF CallInv, TypeOK
<1>1. CASE UNCHANGED <<bal, hold>>
  BY <1>1, PhantomFrame DEF ActiveHolds
<1>2. ASSUME NEW p \in Procs, GetOrCreateBalance(p) PROVE PhantomInv'
  <2>1. UNCHANGED hold /\ (UNCHANGED bal \/ \E m \in Months : bal' = InsertRow(m))
    BY <1>2
    DEF GetOrCreateBalance, ReadSub, RollSub, ProbeRow, AllocateRow, LogRollover, ReadRow,
        CreateRow, MoneyUnchanged, CallInv, TypeOK, CallType
  <2>2. ASSUME NEW m \in Months, bal' = InsertRow(m), NEW k \in Months
        PROVE  bal'[k].reserved = bal[k].reserved /\ (bal[k].exists => bal'[k].exists)
    BY <1>0, <2>2 DEF InsertRow, FreshRow, PhantomInv, AbsentHoldsNothing
  <2> QED BY <2>1, <2>2, PhantomFrame DEF ActiveHolds
<1>3. ASSUME NEW r \in Runs, ReserveTx(r) PROVE PhantomInv'
  BY <1>3, ReserveKeepsPhantom
<1>4. ASSUME NEW r \in Runs, SettleTx(r) PROVE PhantomInv'
  <2>1. r \in Procs /\ call[r].run = r /\ UNCHANGED month
    BY <1>4 DEF SettleTx, CallInv, CallsFit, Fits, Procs
  <2>2. CASE HoldIsActive(r)
    BY <1>4, <2>1, <2>2, EndHoldKeepsPhantom DEF SettleTx, Ended
  <2>3. CASE ~HoldIsActive(r) BY <1>1, <1>4, <2>1, <2>3 DEF SettleTx
  <2> QED BY <2>2, <2>3
<1>5. ASSUME NEW p \in Runs \cup Sweepers, ReleaseTx(p) PROVE PhantomInv'
  <2>1. p \in Procs /\ call[p].run \in Runs /\ UNCHANGED month
    BY <1>5 DEF ReleaseTx, CallInv, CallsFit, Fits, Procs
  <2>2. CASE HoldIsActive(call[p].run)
    <3>1. \E status \in Ended : EndHold(p, status, 0) BY <1>5, <2>2 DEF ReleaseTx, Ended
    <3> QED BY <2>1, <2>2, <3>1, EndHoldKeepsPhantom
  <2>3. CASE ~HoldIsActive(call[p].run) BY <1>1, <1>5, <2>3 DEF ReleaseTx
  <2> QED BY <2>2, <2>3
<1>6. ASSUME NEW p \in Procs, ConsumeTx(p) \/ GrantTx(p) \/ RefundTx(p) PROVE PhantomInv'
  <2>0. UNCHANGED hold BY <1>6 DEF ConsumeTx, GrantTx, RefundTx
  <2>1. ASSUME NEW m \in Months
        PROVE  \E n : \/ bal'[m] = bal[m]
                      \/ bal'[m] = [bal[m] EXCEPT !.used = n]
                      \/ bal'[m] = [bal[m] EXCEPT !.purchased = n]
    <3>1. CASE ConsumeTx(p)
      <4>1. bal'[m] \in {bal[m], [bal[m] EXCEPT !.used = @ + Price(p)]}
        BY <3>1 DEF ConsumeTx
      <4> QED BY <4>1
    <3>2. CASE GrantTx(p)
      <4>1. bal'[m] \in {bal[m], [bal[m] EXCEPT !.purchased = @ + CreditsOf[p]]}
        BY <3>2 DEF GrantTx
      <4> QED BY <4>1
    <3>3. CASE RefundTx(p)
      <4>1. bal'[m] \in {bal[m], [bal[m] EXCEPT !.used = Floor(@ - CostOf[p])]}
        BY <3>3 DEF RefundTx
      <4> QED BY <4>1
    <3> QED BY <1>6, <3>1, <3>2, <3>3
  <2>2. \A m \in Months : bal'[m].reserved = bal[m].reserved /\ bal'[m].exists = bal[m].exists
    BY <1>0, <2>1 DEF RowType
  <2> QED BY <2>0, <2>2, PhantomFrame DEF ActiveHolds
<1>7. ASSUME NEW r \in Runs, HoldExpires(r) PROVE PhantomInv'
  <2>1. UNCHANGED bal /\ hold' = [hold EXCEPT ![r].overdue = TRUE] BY <1>7 DEF HoldExpires
  <2>2. \A s \in Runs : hold'[s].status = hold[s].status BY <1>0, <2>1 DEF HoldType
  <2>3. ActiveHolds' = ActiveHolds BY <2>2 DEF ActiveHolds
  <2> QED BY <2>1, <2>3, PhantomFrame
<1>8. ASSUME \/ UNCHANGED vars \/ NextMonth
             \/ \E p \in Procs : \/ StartRun(p) \/ StartCharge(p) \/ StartRefund(p) \/ StartGrant(p)
                                 \/ StartView(p) \/ Crash(p) \/ FetchHold(p)
                                 \/ (\E actual \in 0..MaxActual : Work(p, actual))
                                 \/ (\E r \in Runs : PickOverdue(p, r))
      PROVE  PhantomInv'
  BY <1>1, <1>8
  DEF vars, NextMonth, StartRun, StartCharge, StartRefund, StartGrant, StartView, Crash,
      FetchHold, Work, PickOverdue, MoneyUnchanged
<1> QED
  BY <1>2, <1>3, <1>4, <1>5, <1>6, <1>7, <1>8
  DEF Next, RunStep, SweepStep, ChargeStep, GrantStep, ViewStep, Procs

\* No credits stay locked on the current month's row under a reservation that is
\* over, although the row may be younger than the reservation, and the call that
\* ended it older than the row.
THEOREM NothingStaysLocked == Spec => []NoPhantomHolds
<1>1. Init => PhantomInv
  <2> SUFFICES ASSUME Init PROVE PhantomInv OBVIOUS
  <2>1. ActiveHolds = {} BY DEF Init, ActiveHolds
  <2>2. HeldCredits({}) = {} BY DEF HeldCredits
  <2>3. IsFiniteSet(HeldCredits(ActiveHolds)) /\ Held = 0
    BY <2>1, <2>2, FS_EmptySet DEF Held
  <2> QED
    BY <2>3
    DEF Init, PhantomInv, NowIsPast, AbsentHoldsNothing, NoPhantomHolds, Idle, NoRow
<1>2. CallInv /\ PhantomInv /\ [Next]_vars => PhantomInv' BY NextKeepsPhantom
<1>3. PhantomInv => NoPhantomHolds BY DEF PhantomInv
<1> QED BY <1>1, <1>2, <1>3, CallsAlways, PTL DEF Spec
=============================================================================
