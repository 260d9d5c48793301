----------------------------- MODULE LeaseQueue -----------------------------
(***************************************************************************)
(* What the durable queue promises, without rows, ids or attempts.  A task *)
(* is queued, then leased to one holder.  Before the lease is overdue only *)
(* a step of its holder takes the task out of the queue or puts it back in *)
(* line; an overdue lease may be taken back by anybody, also from a holder *)
(* that is still at work, who then has no more say over the task.          *)
(*                                                                         *)
(* Where each holder is in its own program (`at') is opaque here: it tells *)
(* whose step a step is, since every step of a holder moves that holder    *)
(* and no other.                                                           *)
(***************************************************************************)
CONSTANTS
  Tasks,    \* what is queued
  Holders,  \* who may hold a lease
  Places    \* where a holder may be

VARIABLES
  phase,    \* where each task is
  holders,  \* whose the lease of each task is: nobody's, or one holder's
  at        \* where each holder is

vars == <<phase, holders, at>>

Phases == {"none", "queued", "leased", "overdue"}
OnLease == {"leased", "overdue"}

Init ==
  /\ phase = [t \in Tasks |-> "none"]
  /\ holders = [t \in Tasks |-> {}]
  /\ at \in [Holders -> Places]

\* A step of h.
Move(h) ==
  /\ at'[h] # at[h] /\ at'[h] \in Places
  /\ at' = [at EXCEPT ![h] = at'[h]]

\* A step of whoever it may be, holder or not.
AnyMove == UNCHANGED at \/ \E h \in Holders : Move(h)

Submit(t) ==
  /\ phase[t] = "none"
  /\ phase' = [phase EXCEPT ![t] = "queued"]
  /\ UNCHANGED holders
  /\ AnyMove

Lease(t, h) ==
  /\ Move(h)
  /\ phase[t] = "queued"
  /\ phase' = [phase EXCEPT ![t] = "leased"]
  /\ holders' = [holders EXCEPT ![t] = {h}]

\* The holder works, without a word to the queue.
Work(h) == Move(h) /\ UNCHANGED <<phase, holders>>

\* The holder settles the task, or hands it back for another attempt.
Finish(t, h) ==
  /\ Move(h)
  /\ phase[t] \in OnLease
  /\ h \in holders[t]
  /\ \E next \in {"none", "queued"} : phase' = [phase EXCEPT ![t] = next]
  /\ holders' = [holders EXCEPT ![t] = {}]

\* The holder dies, or stops without settling: the task stays leased.
Lose(h) ==
  /\ Move(h)
  /\ holders' = [t \in Tasks |-> holders[t] \ {h}]
  /\ UNCHANGED phase

\* The window of a lease passes, whether its holder is at work or gone.
Age(t) ==
  /\ phase[t] = "leased"
  /\ phase' = [phase EXCEPT ![t] = "overdue"]
  /\ UNCHANGED <<holders, at>>

\* One sweep takes back any set of overdue leases.
Expire(tasks) ==
  /\ \A t \in tasks : phase[t] = "overdue"
  /\ phase' = [t \in Tasks |-> IF t \in tasks THEN "queued" ELSE phase[t]]
  /\ holders' = [t \in Tasks |-> IF t \in tasks THEN {} ELSE holders[t]]
  /\ AnyMove

Next ==
  \/ \E h \in Holders : Work(h) \/ Lose(h)
  \/ \E t \in Tasks : Submit(t) \/ Age(t) \/ \E h \in Holders : Lease(t, h) \/ Finish(t, h)
  \/ \E tasks \in SUBSET Tasks : Expire(tasks)

Spec == Init /\ [][Next]_vars
=============================================================================
