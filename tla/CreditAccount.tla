---------------------------- MODULE CreditAccount ----------------------------
(***************************************************************************)
(* What the ledger of credits promises, without balance rows, months,      *)
(* retries or the many statements of a call: one account on which every    *)
(* operation is a single step.  A run holds an estimate, and then either   *)
(* settles for at most that, or frees it and may pay once what it cost.    *)
(* Nothing is spent or held that is not there, nothing is applied twice    *)
(* under one key, and only a charge that was made is refunded, once.       *)
(***************************************************************************)
EXTENDS Integers, FiniteSets

CONSTANTS
  Runs, Charges, Grants,  \* who asks for an operation
  HoldOf,                 \* the estimate a run holds
  CostOf,                 \* the price of a charge
  CreditsOf,              \* what a grant adds
  KeyOf,                  \* the key of a charge or a grant, None for no key
  Included,               \* the credits to begin with
  None

VARIABLES
  credits,  \* all credits there are
  spent,    \* the part of them that is used
  stage,    \* how far each run has come
  made,     \* the charges that were made
  applied   \* keys applied; a refund applies the charge it gives back

vars == <<credits, spent, stage, made, applied>>

Init ==
  /\ credits = Included
  /\ spent = 0
  /\ stage = [r \in Runs |-> "none"]
  /\ made = {}
  /\ applied = {}

Held ==
  Cardinality(UNION {{r} \X (1..HoldOf[r]) : r \in {s \in Runs : stage[s] = "held"}})

\* What can still be held or spent.
Room == credits - spent - Held

\* The run comes one stage further.
Move(r, from, to) ==
  /\ stage[r] = from
  /\ stage' = [stage EXCEPT ![r] = to]
  /\ UNCHANGED <<credits, made, applied>>

Hold(r) == Move(r, "none", "held") /\ HoldOf[r] <= Room /\ UNCHANGED spent
Settle(r) == Move(r, "held", "settled") /\ spent' \in spent .. spent + HoldOf[r]
Free(r) == Move(r, "held", "freed") /\ UNCHANGED spent
Pay(r) == Move(r, "freed", "paid") /\ spent' \in spent .. spent + Room

Apply(key) == key \notin applied /\ applied' = applied \cup ({key} \ {None})

Charge(c) ==
  /\ Apply(KeyOf[c])
  /\ CostOf[c] <= Room
  /\ spent' = spent + CostOf[c]
  /\ made' = made \cup {c}
  /\ UNCHANGED <<credits, stage>>

Refund(c) ==
  /\ c \in made
  /\ Apply(c)
  /\ spent' = spent - CostOf[c]
  /\ UNCHANGED <<credits, stage, made>>

Grant(g) ==
  /\ Apply(KeyOf[g])
  /\ credits' = credits + CreditsOf[g]
  /\ UNCHANGED <<spent, stage, made>>

Next ==
  \/ \E r \in Runs : Hold(r) \/ Settle(r) \/ Free(r) \/ Pay(r)
  \/ \E c \in Charges : Charge(c) \/ Refund(c)
  \/ \E g \in Grants : Grant(g)

Spec == Init /\ [][Next]_vars
=============================================================================
