--------------------------- MODULE MCCreditLedger ---------------------------
(***************************************************************************)
(* Small instances of CreditLedger for TLC.                                *)
(***************************************************************************)
EXTENDS CreditLedger, TLC

CONSTANTS r1, r2, c1, c2, g1, g2, k1, k2

\* Holds of different sizes, so that freeing the wrong one shows.
Holds == [r \in Runs |-> IF r = r1 THEN 1 ELSE 2]
Costs == [c \in Charges |-> 1]
Packs == [g \in Grants |-> 1]

\* Both grants deliver one payment event; the second charge carries a key.
KeysOfCalls ==
  [p \in Grants \cup Charges |-> IF p \in Grants THEN k1 ELSE IF p = c2 THEN k2 ELSE None]
=============================================================================
