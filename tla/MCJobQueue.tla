----------------------------- MODULE MCJobQueue -----------------------------
(***************************************************************************)
(* Small instances of JobQueue for TLC.                                    *)
(***************************************************************************)
EXTENDS JobQueue, TLC

CONSTANTS o1, o2, t1, t2, t3

\* One tenant owns every task; or the first tenant owns all but t1.
OneOrg == [t \in Tasks |-> o1]
TwoOrgs == [t \in Tasks |-> IF t = t1 THEN o2 ELSE o1]

\* Rows are interchangeable, and so are the loop workers.
RowsAndWorkers == Permutations(Jobs) \cup Permutations(Workers)
=============================================================================
