------------------------------ MODULE MCAccess ------------------------------
(***************************************************************************)
(* Small instances of Access for TLC.                                      *)
(***************************************************************************)
EXTENDS Access, TLC

CONSTANTS u1, u2, s1, s2

\* Two founders, each with a session of their own.
AllOwners == [u \in Users |-> "owner"]
OwnSessions == [s \in Sessions |-> IF s = s1 THEN u1 ELSE u2]

\* Requests are interchangeable.
AnyRequest == Permutations(Requests)
=============================================================================
