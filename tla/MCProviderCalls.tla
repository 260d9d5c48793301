-------------------------- MODULE MCProviderCalls --------------------------
(***************************************************************************)
(* Small instances of ProviderCalls for TLC.                               *)
(***************************************************************************)
EXTENDS ProviderCalls, TLC

\* The last provider has a second model; every provider has one key.
ModelsOfChain == [p \in Chain |-> IF p = 1 THEN 1 ELSE 2]
KeysOfChain == [p \in Chain |-> 1]

\* Three slots in all, one at the first provider and no limit at the last: with
\* four calls two wait for one provider while a third waits for a slot at all.
Tight == [g \in Gates |-> IF g = Global THEN 3 ELSE IF g = 1 THEN 1 ELSE 0]

\* Callers are interchangeable.
Callers == Permutations(Calls)
=============================================================================
