---------------------------- MODULE AccessProofs ----------------------------
(***************************************************************************)
(* What holds of access for any numbers of accounts, sessions, requests    *)
(* and changes, and any trust window.                                      *)
(*                                                                         *)
(* AgeInv is why stale access is bounded: the ticks since a cached role    *)
(* was lost are never more than the age of the entry and the lag of the    *)
(* lookup that wrote it.  CountInv is why only an overtaken change can     *)
(* remove the last owner: what was counted still holds, or a change of the *)
(* owners came in between.                                                 *)
(***************************************************************************)
EXTENDS Access, TLAPS, FiniteSetTheorems

ReqType ==
  [pc : Pcs, session : Sessions \cup {None}, role : Roles \cup {None}, lag : 0 .. Lag,
   target : Users \cup {None}, grant : Roles \cup {Gone, None}, owners : Nat,
   overtaken : BOOLEAN, todo : SUBSET Sessions]

\* What a request holds at each of its points.
Fits(it) ==
  /\ it.pc \in {"evict", "lookup", "store", "acting", "unlist"} => it.session \in Sessions
  /\ it.pc \in {"store", "acting"} => it.role \in Roles
  /\ it.pc \in {"target", "count", "isowner", "write"}
       => it.target \in Users /\ it.grant \in Roles \cup {Gone}
  /\ it.pc \in {"list", "clear"} => it.target \in Users

CacheFits ==
  /\ cache \in [Sessions -> [role : Roles \cup {None}, age : 0 .. Window + 1]]
  /\ \A s \in Sessions : cache[s] # NoEntry => cache[s].role \in Roles

TablesFit ==
  /\ member \in [Users -> [role : Roles, active : BOOLEAN]]
  /\ live \subseteq Sessions
  /\ CacheFits
  /\ lost \in [Sessions -> [Roles -> 0 .. Forgotten]]
  /\ faults \in 0 .. MaxFaults /\ changes \in 0 .. MaxChanges

ReqsFit ==
  /\ req \in [Requests -> ReqType]
  /\ \A r \in Requests : Fits(req[r])

FitInv == TablesFit /\ ReqsFit

LEMMA BoundsAreNat ==
  /\ Window \in Nat /\ Lag \in Nat /\ MaxFaults \in Nat /\ MaxChanges \in Nat
  /\ 0 \in 0 .. Lag /\ 0 \in 0 .. Window + 1
<1>1. Window \in Nat /\ Lag \in Nat /\ MaxFaults \in Nat /\ MaxChanges \in Nat
  BY AccessConstants
<1> QED BY <1>1

LEMMA FitIsTyped == FitInv => TypeOK
  BY DEF FitInv, TablesFit, CacheFits, ReqsFit, ReqType, TypeOK

LEMMA InitFits == Init => FitInv
<1> SUFFICES ASSUME Init PROVE FitInv OBVIOUS
<1>1. NoReq \in ReqType /\ Fits(NoReq)
  BY AccessConstants DEF NoReq, ReqType, Fits, Pcs, Gone
<1>2. ReqsFit BY <1>1 DEF Init, ReqsFit
<1>3. CacheFits BY AccessConstants DEF Init, CacheFits, NoEntry
<1>4. TablesFit BY <1>3, AccessConstants DEF Init, TablesFit, Forgotten
<1> QED BY <1>2, <1>4 DEF FitInv

\* The request goes on as `it', and no other one moves.
Moves(r, it) == req' = [req EXCEPT ![r] = it]

LEMMA MovesFits ==
  ASSUME ReqsFit, NEW r \in Requests, NEW it \in ReqType, Fits(it), Moves(r, it)
  PROVE  ReqsFit'
<1>1. req' \in [Requests -> ReqType] BY DEF ReqsFit, Moves
<1>2. \A q \in Requests : req'[q] = IF q = r THEN it ELSE req[q] BY DEF ReqsFit, Moves
<1> QED BY <1>1, <1>2 DEF ReqsFit

\* A write that may overtake other requests.
LEMMA OvertakeFits ==
  ASSUME ReqsFit, NEW r \in Requests, NEW it \in ReqType, Fits(it), Overtake(r, it)
  PROVE  ReqsFit'
<1>1. ASSUME NEW q \in Requests PROVE req'[q] \in ReqType /\ Fits(req'[q])
  <2>1. req[q] \in ReqType /\ Fits(req[q]) BY DEF ReqsFit
  <2>2. PICK b \in BOOLEAN :
          req'[q] = IF q = r THEN it ELSE [req[q] EXCEPT !.overtaken = @ \/ b]
    BY DEF Overtake
  <2>3. [req[q] EXCEPT !.overtaken = @ \/ b] \in ReqType
        /\ Fits([req[q] EXCEPT !.overtaken = @ \/ b])
    BY <2>1 DEF ReqType, Fits
  <2> QED BY <2>2, <2>3
<1> QED BY <1>1 DEF ReqsFit, Overtake

\* A DEL changes what is cached for no session but to nothing.
LEMMA DeleteFits ==
  ASSUME TablesFit, NEW keys, Deleted(keys)
  PROVE  CacheFits' /\ faults' \in 0 .. MaxFaults
  BY AccessConstants DEF TablesFit, CacheFits, Deleted, Fault, NoEntry

\* The history of lost roles keeps its type.
LEMMA RememberFits ==
  ASSUME TablesFit, Remember
  PROVE  lost' \in [Sessions -> [Roles -> 0 .. Forgotten]]
  BY AccessConstants DEF TablesFit, Remember, Forgotten

\* Steps that leave the tables and the cache alone.
LEMMA BoundsFit ==
  ASSUME TablesFit, UNCHANGED <<member, live, cache, lost>>,
         \/ UNCHANGED <<faults, changes>>
         \/ Fault /\ UNCHANGED changes
         \/ Change /\ UNCHANGED faults
  PROVE  TablesFit'
  BY AccessConstants DEF TablesFit, CacheFits, Fault, Change

\* A request that starts afresh at a point with no argument it lacks.
LEMMA NoReqFits == NoReq \in ReqType /\ Fits(NoReq)
  BY AccessConstants DEF NoReq, ReqType, Fits, Pcs, Gone

\* Steps that authenticate a request.
LEMMA AuthenticateFits ==
  ASSUME FitInv, NEW r \in Requests, Authenticate(r)
  PROVE  FitInv'
<1> USE AccessConstants DEF FitInv
<1>0. req[r] \in ReqType /\ Fits(req[r]) BY DEF ReqsFit
<1>1. ASSUME NEW s \in Sessions, CacheHit(r, s) PROVE FitInv'
  <2> DEFINE it == [NoReq EXCEPT !.pc = "acting", !.session = s, !.role = cache[s].role]
  <2>1. it \in ReqType /\ Fits(it)
    BY <1>1, NoReqFits DEF CacheHit, TablesFit, CacheFits, ReqType, Fits, Pcs
  <2>2. Moves(r, it) BY <1>1 DEF CacheHit, Become, Moves
  <2> QED BY <1>1, <2>1, <2>2, MovesFits, BoundsFit DEF CacheHit
<1>2. ASSUME NEW s \in Sessions, CacheMiss(r, s) PROVE FitInv'
  <2> DEFINE it == [NoReq EXCEPT !.pc = IF cache[s] = NoEntry THEN "lookup" ELSE "evict",
                                 !.session = s]
  <2>1. it \in ReqType /\ Fits(it) BY NoReqFits DEF ReqType, Fits, Pcs
  <2>2. Moves(r, it) BY <1>2 DEF CacheMiss, Become, Moves
  <2> QED BY <1>2, <2>1, <2>2, MovesFits, BoundsFit DEF CacheMiss
<1>3. CASE EvictOld(r)
  <2> DEFINE it == [req[r] EXCEPT !.pc = "lookup"]
  <2>1. it \in ReqType /\ Fits(it) BY <1>0, <1>3 DEF EvictOld, ReqType, Fits, Pcs
  <2>2. Moves(r, it) BY <1>3 DEF EvictOld, Goto, Moves
  <2>3. TablesFit' BY <1>3, DeleteFits DEF EvictOld, TablesFit
  <2> QED BY <2>1, <2>2, <2>3, MovesFits
<1>4. CASE Lookup(r)
  <2> DEFINE s == req[r].session
             row == member[UserOf[s]]
             it == IF s \in live /\ row.active
                   THEN [req[r] EXCEPT !.pc = "store", !.role = row.role] ELSE NoReq
  <2>0. s \in Sessions /\ row \in [role : Roles, active : BOOLEAN]
    BY <1>0, <1>4 DEF Lookup, Fits, TablesFit
  <2>1. it \in ReqType /\ Fits(it)
    <3>1. CASE s \in live /\ row.active
      BY <1>0, <2>0, <3>1 DEF ReqType, Fits, Pcs
    <3>2. CASE ~(s \in live /\ row.active)
      BY <3>2, NoReqFits
    <3> QED BY <3>1, <3>2
  <2>2. Moves(r, it) BY <1>4 DEF Lookup, Finish, Moves
  <2> QED BY <1>4, <2>1, <2>2, MovesFits, BoundsFit DEF Lookup
<1>5. CASE StoreEntry(r)
  <2> DEFINE it == [req[r] EXCEPT !.pc = "acting", !.lag = 0]
  <2>0. req[r].session \in Sessions /\ req[r].role \in Roles BY <1>0, <1>5 DEF StoreEntry, Fits
  <2>1. it \in ReqType /\ Fits(it) BY <1>0, <2>0, BoundsAreNat DEF ReqType, Fits, Pcs
  <2>2. Moves(r, it) BY <1>5 DEF StoreEntry, Moves
  <2>3. TablesFit'
    <3>1. FreshEntry(r) \in [role : Roles \cup {None}, age : 0 .. Window + 1]
          /\ FreshEntry(r).role \in Roles
      BY <2>0, BoundsAreNat DEF FreshEntry
    <3>2. CASE cache' = [cache EXCEPT ![req[r].session] = FreshEntry(r)] /\ UNCHANGED faults
      BY <1>5, <2>0, <3>1, <3>2 DEF StoreEntry, TablesFit, CacheFits
    <3>3. CASE Fault /\ UNCHANGED cache
      BY <1>5, <3>3, BoundsFit DEF StoreEntry
    <3> QED BY <1>5, <3>2, <3>3 DEF StoreEntry
  <2> QED BY <2>1, <2>2, <2>3, MovesFits
<1>6. ASSUME NEW s \in Sessions, CacheUnread(r, s) PROVE FitInv'
  <2> DEFINE it == [NoReq EXCEPT !.pc = "lookup", !.session = s]
  <2>1. it \in ReqType /\ Fits(it) BY NoReqFits DEF ReqType, Fits, Pcs
  <2>2. Moves(r, it) BY <1>6 DEF CacheUnread, Become, Moves
  <2> QED BY <1>6, <2>1, <2>2, MovesFits, BoundsFit DEF CacheUnread
<1> QED BY <1>1, <1>2, <1>3, <1>4, <1>5, <1>6 DEF Authenticate

\* Steps that change a role or remove a member.
LEMMA AdministerFits ==
  ASSUME FitInv, NEW r \in Requests, Administer(r)
  PROVE  FitInv'
<1> USE AccessConstants DEF FitInv
<1>0. req[r] \in ReqType /\ Fits(req[r]) BY DEF ReqsFit
<1>1. ASSUME NEW u \in Users, NEW grant \in Roles \cup {Gone}, Ask(r, u, grant)
      PROVE  FitInv'
  <2> DEFINE it == [req[r] EXCEPT !.pc = "target", !.target = u, !.grant = grant]
  <2>1. it \in ReqType /\ Fits(it) BY <1>0 DEF ReqType, Fits, Pcs
  <2>2. Moves(r, it) BY <1>1 DEF Ask, Moves
  <2> QED BY <1>1, <2>1, <2>2, MovesFits, BoundsFit DEF Ask
<1>2. CASE ReadTarget(r)
  <2> DEFINE on == [NoReq EXCEPT !.pc = IF req[r].grant = "owner" THEN "write" ELSE "count",
                                 !.target = req[r].target, !.grant = req[r].grant]
  <2>1. on \in ReqType /\ Fits(on)
    BY <1>0, <1>2, NoReqFits DEF ReadTarget, ReqType, Fits, Pcs
  <2>2. Moves(r, NoReq) \/ Moves(r, on) BY <1>2 DEF ReadTarget, Finish, Become, Moves
  <2>3. TablesFit' BY <1>2, BoundsFit DEF ReadTarget
  <2> QED BY <2>1, <2>2, <2>3, NoReqFits, MovesFits
<1>3. CASE CountOwners(r)
  <2> DEFINE it == [req[r] EXCEPT !.pc = "isowner", !.owners = Cardinality(Owners)]
  <2>1. Cardinality(Owners) \in Nat
    BY FS_Subset, FS_CardinalityType DEF Owners
  <2>2. it \in ReqType /\ Fits(it) BY <1>0, <1>3, <2>1 DEF CountOwners, ReqType, Fits, Pcs
  <2>3. Moves(r, it) BY <1>3 DEF CountOwners, Moves
  <2> QED BY <1>3, <2>2, <2>3, MovesFits, BoundsFit DEF CountOwners
<1>4. CASE CheckOwner(r)
  <2> DEFINE it == [req[r] EXCEPT !.pc = "write"]
  <2>1. it \in ReqType /\ Fits(it) BY <1>0, <1>4 DEF CheckOwner, ReqType, Fits, Pcs
  <2>2. Moves(r, NoReq) \/ Moves(r, it) BY <1>4 DEF CheckOwner, Finish, Goto, Moves
  <2>3. TablesFit' BY <1>4, BoundsFit DEF CheckOwner
  <2> QED BY <2>1, <2>2, <2>3, NoReqFits, MovesFits
<1>5. CASE WriteRole(r)
  <2>1. req[r].target \in Users /\ req[r].grant \in Roles
    BY <1>0, <1>5 DEF WriteRole, Fits
  <2>2. member' \in [Users -> [role : Roles, active : BOOLEAN]]
    BY <1>5, <2>1 DEF WriteRole, TablesFit
  <2>3. TablesFit' BY <1>5, <2>2, RememberFits DEF WriteRole, TablesFit, CacheFits
  <2>4. ReqsFit' BY <1>5, NoReqFits, OvertakeFits DEF WriteRole
  <2> QED BY <2>3, <2>4
<1>6. CASE WriteRemoval(r)
  <2> DEFINE it == [NoReq EXCEPT !.pc = "list", !.target = req[r].target]
  <2>1. req[r].target \in Users BY <1>0, <1>6 DEF WriteRemoval, Fits
  <2>2. member' \in [Users -> [role : Roles, active : BOOLEAN]]
    BY <1>6, <2>1 DEF WriteRemoval, Removed, TablesFit
  <2>3. TablesFit' BY <1>6, <2>2, RememberFits DEF WriteRemoval, TablesFit, CacheFits
  <2>4. it \in ReqType /\ Fits(it) BY <2>1, NoReqFits DEF ReqType, Fits, Pcs
  <2>5. ReqsFit' BY <1>6, <2>4, OvertakeFits DEF WriteRemoval
  <2> QED BY <2>3, <2>5
<1> QED BY <1>1, <1>2, <1>3, <1>4, <1>5, <1>6 DEF Administer

\* Steps that end sessions.
LEMMA RevokeFits ==
  ASSUME FitInv, NEW r \in Requests, Revoke(r)
  PROVE  FitInv'
<1> USE AccessConstants DEF FitInv
<1>0. req[r] \in ReqType /\ Fits(req[r]) BY DEF ReqsFit
<1>r. ASSUME NEW todo \in SUBSET Sessions, NextRevocation(r, todo) PROVE ReqsFit'
  <2> DEFINE it == [NoReq EXCEPT !.pc = "revoke", !.todo = todo]
  <2>1. it \in ReqType /\ Fits(it) BY NoReqFits DEF ReqType, Fits, Pcs
  <2>2. Moves(r, NoReq) \/ Moves(r, it)
    BY <1>r DEF NextRevocation, Finish, Become, Moves
  <2> QED BY <2>1, <2>2, NoReqFits, MovesFits
<1>1. CASE Logout(r)
  <2> DEFINE it == [NoReq EXCEPT !.pc = "revoke", !.todo = {req[r].session}]
  <2>1. req[r].session \in Sessions BY <1>0, <1>1 DEF Logout, Fits
  <2>2. it \in ReqType /\ Fits(it) BY <2>1, NoReqFits DEF ReqType, Fits, Pcs
  <2>3. Moves(r, it) BY <1>1 DEF Logout, Become, Moves
  <2> QED BY <1>1, <2>2, <2>3, MovesFits, BoundsFit DEF Logout
<1>2. CASE ChangePassword(r)
  <2> DEFINE it == [NoReq EXCEPT !.pc = "list", !.target = UserOf[req[r].session]]
  <2>1. UserOf[req[r].session] \in Users BY <1>0, <1>2 DEF ChangePassword, Fits
  <2>2. it \in ReqType /\ Fits(it) BY <2>1, NoReqFits DEF ReqType, Fits, Pcs
  <2>3. Moves(r, it) BY <1>2 DEF ChangePassword, Become, Moves
  <2> QED BY <1>2, <2>2, <2>3, MovesFits, BoundsFit DEF ChangePassword
<1>3. CASE ListSessions(r)
  <2> DEFINE todo == {s \in live : UserOf[s] = req[r].target}
             it == [req[r] EXCEPT !.pc = "clear", !.todo = todo]
  <2>1. todo \in SUBSET Sessions BY DEF TablesFit
  <2>2. it \in ReqType /\ Fits(it)
    BY <1>0, <1>3, <2>1 DEF ListSessions, ReqType, Fits, Pcs
  <2>3. Moves(r, it) BY <1>3 DEF ListSessions, Moves
  <2> QED BY <1>3, <2>2, <2>3, MovesFits, BoundsFit DEF ListSessions
<1>4. CASE ClearEntries(r)
  <2>1. req[r].todo \in SUBSET Sessions BY <1>0 DEF ReqType
  <2>2. TablesFit' BY <1>4, DeleteFits DEF ClearEntries, TablesFit
  <2> QED BY <1>4, <1>r, <2>1, <2>2 DEF ClearEntries
<1>5. ASSUME NEW s \in Sessions, RevokeSession(r, s) PROVE FitInv'
  <2> DEFINE it == [req[r] EXCEPT !.pc = "unlist", !.session = s]
  <2>1. it \in ReqType /\ Fits(it) BY <1>0 DEF ReqType, Fits, Pcs
  <2>2. Moves(r, it) BY <1>5 DEF RevokeSession, Moves
  <2>3. TablesFit' BY <1>5, RememberFits DEF RevokeSession, TablesFit, CacheFits
  <2> QED BY <2>1, <2>2, <2>3, MovesFits
<1>6. CASE EvictRevoked(r)
  <2>1. req[r].todo \ {req[r].session} \in SUBSET Sessions BY <1>0 DEF ReqType
  <2>2. TablesFit' BY <1>6, DeleteFits DEF EvictRevoked, TablesFit
  <2> QED BY <1>6, <1>r, <2>1, <2>2 DEF EvictRevoked
<1> QED BY <1>1, <1>2, <1>3, <1>4, <1>5, <1>6 DEF Revoke

LEMMA TickFits ==
  ASSUME FitInv, Tick
  PROVE  FitInv'
<1> USE BoundsAreNat DEF FitInv
<1>1. ASSUME NEW r \in Requests PROVE req'[r] \in ReqType /\ Fits(req'[r])
  <2>1. req[r] \in ReqType /\ Fits(req[r]) BY DEF ReqsFit
  <2>2. CASE req[r].pc # "store" BY <2>1, <2>2 DEF Tick
  <2>3. CASE req[r].pc = "store"
    <3>1. req[r].lag \in 0 .. Lag /\ req[r].lag < Lag BY <2>1, <2>3 DEF Tick, ReqType
    <3>2. req[r].lag + 1 \in 0 .. Lag BY <3>1
    <3>3. req'[r] = [req[r] EXCEPT !.lag = @ + 1] BY <2>3 DEF Tick
    <3> QED BY <2>1, <3>2, <3>3 DEF ReqType, Fits
  <2> QED BY <2>2, <2>3
<1>2. ReqsFit' BY <1>1 DEF ReqsFit, Tick
<1>3. CacheFits'
  <2> DEFINE EntryType == [role : Roles \cup {None}, age : 0 .. Window + 1]
  <2>1. ASSUME NEW s \in Sessions
        PROVE  cache'[s] \in EntryType /\ (cache'[s] # NoEntry => cache'[s].role \in Roles)
    <3>1. cache[s] \in EntryType /\ (cache[s] # NoEntry => cache[s].role \in Roles)
      BY DEF TablesFit, CacheFits
    <3>2. CASE cache[s] # NoEntry /\ cache[s].age <= Window
      <4>1. cache'[s] = [cache[s] EXCEPT !.age = @ + 1] BY <3>2 DEF Tick
      <4>2. cache[s].age + 1 \in 0 .. Window + 1 BY <3>1, <3>2
      <4> QED BY <3>1, <3>2, <4>1, <4>2
    <3>3. CASE ~(cache[s] # NoEntry /\ cache[s].age <= Window)
      BY <3>1, <3>3 DEF Tick
    <3> QED BY <3>2, <3>3
  <2>2. cache' = [s \in Sessions |-> cache'[s]] BY DEF Tick
  <2>3. cache' \in [Sessions -> EntryType] BY <2>1, <2>2
  <2> QED BY <2>1, <2>3 DEF CacheFits
<1>4. lost' \in [Sessions -> [Roles -> 0 .. Forgotten]]
  <2>1. ASSUME NEW s \in Sessions, NEW role \in Roles
        PROVE  (IF Carries(s, role) \/ lost[s][role] = Forgotten
                THEN lost[s][role] ELSE lost[s][role] + 1) \in 0 .. Forgotten
    <3>1. lost[s][role] \in 0 .. Forgotten BY DEF TablesFit
    <3>2. Forgotten \in Nat BY DEF Forgotten
    <3>3. lost[s][role] # Forgotten => lost[s][role] + 1 \in 0 .. Forgotten BY <3>1, <3>2
    <3> QED BY <3>1, <3>3
  <2> QED BY <2>1 DEF Tick
<1> QED BY <1>2, <1>3, <1>4 DEF Tick, TablesFit

LEMMA NextFits == FitInv /\ [Next]_vars => FitInv'
<1> SUFFICES ASSUME FitInv, [Next]_vars PROVE FitInv' OBVIOUS
<1>1. ASSUME NEW r \in Requests, Serve(r) PROVE FitInv'
  BY <1>1, NoReqFits, MovesFits, BoundsFit DEF Serve, Finish, Moves, FitInv
<1>2. ASSUME NEW r \in Requests, StatementFails(r) PROVE FitInv'
  BY <1>2, NoReqFits, MovesFits, BoundsFit DEF StatementFails, Finish, Moves, FitInv
<1>3. CASE UNCHANGED vars
  BY <1>3 DEF vars, FitInv, TablesFit, CacheFits, ReqsFit
<1> QED
  BY <1>1, <1>2, <1>3, AuthenticateFits, AdministerFits, RevokeFits, TickFits DEF Next

LEMMA AlwaysFits == Spec => []FitInv
  BY InitFits, NextFits, PTL DEF Spec

\* Type correctness of the tables, the cache, the requests and the history.
THEOREM TypeCorrect == Spec => []TypeOK
  BY AlwaysFits, FitIsTyped, PTL

-----------------------------------------------------------------------------
(* Stale access *)

\* A role that is carried was not lost; an entry, or a lookup that is about to
\* write one, holds a role that was carried its age, or its lag, ago.
Carried == \A s \in Sessions : \A role \in Roles : Carries(s, role) => lost[s][role] = 0
EntriesOfAge ==
  \A s \in Sessions : cache[s] # NoEntry => lost[s][cache[s].role] <= cache[s].age + Lag
LookupsOfLag ==
  \A r \in Requests :
    req[r].pc = "store" => lost[req[r].session][req[r].role] <= req[r].lag

AgeInv == FitInv /\ Carried /\ EntriesOfAge /\ LookupsOfLag

LEMMA InitAges == Init => AgeInv
<1> SUFFICES ASSUME Init PROVE AgeInv OBVIOUS
<1>1. Carried BY AccessConstants DEF Init, Carried, Carries
<1>2. EntriesOfAge BY DEF Init, EntriesOfAge
<1>3. LookupsOfLag BY DEF Init, LookupsOfLag, NoReq
<1> QED BY <1>1, <1>2, <1>3, InitFits DEF AgeInv

\* What was lost and is not being found again only grows older by Tick.
LEMMA RememberLowers ==
  ASSUME FitInv, Remember, NEW s \in Sessions, NEW role \in Roles
  PROVE  /\ lost'[s][role] <= lost[s][role]
         /\ Carries(s, role)' => lost'[s][role] = 0
<1>1. lost[s][role] \in 0 .. Forgotten BY DEF FitInv, TablesFit
<1>2. Forgotten \in Nat BY BoundsAreNat DEF Forgotten
<1>3. lost'[s][role] = IF Carries(s, role)' THEN 0 ELSE lost[s][role] BY DEF Remember
<1> QED BY <1>1, <1>2, <1>3

\* A step that rewrites the history only, deletes entries at most and begins no
\* cache write.
Lowers ==
  /\ \A s \in Sessions : \A role \in Roles :
       lost'[s][role] <= lost[s][role] /\ (Carries(s, role)' => lost'[s][role] = 0)
  /\ \A s \in Sessions : cache'[s] = cache[s] \/ cache'[s] = NoEntry
  /\ \A r \in Requests :
       req'[r].pc = "store" => /\ req[r].pc = "store" /\ req'[r].session = req[r].session
                               /\ req'[r].role = req[r].role /\ req'[r].lag = req[r].lag

LEMMA LowersKeepsAges ==
  ASSUME AgeInv, FitInv', Lowers
  PROVE  AgeInv'
<1>0. \A s \in Sessions : \A role \in Roles : lost[s][role] \in Int /\ lost'[s][role] \in Int
  BY BoundsAreNat DEF AgeInv, FitInv, TablesFit, Forgotten
<1>1. Carried' BY DEF Lowers, Carried
<1>2. EntriesOfAge'
  <2> SUFFICES ASSUME NEW s \in Sessions, cache'[s] # NoEntry
               PROVE  lost'[s][cache'[s].role] <= cache'[s].age + Lag
    BY DEF EntriesOfAge
  <2>1. cache'[s] = cache[s] BY DEF Lowers
  <2>2. cache[s].role \in Roles /\ cache[s].age \in Int
    BY <2>1, BoundsAreNat DEF AgeInv, FitInv, TablesFit, CacheFits
  <2>3. lost[s][cache[s].role] <= cache[s].age + Lag BY <2>1 DEF AgeInv, EntriesOfAge
  <2> QED BY <1>0, <2>1, <2>2, <2>3, BoundsAreNat DEF Lowers
<1>3. LookupsOfLag'
  <2> SUFFICES ASSUME NEW r \in Requests, req'[r].pc = "store"
               PROVE  lost'[req'[r].session][req'[r].role] <= req'[r].lag
    BY DEF LookupsOfLag
  <2>1. /\ req[r].pc = "store" /\ req'[r].session = req[r].session
        /\ req'[r].role = req[r].role /\ req'[r].lag = req[r].lag
    BY DEF Lowers
  <2>2. req[r].session \in Sessions /\ req[r].role \in Roles /\ req[r].lag \in Int
    BY <2>1, BoundsAreNat DEF AgeInv, FitInv, ReqsFit, ReqType, Fits
  <2>3. lost[req[r].session][req[r].role] <= req[r].lag BY <2>1 DEF AgeInv, LookupsOfLag
  <2> QED BY <1>0, <2>1, <2>2, <2>3 DEF Lowers
<1> QED BY <1>1, <1>2, <1>3 DEF AgeInv

\* The requests that do not write the cache, the tables or the clock.
LEMMA QuietLowers ==
  ASSUME AgeInv, UNCHANGED <<member, live, lost>>,
         \A s \in Sessions : cache'[s] = cache[s] \/ cache'[s] = NoEntry,
         NEW r \in Requests, NEW it, it.pc # "store", Moves(r, it)
  PROVE  Lowers
<1>1. \A q \in Requests : req'[q] = IF q = r THEN it ELSE req[q]
  BY DEF Moves, AgeInv, FitInv, ReqsFit
<1>2. \A s \in Sessions : \A role \in Roles : lost[s][role] \in Int
  BY BoundsAreNat DEF AgeInv, FitInv, TablesFit, Forgotten
<1>3. \A s \in Sessions : \A role \in Roles : Carries(s, role)' <=> Carries(s, role)
  BY DEF Carries
<1> QED BY <1>1, <1>2, <1>3 DEF Lowers, AgeInv, Carried

\* The cache after a DEL.
LEMMA DeletedEntries ==
  ASSUME FitInv, NEW keys, Deleted(keys)
  PROVE  \A s \in Sessions : cache'[s] = cache[s] \/ cache'[s] = NoEntry
  BY DEF FitInv, TablesFit, CacheFits, Deleted

Quiet(r) ==
  \/ \E s \in Sessions : CacheHit(r, s) \/ CacheMiss(r, s) \/ CacheUnread(r, s)
  \/ EvictOld(r) \/ Serve(r) \/ StatementFails(r)
  \/ \E u \in Users : \E grant \in Roles \cup {Gone} : Ask(r, u, grant)
  \/ ReadTarget(r) \/ CountOwners(r) \/ CheckOwner(r)
  \/ Logout(r) \/ ChangePassword(r) \/ ListSessions(r) \/ ClearEntries(r) \/ EvictRevoked(r)

LEMMA QuietMoves ==
  ASSUME AgeInv, NEW r \in Requests, Quiet(r)
  PROVE  /\ UNCHANGED <<member, live, lost>>
         /\ \A s \in Sessions : cache'[s] = cache[s] \/ cache'[s] = NoEntry
         /\ \E it : it.pc # "store" /\ Moves(r, it)
<1>0. FitInv /\ req[r] \in ReqType /\ NoReq \in ReqType /\ NoReq.pc = "off"
  BY NoReqFits DEF AgeInv, FitInv, ReqsFit, NoReq
<1> USE DEF Moves, Goto, Become, Finish
<1>1. ASSUME NEW s \in Sessions, CacheHit(r, s) \/ CacheMiss(r, s) \/ CacheUnread(r, s)
      PROVE  \E it : it.pc # "store" /\ Moves(r, it)
  <2>1. CASE CacheHit(r, s)
    <3> DEFINE it == [NoReq EXCEPT !.pc = "acting", !.session = s, !.role = cache[s].role]
    <3> QED BY <1>0, <2>1 DEF CacheHit, ReqType
  <2>2. CASE CacheMiss(r, s)
    <3> DEFINE it == [NoReq EXCEPT !.pc = IF cache[s] = NoEntry THEN "lookup" ELSE "evict",
                                   !.session = s]
    <3> QED BY <1>0, <2>2 DEF CacheMiss, ReqType
  <2>3. CASE CacheUnread(r, s)
    <3> DEFINE it == [NoReq EXCEPT !.pc = "lookup", !.session = s]
    <3> QED BY <1>0, <2>3 DEF CacheUnread, ReqType
  <2> QED BY <1>1, <2>1, <2>2, <2>3
<1>2. CASE EvictOld(r)
  BY <1>0, <1>2, DeletedEntries DEF EvictOld, ReqType
<1>3. CASE Serve(r) \/ StatementFails(r)
  BY <1>0, <1>3 DEF Serve, StatementFails
<1>4. ASSUME NEW u \in Users, NEW grant \in Roles \cup {Gone}, Ask(r, u, grant)
      PROVE  \E it : it.pc # "store" /\ Moves(r, it)
  BY <1>0, <1>4 DEF Ask, ReqType
<1>5. CASE ReadTarget(r) BY <1>0, <1>5 DEF ReadTarget, ReqType
<1>6. CASE CountOwners(r) BY <1>0, <1>6 DEF CountOwners, ReqType
<1>7. CASE CheckOwner(r) BY <1>0, <1>7 DEF CheckOwner, ReqType
<1>8. CASE Logout(r) BY <1>0, <1>8 DEF Logout, ReqType
<1>9. CASE ChangePassword(r) BY <1>0, <1>9 DEF ChangePassword, ReqType
<1>10. CASE ListSessions(r) BY <1>0, <1>10 DEF ListSessions, ReqType
<1>11. CASE ClearEntries(r)
  BY <1>0, <1>11, DeletedEntries DEF ClearEntries, NextRevocation, ReqType
<1>12. CASE EvictRevoked(r)
  BY <1>0, <1>12, DeletedEntries DEF EvictRevoked, NextRevocation, ReqType
<1> QED
  BY <1>1, <1>2, <1>3, <1>4, <1>5, <1>6, <1>7, <1>8, <1>9, <1>10, <1>11, <1>12
  DEF Quiet, CacheHit, CacheMiss, CacheUnread, Ask

\* The writes of a membership or of a session row.
LEMMA WriteLowers ==
  ASSUME AgeInv, NEW r \in Requests,
         \/ WriteRole(r) \/ WriteRemoval(r)
         \/ \E s \in Sessions : RevokeSession(r, s)
  PROVE  Lowers
<1>1. UNCHANGED cache /\ Remember BY DEF WriteRole, WriteRemoval, RevokeSession
<1>2. \A s \in Sessions : \A role \in Roles :
        lost'[s][role] <= lost[s][role] /\ (Carries(s, role)' => lost'[s][role] = 0)
  BY <1>1, RememberLowers DEF AgeInv
<1>3. ASSUME NEW q \in Requests, req'[q].pc = "store"
      PROVE  /\ req[q].pc = "store" /\ req'[q].session = req[q].session
             /\ req'[q].role = req[q].role /\ req'[q].lag = req[q].lag
  <2>0. req[q] \in ReqType /\ NoReq \in ReqType /\ NoReq.pc = "off" /\ req[r] \in ReqType
    BY NoReqFits DEF AgeInv, FitInv, ReqsFit, NoReq
  <2>1. ASSUME NEW it \in ReqType, it.pc # "store", Overtake(r, it)
        PROVE  /\ req[q].pc = "store" /\ req'[q].session = req[q].session
               /\ req'[q].role = req[q].role /\ req'[q].lag = req[q].lag
    <3>1. PICK b : req'[q] = IF q = r THEN it ELSE [req[q] EXCEPT !.overtaken = b]
      BY <2>0, <2>1 DEF Overtake
    <3> QED BY <1>3, <2>0, <2>1, <3>1 DEF ReqType
  <2>2. CASE WriteRole(r) BY <2>0, <2>1, <2>2 DEF WriteRole
  <2>3. CASE WriteRemoval(r)
    <3> DEFINE it == [NoReq EXCEPT !.pc = "list", !.target = req[r].target]
    <3>1. it \in ReqType /\ it.pc # "store"
      BY <2>0, <2>3 DEF ReqType, WriteRemoval, Pcs
    <3> QED BY <2>1, <2>3, <3>1 DEF WriteRemoval
  <2>4. ASSUME NEW s \in Sessions, RevokeSession(r, s)
        PROVE  /\ req[q].pc = "store" /\ req'[q].session = req[q].session
               /\ req'[q].role = req[q].role /\ req'[q].lag = req[q].lag
    <3>1. req' = [req EXCEPT ![r] = [req[r] EXCEPT !.pc = "unlist", !.session = s]]
      BY <2>4 DEF RevokeSession
    <3> QED BY <1>3, <2>0, <3>1 DEF ReqType, AgeInv, FitInv, ReqsFit
  <2> QED BY <2>2, <2>3, <2>4
<1> QED BY <1>1, <1>2, <1>3 DEF Lowers

\* What a lookup reads is carried at that moment: its lag begins at 0.
LEMMA LookupKeepsAges ==
  ASSUME AgeInv, FitInv', NEW r \in Requests, Lookup(r)
  PROVE  AgeInv'
<1>0. /\ req \in [Requests -> ReqType] /\ req[r].session \in Sessions
      /\ \A q \in Requests : req[q].lag \in Int
  BY BoundsAreNat DEF AgeInv, FitInv, ReqsFit, Fits, Lookup, ReqType
<1>1. UNCHANGED <<member, live, cache, lost>> BY DEF Lookup
<1>2. Carried' BY <1>1 DEF AgeInv, Carried, Carries
<1>3. EntriesOfAge' BY <1>1 DEF AgeInv, EntriesOfAge
<1>4. LookupsOfLag'
  <2> SUFFICES ASSUME NEW q \in Requests, req'[q].pc = "store"
               PROVE  lost[req'[q].session][req'[q].role] <= req'[q].lag
    BY <1>1 DEF LookupsOfLag
  <2>1. CASE q # r
    BY <1>0, <2>1 DEF Lookup, Finish, AgeInv, LookupsOfLag
  <2>2. CASE q = r
    <3> DEFINE s == req[r].session
               row == member[UserOf[s]]
    <3>1. s \in live /\ row.active
          /\ req' = [req EXCEPT ![r].pc = "store", ![r].role = row.role]
      BY <1>0, <2>2 DEF Lookup, Finish, NoReq
    <3>2. req'[q].session = s /\ req'[q].role = row.role /\ req'[q].lag \in 0 .. Lag
      BY <1>0, <2>2, <3>1 DEF ReqType
    <3>3. Carries(s, row.role) BY <3>1 DEF Carries
    <3>4. row.role \in Roles
      BY <1>0, AccessConstants DEF AgeInv, FitInv, TablesFit
    <3>5. lost[s][row.role] = 0 BY <1>0, <3>3, <3>4 DEF AgeInv, Carried
    <3> QED BY <3>2, <3>5, BoundsAreNat
  <2> QED BY <2>1, <2>2
<1> QED BY <1>2, <1>3, <1>4 DEF AgeInv

\* A new entry is of age 0, and its role was carried Lag ago at most.
LEMMA StoreKeepsAges ==
  ASSUME AgeInv, FitInv', NEW r \in Requests, StoreEntry(r)
  PROVE  AgeInv'
<1>0. /\ req \in [Requests -> ReqType]
      /\ req[r].session \in Sessions /\ req[r].role \in Roles /\ req[r].lag \in 0 .. Lag
  BY DEF AgeInv, FitInv, ReqsFit, Fits, StoreEntry, ReqType
<1>1. UNCHANGED <<member, live, lost>> BY DEF StoreEntry
<1>2. Carried' BY <1>1 DEF AgeInv, Carried, Carries
<1>3. EntriesOfAge'
  <2>1. lost[req[r].session][req[r].role] <= req[r].lag
    BY DEF AgeInv, LookupsOfLag, StoreEntry
  <2>2. lost[req[r].session][req[r].role] \in Int
    BY <1>0, BoundsAreNat DEF AgeInv, FitInv, TablesFit, Forgotten
  <2>3. lost[req[r].session][req[r].role] <= 0 + Lag BY <1>0, <2>1, <2>2, BoundsAreNat
  <2> SUFFICES ASSUME NEW s \in Sessions, cache'[s] # NoEntry
               PROVE  lost[s][cache'[s].role] <= cache'[s].age + Lag
    BY <1>1 DEF EntriesOfAge
  <2>4. \/ cache'[s] = cache[s]
        \/ s = req[r].session /\ cache'[s] = FreshEntry(r)
    <3>1. DOMAIN cache = Sessions BY DEF AgeInv, FitInv, TablesFit, CacheFits
    <3>2. \/ cache' = [cache EXCEPT ![req[r].session] = FreshEntry(r)]
          \/ cache' = cache
      BY DEF StoreEntry
    <3>3. ASSUME NEW e, cache' = [cache EXCEPT ![req[r].session] = e]
          PROVE  cache'[s] = cache[s] \/ (s = req[r].session /\ cache'[s] = e)
      BY <3>1, <3>3
    <3> QED BY <3>2, <3>3
  <2>5. CASE cache'[s] = cache[s] BY <2>5 DEF AgeInv, EntriesOfAge
  <2>6. CASE s = req[r].session /\ cache'[s] = FreshEntry(r)
    BY <2>3, <2>6 DEF FreshEntry
  <2> QED BY <2>4, <2>5, <2>6
<1>4. LookupsOfLag'
  <2>1. \A q \in Requests : req'[q].pc = "store" => q # r /\ req'[q] = req[q]
    BY <1>0 DEF StoreEntry, ReqType
  <2> QED BY <1>1, <2>1 DEF AgeInv, LookupsOfLag
<1> QED BY <1>2, <1>3, <1>4 DEF AgeInv

\* Ages and lags grow with what is lost.
LEMMA TickKeepsAges ==
  ASSUME AgeInv, FitInv', Tick
  PROVE  AgeInv'
<1>0. \A s \in Sessions : \A role \in Roles :
        /\ lost[s][role] \in 0 .. Forgotten /\ lost'[s][role] \in 0 .. Forgotten
        /\ lost'[s][role] <= lost[s][role] + 1
        /\ Carries(s, role) => lost'[s][role] = lost[s][role]
  <2> SUFFICES ASSUME NEW s \in Sessions, NEW role \in Roles
               PROVE  /\ lost[s][role] \in 0 .. Forgotten /\ lost'[s][role] \in 0 .. Forgotten
                      /\ lost'[s][role] <= lost[s][role] + 1
                      /\ Carries(s, role) => lost'[s][role] = lost[s][role]
    OBVIOUS
  <2>1. lost[s][role] \in 0 .. Forgotten /\ lost'[s][role] \in 0 .. Forgotten
    BY DEF AgeInv, FitInv, TablesFit
  <2>2. lost'[s][role] = IF Carries(s, role) \/ lost[s][role] = Forgotten
                         THEN lost[s][role] ELSE lost[s][role] + 1
    BY DEF Tick
  <2> QED BY <2>1, <2>2
<1>1. Carried'
  <2>1. \A s \in Sessions : \A role \in Roles : Carries(s, role)' <=> Carries(s, role)
    BY DEF Tick, Carries
  <2> QED BY <1>0, <2>1 DEF AgeInv, Carried
<1>2. EntriesOfAge'
  <2> SUFFICES ASSUME NEW s \in Sessions, cache'[s] # NoEntry
               PROVE  lost'[s][cache'[s].role] <= cache'[s].age + Lag
    BY DEF EntriesOfAge
  <2>1. cache[s] \in [role : Roles \cup {None}, age : 0 .. Window + 1]
    BY DEF AgeInv, FitInv, TablesFit, CacheFits
  <2>2. CASE cache[s] # NoEntry /\ cache[s].age <= Window
    <3>1. cache'[s] = [cache[s] EXCEPT !.age = @ + 1] BY <2>2 DEF Tick
    <3>2. cache'[s].role = cache[s].role /\ cache'[s].age = cache[s].age + 1
      BY <2>1, <3>1
    <3>3. cache[s].role \in Roles BY <2>2 DEF AgeInv, FitInv, TablesFit, CacheFits
    <3>4. lost[s][cache[s].role] <= cache[s].age + Lag BY <2>2 DEF AgeInv, EntriesOfAge
    <3> QED BY <1>0, <2>1, <3>2, <3>3, <3>4, BoundsAreNat DEF Forgotten
  <2>3. CASE ~(cache[s] # NoEntry /\ cache[s].age <= Window)
    <3>1. cache'[s] = cache[s] BY <2>3 DEF Tick
    <3>2. cache[s].age = Window + 1 BY <2>1, <2>3, <3>1, BoundsAreNat
    <3>3. cache[s].role \in Roles BY <3>1 DEF AgeInv, FitInv, TablesFit, CacheFits
    <3> QED BY <1>0, <3>1, <3>2, <3>3, BoundsAreNat DEF Forgotten
  <2> QED BY <2>2, <2>3
<1>3. LookupsOfLag'
  <2> SUFFICES ASSUME NEW r \in Requests, req'[r].pc = "store"
               PROVE  lost'[req'[r].session][req'[r].role] <= req'[r].lag
    BY DEF LookupsOfLag
  <2>1. req[r] \in ReqType /\ Fits(req[r]) BY DEF AgeInv, FitInv, ReqsFit
  <2>2. req[r].pc = "store" BY <2>1 DEF Tick
  <2>3. req'[r] = [req[r] EXCEPT !.lag = @ + 1] BY <2>2 DEF Tick
  <2>4. /\ req'[r].session = req[r].session /\ req'[r].role = req[r].role
        /\ req'[r].lag = req[r].lag + 1
    BY <2>1, <2>3 DEF ReqType
  <2>5. req[r].session \in Sessions /\ req[r].role \in Roles /\ req[r].lag \in 0 .. Lag
    BY <2>1, <2>2 DEF Fits, ReqType
  <2>6. lost[req[r].session][req[r].role] <= req[r].lag
    BY <2>2 DEF AgeInv, LookupsOfLag
  <2> QED BY <1>0, <2>4, <2>5, <2>6, BoundsAreNat DEF Forgotten
<1> QED BY <1>1, <1>2, <1>3 DEF AgeInv

LEMMA NextAges == AgeInv /\ [Next]_vars => AgeInv'
<1> SUFFICES ASSUME AgeInv, [Next]_vars PROVE AgeInv' OBVIOUS
<1>0. FitInv' BY NextFits DEF AgeInv
<1>1. ASSUME NEW r \in Requests, Quiet(r) PROVE AgeInv'
  <2>1. PICK it : it.pc # "store" /\ Moves(r, it) BY <1>1, QuietMoves
  <2>2. Lowers BY <1>1, <2>1, QuietMoves, QuietLowers
  <2> QED BY <1>0, <2>2, LowersKeepsAges
<1>2. CASE UNCHANGED vars
  BY <1>0, <1>2 DEF vars, AgeInv, Carried, Carries, EntriesOfAge, LookupsOfLag
<1> QED
  BY <1>0, <1>1, <1>2, WriteLowers, LowersKeepsAges, LookupKeepsAges, StoreKeepsAges,
     TickKeepsAges
  DEF Next, Authenticate, Administer, Revoke, Quiet

\* No other step lets a request in.
LEMMA LetInElsewhere ==
  ASSUME AgeInv, [Next]_vars, NEW r \in Requests,
         ~StoreEntry(r), ~\E s \in Sessions : CacheHit(r, s),
         req'[r].pc = "acting"
  PROVE  req[r].pc = "acting"
<1>0. /\ req \in [Requests -> ReqType] /\ NoReq \in ReqType /\ NoReq.pc = "off"
  BY NoReqFits DEF AgeInv, FitInv, ReqsFit, NoReq
<1> SUFFICES ASSUME NEW q \in Requests,
                    \/ Authenticate(q) \/ Serve(q) \/ Administer(q) \/ Revoke(q)
                    \/ StatementFails(q) \/ Tick \/ UNCHANGED vars
             PROVE  req[r].pc = "acting"
  BY DEF Next
<1> USE DEF Goto, Become, Finish, ReqType
<1>1. CASE Tick BY <1>0, <1>1 DEF Tick
<1>2. CASE UNCHANGED vars BY <1>2 DEF vars
<1>3. CASE Serve(q) \/ StatementFails(q) BY <1>0, <1>3 DEF Serve, StatementFails
<1>4. CASE Authenticate(q)
  <2>1. ASSUME NEW s \in Sessions, CacheHit(q, s) PROVE req[r].pc = "acting"
    BY <1>0, <2>1 DEF CacheHit
  <2>2. ASSUME NEW s \in Sessions, CacheMiss(q, s) \/ CacheUnread(q, s)
        PROVE  req[r].pc = "acting"
    BY <1>0, <2>2 DEF CacheMiss, CacheUnread
  <2>3. CASE EvictOld(q) \/ Lookup(q) BY <1>0, <2>3 DEF EvictOld, Lookup
  <2>4. CASE StoreEntry(q) BY <1>0, <2>4 DEF StoreEntry
  <2> QED BY <1>4, <2>1, <2>2, <2>3, <2>4 DEF Authenticate
<1>5. CASE Administer(q)
  <2>1. ASSUME NEW u \in Users, NEW grant \in Roles \cup {Gone}, Ask(q, u, grant)
        PROVE  req[r].pc = "acting"
    BY <1>0, <2>1 DEF Ask
  <2>2. CASE ReadTarget(q)
    <3> DEFINE on == [NoReq EXCEPT
                        !.pc = IF req[q].grant = "owner" THEN "write" ELSE "count",
                        !.target = req[q].target, !.grant = req[q].grant]
    <3>1. Moves(q, NoReq) \/ Moves(q, on) BY <2>2 DEF ReadTarget, Moves
    <3>2. NoReq.pc # "acting" /\ on.pc # "acting" BY <1>0
    <3> QED BY <1>0, <3>1, <3>2 DEF Moves
  <2>3. CASE CountOwners(q)
    <3>1. \A p \in Requests : p # q => req'[p] = req[p] BY <1>0, <2>3 DEF CountOwners
    <3>2. req'[q].pc = "isowner" BY <1>0, <2>3 DEF CountOwners
    <3> QED BY <3>1, <3>2
  <2>6. CASE CheckOwner(q) BY <1>0, <2>6 DEF CheckOwner
  <2>4. CASE WriteRole(q) BY <1>0, <2>4 DEF WriteRole, Overtake
  <2>5. CASE WriteRemoval(q) BY <1>0, <2>5 DEF WriteRemoval, Overtake
  <2> QED BY <1>5, <2>1, <2>2, <2>3, <2>4, <2>5, <2>6 DEF Administer
<1>6. CASE Revoke(q)
  <2>1. CASE Logout(q) \/ ChangePassword(q) \/ ListSessions(q)
    BY <1>0, <2>1 DEF Logout, ChangePassword, ListSessions
  <2>2. CASE ClearEntries(q) \/ EvictRevoked(q)
    BY <1>0, <2>2 DEF ClearEntries, EvictRevoked, NextRevocation
  <2>3. ASSUME NEW s \in Sessions, RevokeSession(q, s) PROVE req[r].pc = "acting"
    BY <1>0, <2>3 DEF RevokeSession
  <2> QED BY <1>6, <2>1, <2>2, <2>3 DEF Revoke
<1> QED BY <1>1, <1>2, <1>3, <1>4, <1>5, <1>6

\* A request that is let in was found in the cache inside the window, or has
\* just read the table.
LEMMA LetInInTime ==
  ASSUME AgeInv, [Next]_vars, NEW r \in Requests,
         req[r].pc # "acting", req'[r].pc = "acting"
  PROVE  lost[req'[r].session][req'[r].role] <= Window + Lag
<1>0. /\ req \in [Requests -> ReqType] /\ NoReq \in ReqType /\ NoReq.pc = "off"
      /\ \A s \in Sessions : \A role \in Roles : lost[s][role] \in Int
  BY NoReqFits, BoundsAreNat DEF AgeInv, FitInv, ReqsFit, TablesFit, Forgotten, NoReq
<1>1. ASSUME NEW s \in Sessions, CacheHit(r, s)
      PROVE  lost[req'[r].session][req'[r].role] <= Window + Lag
  <2>1. req'[r].session = s /\ req'[r].role = cache[s].role
    BY <1>0, <1>1 DEF CacheHit, Become, ReqType
  <2>2. cache[s] # NoEntry /\ cache[s].age <= Window /\ cache[s].age \in 0 .. Window + 1
    BY <1>1 DEF CacheHit, Trusted, AgeInv, FitInv, TablesFit, CacheFits
  <2>3. cache[s].role \in Roles BY <2>2 DEF AgeInv, FitInv, TablesFit, CacheFits
  <2>4. lost[s][cache[s].role] <= cache[s].age + Lag BY <2>2 DEF AgeInv, EntriesOfAge
  <2> QED BY <1>0, <2>1, <2>2, <2>3, <2>4, BoundsAreNat
<1>2. CASE StoreEntry(r)
  <2>1. req'[r].session = req[r].session /\ req'[r].role = req[r].role
    BY <1>0, <1>2 DEF StoreEntry, ReqType
  <2>2. req[r].session \in Sessions /\ req[r].role \in Roles /\ req[r].lag \in 0 .. Lag
    BY <1>2 DEF StoreEntry, AgeInv, FitInv, ReqsFit, Fits, ReqType
  <2>3. lost[req[r].session][req[r].role] <= req[r].lag
    BY <1>2 DEF StoreEntry, AgeInv, LookupsOfLag
  <2> QED BY <1>0, <2>1, <2>2, <2>3, BoundsAreNat
<1> QED BY <1>1, <1>2, LetInElsewhere

\* However evictions are lost or overtaken, a request acts with a role that its
\* session carried within the trust window and the lag of one lookup.
THEOREM StaleAccess == Spec => StaleAccessIsBounded
<1>1. Spec => []AgeInv BY InitAges, NextAges, PTL DEF Spec
<1>2. AgeInv /\ [Next]_vars =>
        [\A r \in Requests : req[r].pc # "acting" /\ req'[r].pc = "acting"
           => lost[req'[r].session][req'[r].role] <= Window + Lag]_vars
  BY LetInInTime
<1> QED BY <1>1, <1>2, PTL DEF Spec, StaleAccessIsBounded

-----------------------------------------------------------------------------
(* The last owner *)

\* What a request has counted still holds, unless it was overtaken.
StillHolds(it) ==
  ~it.overtaken =>
    /\ it.pc = "isowner" => it.owners = Cardinality(Owners)
    /\ it.pc = "write" => \/ it.grant = "owner"
                          \/ it.target \notin Owners
                          \/ Cardinality(Owners) > 1

CountInv == FitInv /\ \A r \in Requests : StillHolds(req[r])

LEMMA InitCounts == Init => CountInv
<1> SUFFICES ASSUME Init PROVE CountInv OBVIOUS
<1>1. \A r \in Requests : req[r].pc = "off" BY DEF Init, NoReq
<1> QED BY <1>1, InitFits DEF CountInv, StillHolds

LEMMA MovesKeepsCounts ==
  ASSUME CountInv, FitInv', UNCHANGED member,
         NEW r \in Requests, NEW it, Moves(r, it), StillHolds(it)
  PROVE  CountInv'
<1>1. Owners' = Owners BY DEF Owners
<1>2. \A q \in Requests : StillHolds(req'[q])
  BY DEF CountInv, FitInv, ReqsFit, Moves
<1>3. \A q \in Requests : StillHolds(req[q])'
  BY <1>1, <1>2 DEF StillHolds
<1> QED BY <1>3 DEF CountInv

\* A request that leaves what it counted, or has counted nothing yet.
LEMMA ElsewhereHolds ==
  ASSUME NEW it, it.pc \notin {"isowner", "write"}
  PROVE  StillHolds(it)
  BY DEF StillHolds

\* The steps that count and that act on the count.
LEMMA CountsHold ==
  ASSUME CountInv, FitInv', NEW r \in Requests,
         ReadTarget(r) \/ CountOwners(r) \/ CheckOwner(r)
  PROVE  CountInv'
<1>0. req[r] \in ReqType /\ NoReq \in ReqType /\ StillHolds(req[r]) /\ StillHolds(NoReq)
  BY NoReqFits, ElsewhereHolds DEF CountInv, FitInv, ReqsFit, NoReq
<1>1. CASE ReadTarget(r)
  <2> DEFINE on == [NoReq EXCEPT !.pc = IF req[r].grant = "owner" THEN "write" ELSE "count",
                                 !.target = req[r].target, !.grant = req[r].grant]
  <2>1. StillHolds(on) BY <1>0 DEF StillHolds, ReqType
  <2>2. Moves(r, NoReq) \/ Moves(r, on) BY <1>1 DEF ReadTarget, Finish, Become, Moves
  <2>3. UNCHANGED member BY <1>1 DEF ReadTarget
  <2> QED BY <1>0, <2>1, <2>2, <2>3, MovesKeepsCounts
<1>2. CASE CountOwners(r)
  <2> DEFINE it == [req[r] EXCEPT !.pc = "isowner", !.owners = Cardinality(Owners)]
  <2>1. StillHolds(it) BY <1>0 DEF StillHolds, ReqType
  <2>2. Moves(r, it) /\ UNCHANGED member BY <1>2 DEF CountOwners, Moves
  <2> QED BY <2>1, <2>2, MovesKeepsCounts
<1>3. CASE CheckOwner(r)
  <2> DEFINE it == [req[r] EXCEPT !.pc = "write"]
  <2>1. CASE req[r].target \in Owners /\ LastOne(r)
    BY <1>0, <1>3, <2>1, MovesKeepsCounts DEF CheckOwner, Finish, Moves
  <2>2. CASE ~(req[r].target \in Owners /\ LastOne(r))
    <3>1. Cardinality(Owners) \in Nat
      BY AccessConstants, FS_Subset, FS_CardinalityType DEF Owners
    <3>2. /\ it.overtaken = req[r].overtaken /\ it.target = req[r].target
          /\ it.pc = "write" /\ it.grant = req[r].grant
      BY <1>0 DEF ReqType
    <3>3. ~req[r].overtaken => req[r].owners = Cardinality(Owners)
      BY <1>0, <1>3 DEF StillHolds, CheckOwner
    <3>4. StillHolds(it) BY <2>2, <3>1, <3>2, <3>3 DEF StillHolds, LastOne
    <3>5. Moves(r, it) /\ UNCHANGED member
      BY <1>3, <2>2 DEF CheckOwner, Goto, Moves
    <3> QED BY <3>4, <3>5, MovesKeepsCounts
  <2> QED BY <2>1, <2>2
<1> QED BY <1>1, <1>2, <1>3

\* A write: whoever counted before it, and whose count it falsifies, is marked.
LEMMA WriteKeepsCounts ==
  ASSUME CountInv, FitInv', NEW r \in Requests, WriteRole(r) \/ WriteRemoval(r)
  PROVE  CountInv'
<1>0. req \in [Requests -> ReqType] /\ NoReq \in ReqType /\ NoReq.pc = "off"
  BY NoReqFits DEF CountInv, FitInv, ReqsFit, NoReq
<1>1. PICK it : it.pc \in {"off", "list"} /\ Overtake(r, it)
  <2>1. CASE WriteRole(r) BY <1>0, <2>1 DEF WriteRole
  <2>2. CASE WriteRemoval(r)
    <3> DEFINE next == [NoReq EXCEPT !.pc = "list", !.target = req[r].target]
    <3>1. next.pc = "list" BY <1>0 DEF ReqType
    <3>2. Overtake(r, next) BY <2>2 DEF WriteRemoval
    <3> HIDE DEF next
    <3> QED BY <3>1, <3>2
  <2> QED BY <2>1, <2>2
<1>2. ASSUME NEW q \in Requests PROVE StillHolds(req[q])'
  <2>1. CASE q = r
    BY <1>1, <2>1 DEF Overtake, StillHolds
  <2>2. CASE q # r
    <3> DEFINE marked == req[q].overtaken \/ (Owners' # Owners /\ req[q].pc \in {"isowner", "write"})
    <3>1. req'[q] = [req[q] EXCEPT !.overtaken = marked]
      BY <1>1, <2>2 DEF Overtake
    <3>2. req[q] \in ReqType BY <1>0
    <3> HIDE DEF marked
    <3>3. /\ req'[q].pc = req[q].pc /\ req'[q].owners = req[q].owners
          /\ req'[q].grant = req[q].grant /\ req'[q].target = req[q].target
          /\ req'[q].overtaken = marked
      BY <3>1, <3>2 DEF ReqType
    <3>4. StillHolds(req[q]) BY DEF CountInv
    <3>5. CASE req[q].pc \notin {"isowner", "write"}
      BY <3>3, <3>5 DEF StillHolds
    <3>6. CASE req[q].pc \in {"isowner", "write"} /\ Owners' # Owners
      <4>1. marked BY <3>6 DEF marked
      <4> QED BY <3>3, <4>1 DEF StillHolds
    <3>7. CASE req[q].pc \in {"isowner", "write"} /\ Owners' = Owners
      <4>1. marked <=> req[q].overtaken BY <3>7 DEF marked
      <4> QED BY <3>3, <3>4, <3>7, <4>1 DEF StillHolds
    <3> QED BY <3>5, <3>6, <3>7
  <2> QED BY <2>1, <2>2
<1> QED BY <1>2 DEF CountInv

\* The steps that neither count the owners nor write a membership.
LEMMA OthersKeepCounts ==
  ASSUME CountInv, FitInv', NEW r \in Requests,
         \/ Authenticate(r) \/ Serve(r) \/ Revoke(r) \/ StatementFails(r)
         \/ \E u \in Users : \E grant \in Roles \cup {Gone} : Ask(r, u, grant)
  PROVE  CountInv'
<1>0. req[r] \in ReqType /\ NoReq \in ReqType /\ NoReq.pc = "off"
  BY NoReqFits DEF CountInv, FitInv, ReqsFit, NoReq
<1>1. UNCHANGED member
  BY DEF Authenticate, CacheHit, CacheMiss, CacheUnread, EvictOld, Lookup, StoreEntry, Serve,
         Revoke, Logout, ChangePassword, ListSessions, ClearEntries, RevokeSession, EvictRevoked,
         StatementFails, Ask
<1>2. ASSUME NEW it, Moves(r, it), it.pc \notin {"isowner", "write"} PROVE CountInv'
  BY <1>1, <1>2, ElsewhereHolds, MovesKeepsCounts
<1>3. CASE Authenticate(r)
  <2>1. ASSUME NEW s \in Sessions, CacheHit(r, s) \/ CacheMiss(r, s) \/ CacheUnread(r, s)
        PROVE  CountInv'
    <3> DEFINE hit  == [NoReq EXCEPT !.pc = "acting", !.session = s, !.role = cache[s].role]
               miss == [NoReq EXCEPT !.pc = IF cache[s] = NoEntry THEN "lookup" ELSE "evict",
                                     !.session = s]
               unread == [NoReq EXCEPT !.pc = "lookup", !.session = s]
    <3>1. hit.pc = "acting" /\ miss.pc \in {"lookup", "evict"} /\ unread.pc = "lookup"
      BY <1>0 DEF ReqType
    <3>2. Moves(r, hit) \/ Moves(r, miss) \/ Moves(r, unread)
      BY <2>1 DEF CacheHit, CacheMiss, CacheUnread, Become, Moves
    <3> QED BY <1>2, <3>1, <3>2
  <2>2. CASE EvictOld(r)
    <3> DEFINE it == [req[r] EXCEPT !.pc = "lookup"]
    <3>1. it.pc = "lookup" /\ Moves(r, it) BY <1>0, <2>2 DEF EvictOld, Goto, Moves, ReqType
    <3> QED BY <1>2, <3>1
  <2>3. CASE Lookup(r)
    <3> DEFINE it == [req[r] EXCEPT !.pc = "store", !.role = member[UserOf[req[r].session]].role]
    <3>1. it.pc = "store" BY <1>0 DEF ReqType
    <3>2. Moves(r, it) \/ Moves(r, NoReq) BY <2>3 DEF Lookup, Finish, Moves
    <3> QED BY <1>0, <1>2, <3>1, <3>2
  <2>4. CASE StoreEntry(r)
    <3> DEFINE it == [req[r] EXCEPT !.pc = "acting", !.lag = 0]
    <3>1. it.pc = "acting" /\ Moves(r, it) BY <1>0, <2>4 DEF StoreEntry, Moves, ReqType
    <3> QED BY <1>2, <3>1
  <2> QED BY <1>3, <2>1, <2>2, <2>3, <2>4 DEF Authenticate
<1>4. CASE Serve(r) \/ StatementFails(r)
  BY <1>0, <1>2, <1>4 DEF Serve, StatementFails, Finish, Moves
<1>5. ASSUME NEW u \in Users, NEW grant \in Roles \cup {Gone}, Ask(r, u, grant) PROVE CountInv'
  <2> DEFINE it == [req[r] EXCEPT !.pc = "target", !.target = u, !.grant = grant]
  <2>1. it.pc = "target" /\ Moves(r, it) BY <1>0, <1>5 DEF Ask, Moves, ReqType
  <2> QED BY <1>2, <2>1
<1>6. CASE Revoke(r)
  <2>1. CASE Logout(r) \/ ChangePassword(r) \/ ListSessions(r)
    <3> DEFINE out  == [NoReq EXCEPT !.pc = "revoke", !.todo = {req[r].session}]
               pass == [NoReq EXCEPT !.pc = "list", !.target = UserOf[req[r].session]]
               all  == [req[r] EXCEPT !.pc = "clear",
                                      !.todo = {s \in live : UserOf[s] = req[r].target}]
    <3>1. out.pc = "revoke" /\ pass.pc = "list" /\ all.pc = "clear" BY <1>0 DEF ReqType
    <3>2. Moves(r, out) \/ Moves(r, pass) \/ Moves(r, all)
      BY <2>1 DEF Logout, ChangePassword, ListSessions, Become, Moves
    <3> QED BY <1>2, <3>1, <3>2
  <2>2. ASSUME NEW todo, NextRevocation(r, todo) PROVE CountInv'
    <3> DEFINE it == [NoReq EXCEPT !.pc = "revoke", !.todo = todo]
    <3>1. it.pc = "revoke" BY <1>0 DEF ReqType
    <3>2. Moves(r, it) \/ Moves(r, NoReq) BY <2>2 DEF NextRevocation, Finish, Become, Moves
    <3> QED BY <1>0, <1>2, <3>1, <3>2
  <2>3. CASE ClearEntries(r) \/ EvictRevoked(r)
    BY <2>2, <2>3 DEF ClearEntries, EvictRevoked
  <2>4. ASSUME NEW s \in Sessions, RevokeSession(r, s) PROVE CountInv'
    <3> DEFINE it == [req[r] EXCEPT !.pc = "unlist", !.session = s]
    <3>1. it.pc = "unlist" /\ Moves(r, it) BY <1>0, <2>4 DEF RevokeSession, Moves, ReqType
    <3> QED BY <1>2, <3>1
  <2> QED BY <1>6, <2>1, <2>3, <2>4 DEF Revoke
<1> QED BY <1>3, <1>4, <1>5, <1>6

LEMMA TickKeepsCounts ==
  ASSUME CountInv, FitInv', Tick
  PROVE  CountInv'
<1>1. Owners' = Owners BY DEF Tick, Owners
<1>2. ASSUME NEW q \in Requests PROVE StillHolds(req[q])'
  <2>1. req[q] \in ReqType /\ StillHolds(req[q]) BY DEF CountInv, FitInv, ReqsFit
  <2>2. CASE req[q].pc = "store"
    <3>1. req'[q] = [req[q] EXCEPT !.lag = @ + 1] BY <2>2 DEF Tick
    <3>2. req'[q].pc = "store" BY <2>1, <2>2, <3>1 DEF ReqType
    <3> QED BY <3>2 DEF StillHolds
  <2>3. CASE req[q].pc # "store"
    <3>1. req'[q] = req[q] BY <2>3 DEF Tick
    <3> QED BY <1>1, <2>1, <3>1 DEF StillHolds
  <2> QED BY <2>2, <2>3
<1> QED BY <1>2 DEF CountInv

LEMMA NextCounts ==
  ASSUME CountInv, [Next]_vars
  PROVE  CountInv'
<1>1. FitInv' BY NextFits DEF CountInv
<1>2. CASE UNCHANGED vars
  BY <1>1, <1>2 DEF CountInv, StillHolds, Owners, vars
<1>3. CASE Tick BY <1>1, <1>3, TickKeepsCounts
<1>4. ASSUME NEW r \in Requests, Administer(r) PROVE CountInv'
  BY <1>1, <1>4, CountsHold, WriteKeepsCounts, OthersKeepCounts DEF Administer
<1>5. ASSUME NEW r \in Requests, Authenticate(r) \/ Serve(r) \/ Revoke(r) \/ StatementFails(r)
      PROVE  CountInv'
  BY <1>1, <1>5, OthersKeepCounts
<1> QED BY <1>2, <1>3, <1>4, <1>5 DEF Next

\* A write that is not overtaken leaves an owner.
LEMMA WriteLeavesAnOwner ==
  ASSUME CountInv, NEW r \in Requests, WriteRole(r) \/ WriteRemoval(r),
         ~req[r].overtaken, Owners # {}
  PROVE  Owners' # {}
<1> DEFINE u == req[r].target
<1>1. req[r].pc = "write" BY DEF WriteRole, WriteRemoval
<1>2. /\ member \in [Users -> [role : Roles, active : BOOLEAN]]
      /\ req[r] \in ReqType
  BY DEF CountInv, FitInv, ReqsFit, TablesFit
<1>3. \A v \in Users \ {u} : member'[v] = member[v]
  BY <1>2 DEF WriteRole, WriteRemoval
<1>4. Owners \ {u} \subseteq Owners' BY <1>3 DEF Owners
<1>5. \/ req[r].grant = "owner"
      \/ u \notin Owners
      \/ Cardinality(Owners) > 1
  BY <1>1 DEF CountInv, StillHolds
<1>6. CASE u \notin Owners BY <1>4, <1>6
<1>7. CASE u \in Owners /\ req[r].grant = "owner"
  <2>1. u \in Users /\ member[u].active BY <1>7 DEF Owners
  <2>2. WriteRole(r) BY <1>7 DEF WriteRemoval, Gone
  <2>3. member'[u] = [member[u] EXCEPT !.role = "owner"]
    BY <1>2, <1>7, <2>1, <2>2 DEF WriteRole
  <2>4. member'[u].active /\ member'[u].role = "owner" BY <1>2, <2>1, <2>3
  <2> QED BY <2>1, <2>4 DEF Owners
<1>8. CASE u \in Owners /\ Cardinality(Owners) > 1
  <2>1. Cardinality({u}) = 1 BY FS_Singleton
  <2>2. Owners # {u} BY <1>8, <2>1
  <2>3. PICK v \in Owners : v # u BY <1>8, <2>2
  <2> QED BY <1>4, <2>3
<1> QED BY <1>5, <1>6, <1>7, <1>8

\* Only the two writes change who the owners are.
LEMMA OnlyWritesChangeOwners ==
  ASSUME [Next]_vars, Owners' # Owners
  PROVE  \E r \in Requests : WriteRole(r) \/ WriteRemoval(r)
<1>1. ~UNCHANGED member BY DEF Owners
<1>2. ~UNCHANGED vars /\ ~Tick BY <1>1 DEF vars, Tick
<1>3. PICK r \in Requests :
        \/ Authenticate(r) \/ Serve(r) \/ Administer(r) \/ Revoke(r) \/ StatementFails(r)
  BY <1>2 DEF Next
<1>4. ~(Authenticate(r) \/ Serve(r) \/ Revoke(r) \/ StatementFails(r))
  BY <1>1 DEF Authenticate, CacheHit, CacheMiss, CacheUnread, EvictOld, Lookup, StoreEntry, Serve,
         Revoke, Logout, ChangePassword, ListSessions, ClearEntries, RevokeSession, EvictRevoked,
         StatementFails
<1> QED BY <1>1, <1>3, <1>4 DEF Administer, Ask, ReadTarget, CountOwners, CheckOwner

\* An organization loses its last owner only by a change that was overtaken
\* after it had counted the owners.
THEOREM LastOwner == Spec => LastOwnerLostOnlyByOvertaking
<1>1. Spec => []CountInv BY InitCounts, NextCounts, PTL DEF Spec
<1>2. CountInv /\ [Next]_vars =>
        [Owners # {} /\ Owners' = {} =>
           \E r \in Requests : req[r].pc = "write" /\ req[r].overtaken]_vars
  <2> SUFFICES ASSUME CountInv, [Next]_vars, Owners # {}, Owners' = {}
               PROVE  \E r \in Requests : req[r].pc = "write" /\ req[r].overtaken
    OBVIOUS
  <2>1. PICK r \in Requests : WriteRole(r) \/ WriteRemoval(r) BY OnlyWritesChangeOwners
  <2>2. req[r].pc = "write" BY <2>1 DEF WriteRole, WriteRemoval
  <2>3. req[r].overtaken BY <2>1, WriteLeavesAnOwner
  <2> QED BY <2>2, <2>3
<1> QED BY <1>1, <1>2, PTL DEF Spec, LastOwnerLostOnlyByOvertaking
=============================================================================
