------------------------------- MODULE Access -------------------------------
(***************************************************************************)
(* Who may act in an organization: its memberships, the sessions that act  *)
(* in it, the Redis cache in front of the session table, and the requests  *)
(* that authenticate through it and then change a role, remove a member,   *)
(* log out or change a password.                                           *)
(*                                                                         *)
(* One organization.  A step is one statement, one Redis command, or the   *)
(* code between two of them.  Time runs in ticks: an entry of the cache    *)
(* has an age, and a lookup takes at most Lag ticks from its read of the   *)
(* table to its write of the cache.                                        *)
(***************************************************************************)
EXTENDS Naturals, FiniteSets

CONSTANTS
  Users,      \* accounts
  Roles,      \* roles in use, a subset of MEMBER_ROLES
  FirstRole,  \* the role each account starts with
  Sessions,   \* rows of sessions
  UserOf,     \* the account of each session
  Requests,   \* requests being served
  Window,     \* SESSION_CACHE_TRUST_WINDOW_MS, in ticks
  Lag,        \* bound: ticks from the read of the table to the cache write
  MaxFaults,  \* bound: lost Redis commands and failing statements
  MaxChanges, \* bound: requests that change a membership or end sessions
  None

ASSUME AccessConstants ==
  /\ Roles \subseteq {"owner", "admin", "member", "viewer"}
  /\ FirstRole \in [Users -> Roles]
  /\ UserOf \in [Sessions -> Users]
  /\ {Window, Lag, MaxFaults, MaxChanges} \subseteq Nat
  /\ None \notin Users \cup Sessions \cup Roles
  /\ IsFiniteSet(Users)

VARIABLES
  member,   \* memberships
  live,     \* sessions that are not revoked
  cache,    \* Redis: what is cached for a session
  req,      \* what each request is in the middle of
  lost,     \* history: ticks since a session last carried a role
  faults,   \* what is left of the bound on faults
  changes   \* what is left of the bound on changes

vars == <<member, live, cache, req, lost, faults, changes>>

Gone == "removed"
NoEntry == [role |-> None, age |-> 0]
NoReq == [pc |-> "off", session |-> None, role |-> None, lag |-> 0,
          target |-> None, grant |-> None, owners |-> 0, overtaken |-> FALSE, todo |-> {}]

Owners == {u \in Users : member[u].active /\ member[u].role = "owner"}

\* The join of findSessionByToken: the session acts with this role.
Carries(s, role) ==
  /\ s \in live
  /\ member[UserOf[s]].active
  /\ member[UserOf[s]].role = role

Forgotten == Window + Lag + 1
Remember ==
  lost' = [s \in Sessions |-> [role \in Roles |->
             IF Carries(s, role)' THEN 0 ELSE lost[s][role]]]

Init ==
  /\ member = [u \in Users |-> [role |-> FirstRole[u], active |-> TRUE]]
  /\ live = Sessions
  /\ cache = [s \in Sessions |-> NoEntry]
  /\ req = [r \in Requests |-> NoReq]
  /\ lost = [s \in Sessions |-> [role \in Roles |->
               IF role = FirstRole[UserOf[s]] THEN 0 ELSE Forgotten]]
  /\ faults = MaxFaults
  /\ changes = MaxChanges

Goto(r, pc) == req' = [req EXCEPT ![r].pc = pc]
Become(r, it) == req' = [req EXCEPT ![r] = it]
Finish(r) == req' = [req EXCEPT ![r] = NoReq]

Fault == faults > 0 /\ faults' = faults - 1
Change == changes > 0 /\ changes' = changes - 1

\* DEL: the command may be lost, and the caller never knows.
Deleted(keys) ==
  \/ /\ cache' = [s \in Sessions |-> IF s \in keys THEN NoEntry ELSE cache[s]]
     /\ UNCHANGED faults
  \/ /\ \E s \in keys : cache[s] # NoEntry
     /\ Fault
     /\ UNCHANGED cache

-----------------------------------------------------------------------------
(* findSessionByToken and requireAuth *)

AnyAge(s) == TRUE
Trusted(s) == cache[s].age <= Window

\* GET: an entry inside the window is served as it is.
CacheHit(r, s) ==
  /\ req[r].pc = "off"
  /\ cache[s] # NoEntry /\ Trusted(s)
  /\ Become(r, [NoReq EXCEPT !.pc = "acting", !.session = s, !.role = cache[s].role])
  /\ UNCHANGED <<member, live, cache, lost, faults, changes>>

CacheMiss(r, s) ==
  /\ req[r].pc = "off"
  /\ cache[s] = NoEntry \/ ~Trusted(s)
  /\ Become(r, [NoReq EXCEPT !.pc = IF cache[s] = NoEntry THEN "lookup" ELSE "evict",
                             !.session = s])
  /\ UNCHANGED <<member, live, cache, lost, faults, changes>>

\* The GET is lost, or the client is known to be disconnected: an entry that
\* stands is not seen, and the table is read as on a miss.
CacheUnread(r, s) ==
  /\ req[r].pc = "off"
  /\ cache[s] # NoEntry
  /\ Become(r, [NoReq EXCEPT !.pc = "lookup", !.session = s])
  /\ Fault
  /\ UNCHANGED <<member, live, cache, lost, changes>>

EvictOld(r) ==
  /\ req[r].pc = "evict"
  /\ Deleted({req[r].session})
  /\ Goto(r, "lookup")
  /\ UNCHANGED <<member, live, lost, changes>>

\* The read of the table.  No active membership, or a revoked session: 401.
Lookup(r) ==
  LET s == req[r].session
      row == member[UserOf[s]] IN
  /\ req[r].pc = "lookup"
  /\ IF s \in live /\ row.active
     THEN req' = [req EXCEPT ![r].pc = "store", ![r].role = row.role]
     ELSE Finish(r)
  /\ UNCHANGED <<member, live, cache, lost, faults, changes>>

\* SETEX, stamped with the time of the write and not of the read.
FreshEntry(r) == [role |-> req[r].role, age |-> 0]
StoreEntry(r) ==
  /\ req[r].pc = "store"
  /\ \/ /\ cache' = [cache EXCEPT ![req[r].session] = FreshEntry(r)]
        /\ UNCHANGED faults
     \/ Fault /\ UNCHANGED cache
  /\ req' = [req EXCEPT ![r].pc = "acting", ![r].lag = 0]
  /\ UNCHANGED <<member, live, lost, changes>>

-----------------------------------------------------------------------------
(* updateMemberRole and removeMember.  The actor's role is the one the      *)
(* session was authenticated with.                                          *)

\* A request that changes nothing here.
Serve(r) ==
  /\ req[r].pc = "acting"
  /\ Finish(r)
  /\ UNCHANGED <<member, live, cache, lost, faults, changes>>

\* assertAdministrator and the refusal of a change to oneself.
MayAdminister(r, u) ==
  /\ req[r].role \in {"owner", "admin"}
  /\ UserOf[req[r].session] # u

\* grant is the new role, or Gone to remove the member.
Ask(r, u, grant) ==
  /\ req[r].pc = "acting"
  /\ MayAdminister(r, u)
  /\ req' = [req EXCEPT ![r].pc = "target", ![r].target = u, ![r].grant = grant]
  /\ Change
  /\ UNCHANGED <<member, live, cache, lost, faults>>

\* membershipRole of the target, and what an admin may not do.
ReadTarget(r) ==
  LET row == member[req[r].target]
      refused == \/ ~row.active
                 \/ req[r].role # "owner" /\ "owner" \in {row.role, req[r].grant}
  IN
  /\ req[r].pc = "target"
  /\ IF refused THEN Finish(r)
     ELSE Become(r, [NoReq EXCEPT
            !.pc = IF req[r].grant = "owner" THEN "write" ELSE "count",
            !.target = req[r].target, !.grant = req[r].grant])
  /\ UNCHANGED <<member, live, cache, lost, faults, changes>>

\* assertNotLastOwner: count the owners, then read the target once more.
CountOwners(r) ==
  /\ req[r].pc = "count"
  /\ req' = [req EXCEPT ![r].pc = "isowner", ![r].owners = Cardinality(Owners)]
  /\ UNCHANGED <<member, live, cache, lost, faults, changes>>

NoneLeft(r) == req[r].owners < 1
LastOne(r) == req[r].owners <= 1
CheckOwner(r) ==
  /\ req[r].pc = "isowner"
  /\ IF req[r].target \in Owners /\ LastOne(r) THEN Finish(r) ELSE Goto(r, "write")
  /\ UNCHANGED <<member, live, cache, lost, faults, changes>>

\* The request goes on as `it'; a change of the owners overtakes the others
\* that have counted them and not yet written (history).
Overtake(r, it) ==
  req' = [q \in Requests |->
            IF q = r THEN it
            ELSE [req[q] EXCEPT !.overtaken =
                    @ \/ (Owners' # Owners /\ req[q].pc \in {"isowner", "write"})]]

RemovedByRole(u) == [member[u] EXCEPT !.role = Gone]
Removed(u) == [member[u] EXCEPT !.active = FALSE]

\* One update by organization and user, whatever the row says by now.
WriteRole(r) ==
  LET u == req[r].target IN
  /\ req[r].pc = "write" /\ req[r].grant # Gone
  /\ member' = [member EXCEPT ![u].role = req[r].grant]
  /\ Overtake(r, NoReq)
  /\ UNCHANGED <<live, cache, faults, changes>>
  /\ Remember

WriteRemoval(r) ==
  LET u == req[r].target IN
  /\ req[r].pc = "write" /\ req[r].grant = Gone
  /\ member' = [member EXCEPT ![u] = Removed(u)]
  /\ Overtake(r, [NoReq EXCEPT !.pc = "list", !.target = u])
  /\ UNCHANGED <<live, cache, faults, changes>>
  /\ Remember

-----------------------------------------------------------------------------
(* revokeSession, revokeOrgSessions, invalidateUserSessions *)

Logout(r) ==
  /\ req[r].pc = "acting"
  /\ Become(r, [NoReq EXCEPT !.pc = "revoke", !.todo = {req[r].session}])
  /\ Change
  /\ UNCHANGED <<member, live, cache, lost, faults>>

\* change-password: every session of the account, this one included.
ChangePassword(r) ==
  /\ req[r].pc = "acting"
  /\ Become(r, [NoReq EXCEPT !.pc = "list", !.target = UserOf[req[r].session]])
  /\ Change
  /\ UNCHANGED <<member, live, cache, lost, faults>>

\* The sessions of the target are listed and their entries deleted; those the
\* list showed unrevoked are then revoked one by one.
ListSessions(r) ==
  /\ req[r].pc = "list"
  /\ req' = [req EXCEPT ![r].pc = "clear",
                        ![r].todo = {s \in live : UserOf[s] = req[r].target}]
  /\ UNCHANGED <<member, live, cache, lost, faults, changes>>

NextRevocation(r, todo) ==
  IF todo = {} THEN Finish(r)
  ELSE Become(r, [NoReq EXCEPT !.pc = "revoke", !.todo = todo])

ClearEntries(r) ==
  /\ req[r].pc = "clear"
  /\ Deleted({s \in Sessions : UserOf[s] = req[r].target})
  /\ NextRevocation(r, req[r].todo)
  /\ UNCHANGED <<member, live, lost, changes>>

\* The update of the row; the entry of the cache goes in a later step.
RevokeSession(r, s) ==
  /\ req[r].pc = "revoke" /\ s \in req[r].todo
  /\ live' = live \ {s}
  /\ req' = [req EXCEPT ![r].pc = "unlist", ![r].session = s]
  /\ UNCHANGED <<member, cache, faults, changes>>
  /\ Remember

EvictRevoked(r) ==
  /\ req[r].pc = "unlist"
  /\ Deleted({req[r].session})
  /\ NextRevocation(r, req[r].todo \ {req[r].session})
  /\ UNCHANGED <<member, live, lost, changes>>

-----------------------------------------------------------------------------
(* Time, failing statements *)

\* A lookup whose read is Lag ticks old stores its entry before time goes on.
Tick ==
  /\ \A r \in Requests : req[r].pc = "store" => req[r].lag < Lag
  /\ req' = [r \in Requests |->
               IF req[r].pc = "store" THEN [req[r] EXCEPT !.lag = @ + 1] ELSE req[r]]
  /\ cache' = [s \in Sessions |->
                 IF cache[s] # NoEntry /\ cache[s].age <= Window
                 THEN [cache[s] EXCEPT !.age = @ + 1] ELSE cache[s]]
  /\ lost' = [s \in Sessions |-> [role \in Roles |->
                IF Carries(s, role) \/ lost[s][role] = Forgotten
                THEN lost[s][role] ELSE lost[s][role] + 1]]
  /\ UNCHANGED <<member, live, faults, changes>>

\* A statement throws.  In the loops over the sessions of an account that is
\* swallowed, and the sessions left over stay unrevoked.
StatementFails(r) ==
  /\ req[r].pc \notin {"off", "acting"}
  /\ Fault
  /\ Finish(r)
  /\ UNCHANGED <<member, live, cache, lost, changes>>

-----------------------------------------------------------------------------

Authenticate(r) ==
  \/ \E s \in Sessions : CacheHit(r, s) \/ CacheMiss(r, s) \/ CacheUnread(r, s)
  \/ EvictOld(r)
  \/ Lookup(r)
  \/ StoreEntry(r)

Administer(r) ==
  \/ \E u \in Users : \E grant \in Roles \cup {Gone} : Ask(r, u, grant)
  \/ ReadTarget(r)
  \/ CountOwners(r)
  \/ CheckOwner(r)
  \/ WriteRole(r)
  \/ WriteRemoval(r)

Revoke(r) ==
  \/ Logout(r)
  \/ ChangePassword(r)
  \/ ListSessions(r)
  \/ ClearEntries(r)
  \/ \E s \in Sessions : RevokeSession(r, s)
  \/ EvictRevoked(r)

Next ==
  \/ \E r \in Requests : Authenticate(r) \/ Serve(r) \/ Administer(r) \/ Revoke(r)
  \/ \E r \in Requests : StatementFails(r)
  \/ Tick

Spec == Init /\ [][Next]_vars

-----------------------------------------------------------------------------
(* Properties *)

Pcs == {"off", "evict", "lookup", "store", "acting", "target", "count", "isowner",
        "write", "list", "clear", "revoke", "unlist"}

\* Type correctness of the tables, the cache and the requests.
TypeOK ==
  /\ member \in [Users -> [role : Roles, active : BOOLEAN]]
  /\ live \subseteq Sessions
  /\ cache \in [Sessions -> [role : Roles \cup {None}, age : 0 .. Window + 1]]
  /\ req \in [Requests ->
       [pc : Pcs, session : Sessions \cup {None}, role : Roles \cup {None}, lag : 0 .. Lag,
        target : Users \cup {None}, grant : Roles \cup {Gone, None}, owners : Nat,
        overtaken : BOOLEAN, todo : SUBSET Sessions]]
  /\ lost \in [Sessions -> [Roles -> 0 .. Forgotten]]
  /\ faults \in 0 .. MaxFaults /\ changes \in 0 .. MaxChanges

\* However evictions are lost, delayed or overtaken by a lookup that read the
\* table before the change, a request is never let in with a role its session
\* has not carried for longer than the trust window and one lookup: that bounds
\* a logout, a removal, a demotion and a password change alike.
StaleAccessIsBounded ==
  [][\A r \in Requests :
       req[r].pc # "acting" /\ req'[r].pc = "acting"
         => lost[req'[r].session][req'[r].role] <= Window + Lag]_vars

\* An organization loses its last owner only by a change that counted the owners
\* before another change of them took effect; a change that is not overtaken
\* never does it, although actors keep their old role while it is cached.
LastOwnerLostOnlyByOvertaking ==
  [][Owners # {} /\ Owners' = {} =>
       \E r \in Requests : req[r].pc = "write" /\ req[r].overtaken]_vars

\* An organization can never lose its last owner.  It fails when two changes
\* overtake each other; see README.md for the instance.
AlwaysAnOwner == Owners # {}
=============================================================================
