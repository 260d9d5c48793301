--------------------------- MODULE ProviderCalls ---------------------------
(***************************************************************************)
(* Calls to the model providers: the fallback chain of chatCompletion, the *)
(* concurrency gates every attempt passes (one for all providers, one per  *)
(* provider) and the circuit breaker that takes a provider out of service. *)
(* All of it is the memory of one process; a step runs from one await to   *)
(* the next, and any other call may act at an await.                       *)
(*                                                                         *)
(* Providers are numbered in the order of the chain, and models and keys   *)
(* of a provider in the order they are tried.  What a provider answers is  *)
(* an input.  The wait for a Retry-After is part of the attempt it ends,   *)
(* since the attempt keeps its slots meanwhile.                            *)
(***************************************************************************)
EXTENDS Integers, FiniteSets, Sequences

CONSTANTS
  Calls,        \* concurrent callers of chatCompletion
  ChainLength,  \* configured providers
  Models,       \* models tried at each provider
  Keys,         \* keys tried for each model of a provider
  MaxRetries,   \* options.retries
  Ceiling,      \* slots of each gate, 0 for no gate
  Threshold     \* failureThreshold of the breaker

Chain == 1 .. ChainLength
Global == 0                     \* the gate __llm_global
Gates == Chain \cup {Global}

\* The breaker keeps a circuit per key: a provider, or a provider and a model.
WholeProvider == 0
Circuits == UNION {{<<p, m>> : m \in 0 .. Models[p]} : p \in Chain}

ASSUME ProviderConstants ==
  /\ ChainLength \in Nat \ {0}
  /\ Models \in [Chain -> Nat \ {0}] /\ Keys \in [Chain -> Nat \ {0}]
  /\ MaxRetries \in Nat
  /\ Ceiling \in [Gates -> Nat]
  /\ Threshold \in Nat \ {0}
  /\ IsFiniteSet(Calls)

VARIABLES
  gate,      \* each ConcurrencyGate: slots in use, and who waits
  circuit,   \* each circuit
  call       \* where each call is in the chain

vars == <<gate, circuit, call>>

-----------------------------------------------------------------------------
(* ConcurrencyGate *)

Asked(gt, ceiling, c) ==
  CASE ceiling = 0          -> gt
    [] gt.active < ceiling  -> [gt EXCEPT !.active = @ + 1]
    [] OTHER                -> [gt EXCEPT !.queue = Append(@, c)]
Acquired(g, c) == Asked(gate[g], Ceiling[g], c)

\* A slot given back goes straight to the first waiter: active never dips.
Freed(g) == [gate[g] EXCEPT !.active = IF @ > 0 THEN @ - 1 ELSE 0]
ReleasedToLast(g) ==
  CASE Ceiling[g] = 0        -> gate[g]
    [] gate[g].queue # <<>>  -> [gate[g] EXCEPT !.queue = SubSeq(@, 1, Len(@) - 1)]
    [] OTHER                 -> Freed(g)
Released(g) ==
  CASE Ceiling[g] = 0        -> gate[g]
    [] gate[g].queue # <<>>  -> [gate[g] EXCEPT !.queue = Tail(@)]
    [] OTHER                 -> Freed(g)

Queued(g, c) == \E i \in 1 .. Len(gate[g].queue) : gate[g].queue[i] = c

\* The waiter's timer takes it out of the queue.
StillListed(q, c) == q
Without(q, c) ==
  LET i == CHOOSE i \in 1 .. Len(q) : q[i] = c
  IN  SubSeq(q, 1, i - 1) \o SubSeq(q, i + 1, Len(q))

-----------------------------------------------------------------------------
(* Circuit breaker *)

Closed == [state |-> "closed", failures |-> 0, cooled |-> FALSE]

\* isAvailable.  halfOpenAttempts stays 0, so half-open lets everyone through.
Available(p) ==
  LET k == circuit[<<p, WholeProvider>>]
  IN  k.state # "open" \/ k.cooled

HalfOpened(k) ==
  IF k.state = "open" THEN [k EXCEPT !.state = "half_open", !.cooled = FALSE] ELSE k

\* failureCount is only ever compared with the threshold: it saturates there.
Counted(k) == IF k.failures < Threshold THEN k.failures + 1 ELSE Threshold
AfterFailure(k) ==
  [state    |-> IF k.state # "closed" \/ Counted(k) >= Threshold THEN "open" ELSE "closed",
   failures |-> Counted(k),
   cooled   |-> FALSE]

AfterSuccess(k) == IF k.state = "open" THEN k ELSE Closed

-----------------------------------------------------------------------------
(* The chain *)

Idle == [pc |-> "idle", provider |-> 1, model |-> 1, key |-> 1, attempt |-> 0,
         saturated |-> FALSE]
Entering(p) == [Idle EXCEPT !.pc = "global", !.provider = p]

\* Holding the slot of g: acquire() has returned and release() is still due.
HoldsGlobal(c) ==
  \/ call[c].pc = "provider"
  \/ call[c].pc = "global" /\ ~Queued(Global, c)
InFlight(c) == call[c].pc = "provider" /\ ~Queued(call[c].provider, c)

\* What is tried after the key, or after the model, that call[c] is at.
NextModel(c) ==
  LET at == call[c]
  IN  IF at.model < Models[at.provider]
      THEN [at EXCEPT !.pc = "global", !.model = @ + 1, !.key = 1, !.attempt = 0]
      ELSE [at EXCEPT !.pc = "exhausted"]
\* `saturated' is never reset: once a gate has timed out at this provider, no
\* model of it is left without storing the trace.
LeaveModel(c) ==
  IF call[c].saturated THEN [call[c] EXCEPT !.pc = "saturated"] ELSE NextModel(c)
KeyPastTheLast(c) ==
  LET at == call[c]
  IN  IF at.key <= Keys[at.provider]
      THEN [at EXCEPT !.pc = "global", !.key = @ + 1, !.attempt = 0]
      ELSE LeaveModel(c)
NextKey(c) ==
  LET at == call[c]
  IN  IF at.key < Keys[at.provider]
      THEN [at EXCEPT !.pc = "global", !.key = @ + 1, !.attempt = 0]
      ELSE LeaveModel(c)
AfterLastAttempt(c, answer) ==
  IF answer = "error" /\ call[c].saturated THEN LeaveModel(c) ELSE NextKey(c)

\* Answers to a request: a completion; 429; 5xx or a broken connection; what
\* rules out the key (401, 403, an abort, a hang) or the model (404, and for
\* NVIDIA a hang).
Answers == {"ok", "limited", "error", "key", "model"}
AfterAnswer(c, answer) ==
  CASE answer = "ok"     -> Idle
    [] answer = "key"    -> NextKey(c)
    [] answer = "model"  -> LeaveModel(c)
    [] OTHER             -> IF call[c].attempt < MaxRetries
                            THEN [call[c] EXCEPT !.pc = "backoff", !.attempt = @ + 1]
                            ELSE AfterLastAttempt(c, answer)

Init ==
  /\ gate = [g \in Gates |-> [active |-> 0, queue |-> <<>>]]
  /\ circuit = [k \in Circuits |-> Closed]
  /\ call = [c \in Calls |-> Idle]

\* The next provider from p on whose circuit lets the call through; entering
\* it, the call asks for a global slot before anybody else can act.
EnterChain(c, p, circuits) ==
  LET open == {q \in Chain : q >= p /\ Available(q)}
      q == CHOOSE q \in open : \A r \in open : q <= r
  IN  IF open = {}
      THEN /\ call' = [call EXCEPT ![c] = Idle]
           /\ circuit' = circuits
           /\ UNCHANGED gate
      ELSE /\ call' = [call EXCEPT ![c] = Entering(q)]
           /\ circuit' = [circuits EXCEPT ![<<q, WholeProvider>>] = HalfOpened(@)]
           /\ gate' = [gate EXCEPT ![Global] = Acquired(Global, c)]

Start(c) ==
  /\ call[c].pc = "idle"
  /\ EnterChain(c, 1, circuit)

\* acquireProviderSlot: the global slot is there, ask for the provider's.
AcquireProvider(c) ==
  LET p == call[c].provider IN
  /\ call[c].pc = "global" /\ ~Queued(Global, c)
  /\ gate' = [gate EXCEPT ![p] = Acquired(p, c)]
  /\ call' = [call EXCEPT ![c].pc = "provider"]
  /\ UNCHANGED circuit

\* Both slots are given back, and in the same step the call asks for a global
\* one again if it goes on without a delay.
GiveBack(c, again) ==
  LET p == call[c].provider
      freed == Released(Global)
  IN  gate' = [gate EXCEPT
                 ![p] = Released(p),
                 ![Global] = IF again THEN Asked(freed, Ceiling[Global], c) ELSE freed]

\* Success is recorded under the model's key, a failure under the provider's.
SuccessKey(c) == <<call[c].provider, call[c].model>>

Answered(c, answer) ==
  /\ InFlight(c)
  /\ call' = [call EXCEPT ![c] = AfterAnswer(c, answer)]
  /\ GiveBack(c, AfterAnswer(c, answer).pc = "global")
  /\ circuit' = IF answer = "ok"
                THEN [circuit EXCEPT ![SuccessKey(c)] = AfterSuccess(@)]
                ELSE circuit

\* The delay before a retry is over.
Retry(c) ==
  /\ call[c].pc = "backoff"
  /\ call' = [call EXCEPT ![c].pc = "global"]
  /\ gate' = [gate EXCEPT ![Global] = Acquired(Global, c)]
  /\ UNCHANGED circuit

\* GateTimeoutError at the global gate, or at the provider's with the global
\* slot in hand: the rest of this model's keys are given up.
LeavesQueue(g, c) == [gate[g] EXCEPT !.queue = Without(@, c)]
GlobalTimeout(c) ==
  /\ call[c].pc = "global" /\ Queued(Global, c)
  /\ gate' = [gate EXCEPT ![Global] = LeavesQueue(Global, c)]
  /\ call' = [call EXCEPT ![c].pc = "saturated", ![c].saturated = TRUE]
  /\ UNCHANGED circuit

GlobalKept == gate[Global]
GlobalAfterTimeout == Released(Global)
ProviderTimeout(c) ==
  LET p == call[c].provider IN
  /\ call[c].pc = "provider" /\ Queued(p, c)
  /\ gate' = [gate EXCEPT ![p] = LeavesQueue(p, c), ![Global] = GlobalAfterTimeout]
  /\ call' = [call EXCEPT ![c].pc = "saturated", ![c].saturated = TRUE]
  /\ UNCHANGED circuit

\* The trace is stored; `continue' goes on with the next model.
SameModel(c) == [call[c] EXCEPT !.pc = "global", !.key = 1, !.attempt = 0]
AfterSaturation(c) == NextModel(c)
PassOver(c) ==
  /\ call[c].pc = "saturated"
  /\ call' = [call EXCEPT ![c] = AfterSaturation(c)]
  /\ gate' = IF AfterSaturation(c).pc = "global"
             THEN [gate EXCEPT ![Global] = Acquired(Global, c)]
             ELSE gate
  /\ UNCHANGED circuit

\* Every model was tried: the failure is recorded, the chain goes on.
Exhaust(c) ==
  LET p == call[c].provider IN
  /\ call[c].pc = "exhausted"
  /\ EnterChain(c, p + 1,
       [circuit EXCEPT ![<<p, WholeProvider>>] = AfterFailure(@)])

-----------------------------------------------------------------------------
(* Time and the operator *)

CooldownEnds(k) ==
  /\ circuit[k].state = "open" /\ ~circuit[k].cooled
  /\ circuit' = [circuit EXCEPT ![k].cooled = TRUE]
  /\ UNCHANGED <<gate, call>>

ResetCircuit(k) ==
  /\ circuit[k] # Closed
  /\ circuit' = [circuit EXCEPT ![k] = Closed]
  /\ UNCHANGED <<gate, call>>

Proceed(c) ==
  \/ AcquireProvider(c)
  \/ \E answer \in Answers : Answered(c, answer)
  \/ Retry(c)
  \/ GlobalTimeout(c)
  \/ ProviderTimeout(c)
  \/ PassOver(c)
  \/ Exhaust(c)

Next ==
  \/ \E c \in Calls : Start(c) \/ Proceed(c)
  \/ \E k \in Circuits : CooldownEnds(k) \/ ResetCircuit(k)

Spec == Init /\ [][Next]_vars

-----------------------------------------------------------------------------
(* Properties *)

GateType == [active : Nat, queue : Seq(Calls)]
CircuitType == [state : {"closed", "open", "half_open"},
                failures : 0 .. Threshold, cooled : BOOLEAN]
CallType == [pc : {"idle", "global", "provider", "backoff", "saturated", "exhausted"},
             provider : Chain, model : Nat, key : Nat, attempt : 0 .. MaxRetries,
             saturated : BOOLEAN]

\* Type correctness of the gates, the circuits and the calls; a call is never
\* at a model or key its provider does not have.
TypeOK ==
  /\ gate \in [Gates -> GateType]
  /\ circuit \in [Circuits -> CircuitType]
  /\ call \in [Calls -> CallType]
  /\ \A c \in Calls : /\ call[c].model \in 1 .. Models[call[c].provider]
                      /\ call[c].key \in 1 .. Keys[call[c].provider]

Holders(g) ==
  IF g = Global THEN {c \in Calls : HoldsGlobal(c)}
  ELSE {c \in Calls : InFlight(c) /\ call[c].provider = g}

\* No slot leaks and none is given out twice: the count of a gate is the number
\* of calls that hold a slot of it, through hand-overs, timeouts, answers of
\* every kind and retries; so no more requests are in flight than it allows.
SlotsMatchHolders ==
  \A g \in Gates : Ceiling[g] > 0 =>
    /\ gate[g].active = Cardinality(Holders(g))
    /\ gate[g].active <= Ceiling[g]

\* Nobody waits at a gate that has a free slot.
NoIdleSlot ==
  \A g \in Gates : gate[g].queue # <<>> => gate[g].active = Ceiling[g]

\* A queue lists just the calls that wait there, once each: a waiter that gave
\* up is never handed a slot it would not return.
QueuesListWaiters ==
  \A g \in Gates :
    \A i \in 1 .. Len(gate[g].queue) :
      LET c == gate[g].queue[i] IN
      /\ IF g = Global THEN call[c].pc = "global"
         ELSE call[c].pc = "provider" /\ call[c].provider = g
      /\ \A j \in 1 .. Len(gate[g].queue) : gate[g].queue[j] = c => i = j

\* The callers never all wait for one another, although one that waits at a
\* provider's gate keeps the global slot others wait for: behind every queue is
\* a request that is out, or a call about to ask its provider for a slot.
NoCircularWait ==
  /\ \A p \in Chain :
       gate[p].queue # <<>> => \E c \in Calls : InFlight(c) /\ call[c].provider = p
  /\ gate[Global].queue # <<>> =>
       \E c \in Calls : InFlight(c) \/ (call[c].pc = "global" /\ ~Queued(Global, c))

\* First come, first served: a call that gets a slot of a gate is the head of
\* its queue, or nobody was waiting there.
FirstComeFirstServed ==
  [][\A g \in Gates : gate[g].queue # <<>> =>
       \A c \in Holders(g)' : c \in Holders(g) \/ gate[g].queue[1] = c]_vars

Stage == [backoff |-> 0, global |-> 1, provider |-> 2, saturated |-> 3, exhausted |-> 4]
Place(at) == <<at.provider, at.model, at.key, at.attempt, Stage[at.pc]>>
Before(at, then) ==
  \E i \in 1 .. 5 : /\ Place(at)[i] < Place(then)[i]
                    /\ \A j \in 1 .. i - 1 : Place(at)[j] = Place(then)[j]

\* A call never comes back to a provider, model, key or attempt it has left,
\* whatever is answered, saturated or opened meanwhile.  Every wait of a call
\* is bounded (deadlines, patience, delays), so it ends, with an answer or null.
CallsAdvance ==
  [][\A c \in Calls :
       call'[c] # call[c] /\ call[c].pc # "idle" /\ call'[c].pc # "idle"
         => Before(call[c], call'[c])]_vars

\* A saturated provider is not a broken one (llm.ts:827-828): a call that ran
\* into a ceiling at a provider counts no failure of it.  It fails; see
\* README.md for the instance.
SaturatedIsNotBroken ==
  [][\A c \in Calls :
       call[c].pc = "exhausted" /\ call[c].saturated /\ call'[c].pc # "exhausted"
         => UNCHANGED circuit[<<call[c].provider, WholeProvider>>].failures]_vars
=============================================================================
