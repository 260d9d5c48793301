---------------------------- MODULE ProviderProofs ----------------------------
(***************************************************************************)
(* What holds of the concurrency gates for any number of calls, any chain  *)
(* of providers and any ceilings.                                          *)
(*                                                                         *)
(* A gate is seen as its slots, its queue, and the set of calls that are   *)
(* at it, waiting or in.  GateFits says how the three fit together; that   *)
(* asking, giving back and giving up keep it so is proved once, for any    *)
(* gate, and every step of a call is made of these three (GateMoves).      *)
(*                                                                         *)
(* That a call never goes round (CallsAdvance) needs its type alone: every *)
(* step but the first puts it further on in the order of Place.            *)
(***************************************************************************)
EXTENDS ProviderCalls, TLAPS, SequenceTheorems, FiniteSetTheorems, WellFoundedInduction

Waiting(q) == {q[i] : i \in 1 .. Len(q)}
Distinct(q) == \A i, j \in 1 .. Len(q) : q[i] = q[j] => i = j

\* A gate of a ceiling, with the calls that are at it.
GateFits(gt, there, ceiling) ==
  /\ gt \in GateType
  /\ Distinct(gt.queue)
  /\ Waiting(gt.queue) \subseteq there
  /\ ceiling = 0 => gt.queue = <<>>
  /\ ceiling > 0 => /\ gt.active = Cardinality(there \ Waiting(gt.queue))
                    /\ gt.active <= ceiling
  /\ gt.queue # <<>> => gt.active = ceiling

\* What release and the timer make of a gate, as Asked says of acquire.
GivenBack(gt, ceiling) ==
  CASE ceiling = 0      -> gt
    [] gt.queue # <<>>  -> [gt EXCEPT !.queue = Tail(@)]
    [] OTHER            -> [gt EXCEPT !.active = IF @ > 0 THEN @ - 1 ELSE 0]

GivenUp(gt, c) == [gt EXCEPT !.queue = Without(@, c)]

-----------------------------------------------------------------------------
(* Queues *)

LEMMA AppendQueue ==
  ASSUME NEW q \in Seq(Calls), Distinct(q), NEW c \in Calls, c \notin Waiting(q)
  PROVE  /\ Append(q, c) \in Seq(Calls) /\ Append(q, c) # <<>>
         /\ Distinct(Append(q, c))
         /\ Waiting(Append(q, c)) = Waiting(q) \cup {c}
<1> DEFINE r == Append(q, c)
<1>1. /\ r \in Seq(Calls) /\ r # <<>> /\ Len(q) \in Nat /\ Len(r) = Len(q) + 1
      /\ \A i \in 1 .. Len(q) : r[i] = q[i]
      /\ r[Len(q) + 1] = c
  BY AppendProperties, LenProperties
<1> HIDE DEF r
<1>2. \A i \in 1 .. Len(r) : i \in 1 .. Len(q) \/ i = Len(q) + 1 BY <1>1
<1>3. Distinct(r) BY <1>1, <1>2 DEF Distinct, Waiting
<1>4. Waiting(r) = Waiting(q) \cup {c} BY <1>1, <1>2 DEF Waiting
<1> QED BY <1>1, <1>3, <1>4 DEF r

LEMMA TailQueue ==
  ASSUME NEW q \in Seq(Calls), Distinct(q), q # <<>>
  PROVE  /\ Tail(q) \in Seq(Calls)
         /\ Distinct(Tail(q))
         /\ q[1] \in Waiting(q)
         /\ Waiting(Tail(q)) = Waiting(q) \ {q[1]}
<1> DEFINE r == Tail(q)
<1>1. /\ r \in Seq(Calls) /\ Len(q) \in Nat \ {0} /\ Len(r) = Len(q) - 1
      /\ \A i \in 1 .. Len(r) : r[i] = q[i + 1]
  BY HeadTailProperties, LenProperties, EmptySeq
<1> HIDE DEF r
<1>2. Distinct(r) BY <1>1 DEF Distinct
<1>3. q[1] \in Waiting(q) BY <1>1 DEF Waiting
<1>4. ASSUME NEW x PROVE x \in Waiting(r) <=> x \in Waiting(q) \ {q[1]}
  <2>1. ASSUME x \in Waiting(r) PROVE x \in Waiting(q) \ {q[1]}
    BY <1>1, <2>1 DEF Waiting, Distinct
  <2>2. ASSUME x \in Waiting(q) \ {q[1]} PROVE x \in Waiting(r)
    <3>1. PICK i \in 1 .. Len(q) : x = q[i] BY <2>2 DEF Waiting
    <3>2. i - 1 \in 1 .. Len(r) /\ r[i - 1] = q[i] BY <1>1, <2>2, <3>1
    <3> QED BY <3>1, <3>2 DEF Waiting
  <2> QED BY <2>1, <2>2
<1> QED BY <1>1, <1>2, <1>3, <1>4 DEF r

LEMMA WithoutQueue ==
  ASSUME NEW q \in Seq(Calls), Distinct(q), NEW c \in Waiting(q)
  PROVE  /\ Without(q, c) \in Seq(Calls)
         /\ Distinct(Without(q, c))
         /\ Waiting(Without(q, c)) = Waiting(q) \ {c}
<1> DEFINE i == CHOOSE i \in 1 .. Len(q) : q[i] = c
           r == Without(q, c)
<1>1. i \in 1 .. Len(q) /\ q[i] = c BY DEF Waiting
<1>2. Len(q) \in Nat /\ \A j \in 1 .. Len(q) : q[j] \in Calls BY LenProperties, ElementOfSeq
<1>3. r = SubSeq(q, 1, i - 1) \o SubSeq(q, i + 1, Len(q)) BY DEF Without
<1> HIDE DEF i, r
<1>4. /\ SubSeq(q, 1, i - 1) \in Seq(Calls) /\ Len(SubSeq(q, 1, i - 1)) = i - 1
      /\ \A j \in 1 .. i - 1 : SubSeq(q, 1, i - 1)[j] = q[j]
  BY <1>1, <1>2, SubSeqProperties
<1>5. /\ SubSeq(q, i + 1, Len(q)) \in Seq(Calls)
      /\ Len(SubSeq(q, i + 1, Len(q))) = Len(q) - i
      /\ \A j \in 1 .. Len(q) - i : SubSeq(q, i + 1, Len(q))[j] = q[i + j]
  BY <1>1, <1>2, SubSeqProperties
<1>6. /\ r \in Seq(Calls) /\ Len(r) = Len(q) - 1
      /\ \A j \in 1 .. Len(r) : r[j] = IF j < i THEN q[j] ELSE q[j + 1]
  <2> DEFINE front == SubSeq(q, 1, i - 1)
             back == SubSeq(q, i + 1, Len(q))
  <2>1. front \in Seq(Calls) /\ Len(front) = i - 1 /\ back \in Seq(Calls)
        /\ Len(back) = Len(q) - i /\ r = front \o back
    BY <1>3, <1>4, <1>5
  <2>2. /\ \A j \in 1 .. i - 1 : front[j] = q[j]
        /\ \A j \in 1 .. Len(q) - i : back[j] = q[i + j]
    BY <1>4, <1>5
  <2> HIDE DEF front, back
  <2>3. /\ r \in Seq(Calls) /\ Len(r) = Len(front) + Len(back)
        /\ \A j \in 1 .. Len(front) + Len(back) :
             r[j] = IF j <= Len(front) THEN front[j] ELSE back[j - Len(front)]
    BY <2>1, ConcatProperties
  <2>4. Len(r) = Len(q) - 1 BY <1>1, <1>2, <2>1, <2>3
  <2>5. ASSUME NEW j \in 1 .. Len(r) PROVE r[j] = IF j < i THEN q[j] ELSE q[j + 1]
    <3>1. CASE j < i BY <1>1, <1>2, <2>1, <2>2, <2>3, <2>4, <3>1
    <3>2. CASE ~(j < i)
      <4>1. j - (i - 1) \in 1 .. Len(q) - i /\ i + (j - (i - 1)) = j + 1
        BY <1>1, <1>2, <2>4, <3>2
      <4>2. r[j] = back[j - (i - 1)] BY <1>1, <1>2, <2>1, <2>3, <2>4, <3>2
      <4> QED BY <2>2, <3>2, <4>1, <4>2
    <3> QED BY <3>1, <3>2
  <2> QED BY <2>3, <2>4, <2>5
<1>7. Distinct(r) BY <1>1, <1>2, <1>6 DEF Distinct
<1>8. ASSUME NEW x PROVE x \in Waiting(r) <=> x \in Waiting(q) \ {c}
  <2>1. ASSUME x \in Waiting(r) PROVE x \in Waiting(q) \ {c}
    <3>1. PICK j \in 1 .. Len(r) : x = r[j] BY <2>1 DEF Waiting
    <3>2. PICK k \in 1 .. Len(q) : x = q[k] /\ k # i BY <1>1, <1>2, <1>6, <3>1
    <3> QED BY <1>1, <3>2 DEF Waiting, Distinct
  <2>2. ASSUME x \in Waiting(q) \ {c} PROVE x \in Waiting(r)
    <3>1. PICK k \in 1 .. Len(q) : x = q[k] BY <2>2 DEF Waiting
    <3>2. k # i BY <1>1, <2>2, <3>1
    <3>3. CASE k < i BY <1>1, <1>2, <1>6, <3>1, <3>3 DEF Waiting
    <3>4. CASE k > i
      <4>1. k - 1 \in 1 .. Len(r) /\ r[k - 1] = q[k] BY <1>1, <1>2, <1>6, <3>4
      <4> QED BY <3>1, <4>1 DEF Waiting
    <3> QED BY <1>1, <3>2, <3>3, <3>4
  <2> QED BY <2>1, <2>2
<1> QED BY <1>6, <1>7, <1>8 DEF r

-----------------------------------------------------------------------------
(* The three operations of a gate *)

LEMMA AskFits ==
  ASSUME NEW gt, NEW there \in SUBSET Calls, NEW ceiling \in Nat, NEW c \in Calls,
         GateFits(gt, there, ceiling), c \notin there
  PROVE  /\ GateFits(Asked(gt, ceiling, c), there \cup {c}, ceiling)
         /\ gt.queue # <<>> => /\ Waiting(Asked(gt, ceiling, c).queue)
                                    = Waiting(gt.queue) \cup {c}
         /\ Waiting(Asked(gt, ceiling, c).queue) \subseteq Waiting(gt.queue) \cup {c}
         /\ Waiting(gt.queue) \subseteq Waiting(Asked(gt, ceiling, c).queue)
<1> DEFINE q == gt.queue
           new == Asked(gt, ceiling, c)
<1>1. q \in Seq(Calls) /\ gt.active \in Nat /\ Distinct(q) /\ c \notin Waiting(q)
      /\ gt \in GateType
  BY DEF GateFits, GateType
<1>2. IsFiniteSet(there) /\ IsFiniteSet(there \ Waiting(q)) BY ProviderConstants, FS_Subset
<1>3. CASE ceiling = 0
  <2>1. new = gt
    <3>1. ~(gt.active < ceiling) BY <1>1, <1>3
    <3> QED BY <1>3, <3>1 DEF Asked
  <2>2. Waiting(q) \subseteq there /\ q = <<>> BY <1>3 DEF GateFits
  <2> HIDE DEF new
  <2>3. GateFits(new, there \cup {c}, ceiling) BY <1>1, <1>3, <2>1, <2>2 DEF GateFits
  <2> QED BY <2>1, <2>2, <2>3 DEF new
<1>4. CASE ceiling > 0 /\ gt.active < ceiling
  <2>1. new = [gt EXCEPT !.active = @ + 1] BY <1>4 DEF Asked
  <2>2. new \in GateType /\ new.queue = q /\ new.active = gt.active + 1
    BY <1>1, <2>1 DEF GateType
  <2>3. q = <<>> BY <1>4 DEF GateFits
  <2>4. (there \cup {c}) \ Waiting(q) = (there \ Waiting(q)) \cup {c} BY <1>1
  <2>5. Cardinality((there \cup {c}) \ Waiting(q)) = gt.active + 1
    BY <1>2, <1>4, <2>4, FS_AddElement DEF GateFits
  <2> HIDE DEF new
  <2>6. GateFits(new, there \cup {c}, ceiling)
    BY <1>1, <1>4, <2>2, <2>3, <2>5 DEF GateFits
  <2> QED BY <2>2, <2>3, <2>6 DEF new
<1>5. CASE ceiling > 0 /\ ~(gt.active < ceiling)
  <2>1. new = [gt EXCEPT !.queue = Append(@, c)] BY <1>5 DEF Asked
  <2>2. /\ Append(q, c) \in Seq(Calls) /\ Append(q, c) # <<>> /\ Distinct(Append(q, c))
        /\ Waiting(Append(q, c)) = Waiting(q) \cup {c}
    BY <1>1, AppendQueue
  <2>3. new \in GateType /\ new.queue = Append(q, c) /\ new.active = gt.active
    BY <1>1, <2>1, <2>2 DEF GateType
  <2>4. (there \cup {c}) \ (Waiting(q) \cup {c}) = there \ Waiting(q) BY DEF GateFits
  <2>5. gt.active = ceiling BY <1>1, <1>5 DEF GateFits
  <2> HIDE DEF new
  <2>6. GateFits(new, there \cup {c}, ceiling)
    BY <1>5, <2>2, <2>3, <2>4, <2>5 DEF GateFits
  <2> QED BY <2>2, <2>3, <2>6 DEF new
<1> QED BY <1>1, <1>3, <1>4, <1>5

LEMMA GiveBackFits ==
  ASSUME NEW gt, NEW there \in SUBSET Calls, NEW ceiling \in Nat, NEW c \in there,
         GateFits(gt, there, ceiling), c \notin Waiting(gt.queue)
  PROVE  /\ GateFits(GivenBack(gt, ceiling), there \ {c}, ceiling)
         /\ gt.queue = <<>> => GivenBack(gt, ceiling).queue = <<>>
         /\ gt.queue # <<>> =>
              /\ Waiting(GivenBack(gt, ceiling).queue) = Waiting(gt.queue) \ {gt.queue[1]}
              /\ GivenBack(gt, ceiling).active = ceiling
         /\ Waiting(GivenBack(gt, ceiling).queue) \subseteq Waiting(gt.queue)
<1> DEFINE q == gt.queue
           new == GivenBack(gt, ceiling)
<1>1. q \in Seq(Calls) /\ gt.active \in Nat /\ Distinct(q) /\ gt \in GateType
      /\ Waiting(q) \subseteq there
  BY DEF GateFits, GateType
<1>2. IsFiniteSet(there) /\ IsFiniteSet(there \ Waiting(q)) BY ProviderConstants, FS_Subset
<1>3. CASE ceiling = 0
  <2>1. new = gt /\ q = <<>> BY <1>3 DEF GivenBack, GateFits
  <2>2. Waiting(q) = {}
    <3>1. Len(q) = 0 BY <2>1
    <3> QED BY <3>1 DEF Waiting
  <2> HIDE DEF new
  <2>3. GateFits(new, there \ {c}, ceiling) BY <1>1, <1>3, <2>1, <2>2 DEF GateFits
  <2> QED BY <2>1, <2>3 DEF new
<1>4. CASE ceiling > 0 /\ q # <<>>
  <2>1. new = [gt EXCEPT !.queue = Tail(@)] BY <1>4 DEF GivenBack
  <2>2. /\ Tail(q) \in Seq(Calls) /\ Distinct(Tail(q))
        /\ q[1] \in Waiting(q) /\ Waiting(Tail(q)) = Waiting(q) \ {q[1]}
    BY <1>1, <1>4, TailQueue
  <2>3. new \in GateType /\ new.queue = Tail(q) /\ new.active = gt.active
    BY <1>1, <2>1, <2>2 DEF GateType
  <2>4. gt.active = ceiling /\ gt.active = Cardinality(there \ Waiting(q))
    BY <1>4 DEF GateFits
  <2>5. Cardinality((there \ {c}) \ Waiting(Tail(q))) = gt.active
    <3> DEFINE H == there \ Waiting(q)
    <3>1. IsFiniteSet(H) /\ c \in H /\ q[1] \notin H BY <1>2, <2>2
    <3> HIDE DEF H
    <3>2. IsFiniteSet(H \ {c}) /\ Cardinality(H \ {c}) = Cardinality(H) - 1
      BY <3>1, FS_RemoveElement
    <3>3. Cardinality((H \ {c}) \cup {q[1]}) = Cardinality(H \ {c}) + 1
      BY <3>1, <3>2, FS_AddElement
    <3>4. (there \ {c}) \ Waiting(Tail(q)) = (H \ {c}) \cup {q[1]}
      BY <1>1, <2>2, <3>1 DEF H
    <3>5. gt.active = Cardinality(H) BY <2>4 DEF H
    <3>7. Cardinality((there \ {c}) \ Waiting(Tail(q)))
            = Cardinality((H \ {c}) \cup {q[1]})
      BY <3>4
    <3>8. Cardinality((H \ {c}) \cup {q[1]}) = gt.active
      BY <1>1, <3>2, <3>3, <3>5
    <3> QED BY <3>7, <3>8
  <2>6. Waiting(Tail(q)) \subseteq there \ {c} BY <1>1, <2>2
  <2> HIDE DEF new
  <2>7. GateFits(new, there \ {c}, ceiling)
    BY <1>4, <2>2, <2>3, <2>4, <2>5, <2>6 DEF GateFits
  <2> QED BY <1>4, <2>2, <2>3, <2>4, <2>7 DEF new
<1>5. CASE ceiling > 0 /\ q = <<>>
  <2>1. Waiting(q) = {}
    <3>1. Len(q) = 0 BY <1>5
    <3> QED BY <3>1 DEF Waiting
  <2>2. there \ Waiting(q) = there /\ (there \ {c}) \ Waiting(q) = there \ {c} BY <2>1
  <2>3. gt.active = Cardinality(there) /\ gt.active <= ceiling BY <1>5, <2>2 DEF GateFits
  <2>4. Cardinality(there \ {c}) = Cardinality(there) - 1 BY <1>2, FS_RemoveElement
  <2>5. Cardinality(there \ {c}) \in Nat
    BY <1>2, FS_RemoveElement, FS_CardinalityType
  <2>6. gt.active > 0 BY <1>1, <2>3, <2>4, <2>5
  <2>7. new = [gt EXCEPT !.active = @ - 1]
    BY <1>5, <2>6 DEF GivenBack
  <2>8. new \in GateType /\ new.queue = q /\ new.active = gt.active - 1
    BY <1>1, <2>6, <2>7 DEF GateType
  <2> HIDE DEF new
  <2>9. GateFits(new, there \ {c}, ceiling)
    <3>1. new.queue = <<>> /\ Distinct(new.queue) /\ Waiting(new.queue) = {}
      BY <1>1, <1>5, <2>1, <2>8
    <3>2. (there \ {c}) \ Waiting(new.queue) = there \ {c} BY <3>1
    <3>3. new.active = Cardinality((there \ {c}) \ Waiting(new.queue))
      BY <2>3, <2>4, <2>8, <3>2
    <3>4. new.active <= ceiling BY <1>1, <2>3, <2>8
    <3> QED BY <1>5, <2>8, <3>1, <3>3, <3>4 DEF GateFits
  <2> QED BY <1>5, <2>8, <2>9 DEF new
<1> QED BY <1>3, <1>4, <1>5

LEMMA GiveUpFits ==
  ASSUME NEW gt, NEW there \in SUBSET Calls, NEW ceiling \in Nat, NEW c \in Waiting(gt.queue),
         GateFits(gt, there, ceiling)
  PROVE  /\ GateFits(GivenUp(gt, c), there \ {c}, ceiling)
         /\ Waiting(GivenUp(gt, c).queue) = Waiting(gt.queue) \ {c}
<1> DEFINE q == gt.queue
           new == GivenUp(gt, c)
<1>1. q \in Seq(Calls) /\ gt.active \in Nat /\ Distinct(q) /\ gt \in GateType
      /\ Waiting(q) \subseteq there
  BY DEF GateFits, GateType
<1>2. /\ Without(q, c) \in Seq(Calls) /\ Distinct(Without(q, c))
      /\ Waiting(Without(q, c)) = Waiting(q) \ {c}
  BY <1>1, WithoutQueue
<1>3. new \in GateType /\ new.queue = Without(q, c) /\ new.active = gt.active
  BY <1>1, <1>2 DEF GateType, GivenUp
<1>4. q # <<>>
  <2> SUFFICES ASSUME Len(q) = 0 PROVE FALSE OBVIOUS
  <2> QED BY DEF Waiting
<1>5. /\ ceiling > 0 /\ gt.active = ceiling /\ gt.active <= ceiling
      /\ gt.active = Cardinality(there \ Waiting(q))
  BY <1>1, <1>4 DEF GateFits
<1>6. (there \ {c}) \ (Waiting(q) \ {c}) = there \ Waiting(q) OBVIOUS
<1> HIDE DEF new
<1>7. GateFits(new, there \ {c}, ceiling)
  <2>1. Distinct(new.queue) /\ Waiting(new.queue) \subseteq there \ {c}
    BY <1>1, <1>2, <1>3
  <2>2. (there \ {c}) \ Waiting(new.queue) = there \ Waiting(q) BY <1>2, <1>3, <1>6
  <2>3. new.active = Cardinality((there \ {c}) \ Waiting(new.queue)) BY <1>3, <1>5, <2>2
  <2> QED BY <1>3, <1>5, <2>1, <2>3 DEF GateFits
<1> QED BY <1>2, <1>3, <1>7 DEF new

-----------------------------------------------------------------------------
(* What a step of a call does to a gate *)

GateMoves(gt, there, gt2, there2, ceiling, c) ==
  \/ /\ gt2 = gt
     /\ there2 = there
  \/ /\ c \notin there
     /\ gt2 = Asked(gt, ceiling, c)
     /\ there2 = there \cup {c}
  \/ /\ c \in there \ Waiting(gt.queue)
     /\ gt2 = GivenBack(gt, ceiling)
     /\ there2 = there \ {c}
  \/ /\ c \in there \ Waiting(gt.queue)
     /\ gt2 = Asked(GivenBack(gt, ceiling), ceiling, c)
     /\ there2 = there
  \/ /\ c \in Waiting(gt.queue)
     /\ gt2 = GivenUp(gt, c)
     /\ there2 = there \ {c}

\* Who comes into a slot was the first that waited, or nobody did.
InOrder(gt, there, gt2, there2) ==
  \A x \in there2 \ Waiting(gt2.queue) :
    x \notin there \ Waiting(gt.queue) /\ gt.queue # <<>> => gt.queue[1] = x

LEMMA MovesFit ==
  ASSUME NEW gt, NEW gt2, NEW there \in SUBSET Calls, NEW there2, NEW ceiling \in Nat,
         NEW c \in Calls, GateFits(gt, there, ceiling),
         GateMoves(gt, there, gt2, there2, ceiling, c)
  PROVE  /\ GateFits(gt2, there2, ceiling)
         /\ InOrder(gt, there, gt2, there2)
         /\ Waiting(gt2.queue) \subseteq Waiting(gt.queue) \cup {c}
<1>0. Waiting(gt.queue) \subseteq there BY DEF GateFits
<1>1. CASE gt2 = gt /\ there2 = there BY <1>1 DEF InOrder
<1>2. CASE /\ c \notin there
           /\ gt2 = Asked(gt, ceiling, c)
           /\ there2 = there \cup {c}
  <2>1. /\ GateFits(gt2, there2, ceiling)
        /\ Waiting(gt2.queue) \subseteq Waiting(gt.queue) \cup {c}
        /\ Waiting(gt.queue) \subseteq Waiting(gt2.queue)
        /\ gt.queue # <<>> => Waiting(gt2.queue) = Waiting(gt.queue) \cup {c}
    BY <1>2, AskFits
  <2>2. InOrder(gt, there, gt2, there2) BY <1>2, <2>1 DEF InOrder
  <2> QED BY <2>1, <2>2
<1>3. CASE /\ c \in there \ Waiting(gt.queue)
           /\ gt2 = GivenBack(gt, ceiling)
           /\ there2 = there \ {c}
  <2>1. /\ GateFits(gt2, there2, ceiling)
        /\ Waiting(gt2.queue) \subseteq Waiting(gt.queue)
        /\ gt.queue # <<>> => Waiting(gt2.queue) = Waiting(gt.queue) \ {gt.queue[1]}
    BY <1>3, GiveBackFits
  <2>2. InOrder(gt, there, gt2, there2) BY <1>3, <2>1 DEF InOrder
  <2> QED BY <2>1, <2>2
<1>4. CASE /\ c \in there \ Waiting(gt.queue)
           /\ gt2 = Asked(GivenBack(gt, ceiling), ceiling, c)
           /\ there2 = there
  <2> DEFINE mid == GivenBack(gt, ceiling)
  <2>1. /\ GateFits(mid, there \ {c}, ceiling)
        /\ Waiting(mid.queue) \subseteq Waiting(gt.queue)
        /\ gt.queue # <<>> => Waiting(mid.queue) = Waiting(gt.queue) \ {gt.queue[1]}
    BY <1>4, GiveBackFits
  <2>2. gt2 = Asked(mid, ceiling, c) /\ there2 = (there \ {c}) \cup {c} BY <1>4
  <2> HIDE DEF mid
  <2>3. there \ {c} \in SUBSET Calls /\ c \notin there \ {c} OBVIOUS
  <2>4. /\ GateFits(gt2, (there \ {c}) \cup {c}, ceiling)
        /\ Waiting(gt2.queue) \subseteq Waiting(mid.queue) \cup {c}
        /\ Waiting(mid.queue) \subseteq Waiting(gt2.queue)
    BY <2>1, <2>2, <2>3, AskFits
  <2>5. InOrder(gt, there, gt2, there2) BY <1>4, <2>1, <2>4 DEF InOrder
  <2> QED BY <2>1, <2>2, <2>4, <2>5
<1>5. CASE /\ c \in Waiting(gt.queue)
           /\ gt2 = GivenUp(gt, c)
           /\ there2 = there \ {c}
  <2>1. /\ GateFits(gt2, there2, ceiling)
        /\ Waiting(gt2.queue) = Waiting(gt.queue) \ {c}
    BY <1>5, GiveUpFits
  <2>2. InOrder(gt, there, gt2, there2) BY <1>5, <2>1 DEF InOrder
  <2> QED BY <2>1, <2>2
<1> QED BY <1>1, <1>2, <1>3, <1>4, <1>5 DEF GateMoves

-----------------------------------------------------------------------------
(* The calls at a gate, and what a step of one call makes of all gates *)

At(g) ==
  IF g = Global THEN {c \in Calls : call[c].pc \in {"global", "provider"}}
  ELSE {c \in Calls : call[c].pc = "provider" /\ call[c].provider = g}

GatesInv ==
  /\ \A g \in Gates : GateFits(gate[g], At(g), Ceiling[g])
  /\ \A c \in Waiting(gate[Global].queue) : call[c].pc = "global"

Placed(at) ==
  /\ at \in CallType
  /\ at.model \in 1 .. Models[at.provider]
  /\ at.key \in 1 .. Keys[at.provider]

CallMoves(c, new) ==
  /\ Placed(new)
  /\ call' = [call EXCEPT ![c] = new]
  /\ gate' = [g \in Gates |-> gate'[g]]
  /\ \A g \in Gates : GateMoves(gate[g], At(g), gate'[g], At(g)', Ceiling[g], c)
  /\ new.pc = "provider" => /\ gate'[Global] = gate[Global]
                            /\ c \notin Waiting(gate[Global].queue)

LEMMA AtMoves ==
  ASSUME call \in [Calls -> CallType], NEW c \in Calls, NEW new \in CallType,
         call' = [call EXCEPT ![c] = new]
  PROVE  /\ At(Global)' = IF new.pc \in {"global", "provider"}
                          THEN At(Global) \cup {c} ELSE At(Global) \ {c}
         /\ \A p \in Chain :
              At(p)' = IF new.pc = "provider" /\ new.provider = p
                       THEN At(p) \cup {c} ELSE At(p) \ {c}
<1>1. call'[c] = new /\ \A d \in Calls : d # c => call'[d] = call[d] OBVIOUS
<1>2. \A p \in Chain : p # Global BY DEF Chain, Global
<1>3. At(Global)' = {d \in Calls : call'[d].pc \in {"global", "provider"}} BY DEF At
<1>4. At(Global) = {d \in Calls : call[d].pc \in {"global", "provider"}} BY DEF At
<1>5. ASSUME NEW p \in Chain
      PROVE  At(p)' = IF new.pc = "provider" /\ new.provider = p
                      THEN At(p) \cup {c} ELSE At(p) \ {c}
  <2>1. At(p)' = {d \in Calls : call'[d].pc = "provider" /\ call'[d].provider = p}
    BY <1>2 DEF At
  <2>2. At(p) = {d \in Calls : call[d].pc = "provider" /\ call[d].provider = p}
    BY <1>2 DEF At
  <2> QED BY <1>1, <2>1, <2>2
<1>6. At(Global)' = IF new.pc \in {"global", "provider"}
                   THEN At(Global) \cup {c} ELSE At(Global) \ {c}
  BY <1>1, <1>3, <1>4
<1> QED BY <1>5, <1>6

\* A step of one call keeps every gate right, and serves its queue in order.
LEMMA MovesKeep ==
  ASSUME TypeOK, GatesInv, NEW c \in Calls, NEW new, CallMoves(c, new)
  PROVE  /\ GatesInv'
         /\ gate' \in [Gates -> GateType]
         /\ call' \in [Calls -> CallType]
         /\ \A d \in Calls : /\ call'[d].model \in 1 .. Models[call'[d].provider]
                             /\ call'[d].key \in 1 .. Keys[call'[d].provider]
         /\ \A g \in Gates : InOrder(gate[g], At(g), gate'[g], At(g)')
<1>1. \A g \in Gates : At(g) \in SUBSET Calls /\ Ceiling[g] \in Nat
  BY ProviderConstants DEF At
<1>2. \A g \in Gates : /\ GateFits(gate'[g], At(g)', Ceiling[g])
                       /\ InOrder(gate[g], At(g), gate'[g], At(g)')
                       /\ Waiting(gate'[g].queue) \subseteq Waiting(gate[g].queue) \cup {c}
  <2> SUFFICES ASSUME NEW g \in Gates
               PROVE  /\ GateFits(gate'[g], At(g)', Ceiling[g])
                      /\ InOrder(gate[g], At(g), gate'[g], At(g)')
                      /\ Waiting(gate'[g].queue) \subseteq Waiting(gate[g].queue) \cup {c}
    OBVIOUS
  <2>1. /\ GateFits(gate[g], At(g), Ceiling[g])
        /\ GateMoves(gate[g], At(g), gate'[g], At(g)', Ceiling[g], c)
    BY DEF GatesInv, CallMoves
  <2> QED BY <1>1, <2>1, MovesFit
<1>3. gate' = [g \in Gates |-> gate'[g]] /\ Placed(new) /\ call' = [call EXCEPT ![c] = new]
  BY DEF CallMoves
<1>4. \A g \in Gates : gate'[g] \in GateType BY <1>2 DEF GateFits
<1>5. gate' \in [Gates -> GateType] BY <1>3, <1>4
<1>6. call \in [Calls -> CallType] /\ new \in CallType BY <1>3 DEF TypeOK, Placed
<1>7. call' \in [Calls -> CallType] /\ call'[c] = new
      /\ \A d \in Calls : d # c => call'[d] = call[d]
  BY <1>3, <1>6
<1>8. \A d \in Calls : /\ call'[d].model \in 1 .. Models[call'[d].provider]
                       /\ call'[d].key \in 1 .. Keys[call'[d].provider]
  BY <1>3, <1>7 DEF TypeOK, Placed
<1>9. ASSUME NEW d \in Waiting(gate'[Global].queue) PROVE call'[d].pc = "global"
  <2>1. Global \in Gates BY DEF Gates
  <2>2. /\ d \in Waiting(gate[Global].queue) \cup {c}
        /\ Waiting(gate'[Global].queue) \subseteq At(Global)'
    BY <1>2, <1>9, <2>1 DEF GateFits
  <2>3. d \in Calls BY <2>2 DEF At
  <2>4. CASE d # c
    BY <1>7, <2>2, <2>3, <2>4 DEF GatesInv
  <2>5. CASE d = c
    <3>1. d \in At(Global)' BY <1>9, <2>2
    <3>2. new.pc \in {"global", "provider"} BY <1>7, <2>5, <3>1 DEF At
    <3>3. new.pc # "provider" BY <1>9, <2>5 DEF CallMoves
    <3> QED BY <1>7, <2>5, <3>2, <3>3
  <2> QED BY <2>4, <2>5
<1>10. GatesInv' BY <1>2, <1>9 DEF GatesInv
<1> QED BY <1>2, <1>5, <1>7, <1>8, <1>10

-----------------------------------------------------------------------------
(* Where a call goes next *)

LEMMA FirstOpen ==
  ASSUME NEW S \in SUBSET Nat, S # {}
  PROVE  (CHOOSE q \in S : \A r \in S : q <= r) \in S
<1>1. PICK q \in S : \A r \in S : ~(<<r, q>> \in OpToRel(<, Nat))
  BY NatLessThanWellFounded, WFMin, Zenon
<1>2. \A r \in S : ~(r < q) BY <1>1 DEF OpToRel
<1>3. \A r \in S : q <= r BY <1>2
<1> QED BY <1>3

LEMMA GoesOn ==
  ASSUME TypeOK, NEW c \in Calls
  PROVE  /\ Placed(NextModel(c)) /\ NextModel(c).pc \in {"global", "exhausted"}
         /\ Placed(LeaveModel(c)) /\ LeaveModel(c).pc \in {"global", "saturated", "exhausted"}
         /\ Placed(NextKey(c)) /\ NextKey(c).pc \in {"global", "saturated", "exhausted"}
<1> DEFINE at == call[c]
<1>1. /\ at \in CallType /\ at.model \in 1 .. Models[at.provider]
      /\ at.key \in 1 .. Keys[at.provider]
      /\ Models[at.provider] \in Nat \ {0} /\ Keys[at.provider] \in Nat \ {0}
      /\ at.provider \in Chain /\ MaxRetries \in Nat /\ 0 \in 0 .. MaxRetries
  BY ProviderConstants DEF TypeOK, CallType
<1> HIDE DEF at
<1>2. Placed(NextModel(c)) /\ NextModel(c).pc \in {"global", "exhausted"}
  <2>1. CASE at.model < Models[at.provider]
    <3>1. NextModel(c) = [at EXCEPT !.pc = "global", !.model = @ + 1, !.key = 1, !.attempt = 0]
      BY <2>1 DEF NextModel, at
    <3> DEFINE new == NextModel(c)
    <3>2. at.model + 1 \in 1 .. Models[at.provider] /\ at.model + 1 \in Nat
          /\ 1 \in 1 .. Keys[at.provider]
      BY <1>1, <2>1
    <3>3. new.provider = at.provider /\ new.model = at.model + 1 /\ new.key = 1
          /\ new.pc = "global" /\ new.attempt = 0 /\ new.saturated = at.saturated
      BY <1>1, <3>1 DEF CallType
    <3>4. new = [pc |-> "global", provider |-> at.provider, model |-> at.model + 1,
                 key |-> 1, attempt |-> 0, saturated |-> at.saturated]
      BY <1>1, <3>1 DEF CallType
    <3>5. at.saturated \in BOOLEAN BY <1>1 DEF CallType
    <3>6. new \in CallType BY <1>1, <3>2, <3>4, <3>5 DEF CallType
    <3> QED BY <3>2, <3>3, <3>6 DEF Placed
  <2>2. CASE ~(at.model < Models[at.provider])
    <3>1. NextModel(c) = [at EXCEPT !.pc = "exhausted"] BY <2>2 DEF NextModel, at
    <3> QED BY <1>1, <3>1 DEF Placed, CallType
  <2> QED BY <2>1, <2>2
<1>3. Placed(LeaveModel(c)) /\ LeaveModel(c).pc \in {"global", "saturated", "exhausted"}
  <2>1. CASE at.saturated
    <3>1. LeaveModel(c) = [at EXCEPT !.pc = "saturated"] BY <2>1 DEF LeaveModel, at
    <3> QED BY <1>1, <3>1 DEF Placed, CallType
  <2>2. CASE ~at.saturated BY <1>2, <2>2 DEF LeaveModel, at
  <2> QED BY <2>1, <2>2
<1>4. Placed(NextKey(c)) /\ NextKey(c).pc \in {"global", "saturated", "exhausted"}
  <2>1. CASE at.key < Keys[at.provider]
    <3>1. NextKey(c) = [at EXCEPT !.pc = "global", !.key = @ + 1, !.attempt = 0]
      BY <2>1 DEF NextKey, at
    <3> DEFINE new == NextKey(c)
    <3>2. at.key + 1 \in 1 .. Keys[at.provider] /\ at.key + 1 \in Nat BY <1>1, <2>1
    <3>3. new.provider = at.provider /\ new.model = at.model /\ new.key = at.key + 1
          /\ new.pc = "global" /\ new \in CallType
      BY <1>1, <3>1, <3>2 DEF CallType
    <3> QED BY <1>1, <3>2, <3>3 DEF Placed
  <2>2. CASE ~(at.key < Keys[at.provider])
    BY <1>3, <2>2 DEF NextKey, at
  <2> QED BY <2>1, <2>2
<1> QED BY <1>2, <1>3, <1>4

LEMMA AnswerPlaced ==
  ASSUME TypeOK, NEW c \in Calls, NEW answer \in Answers
  PROVE  /\ Placed(AfterAnswer(c, answer))
         /\ AfterAnswer(c, answer).pc
              \in {"idle", "global", "backoff", "saturated", "exhausted"}
<1>1. /\ Placed(LeaveModel(c)) /\ LeaveModel(c).pc \in {"global", "saturated", "exhausted"}
      /\ Placed(NextKey(c)) /\ NextKey(c).pc \in {"global", "saturated", "exhausted"}
  BY GoesOn
<1>2. CASE answer = "ok"
  <2>1. AfterAnswer(c, answer) = Idle BY <1>2 DEF AfterAnswer
  <2>2. Placed(Idle) /\ Idle.pc = "idle"
    BY ProviderConstants DEF Idle, Placed, CallType, Chain
  <2> QED BY <2>1, <2>2
<1>3. CASE answer = "key"
  <2>1. AfterAnswer(c, answer) = NextKey(c) BY <1>3 DEF AfterAnswer
  <2> QED BY <1>1, <2>1
<1>4. CASE answer = "model"
  <2>1. AfterAnswer(c, answer) = LeaveModel(c) BY <1>4 DEF AfterAnswer
  <2> QED BY <1>1, <2>1
<1>5. CASE answer \notin {"ok", "key", "model"}
  <2>1. AfterAnswer(c, answer) =
          IF call[c].attempt < MaxRetries
          THEN [call[c] EXCEPT !.pc = "backoff", !.attempt = @ + 1]
          ELSE AfterLastAttempt(c, answer)
    BY <1>5 DEF AfterAnswer
  <2>2. CASE call[c].attempt < MaxRetries
    <3> DEFINE at == call[c]
    <3>1. /\ at \in CallType /\ at.model \in 1 .. Models[at.provider]
          /\ at.key \in 1 .. Keys[at.provider]
          /\ MaxRetries \in Nat /\ at.attempt \in 0 .. MaxRetries /\ at.attempt < MaxRetries
      BY <2>2, ProviderConstants DEF TypeOK, CallType
    <3>2. AfterAnswer(c, answer) = [at EXCEPT !.pc = "backoff", !.attempt = @ + 1]
      BY <2>1, <2>2
    <3> DEFINE new == AfterAnswer(c, answer)
    <3> HIDE DEF at
    <3>3. at.attempt + 1 \in 0 .. MaxRetries BY <3>1
    <3>4. new.provider = at.provider /\ new.model = at.model /\ new.key = at.key
          /\ new.pc = "backoff" /\ new \in CallType
      BY <3>1, <3>2, <3>3 DEF CallType
    <3> QED BY <3>1, <3>4 DEF Placed
  <2>3. CASE ~(call[c].attempt < MaxRetries)
    <3>1. AfterAnswer(c, answer) \in {LeaveModel(c), NextKey(c)}
      BY <2>1, <2>3 DEF AfterLastAttempt
    <3> QED BY <1>1, <3>1
  <2> QED BY <2>2, <2>3
<1> QED BY <1>2, <1>3, <1>4, <1>5

-----------------------------------------------------------------------------
(* The steps *)

Outside == {"idle", "backoff", "saturated", "exhausted"}

LEMMA GateFacts ==
  ASSUME TypeOK, GatesInv, NEW c \in Calls
  PROVE  /\ Global \in Gates /\ Global \notin Chain /\ Gates = Chain \cup {Global}
         /\ gate \in [Gates -> GateType]
         /\ call \in [Calls -> CallType] /\ Placed(call[c]) /\ call[c].provider \in Chain
         /\ \A g \in Gates : /\ Queued(g, c) <=> c \in Waiting(gate[g].queue)
                             /\ Waiting(gate[g].queue) \subseteq At(g)
                             /\ Acquired(g, c) = Asked(gate[g], Ceiling[g], c)
                             /\ LeavesQueue(g, c) = GivenUp(gate[g], c)
         /\ \A g \in Gates : Released(g) = GivenBack(gate[g], Ceiling[g])
         /\ c \in At(Global) <=> call[c].pc \in {"global", "provider"}
         /\ \A p \in Chain : c \in At(p) <=> call[c].pc = "provider" /\ call[c].provider = p
<1>1. Global \in Gates /\ Global \notin Chain /\ Gates = Chain \cup {Global}
  BY DEF Gates, Chain, Global
<1>2. /\ gate \in [Gates -> GateType]
      /\ call \in [Calls -> CallType] /\ Placed(call[c]) /\ call[c].provider \in Chain
  BY DEF TypeOK, Placed, CallType
<1>3. ASSUME NEW g \in Gates
      PROVE  /\ Queued(g, c) <=> c \in Waiting(gate[g].queue)
             /\ Waiting(gate[g].queue) \subseteq At(g)
             /\ Acquired(g, c) = Asked(gate[g], Ceiling[g], c)
             /\ LeavesQueue(g, c) = GivenUp(gate[g], c)
  <2>1. Queued(g, c) <=> c \in Waiting(gate[g].queue) BY DEF Queued, Waiting
  <2>2. Waiting(gate[g].queue) \subseteq At(g) BY DEF GatesInv, GateFits
  <2>3. Acquired(g, c) = Asked(gate[g], Ceiling[g], c) BY DEF Acquired
  <2>4. LeavesQueue(g, c) = GivenUp(gate[g], c) BY DEF LeavesQueue, GivenUp
  <2> QED BY <2>1, <2>2, <2>3, <2>4
<1>4. \A g \in Gates : Released(g) = GivenBack(gate[g], Ceiling[g])
  BY Zenon DEF Released, Freed, GivenBack
<1>5. c \in At(Global) <=> call[c].pc \in {"global", "provider"} BY DEF At
<1>6. \A p \in Chain : c \in At(p) <=> call[c].pc = "provider" /\ call[c].provider = p
  BY <1>1 DEF At
<1> QED BY <1>1, <1>2, <1>3, <1>4, <1>5, <1>6

LEMMA AskStep ==
  ASSUME TypeOK, GatesInv, NEW c \in Calls, call[c].pc \in Outside,
         NEW new, Placed(new), new.pc = "global",
         call' = [call EXCEPT ![c] = new],
         gate' = [gate EXCEPT ![Global] = Acquired(Global, c)]
  PROVE  CallMoves(c, new)
<1>1. ASSUME NEW g \in Gates
      PROVE  GateMoves(gate[g], At(g), gate'[g], At(g)', Ceiling[g], c)
  <2>1. CASE g = Global
    <3>1. gate'[Global] = Asked(gate[Global], Ceiling[Global], c) BY GateFacts
    <3>2. c \notin At(Global) BY GateFacts DEF Outside
    <3>3. At(Global)' = At(Global) \cup {c} BY GateFacts, AtMoves DEF Placed
    <3> QED BY <2>1, <3>1, <3>2, <3>3 DEF GateMoves
  <2>2. CASE g # Global
    <3>1. g \in Chain /\ gate'[g] = gate[g] BY <2>2, GateFacts
    <3>2. c \notin At(g) BY <3>1, GateFacts DEF Outside
    <3>3. At(g)' = At(g) \ {c} BY <3>1, GateFacts, AtMoves DEF Placed
    <3> QED BY <3>1, <3>2, <3>3 DEF GateMoves
  <2> QED BY <2>1, <2>2
<1>2. gate' = [g \in Gates |-> gate'[g]] BY GateFacts
<1> QED BY <1>1, <1>2 DEF CallMoves

LEMMA StayStep ==
  ASSUME TypeOK, GatesInv, NEW c \in Calls, call[c].pc \in Outside,
         NEW new, Placed(new), new.pc \in Outside,
         call' = [call EXCEPT ![c] = new], gate' = gate
  PROVE  CallMoves(c, new)
<1>1. ASSUME NEW g \in Gates
      PROVE  GateMoves(gate[g], At(g), gate'[g], At(g)', Ceiling[g], c)
  <2>1. c \notin At(g) BY GateFacts DEF Outside
  <2>2. At(g)' = At(g) \ {c}
    <3>1. new \in CallType /\ new.pc \notin {"global", "provider"} BY DEF Placed, Outside
    <3>2. CASE g = Global BY <3>1, <3>2, GateFacts, AtMoves
    <3>3. CASE g # Global
      <4>1. g \in Chain BY <3>3, GateFacts
      <4> QED BY <3>1, <4>1, GateFacts, AtMoves
    <3> QED BY <3>2, <3>3
  <2> QED BY <2>1, <2>2 DEF GateMoves
<1>2. gate' = [g \in Gates |-> gate'[g]] BY GateFacts
<1> QED BY <1>1, <1>2 DEF CallMoves, Outside

LEMMA EnterStep ==
  ASSUME TypeOK, GatesInv, NEW c \in Calls, call[c].pc \in {"idle", "exhausted"},
         NEW p \in Nat, NEW STATE circuits, circuits \in [Circuits -> CircuitType],
         EnterChain(c, p, circuits)
  PROVE  /\ \E new : CallMoves(c, new)
         /\ circuit' \in [Circuits -> CircuitType]
<1> DEFINE open == {q \in Chain : q >= p /\ Available(q)}
           first == CHOOSE q \in open : \A r \in open : q <= r
<1>0. call[c].pc \in Outside BY DEF Outside
<1>1. CASE open = {}
  <2>1. /\ call' = [call EXCEPT ![c] = Idle]
        /\ circuit' = circuits
        /\ gate' = gate
    BY <1>1 DEF EnterChain
  <2>2. Placed(Idle) /\ Idle.pc \in Outside
    BY ProviderConstants DEF Idle, Placed, CallType, Chain, Outside
  <2> QED BY <1>0, <2>1, <2>2, StayStep
<1>2. CASE open # {}
  <2>1. PICK q \in Chain : q = first
    <3>1. open \in SUBSET Nat BY DEF Chain
    <3> HIDE DEF open
    <3>2. first \in open BY <1>2, <3>1, FirstOpen
    <3> QED BY <3>2 DEF open
  <2>2. /\ call' = [call EXCEPT ![c] = Entering(q)]
        /\ circuit' = [circuits EXCEPT ![<<q, WholeProvider>>] = HalfOpened(@)]
        /\ gate' = [gate EXCEPT ![Global] = Acquired(Global, c)]
    BY <1>2, <2>1 DEF EnterChain
  <2>3. Placed(Entering(q)) /\ Entering(q).pc = "global"
    <3>1. Entering(q) = [pc |-> "global", provider |-> q, model |-> 1, key |-> 1,
                         attempt |-> 0, saturated |-> FALSE]
      <4>1. Idle = [pc |-> "idle", provider |-> 1, model |-> 1, key |-> 1,
                    attempt |-> 0, saturated |-> FALSE]
        BY DEF Idle
      <4>2. Entering(q) = [Idle EXCEPT !.pc = "global", !.provider = q] BY DEF Entering
      <4> QED BY <4>1, <4>2
    <3>2. 1 \in 1 .. Models[q] /\ 1 \in 1 .. Keys[q] /\ 0 \in 0 .. MaxRetries
      BY ProviderConstants
    <3> QED BY <3>1, <3>2 DEF Placed, CallType
  <2>4. CallMoves(c, Entering(q)) BY <1>0, <2>2, <2>3, AskStep
  <2>5. \A k \in CircuitType : HalfOpened(k) \in CircuitType
    <3> SUFFICES ASSUME NEW k \in CircuitType PROVE HalfOpened(k) \in CircuitType OBVIOUS
    <3>1. CASE k.state = "open"
      <4>1. HalfOpened(k) = [k EXCEPT !.state = "half_open", !.cooled = FALSE]
        BY <3>1 DEF HalfOpened
      <4> QED BY <4>1 DEF CircuitType
    <3>2. CASE k.state # "open" BY <3>2 DEF HalfOpened
    <3> QED BY <3>1, <3>2
  <2>6. circuit' \in [Circuits -> CircuitType] BY <2>2, <2>5
  <2> QED BY <2>4, <2>6
<1> QED BY <1>1, <1>2

LEMMA AcquireStep ==
  ASSUME TypeOK, GatesInv, NEW c \in Calls, AcquireProvider(c)
  PROVE  \E new : CallMoves(c, new)
<1> DEFINE p == call[c].provider
           new == [call[c] EXCEPT !.pc = "provider"]
<1>1. /\ call[c].pc = "global" /\ c \notin Waiting(gate[Global].queue)
      /\ gate' = [gate EXCEPT ![p] = Acquired(p, c)]
      /\ call' = [call EXCEPT ![c] = new]
  BY GateFacts DEF AcquireProvider
<1>2. p \in Chain /\ p \in Gates /\ p # Global BY GateFacts
<1>3. Placed(new) /\ new.pc = "provider" /\ new.provider = p
  BY GateFacts DEF Placed, CallType
<1> HIDE DEF new
<1>6. /\ At(Global)' = IF new.pc \in {"global", "provider"}
                          THEN At(Global) \cup {c} ELSE At(Global) \ {c}
      /\ \A q \in Chain : At(q)' = IF new.pc = "provider" /\ new.provider = q
                                  THEN At(q) \cup {c} ELSE At(q) \ {c}
  <2>1. new \in CallType /\ call \in [Calls -> CallType] BY <1>3, GateFacts DEF Placed
  <2> QED BY <1>1, <2>1, AtMoves
<1>4. ASSUME NEW g \in Gates
      PROVE  GateMoves(gate[g], At(g), gate'[g], At(g)', Ceiling[g], c)
  <2>1. CASE g = Global
    <3>1. gate'[g] = gate[g] BY <1>1, <1>2, <2>1, GateFacts
    <3>2. At(g)' = At(g)
      <4>1. c \in At(Global) BY <1>1, GateFacts
      <4>2. At(Global)' = At(Global) BY <1>3, <1>6, <4>1
      <4> QED BY <2>1, <4>2
    <3> QED BY <3>1, <3>2 DEF GateMoves
  <2>2. CASE g = p
    <3>1. gate'[g] = Asked(gate[g], Ceiling[g], c) BY <1>1, <1>2, <2>2, GateFacts
    <3>2. c \notin At(g) BY <1>1, <1>2, <2>2, GateFacts
    <3>3. At(g)' = At(g) \cup {c} BY <1>2, <1>3, <1>6, <2>2
    <3> QED BY <3>1, <3>2, <3>3 DEF GateMoves
  <2>3. CASE g # Global /\ g # p
    <3>1. g \in Chain BY <2>3, GateFacts
    <3>2. gate'[g] = gate[g] BY <1>1, <2>3, GateFacts
    <3>3. At(g)' = At(g) \ {c} BY <1>3, <1>6, <2>3, <3>1
    <3>4. c \notin At(g) BY <1>1, <3>1, GateFacts
    <3> QED BY <3>2, <3>3, <3>4 DEF GateMoves
  <2> QED BY <2>1, <2>2, <2>3
<1>5. gate' = [g \in Gates |-> gate'[g]] BY <1>1, GateFacts
<1>7. gate'[Global] = gate[Global] BY <1>1, <1>2, GateFacts
<1> QED BY <1>1, <1>3, <1>4, <1>5, <1>7 DEF CallMoves

\* A step that ends the call's stay at its provider's gate, one way or another,
\* and gives its global slot back, for good or to ask again.
LEMMA LeaveStep ==
  ASSUME TypeOK, GatesInv, NEW c \in Calls, call[c].pc = "provider",
         NEW new, Placed(new), new.pc \in Outside \cup {"global"},
         call' = [call EXCEPT ![c] = new],
         NEW STATE X, NEW STATE Y,
         gate' = [gate EXCEPT ![call[c].provider] = X, ![Global] = Y],
         \/ /\ c \notin Waiting(gate[call[c].provider].queue)
            /\ X = GivenBack(gate[call[c].provider], Ceiling[call[c].provider])
         \/ /\ c \in Waiting(gate[call[c].provider].queue)
            /\ X = GivenUp(gate[call[c].provider], c),
         Y = IF new.pc = "global"
             THEN Asked(GivenBack(gate[Global], Ceiling[Global]), Ceiling[Global], c)
             ELSE GivenBack(gate[Global], Ceiling[Global])
  PROVE  CallMoves(c, new)
<1> DEFINE p == call[c].provider
<1>2. p \in Chain /\ p \in Gates /\ p # Global BY GateFacts
<1>6. /\ At(Global)' = IF new.pc \in {"global", "provider"}
                          THEN At(Global) \cup {c} ELSE At(Global) \ {c}
      /\ \A q \in Chain : At(q)' = IF new.pc = "provider" /\ new.provider = q
                                  THEN At(q) \cup {c} ELSE At(q) \ {c}
  <2>1. new \in CallType /\ call \in [Calls -> CallType] BY GateFacts DEF Placed
  <2> QED BY <2>1, AtMoves
<1>3. ASSUME NEW g \in Gates
      PROVE  GateMoves(gate[g], At(g), gate'[g], At(g)', Ceiling[g], c)
  <2>1. CASE g = Global
    <3>1. gate'[g] = Y BY <1>2, <2>1, GateFacts
    <3>2. c \notin Waiting(gate[g].queue) BY <2>1 DEF GatesInv
    <3>3. c \in At(g) BY <2>1, GateFacts
    <3>4. CASE new.pc = "global"
      <4>1. At(g)' = At(g) BY <2>1, <3>3, <3>4, <1>6
      <4> QED BY <2>1, <3>1, <3>2, <3>3, <3>4, <4>1 DEF GateMoves
    <3>5. CASE new.pc \in Outside
      <4>0. new.pc \notin {"global", "provider"} BY <3>5 DEF Outside
      <4>1. At(g)' = At(g) \ {c} BY <2>1, <4>0, <1>6
      <4> QED BY <2>1, <3>1, <3>2, <3>3, <4>0, <4>1 DEF GateMoves
    <3> QED BY <3>4, <3>5
  <2>2. CASE g = p
    <3>1. gate'[g] = X BY <1>2, <2>2, GateFacts
    <3>2. c \in At(g) BY <1>2, <2>2, GateFacts
    <3>3. new.pc # "provider" BY DEF Outside
    <3>4. At(g)' = At(g) \ {c} BY <1>2, <2>2, <3>3, <1>6
    <3> QED BY <2>2, <3>1, <3>2, <3>4 DEF GateMoves
  <2>3. CASE g # Global /\ g # p
    <3>1. g \in Chain BY <2>3, GateFacts
    <3>2. gate'[g] = gate[g] BY <2>3, GateFacts
    <3>3. new.pc # "provider" BY DEF Outside
    <3>4. At(g)' = At(g) \ {c} BY <3>1, <3>3, <1>6
    <3>5. c \notin At(g) BY <2>3, <3>1, GateFacts
    <3> QED BY <3>2, <3>4, <3>5 DEF GateMoves
  <2> QED BY <2>1, <2>2, <2>3
<1>4. gate' = [g \in Gates |-> gate'[g]] BY GateFacts
<1>5. new.pc # "provider" BY DEF Outside
<1> QED BY <1>3, <1>4, <1>5 DEF CallMoves

LEMMA AnsweredStep ==
  ASSUME TypeOK, GatesInv, NEW c \in Calls, NEW answer \in Answers, Answered(c, answer)
  PROVE  \E new : CallMoves(c, new)
<1>1. PICK new : new = AfterAnswer(c, answer) OBVIOUS
<1>2. Placed(new) /\ new.pc \in Outside \cup {"global"}
  BY <1>1, AnswerPlaced DEF Outside
<1>3. /\ call[c].pc = "provider" /\ ~Queued(call[c].provider, c)
      /\ call' = [call EXCEPT ![c] = new]
      /\ GiveBack(c, new.pc = "global")
  BY <1>1 DEF Answered, InFlight
<1>4. gate' = [gate EXCEPT
                 ![call[c].provider] = Released(call[c].provider),
                 ![Global] = IF new.pc = "global"
                             THEN Asked(Released(Global), Ceiling[Global], c)
                             ELSE Released(Global)]
  BY <1>3 DEF GiveBack
<1>5. call[c].provider \in Gates /\ Global \in Gates BY GateFacts
<1>6. c \notin Waiting(gate[call[c].provider].queue) BY <1>3, <1>5, GateFacts
<1>7. /\ Released(call[c].provider)
           = GivenBack(gate[call[c].provider], Ceiling[call[c].provider])
      /\ Released(Global) = GivenBack(gate[Global], Ceiling[Global])
  BY <1>5, GateFacts
<1> QED BY <1>2, <1>3, <1>4, <1>6, <1>7, LeaveStep

LEMMA SaturatedPlaced ==
  ASSUME NEW at, Placed(at)
  PROVE  /\ Placed([at EXCEPT !.pc = "saturated", !.saturated = TRUE])
         /\ [at EXCEPT !.pc = "saturated", !.saturated = TRUE].pc = "saturated"
<1> DEFINE new == [at EXCEPT !.pc = "saturated", !.saturated = TRUE]
<1>1. at \in CallType /\ new.pc = "saturated" /\ new.provider = at.provider
      /\ new.model = at.model /\ new.key = at.key
  BY DEF Placed, CallType
<1>2. new \in CallType BY <1>1 DEF CallType
<1> QED BY <1>1, <1>2 DEF Placed

LEMMA ProviderTimeoutStep ==
  ASSUME TypeOK, GatesInv, NEW c \in Calls, ProviderTimeout(c)
  PROVE  \E new : CallMoves(c, new)
<1>1. PICK new : new = [call[c] EXCEPT !.pc = "saturated", !.saturated = TRUE] OBVIOUS
<1>2. Placed(new) /\ new.pc = "saturated" BY <1>1, GateFacts, SaturatedPlaced
<1>3. /\ call[c].pc = "provider" /\ Queued(call[c].provider, c)
      /\ call' = [call EXCEPT ![c] = new]
      /\ gate' = [gate EXCEPT ![call[c].provider] = LeavesQueue(call[c].provider, c),
                              ![Global] = Released(Global)]
  BY <1>1 DEF ProviderTimeout, GlobalAfterTimeout
<1>5. call[c].provider \in Gates /\ Global \in Gates BY GateFacts
<1>6. /\ c \in Waiting(gate[call[c].provider].queue)
      /\ LeavesQueue(call[c].provider, c) = GivenUp(gate[call[c].provider], c)
      /\ Released(Global) = GivenBack(gate[Global], Ceiling[Global])
  BY <1>3, <1>5, GateFacts
<1>7. new.pc \in Outside \cup {"global"} /\ new.pc # "global" BY <1>2 DEF Outside
<1> QED BY <1>2, <1>3, <1>6, <1>7, LeaveStep

LEMMA GlobalTimeoutStep ==
  ASSUME TypeOK, GatesInv, NEW c \in Calls, GlobalTimeout(c)
  PROVE  \E new : CallMoves(c, new)
<1>1. PICK new : new = [call[c] EXCEPT !.pc = "saturated", !.saturated = TRUE] OBVIOUS
<1>2. Placed(new) /\ new.pc = "saturated" BY <1>1, GateFacts, SaturatedPlaced
<1>3. /\ call[c].pc = "global" /\ Queued(Global, c)
      /\ call' = [call EXCEPT ![c] = new]
      /\ gate' = [gate EXCEPT ![Global] = LeavesQueue(Global, c)]
  BY <1>1 DEF GlobalTimeout
<1>4. ASSUME NEW g \in Gates
      PROVE  GateMoves(gate[g], At(g), gate'[g], At(g)', Ceiling[g], c)
  <2>1. CASE g = Global
    <3>1. gate'[g] = GivenUp(gate[g], c) /\ c \in Waiting(gate[g].queue)
      BY <1>3, <2>1, GateFacts
    <3>2. At(g)' = At(g) \ {c} BY <1>2, <1>3, <2>1, GateFacts, AtMoves DEF Placed
    <3> QED BY <3>1, <3>2 DEF GateMoves
  <2>2. CASE g # Global
    <3>1. g \in Chain /\ gate'[g] = gate[g] BY <1>3, <2>2, GateFacts
    <3>2. c \notin At(g) BY <1>3, <3>1, GateFacts
    <3>3. At(g)' = At(g) \ {c} BY <1>2, <1>3, <3>1, GateFacts, AtMoves DEF Placed
    <3> QED BY <3>1, <3>2, <3>3 DEF GateMoves
  <2> QED BY <2>1, <2>2
<1>5. gate' = [g \in Gates |-> gate'[g]] BY <1>3, GateFacts
<1> QED BY <1>2, <1>3, <1>4, <1>5 DEF CallMoves

LEMMA RetryStep ==
  ASSUME TypeOK, GatesInv, NEW c \in Calls, Retry(c)
  PROVE  \E new : CallMoves(c, new)
<1>1. PICK new : new = [call[c] EXCEPT !.pc = "global"] OBVIOUS
<1>2. Placed(new) /\ new.pc = "global" BY <1>1, GateFacts DEF Placed, CallType
<1>3. /\ call[c].pc \in Outside
      /\ call' = [call EXCEPT ![c] = new]
      /\ gate' = [gate EXCEPT ![Global] = Acquired(Global, c)]
  BY <1>1 DEF Retry, Outside
<1> QED BY <1>2, <1>3, AskStep

LEMMA PassOverStep ==
  ASSUME TypeOK, GatesInv, NEW c \in Calls, PassOver(c)
  PROVE  \E new : CallMoves(c, new)
<1>1. PICK new : new = NextModel(c) OBVIOUS
<1>2. Placed(new) /\ new.pc \in {"global", "exhausted"} BY <1>1, GoesOn
<1>3. /\ call[c].pc \in Outside
      /\ call' = [call EXCEPT ![c] = new]
      /\ gate' = IF new.pc = "global"
                 THEN [gate EXCEPT ![Global] = Acquired(Global, c)]
                 ELSE gate
  BY <1>1 DEF PassOver, AfterSaturation, Outside
<1>4. CASE new.pc = "global" BY <1>2, <1>3, <1>4, AskStep
<1>5. CASE new.pc = "exhausted"
  <2>1. new.pc \in Outside /\ gate' = gate BY <1>3, <1>5 DEF Outside
  <2> QED BY <1>2, <1>3, <2>1, StayStep
<1> QED BY <1>2, <1>4, <1>5

\* Every step of a call moves it as CallMoves says, and keeps the circuits of
\* their type.
LEMMA CallSteps ==
  ASSUME TypeOK, GatesInv, NEW c \in Calls, Start(c) \/ Proceed(c)
  PROVE  /\ \E new : CallMoves(c, new)
         /\ circuit' \in [Circuits -> CircuitType]
<1>0. circuit \in [Circuits -> CircuitType] BY DEF TypeOK
<1>1. CASE Start(c)
  <2>1. call[c].pc \in {"idle", "exhausted"} /\ EnterChain(c, 1, circuit)
    BY <1>1 DEF Start
  <2> QED BY <1>0, <2>1, EnterStep
<1>2. CASE AcquireProvider(c)
  <2>1. circuit' = circuit BY <1>2 DEF AcquireProvider
  <2> QED BY <1>0, <1>2, <2>1, AcquireStep
<1>3. ASSUME NEW answer \in Answers, Answered(c, answer)
      PROVE  /\ \E new : CallMoves(c, new)
             /\ circuit' \in [Circuits -> CircuitType]
  <2>1. circuit' \in [Circuits -> CircuitType]
    <3>1. \A k \in CircuitType : AfterSuccess(k) \in CircuitType
      BY ProviderConstants DEF AfterSuccess, Closed, CircuitType
    <3>2. \/ circuit' = circuit
          \/ circuit' = [circuit EXCEPT ![SuccessKey(c)] = AfterSuccess(@)]
      BY <1>3 DEF Answered
    <3> QED BY <1>0, <3>1, <3>2
  <2> QED BY <1>3, <2>1, AnsweredStep
<1>4. CASE Retry(c)
  <2>1. circuit' = circuit BY <1>4 DEF Retry
  <2> QED BY <1>0, <1>4, <2>1, RetryStep
<1>5. CASE GlobalTimeout(c)
  <2>1. circuit' = circuit BY <1>5 DEF GlobalTimeout
  <2> QED BY <1>0, <1>5, <2>1, GlobalTimeoutStep
<1>6. CASE ProviderTimeout(c)
  <2>1. circuit' = circuit BY <1>6 DEF ProviderTimeout
  <2> QED BY <1>0, <1>6, <2>1, ProviderTimeoutStep
<1>7. CASE PassOver(c)
  <2>1. circuit' = circuit BY <1>7 DEF PassOver
  <2> QED BY <1>0, <1>7, <2>1, PassOverStep
<1>8. CASE Exhaust(c)
  <2> DEFINE p == call[c].provider
             after == [circuit EXCEPT ![<<p, WholeProvider>>] = AfterFailure(@)]
  <2>1. call[c].pc \in {"idle", "exhausted"} /\ EnterChain(c, p + 1, after)
    BY <1>8 DEF Exhaust
  <2>2. p + 1 \in Nat BY GateFacts DEF Chain
  <2>3. after \in [Circuits -> CircuitType]
    <3>1. \A k \in CircuitType : AfterFailure(k) \in CircuitType
      <4> SUFFICES ASSUME NEW k \in CircuitType PROVE AfterFailure(k) \in CircuitType
        OBVIOUS
      <4>1. Counted(k) \in 0 .. Threshold
        BY ProviderConstants DEF Counted, CircuitType
      <4> QED BY <4>1 DEF AfterFailure, CircuitType
    <3> QED BY <1>0, <3>1
  <2> HIDE DEF after
  <2> QED BY <1>0, <2>1, <2>2, <2>3, EnterStep
<1> QED BY <1>1, <1>2, <1>3, <1>4, <1>5, <1>6, <1>7, <1>8 DEF Proceed

LEMMA CircuitSteps ==
  ASSUME TypeOK, GatesInv, NEW k \in Circuits, CooldownEnds(k) \/ ResetCircuit(k)
  PROVE  /\ TypeOK'
         /\ GatesInv'
         /\ gate' = gate /\ call' = call
<1>1. gate' = gate /\ call' = call
  BY DEF CooldownEnds, ResetCircuit
<1>2. circuit \in [Circuits -> CircuitType] BY DEF TypeOK
<1>3. circuit' \in [Circuits -> CircuitType]
  <2>1. CASE CooldownEnds(k)
    <3>1. circuit' = [circuit EXCEPT ![k] = [circuit[k] EXCEPT !.cooled = TRUE]]
      BY <1>2, <2>1 DEF CooldownEnds
    <3>2. [circuit[k] EXCEPT !.cooled = TRUE] \in CircuitType BY <1>2 DEF CircuitType
    <3> QED BY <1>2, <3>1, <3>2
  <2>2. CASE ResetCircuit(k)
    <3>1. Closed \in CircuitType BY ProviderConstants DEF Closed, CircuitType
    <3> QED BY <1>2, <2>2, <3>1 DEF ResetCircuit
  <2> QED BY <2>1, <2>2
<1>4. TypeOK' BY <1>1, <1>3 DEF TypeOK
<1>5. GatesInv' BY <1>1 DEF GatesInv, At
<1> QED BY <1>1, <1>4, <1>5

-----------------------------------------------------------------------------
(* The invariant *)

LEMMA InitInv ==
  ASSUME Init
  PROVE  TypeOK /\ GatesInv
<1>1. TypeOK
  <2>1. gate \in [Gates -> GateType]
    <3>1. [active |-> 0, queue |-> <<>>] \in GateType BY EmptySeq DEF GateType
    <3> QED BY <3>1 DEF Init
  <2>2. circuit \in [Circuits -> CircuitType]
    <3>1. Closed \in CircuitType BY ProviderConstants DEF Closed, CircuitType
    <3> QED BY <3>1 DEF Init
  <2>3. Idle \in CallType /\ Idle.provider = 1 /\ Idle.model = 1 /\ Idle.key = 1
    BY ProviderConstants DEF Idle, CallType, Chain
  <2>4. Models[1] \in Nat \ {0} /\ Keys[1] \in Nat \ {0}
    BY ProviderConstants DEF Chain
  <2>5. call = [c \in Calls |-> Idle] BY DEF Init
  <2>6. \A c \in Calls : /\ call[c].model \in 1 .. Models[call[c].provider]
                        /\ call[c].key \in 1 .. Keys[call[c].provider]
    BY <2>3, <2>4, <2>5
  <2>7. call \in [Calls -> CallType] BY <2>3, <2>5
  <2> QED BY <2>1, <2>2, <2>6, <2>7 DEF TypeOK, Init
<1>2. \A g \in Gates : gate[g].active = 0 /\ gate[g].queue = <<>> BY DEF Init
<1>3. \A g \in Gates : Waiting(gate[g].queue) = {}
  <2> SUFFICES ASSUME NEW g \in Gates PROVE Waiting(gate[g].queue) = {} OBVIOUS
  <2>1. Len(gate[g].queue) = 0 BY <1>2
  <2> QED BY <2>1 DEF Waiting
<1>4. \A g \in Gates : At(g) = {}
  <2>1. \A c \in Calls : call[c].pc = "idle" BY DEF Init, Idle
  <2> QED BY <2>1 DEF At
<1>5. ASSUME NEW g \in Gates PROVE GateFits(gate[g], At(g), Ceiling[g])
  <2>1. gate[g] \in GateType /\ Ceiling[g] \in Nat BY <1>1, ProviderConstants DEF TypeOK
  <2>2. Distinct(gate[g].queue)
    <3>1. Len(gate[g].queue) = 0 BY <1>2
    <3> QED BY <3>1 DEF Distinct
  <2>3. At(g) \ Waiting(gate[g].queue) = {} BY <1>4
  <2>4. Cardinality(At(g) \ Waiting(gate[g].queue)) = 0 BY <2>3, FS_EmptySet
  <2> QED BY <1>2, <1>3, <2>1, <2>2, <2>4 DEF GateFits
<1>6. Global \in Gates BY DEF Gates
<1> QED BY <1>1, <1>3, <1>5, <1>6 DEF GatesInv

LEMMA NextInv ==
  ASSUME TypeOK, GatesInv, [Next]_vars
  PROVE  /\ TypeOK' /\ GatesInv'
         /\ \/ gate' = gate /\ call' = call
            \/ \A g \in Gates : InOrder(gate[g], At(g), gate'[g], At(g)')
<1>1. ASSUME NEW c \in Calls, Start(c) \/ Proceed(c)
      PROVE  /\ TypeOK' /\ GatesInv'
             /\ \A g \in Gates : InOrder(gate[g], At(g), gate'[g], At(g)')
  <2>1. PICK new : CallMoves(c, new) BY <1>1, CallSteps
  <2>2. circuit' \in [Circuits -> CircuitType]
    BY <1>1, CallSteps
  <2>3. TypeOK' BY <2>1, <2>2, MovesKeep DEF TypeOK
  <2> QED BY <2>1, <2>3, MovesKeep
<1>2. ASSUME NEW k \in Circuits, CooldownEnds(k) \/ ResetCircuit(k)
      PROVE  TypeOK' /\ GatesInv' /\ gate' = gate /\ call' = call
  BY <1>2, CircuitSteps
<1>3. CASE UNCHANGED vars
  <2>1. gate' = gate /\ call' = call /\ circuit' = circuit
    BY <1>3 DEF vars
  <2>2. TypeOK' BY <2>1 DEF TypeOK
  <2>3. GatesInv' BY <2>1 DEF GatesInv, At
  <2> QED BY <2>1, <2>2, <2>3
<1> QED BY <1>1, <1>2, <1>3 DEF Next

LEMMA Inductive == Spec => [](TypeOK /\ GatesInv)
<1>1. Init => TypeOK /\ GatesInv BY InitInv
<1>2. TypeOK /\ GatesInv /\ [Next]_vars => (TypeOK /\ GatesInv)' BY NextInv
<1> QED BY <1>1, <1>2, PTL DEF Spec

\* Who holds a slot is who is at the gate and does not wait.
LEMMA HoldersOf ==
  GatesInv => \A g \in Gates : Holders(g) = At(g) \ Waiting(gate[g].queue)
<1> SUFFICES ASSUME GatesInv, NEW g \in Gates
             PROVE  Holders(g) = At(g) \ Waiting(gate[g].queue)
  OBVIOUS
<1>1. \A c : Queued(g, c) <=> c \in Waiting(gate[g].queue) BY DEF Queued, Waiting
<1>2. CASE g = Global
  <2>1. Holders(g) = {c \in Calls : HoldsGlobal(c)} BY <1>2 DEF Holders
  <2>2. At(g) = {c \in Calls : call[c].pc \in {"global", "provider"}} BY <1>2 DEF At
  <2>3. \A c \in Waiting(gate[g].queue) : call[c].pc = "global" BY <1>2 DEF GatesInv
  <2>4. ASSUME NEW c \in Calls
        PROVE  HoldsGlobal(c) <=> c \in At(g) \ Waiting(gate[g].queue)
    <3>1. HoldsGlobal(c) <=> \/ call[c].pc = "provider"
                             \/ (call[c].pc = "global" /\ c \notin Waiting(gate[g].queue))
      BY <1>1, <1>2 DEF HoldsGlobal
    <3> QED BY <2>2, <2>3, <3>1
  <2> QED BY <2>1, <2>2, <2>4
<1>3. CASE g # Global
  <2>1. Holders(g) = {c \in Calls : InFlight(c) /\ call[c].provider = g}
    BY <1>3 DEF Holders
  <2>2. At(g) = {c \in Calls : call[c].pc = "provider" /\ call[c].provider = g}
    BY <1>3 DEF At
  <2>3. ASSUME NEW c \in Calls, call[c].provider = g
        PROVE  InFlight(c) <=> call[c].pc = "provider" /\ c \notin Waiting(gate[g].queue)
    BY <1>1, <2>3 DEF InFlight
  <2> QED BY <2>1, <2>2, <2>3
<1> QED BY <1>2, <1>3

LEMMA HoldersAfter ==
  (GatesInv => \A g \in Gates : Holders(g) = At(g) \ Waiting(gate[g].queue))'
BY HoldersOf, PTL

-----------------------------------------------------------------------------
(* The theorems *)

\* The gates, the circuits and the calls stay of their types, and a call is
\* never at a model or a key its provider does not have.
THEOREM TypeCorrect == Spec => []TypeOK
BY Inductive, PTL

\* A queue lists just the calls that wait at its gate, once each.
THEOREM QueuesRight == Spec => []QueuesListWaiters
<1>1. GatesInv => QueuesListWaiters
  <2> SUFFICES ASSUME GatesInv, NEW g \in Gates, NEW i \in 1 .. Len(gate[g].queue)
               PROVE  /\ IF g = Global THEN call[gate[g].queue[i]].pc = "global"
                         ELSE /\ call[gate[g].queue[i]].pc = "provider"
                              /\ call[gate[g].queue[i]].provider = g
                      /\ \A j \in 1 .. Len(gate[g].queue) :
                           gate[g].queue[j] = gate[g].queue[i] => i = j
    BY DEF QueuesListWaiters
  <2>1. gate[g].queue[i] \in Waiting(gate[g].queue) BY DEF Waiting
  <2>2. gate[g].queue[i] \in At(g) BY <2>1 DEF GatesInv, GateFits
  <2>3. CASE g = Global
    <3>1. call[gate[g].queue[i]].pc = "global" BY <2>1, <2>3 DEF GatesInv
    <3>2. Distinct(gate[g].queue) BY DEF GatesInv, GateFits
    <3> QED BY <2>3, <3>1, <3>2 DEF Distinct
  <2>4. CASE g # Global
    <3>1. /\ call[gate[g].queue[i]].pc = "provider"
          /\ call[gate[g].queue[i]].provider = g
      BY <2>2, <2>4 DEF At
    <3>2. Distinct(gate[g].queue) BY DEF GatesInv, GateFits
    <3> QED BY <2>4, <3>1, <3>2 DEF Distinct
  <2> QED BY <2>3, <2>4
<1> QED BY <1>1, Inductive, PTL

\* Nobody waits at a gate that has a free slot.
THEOREM SlotsUsed == Spec => []NoIdleSlot
<1>1. GatesInv => NoIdleSlot BY DEF GatesInv, GateFits, NoIdleSlot
<1> QED BY <1>1, Inductive, PTL

\* No slot leaks, none is given out twice, and a ceiling is never exceeded.
THEOREM SlotsAccounted == Spec => []SlotsMatchHolders
<1>1. GatesInv => SlotsMatchHolders
  <2> SUFFICES ASSUME GatesInv, NEW g \in Gates, Ceiling[g] > 0
               PROVE  /\ gate[g].active = Cardinality(Holders(g))
                      /\ gate[g].active <= Ceiling[g]
    BY DEF SlotsMatchHolders
  <2>1. Holders(g) = At(g) \ Waiting(gate[g].queue) BY HoldersOf
  <2>2. /\ gate[g].active = Cardinality(At(g) \ Waiting(gate[g].queue))
        /\ gate[g].active <= Ceiling[g]
    BY DEF GatesInv, GateFits
  <2> QED BY <2>1, <2>2
<1> QED BY <1>1, Inductive, PTL

\* Somebody holds a slot of a gate at which others wait.
LEMMA QueueBehindHolder ==
  ASSUME GatesInv, NEW g \in Gates, gate[g].queue # <<>>
  PROVE  Holders(g) # {}
<1>1. /\ Ceiling[g] \in Nat /\ Ceiling[g] # 0
      /\ gate[g].active = Ceiling[g]
      /\ gate[g].active = Cardinality(At(g) \ Waiting(gate[g].queue))
  <2>1. Ceiling[g] \in Nat BY ProviderConstants
  <2>2. GateFits(gate[g], At(g), Ceiling[g]) BY DEF GatesInv
  <2>3. Ceiling[g] # 0 BY <2>2 DEF GateFits
  <2>4. Ceiling[g] > 0 BY <2>1, <2>3
  <2> QED BY <2>1, <2>2, <2>4 DEF GateFits
<1>2. Holders(g) = At(g) \ Waiting(gate[g].queue) BY HoldersOf
<1> QED BY <1>1, <1>2, FS_EmptySet

\* Behind every queue there is a request that is out, or a call about to ask
\* its provider for a slot: the two gates are asked for in one order.
THEOREM NobodyWaitsInACircle == Spec => []NoCircularWait
<1> SUFFICES ASSUME TypeOK, GatesInv PROVE NoCircularWait
  BY Inductive, PTL
<1>1. /\ Global \in Gates /\ Global \notin Chain /\ Chain \subseteq Gates
      /\ \A c \in Calls : call[c].provider \in Chain
  BY DEF Gates, Chain, Global, TypeOK, CallType
<1>2. ASSUME NEW p \in Chain, gate[p].queue # <<>>
      PROVE  \E c \in Calls : InFlight(c) /\ call[c].provider = p
  <2>1. PICK c : c \in Holders(p) BY <1>1, <1>2, QueueBehindHolder
  <2> QED BY <1>1, <2>1 DEF Holders
<1>3. ASSUME gate[Global].queue # <<>>
      PROVE  \E c \in Calls : InFlight(c) \/ (call[c].pc = "global" /\ ~Queued(Global, c))
  <2>1. PICK c \in Calls : HoldsGlobal(c)
    BY <1>1, <1>3, QueueBehindHolder DEF Holders
  <2>2. CASE call[c].pc = "global" /\ ~Queued(Global, c) BY <2>2
  <2>3. CASE call[c].pc = "provider"
    <3>1. CASE InFlight(c) BY <3>1
    <3>2. CASE Queued(call[c].provider, c)
      <4>1. gate[call[c].provider].queue # <<>>
        BY <1>1, <3>2, LenProperties, EmptySeq DEF Queued, TypeOK, GateType
      <4> QED BY <1>1, <1>2, <4>1
    <3> QED BY <2>3, <3>1, <3>2 DEF InFlight
  <2> QED BY <2>1, <2>2, <2>3 DEF HoldsGlobal
<1> QED BY <1>2, <1>3 DEF NoCircularWait

\* A call that gets a slot of a gate is the head of its queue, or nobody was
\* waiting there.
THEOREM ServedInOrder == Spec => FirstComeFirstServed
<1> DEFINE Served ==
      \A g \in Gates : gate[g].queue # <<>> =>
        \A c \in Holders(g)' : c \in Holders(g) \/ gate[g].queue[1] = c
<1>1. TypeOK /\ GatesInv /\ [Next]_vars => Served
  <2> SUFFICES ASSUME TypeOK, GatesInv, [Next]_vars, NEW g \in Gates, gate[g].queue # <<>>,
                      NEW c \in Holders(g)', c \notin Holders(g)
               PROVE  gate[g].queue[1] = c
    OBVIOUS
  <2>1. GatesInv' BY NextInv
  <2>2. c \notin At(g) \ Waiting(gate[g].queue) BY HoldersOf
  <2>3. Holders(g)' = At(g)' \ Waiting(gate'[g].queue)
    BY <2>1, HoldersAfter
  <2>4. CASE gate' = gate /\ call' = call
    <3>1. Holders(g)' = Holders(g) BY <2>4 DEF Holders, HoldsGlobal, InFlight, Queued
    <3> QED BY <3>1
  <2>5. CASE InOrder(gate[g], At(g), gate'[g], At(g)')
    BY <2>2, <2>3, <2>5 DEF InOrder
  <2> QED BY <2>4, <2>5, NextInv
<1>2. Spec => [][Served]_vars BY <1>1, Inductive, PTL DEF Spec
<1> QED BY <1>2 DEF FirstComeFirstServed

-----------------------------------------------------------------------------
(* A call only goes forward *)

LEMMA Later ==
  ASSUME NEW a, NEW b,
         \/ a.provider < b.provider
         \/ /\ a.provider = b.provider
            /\ \/ a.model < b.model
               \/ /\ a.model = b.model
                  /\ \/ a.key < b.key
                     \/ /\ a.key = b.key
                        /\ \/ a.attempt < b.attempt
                           \/ /\ a.attempt = b.attempt
                              /\ Stage[a.pc] < Stage[b.pc]
  PROVE  Before(a, b)
<1> DEFINE u == Place(a)
           v == Place(b)
<1>1. /\ u[1] = a.provider /\ u[2] = a.model /\ u[3] = a.key /\ u[4] = a.attempt
      /\ u[5] = Stage[a.pc]
      /\ v[1] = b.provider /\ v[2] = b.model /\ v[3] = b.key /\ v[4] = b.attempt
      /\ v[5] = Stage[b.pc]
  BY DEF Place
<1>2. Before(a, b) <=> \E i \in 1 .. 5 : /\ u[i] < v[i]
                                        /\ \A j \in 1 .. i - 1 : u[j] = v[j]
  BY DEF Before
<1> HIDE DEF u, v
<1>3. CASE u[1] < v[1]
  <2>1. \A j \in 1 .. 1 - 1 : u[j] = v[j] OBVIOUS
  <2> QED BY <1>2, <1>3, <2>1
<1>4. CASE u[1] = v[1] /\ u[2] < v[2]
  <2>1. \A j \in 1 .. 2 - 1 : j = 1 OBVIOUS
  <2>2. \A j \in 1 .. 2 - 1 : u[j] = v[j] BY <1>4, <2>1
  <2> QED BY <1>2, <1>4, <2>2
<1>5. CASE u[1] = v[1] /\ u[2] = v[2] /\ u[3] < v[3]
  <2>1. \A j \in 1 .. 3 - 1 : j = 1 \/ j = 2 OBVIOUS
  <2>2. \A j \in 1 .. 3 - 1 : u[j] = v[j] BY <1>5, <2>1
  <2> QED BY <1>2, <1>5, <2>2
<1>6. CASE u[1] = v[1] /\ u[2] = v[2] /\ u[3] = v[3] /\ u[4] < v[4]
  <2>1. \A j \in 1 .. 4 - 1 : j = 1 \/ j = 2 \/ j = 3 OBVIOUS
  <2>2. \A j \in 1 .. 4 - 1 : u[j] = v[j] BY <1>6, <2>1
  <2> QED BY <1>2, <1>6, <2>2
<1>7. CASE u[1] = v[1] /\ u[2] = v[2] /\ u[3] = v[3] /\ u[4] = v[4] /\ u[5] < v[5]
  <2>1. \A j \in 1 .. 5 - 1 : j = 1 \/ j = 2 \/ j = 3 \/ j = 4 OBVIOUS
  <2>2. \A j \in 1 .. 5 - 1 : u[j] = v[j] BY <1>7, <2>1
  <2> QED BY <1>2, <1>7, <2>2
<1> QED BY <1>1, <1>3, <1>4, <1>5, <1>6, <1>7

LEMMA Stages ==
  /\ Stage["backoff"] = 0 /\ Stage["global"] = 1 /\ Stage["provider"] = 2
  /\ Stage["saturated"] = 3 /\ Stage["exhausted"] = 4
BY DEF Stage

\* The next model, or none left.
LEMMA ModelForward ==
  ASSUME TypeOK, NEW c \in Calls, call[c].pc \in {"provider", "saturated"}
  PROVE  Before(call[c], NextModel(c))
<1> DEFINE at == call[c]
<1>1. /\ at \in CallType /\ Models[at.provider] \in Nat /\ Keys[at.provider] \in Nat
      /\ at.model \in Nat /\ at.key \in Nat
  BY ProviderConstants DEF TypeOK, CallType
<1>2. Stage[at.pc] < Stage["exhausted"] BY Stages
<1> HIDE DEF at
<1> DEFINE new == NextModel(c)
<1>3. CASE at.model < Models[at.provider]
  <2>1. new = [at EXCEPT !.pc = "global", !.model = @ + 1, !.key = 1, !.attempt = 0]
    BY <1>3 DEF NextModel, at
  <2>2. new.provider = at.provider /\ new.model = at.model + 1
    BY <1>1, <2>1 DEF CallType
  <2> HIDE DEF new
  <2>3. at.model < new.model BY <1>1, <2>2
  <2> QED BY <2>2, <2>3, Later DEF new, at
<1>4. CASE ~(at.model < Models[at.provider])
  <2>1. new = [at EXCEPT !.pc = "exhausted"] BY <1>4 DEF NextModel, at
  <2>2. new.provider = at.provider /\ new.model = at.model /\ new.key = at.key
        /\ new.attempt = at.attempt /\ new.pc = "exhausted"
    BY <1>1, <2>1 DEF CallType
  <2> HIDE DEF new
  <2> QED BY <1>2, <2>2, Later DEF new, at
<1> QED BY <1>3, <1>4

\* The trace to store, or the next model; the next key, or one of these.
LEMMA GoesForward ==
  ASSUME TypeOK, NEW c \in Calls, call[c].pc = "provider"
  PROVE  Before(call[c], LeaveModel(c)) /\ Before(call[c], NextKey(c))
<1> DEFINE at == call[c]
<1>1. /\ at \in CallType /\ Keys[at.provider] \in Nat /\ at.key \in Nat
      /\ at.pc = "provider"
  BY ProviderConstants DEF TypeOK, CallType
<1>2. Before(at, NextModel(c)) BY ModelForward
<1> HIDE DEF at
<1>3. Before(at, LeaveModel(c))
  <2>1. CASE at.saturated
    <3> DEFINE new == LeaveModel(c)
    <3>1. new = [at EXCEPT !.pc = "saturated"] BY <2>1 DEF LeaveModel, at
    <3>2. new.provider = at.provider /\ new.model = at.model /\ new.key = at.key
          /\ new.attempt = at.attempt /\ new.pc = "saturated"
      BY <1>1, <3>1 DEF CallType
    <3> HIDE DEF new
    <3>3. Stage[at.pc] < Stage[new.pc] BY <1>1, <3>2, Stages
    <3> QED BY <3>2, <3>3, Later DEF new
  <2>2. CASE ~at.saturated BY <1>2, <2>2 DEF LeaveModel, at
  <2> QED BY <2>1, <2>2
<1>4. Before(at, NextKey(c))
  <2> DEFINE new == NextKey(c)
  <2>1. CASE at.key < Keys[at.provider]
    <3>1. new = [at EXCEPT !.pc = "global", !.key = @ + 1, !.attempt = 0]
      BY <2>1 DEF NextKey, at
    <3>2. new.provider = at.provider /\ new.model = at.model /\ new.key = at.key + 1
      BY <1>1, <3>1 DEF CallType
    <3> HIDE DEF new
    <3>3. at.key < new.key BY <1>1, <3>2
    <3> QED BY <3>2, <3>3, Later DEF new
  <2>2. CASE ~(at.key < Keys[at.provider]) BY <1>3, <2>2 DEF NextKey, at
  <2> QED BY <2>1, <2>2
<1> QED BY <1>3, <1>4 DEF at

\* What an answer, a delay, a slot or a timeout makes of a call is further on.
LEMMA AnswerForward ==
  ASSUME TypeOK, NEW c \in Calls, NEW answer \in Answers, call[c].pc = "provider",
         AfterAnswer(c, answer).pc # "idle"
  PROVE  Before(call[c], AfterAnswer(c, answer))
<1>1. Before(call[c], LeaveModel(c)) /\ Before(call[c], NextKey(c)) BY GoesForward
<1>2. answer # "ok" BY DEF AfterAnswer, Idle
<1>3. CASE answer = "key"
  <2>1. AfterAnswer(c, answer) = NextKey(c) BY <1>3 DEF AfterAnswer
  <2> QED BY <1>1, <2>1
<1>4. CASE answer = "model"
  <2>1. AfterAnswer(c, answer) = LeaveModel(c) BY <1>4 DEF AfterAnswer
  <2> QED BY <1>1, <2>1
<1>5. CASE answer \notin {"ok", "key", "model"}
  <2>1. AfterAnswer(c, answer) =
          IF call[c].attempt < MaxRetries
          THEN [call[c] EXCEPT !.pc = "backoff", !.attempt = @ + 1]
          ELSE AfterLastAttempt(c, answer)
    BY <1>5 DEF AfterAnswer
  <2>2. CASE call[c].attempt < MaxRetries
    <3> DEFINE at == call[c]
               new == AfterAnswer(c, answer)
    <3>1. at \in CallType /\ at.attempt \in Nat
      BY ProviderConstants DEF TypeOK, CallType
    <3>2. new = [at EXCEPT !.pc = "backoff", !.attempt = @ + 1] BY <2>1, <2>2
    <3> HIDE DEF at
    <3>3. new.provider = at.provider /\ new.model = at.model /\ new.key = at.key
          /\ new.attempt = at.attempt + 1
      BY <3>1, <3>2 DEF CallType
    <3> HIDE DEF new
    <3>4. at.attempt < new.attempt BY <3>1, <3>3
    <3> QED BY <3>3, <3>4, Later DEF at, new
  <2>3. CASE ~(call[c].attempt < MaxRetries)
    <3>1. AfterAnswer(c, answer) \in {LeaveModel(c), NextKey(c)}
      BY <2>1, <2>3 DEF AfterLastAttempt
    <3> QED BY <1>1, <3>1
  <2> QED BY <2>2, <2>3
<1> QED BY <1>2, <1>3, <1>4, <1>5

LEMMA StageForward ==
  ASSUME NEW a \in CallType, NEW b,
         \/ b = [a EXCEPT !.pc = "provider"] /\ a.pc = "global"
         \/ b = [a EXCEPT !.pc = "global"] /\ a.pc = "backoff"
         \/ /\ b = [a EXCEPT !.pc = "saturated", !.saturated = TRUE]
            /\ a.pc \in {"global", "provider"}
  PROVE  Before(a, b)
<1>1. /\ b.provider = a.provider /\ b.model = a.model /\ b.key = a.key
      /\ b.attempt = a.attempt
  BY DEF CallType
<1>2. \/ a.pc = "global" /\ b.pc = "provider"
      \/ a.pc = "backoff" /\ b.pc = "global"
      \/ a.pc \in {"global", "provider"} /\ b.pc = "saturated"
  BY DEF CallType
<1>3. Stage[a.pc] < Stage[b.pc]
  <2>1. CASE a.pc = "global" /\ b.pc = "provider" BY <2>1, Stages
  <2>2. CASE a.pc = "backoff" /\ b.pc = "global" BY <2>2, Stages
  <2>3. CASE a.pc \in {"global", "provider"} /\ b.pc = "saturated" BY <2>3, Stages
  <2> QED BY <1>2, <2>1, <2>2, <2>3
<1> QED BY <1>1, <1>3, Later

LEMMA Advances ==
  ASSUME TypeOK, NEW c \in Calls, Proceed(c), call'[c].pc # "idle"
  PROVE  Before(call[c], call'[c])
<1>0. call \in [Calls -> CallType] /\ call[c] \in CallType BY DEF TypeOK
<1>1. CASE AcquireProvider(c)
  <2>1. /\ call'[c] = [call[c] EXCEPT !.pc = "provider"]
        /\ call[c].pc = "global"
    BY <1>0, <1>1 DEF AcquireProvider
  <2> QED BY <1>0, <2>1, StageForward
<1>2. ASSUME NEW answer \in Answers, Answered(c, answer)
      PROVE  Before(call[c], call'[c])
  <2>1. call'[c] = AfterAnswer(c, answer) /\ call[c].pc = "provider"
    BY <1>0, <1>2 DEF Answered, InFlight
  <2> QED BY <2>1, AnswerForward
<1>3. CASE Retry(c)
  <2>1. call'[c] = [call[c] EXCEPT !.pc = "global"] /\ call[c].pc = "backoff"
    BY <1>0, <1>3 DEF Retry
  <2> QED BY <1>0, <2>1, StageForward
<1>4. CASE GlobalTimeout(c) \/ ProviderTimeout(c)
  <2>1. /\ call'[c] = [call[c] EXCEPT !.pc = "saturated", !.saturated = TRUE]
        /\ call[c].pc \in {"global", "provider"}
    BY <1>0, <1>4 DEF GlobalTimeout, ProviderTimeout
  <2> QED BY <1>0, <2>1, StageForward
<1>5. CASE PassOver(c)
  <2>1. call'[c] = NextModel(c) /\ call[c].pc = "saturated"
    BY <1>0, <1>5 DEF PassOver, AfterSaturation
  <2> QED BY <2>1, ModelForward
<1>6. CASE Exhaust(c)
  <2> DEFINE p == call[c].provider
             open == {q \in Chain : q >= p + 1 /\ Available(q)}
             first == CHOOSE q \in open : \A r \in open : q <= r
  <2>1. open # {}
    <3>1. open = {} => call'[c] = Idle BY <1>0, <1>6 DEF Exhaust, EnterChain
    <3> QED BY <3>1 DEF Idle
  <2>2. PICK q : q = first OBVIOUS
  <2>3. q \in Chain /\ q >= p + 1
    <3>1. open \in SUBSET Nat BY DEF Chain
    <3> HIDE DEF open
    <3>2. q \in open BY <2>1, <2>2, <3>1, FirstOpen
    <3> QED BY <3>2 DEF open
  <2>4. call'[c] = Entering(q) BY <1>0, <1>6, <2>1, <2>2 DEF Exhaust, EnterChain
  <2>5. Entering(q).provider = q
    <3>1. Idle = [pc |-> "idle", provider |-> 1, model |-> 1, key |-> 1,
                  attempt |-> 0, saturated |-> FALSE]
      BY DEF Idle
    <3>2. Entering(q) = [Idle EXCEPT !.pc = "global", !.provider = q] BY DEF Entering
    <3> QED BY <3>1, <3>2
  <2>6. p \in Nat BY <1>0 DEF CallType, Chain
  <2>7. p < q BY <2>3, <2>6 DEF Chain
  <2> QED BY <2>4, <2>5, <2>7, Later
<1> QED BY <1>1, <1>2, <1>3, <1>4, <1>5, <1>6 DEF Proceed

\* A call never comes back to a provider, model, key or attempt it has left.
THEOREM NeverGoesRound == Spec => CallsAdvance
<1> DEFINE Advancing ==
      \A c \in Calls :
        call'[c] # call[c] /\ call[c].pc # "idle" /\ call'[c].pc # "idle"
          => Before(call[c], call'[c])
<1>1. TypeOK /\ [Next]_vars => Advancing
  <2> SUFFICES ASSUME TypeOK, [Next]_vars, NEW d \in Calls, call'[d] # call[d],
                      call[d].pc # "idle", call'[d].pc # "idle"
               PROVE  Before(call[d], call'[d])
    OBVIOUS
  <2>0. call \in [Calls -> CallType] BY DEF TypeOK
  <2>1. PICK c \in Calls : Start(c) \/ Proceed(c)
    <3>1. ~(UNCHANGED vars) BY DEF vars
    <3>2. \A k \in Circuits : ~(CooldownEnds(k) \/ ResetCircuit(k))
      BY DEF CooldownEnds, ResetCircuit
    <3> QED BY <3>1, <3>2 DEF Next
  <2>2. \E new : call' = [call EXCEPT ![c] = new]
    <3>1. CASE Start(c) BY <3>1 DEF Start, EnterChain
    <3>2. CASE Proceed(c)
      BY <3>2 DEF Proceed, AcquireProvider, Answered, Retry, GlobalTimeout,
                  ProviderTimeout, PassOver, Exhaust, EnterChain
    <3> QED BY <2>1, <3>1, <3>2
  <2>3. d = c BY <2>0, <2>2
  <2>4. Proceed(c) BY <2>1, <2>3 DEF Start
  <2> QED BY <2>3, <2>4, Advances
<1>2. Spec => [][Advancing]_vars BY <1>1, TypeCorrect, PTL DEF Spec
<1> QED BY <1>2 DEF CallsAdvance
=============================================================================
