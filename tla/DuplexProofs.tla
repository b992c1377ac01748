---------------------------- MODULE DuplexProofs ----------------------------
(* Theorems of Duplex, for any synthesis, frame size and buffer.            *)
EXTENDS Duplex, FiniteSetTheorems, FunctionTheorems, SequenceTheorems, WellFoundedInduction,
        TLAPS

\* The goroutines' places and Stop's are what the proofs below need of the types.
PlacesTyped ==
    /\ stopPc \in StopPc /\ stopErr \in BOOLEAN
    /\ bridge \in [Leg -> BridgePc] /\ feed \in [Leg -> FeedPc] /\ run \in [Leg -> RunPc]

\* Every step keeps the places of the goroutines and of Stop among those they have.
LEMMA PlacesKept == PlacesTyped /\ [Next]_vars => PlacesTyped'
<1> SUFFICES ASSUME PlacesTyped, [Next]_vars PROVE PlacesTyped'
  OBVIOUS
<1> USE DEF PlacesTyped, StopPc, BridgePc, FeedPc, RunPc
<1>1. CASE Start
  BY <1>1 DEF Start, Launch
<1>2. CASE Stop
  BY <1>2 DEF Stop, StopFlags, StopLeg, StopCancels, StopReturns, bridgeVars, feedVars, runVars
<1>3. ASSUME NEW l \in Leg, LegDelivers(l) \/ Bridge(l) PROVE PlacesTyped'
  BY <1>3 DEF LegDelivers, Bridge, BridgeTakes, BridgePushed, BridgeEnds, lifeVars, feedVars,
     runVars
<1>4. ASSUME NEW l \in Leg, NEW n \in ChunkSizes, NEW final \in BOOLEAN, FeedTakes(l, n, final)
      PROVE  PlacesTyped'
  <2>1. PICK cut, rest : Received(l, n, final, cut, rest)
    BY <1>4 DEF FeedTakes
  <2> QED BY <2>1 DEF Received, lifeVars, bridgeVars, runVars
<1>5. ASSUME NEW l \in Leg, FeedSeesClose(l) \/ Feed(l) PROVE PlacesTyped'
  BY <1>5 DEF FeedSeesClose, Feed, FeedPushes, FeedCounts, FeedEnds, lifeVars, bridgeVars, runVars
<1>6. ASSUME NEW l \in Leg, Run(l) PROVE PlacesTyped'
  BY <1>6 DEF Run, RunPulls, Resolves, RunEnds, lifeVars, bridgeVars, feedVars
<1>7. CASE UNCHANGED vars
  BY <1>7 DEF vars, lifeVars, bridgeVars, feedVars, runVars
<1> QED BY <1>1, <1>2, <1>3, <1>4, <1>5, <1>6, <1>7 DEF Next

\* A goroutine that is not alive stays so, but for Start, which Stop forecloses.
LEMMA NobodyRevives ==
  ASSUME PlacesTyped, [Next]_vars, NEW l \in Leg, ~Alive(l), stopPc # "none"
  PROVE  ~Alive(l)'
<1> USE DEF PlacesTyped, Alive, BridgePc, FeedPc, RunPc
<1>1. CASE Start
  BY <1>1 DEF Start
<1>2. CASE Stop
  BY <1>2 DEF Stop, StopFlags, StopLeg, StopCancels, StopReturns, bridgeVars, feedVars, runVars
<1>3. ASSUME NEW m \in Leg, LegDelivers(m) \/ Bridge(m) PROVE ~Alive(l)'
  BY <1>3 DEF LegDelivers, Bridge, BridgeTakes, BridgePushed, BridgeEnds, lifeVars, feedVars,
     runVars
<1>4. ASSUME NEW m \in Leg, NEW n \in ChunkSizes, NEW final \in BOOLEAN, FeedTakes(m, n, final)
      PROVE  ~Alive(l)'
  <2>1. PICK cut, rest : Received(m, n, final, cut, rest)
    BY <1>4 DEF FeedTakes
  <2> QED BY <2>1 DEF Received, lifeVars, bridgeVars, runVars
<1>5. ASSUME NEW m \in Leg, FeedSeesClose(m) \/ Feed(m) PROVE ~Alive(l)'
  BY <1>5 DEF FeedSeesClose, Feed, FeedPushes, FeedCounts, FeedEnds, lifeVars, bridgeVars, runVars
<1>6. ASSUME NEW m \in Leg, Run(m) PROVE ~Alive(l)'
  BY <1>6 DEF Run, RunPulls, Resolves, RunEnds, lifeVars, bridgeVars, feedVars
<1>7. CASE UNCHANGED vars
  BY <1>7 DEF vars, lifeVars, bridgeVars, feedVars, runVars
<1> QED BY <1>1, <1>2, <1>3, <1>4, <1>5, <1>6, <1>7 DEF Next

\* Stop (duplex.go, stopLocked) returns without an error only when the six
\* goroutines are gone, and no Start that races it begins any afterwards.
THEOREM StopIsFinal == Spec => []StopLeavesNothing
<1>1. Init => PlacesTyped /\ StopLeavesNothing
  <2> SUFFICES ASSUME Init PROVE PlacesTyped /\ StopLeavesNothing
    OBVIOUS
  <2>1. stopPc = "none" /\ stopErr = FALSE
    BY DEF Init
  <2>2. /\ bridge = [l \in Leg |-> "off"] /\ feed = [l \in Leg |-> "off"]
        /\ run = [l \in Leg |-> "off"]
    BY DEF Init
  <2>3. PlacesTyped
    BY <2>1, <2>2 DEF PlacesTyped, StopPc, BridgePc, FeedPc, RunPc
  <2>4. StopLeavesNothing
    BY <2>1 DEF StopLeavesNothing
  <2> QED BY <2>3, <2>4
<1>2. PlacesTyped /\ StopLeavesNothing /\ [Next]_vars => StopLeavesNothing'
  <2> SUFFICES ASSUME PlacesTyped, StopLeavesNothing, [Next]_vars,
                      stopPc' = "returned", ~stopErr', NEW l \in Leg
               PROVE  ~Alive(l)'
    BY DEF StopLeavesNothing, Alive
  <2>1. CASE stopPc = "returned" /\ ~stopErr
    BY <2>1, NobodyRevives DEF StopLeavesNothing
  <2>2. CASE ~(stopPc = "returned" /\ ~stopErr)
    <3>1. StopReturns
      BY <2>2 DEF Next, Start, Launch, Stop, StopFlags, StopLeg, StopCancels, StopReturns,
         LegDelivers, Bridge, BridgeTakes, BridgePushed, BridgeEnds, FeedTakes, Received,
         FeedSeesClose, Feed, FeedPushes, FeedCounts, FeedEnds, Run, RunPulls, Resolves, RunEnds,
         lifeVars, vars
    <3>2. ~Alive(l) /\ stopPc # "none"
      BY <3>1 DEF StopReturns
    <3> QED BY <3>2, NobodyRevives
  <2> QED BY <2>1, <2>2
<1> QED BY <1>1, <1>2, PlacesKept, PTL DEF Spec

-----------------------------------------------------------------------------
(* The pacing buffer.                                                       *)

\* The values a leg's jitter buffer takes.
Buffers == [initialized : BOOLEAN, nextSeq : SeqNum,
            buffered : UNION {[D -> Payload] : D \in SUBSET SeqNum}]

\* A set of numbers that is not empty has a least one.
LEMMA LeastNumber ==
  ASSUME NEW T, T \subseteq Nat, T # {}
  PROVE  \E x \in T : \A y \in T : x <= y
<1>1. PICK x \in T : \A y \in T : ~ (<<y, x>> \in OpToRel(<, Nat))
  BY NatLessThanWellFounded, WFMin
<1>2. \A y \in T : ~ (y < x)
  BY <1>1 DEF OpToRel
<1> QED BY <1>2

\* SeqDelta (jitter.go, int16(a - b)) is the difference of two sequence numbers, but
\* for whole turns, and less than half a turn.
LEMMA Circle ==
  ASSUME NEW a \in SeqNum, NEW b \in SeqNum
  PROVE  /\ SeqDelta(a, b) \in -HalfRange .. (HalfRange - 1)
         /\ \/ SeqDelta(a, b) = a - b
            \/ SeqDelta(a, b) = a - b + 2 * HalfRange
            \/ SeqDelta(a, b) = a - b - 2 * HalfRange
<1>0. HalfRange \in Nat \ {0}
  BY HalfRangeAssumption
<1>1. CASE a >= b
  <2>1. (a - b) % (2 * HalfRange) = a - b
    BY <1>0, <1>1 DEF SeqNum
  <2> QED BY <1>0, <1>1, <2>1 DEF SeqNum, SeqDelta
<1>2. CASE a < b
  <2>1. (a - b) % (2 * HalfRange) = a - b + 2 * HalfRange
    BY <1>0, <1>2 DEF SeqNum
  <2> QED BY <1>0, <1>2, <2>1 DEF SeqNum, SeqDelta
<1> QED BY <1>1, <1>2 DEF SeqNum

\* The next sequence number is one more, or a turn less.
LEMMA After ==
  ASSUME NEW a \in SeqNum
  PROVE  /\ SeqAfter(a) \in SeqNum
         /\ SeqAfter(a) = a + 1 \/ SeqAfter(a) = a + 1 - 2 * HalfRange
<1>0. HalfRange \in Nat \ {0}
  BY HalfRangeAssumption
<1>1. CASE a + 1 < 2 * HalfRange
  BY <1>0, <1>1 DEF SeqNum, SeqAfter
<1>2. CASE a + 1 = 2 * HalfRange
  BY <1>0, <1>2 DEF SeqNum, SeqAfter
<1> QED BY <1>0, <1>1, <1>2 DEF SeqNum

\* When the ticker moves on, a sequence number that was still to come is one nearer.
LEMMA Nearer ==
  ASSUME NEW s \in SeqNum, NEW n \in SeqNum, SeqDelta(s, n) >= 0, s # n
  PROVE  SeqDelta(s, SeqAfter(n)) = SeqDelta(s, n) - 1
<1>0. HalfRange \in Nat \ {0}
  BY HalfRangeAssumption
<1>1. SeqAfter(n) \in SeqNum
  BY After
<1>2. SeqAfter(n) = n + 1 \/ SeqAfter(n) = n + 1 - 2 * HalfRange
  BY After
<1>3. /\ SeqDelta(s, n) \in -HalfRange .. (HalfRange - 1)
      /\ \/ SeqDelta(s, n) = s - n
         \/ SeqDelta(s, n) = s - n + 2 * HalfRange
         \/ SeqDelta(s, n) = s - n - 2 * HalfRange
  BY Circle
<1> DEFINE m == SeqAfter(n)
<1>4. /\ SeqDelta(s, m) \in -HalfRange .. (HalfRange - 1)
      /\ \/ SeqDelta(s, m) = s - m
         \/ SeqDelta(s, m) = s - m + 2 * HalfRange
         \/ SeqDelta(s, m) = s - m - 2 * HalfRange
  BY <1>1, Circle
<1> QED BY <1>0, <1>1, <1>2, <1>3, <1>4 DEF SeqNum

\* There are finitely many sequence numbers, so what is on hand can be counted.
LEMMA SeqNumIsFinite == IsFiniteSet(SeqNum)
BY FS_Interval, HalfRangeAssumption DEF SeqNum

\* What is on hand is finite, and the most distant of it exists.
LEMMA FurthestIsOnHand ==
  ASSUME NEW b \in Buffers, DOMAIN b.buffered # {}
  PROVE  /\ Furthest(b) \in DOMAIN b.buffered
         /\ \A t \in DOMAIN b.buffered : SeqDelta(t, b.nextSeq) <= SeqDelta(Furthest(b), b.nextSeq)
<1>1. DOMAIN b.buffered \subseteq SeqNum /\ b.nextSeq \in SeqNum /\ HalfRange \in Nat
  BY HalfRangeAssumption DEF Buffers
<1>2. \A t \in DOMAIN b.buffered : SeqDelta(t, b.nextSeq) \in -HalfRange .. (HalfRange - 1)
  BY <1>1, Circle
<1> DEFINE T == {HalfRange - SeqDelta(t, b.nextSeq) : t \in DOMAIN b.buffered}
<1>3. T \subseteq Nat /\ T # {}
  BY <1>1, <1>2
<1> HIDE DEF T
<1>4. PICK x \in T : \A y \in T : x <= y
  BY <1>3, LeastNumber
<1>5. \E s \in DOMAIN b.buffered : x = HalfRange - SeqDelta(s, b.nextSeq)
  BY <1>4 DEF T
<1>6. PICK s \in DOMAIN b.buffered : x = HalfRange - SeqDelta(s, b.nextSeq)
  BY <1>5
<1>7. \A t \in DOMAIN b.buffered : SeqDelta(t, b.nextSeq) <= SeqDelta(s, b.nextSeq)
  <2> SUFFICES ASSUME NEW t \in DOMAIN b.buffered
               PROVE  SeqDelta(t, b.nextSeq) <= SeqDelta(s, b.nextSeq)
    OBVIOUS
  <2>1. HalfRange - SeqDelta(t, b.nextSeq) \in T
    BY DEF T
  <2> QED BY <1>1, <1>2, <1>4, <1>6, <2>1
<1> QED BY <1>7 DEF Furthest

\* A payload pushed further than all on hand evicts nothing.
LEMMA PushInOrder ==
  ASSUME NEW b \in Buffers, NEW s \in SeqNum, NEW p \in Payload,
         Cardinality(DOMAIN b.buffered) <= Capacity,
         ~b.initialized => s = b.nextSeq /\ DOMAIN b.buffered = {},
         SeqDelta(s, b.nextSeq) >= 0 =>
           \A t \in DOMAIN b.buffered : SeqDelta(t, b.nextSeq) < SeqDelta(s, b.nextSeq)
  PROVE  /\ Push(b, s, p) \in Buffers
         /\ Push(b, s, p).initialized /\ Push(b, s, p).nextSeq = b.nextSeq
         /\ Cardinality(DOMAIN Push(b, s, p).buffered) <= Capacity
         /\ PushStatus(b, s) # "accepted" => Push(b, s, p).buffered = b.buffered
         /\ PushStatus(b, s) = "accepted" =>
              /\ SeqDelta(s, b.nextSeq) >= 0 /\ s \notin DOMAIN b.buffered
              /\ Push(b, s, p).buffered =
                   [t \in DOMAIN b.buffered \cup {s} |-> IF t = s THEN p ELSE b.buffered[t]]
<1> DEFINE q == Primed(b, s)
<1>1. q = [b EXCEPT !.initialized = TRUE]
  BY DEF Primed, Buffers
<1>2. /\ q \in Buffers /\ q.nextSeq = b.nextSeq /\ q.buffered = b.buffered /\ q.initialized
  BY <1>1 DEF Buffers
<1> HIDE DEF q
<1>3. IsFiniteSet(DOMAIN b.buffered) /\ DOMAIN b.buffered \subseteq SeqNum
  BY SeqNumIsFinite, FS_Subset DEF Buffers
<1>4. Cardinality(DOMAIN b.buffered) \in Nat /\ Capacity \in Nat \ {0}
  BY <1>3, FS_CardinalityType, CapacityAssumption
<1>5. SeqDelta(s, b.nextSeq) \in Int
  BY Circle DEF Buffers
<1>6. CASE PushStatus(b, s) # "accepted"
  <2>1. Push(b, s, p) = q
    BY <1>6 DEF Push, q
  <2> QED BY <1>2, <1>6, <2>1
<1>7. CASE PushStatus(b, s) = "accepted"
  <2>1. SeqDelta(s, b.nextSeq) >= 0 /\ s \notin DOMAIN b.buffered
    BY <1>2, <1>5, <1>7 DEF PushStatus, q
  <2>2. ~IsFull(q)
    <3> SUFFICES ASSUME IsFull(q) PROVE FALSE
      OBVIOUS
    <3>1. DOMAIN q.buffered # {}
      BY <1>2, <1>4, FS_EmptySet DEF IsFull
    <3>2. Furthest(q) \in DOMAIN q.buffered
      BY <1>2, <3>1, FurthestIsOnHand
    <3>3. SeqDelta(Furthest(q), q.nextSeq) < SeqDelta(s, b.nextSeq)
      BY <1>2, <2>1, <3>2
    <3>4. SeqDelta(Furthest(q), q.nextSeq) \in Int
      BY <1>2, <3>2, Circle DEF Buffers
    <3> QED BY <1>2, <1>5, <1>7, <2>1, <3>3, <3>4 DEF PushStatus, q
  <2>3. Push(b, s, p) = [q EXCEPT !.buffered =
           [t \in DOMAIN q.buffered \cup {s} |-> IF t = s THEN p ELSE q.buffered[t]]]
    BY <1>7, <2>2 DEF Push, q
  <2> DEFINE f == [t \in DOMAIN b.buffered \cup {s} |-> IF t = s THEN p ELSE b.buffered[t]]
  <2>4. Push(b, s, p) = [q EXCEPT !.buffered = f]
    BY <1>2, <2>3
  <2>5. f \in UNION {[D -> Payload] : D \in SUBSET SeqNum}
    <3>1. f \in [DOMAIN b.buffered \cup {s} -> Payload]
      BY <1>3 DEF Buffers
    <3> QED BY <1>3, <3>1
  <2>6. Cardinality(DOMAIN f) <= Capacity
    <3>1. Cardinality(DOMAIN b.buffered) < Capacity
      BY <1>2, <1>4, <2>2 DEF IsFull
    <3>2. Cardinality(DOMAIN b.buffered \cup {s}) = Cardinality(DOMAIN b.buffered) + 1
      BY <1>3, <2>1, FS_AddElement
    <3> QED BY <1>4, <3>1, <3>2
  <2> HIDE DEF f
  <2>7. /\ Push(b, s, p) \in Buffers /\ Push(b, s, p).initialized
        /\ Push(b, s, p).nextSeq = b.nextSeq /\ Push(b, s, p).buffered = f
    BY <1>2, <2>4, <2>5 DEF Buffers
  <2> QED BY <1>7, <2>1, <2>6, <2>7 DEF f
<1> QED BY <1>6, <1>7

\* A payload the ticker takes, or gives up, leaves what is on hand as it is and one
\* sequence number nearer.
LEMMA PullKeeps ==
  ASSUME NEW b \in Buffers, Cardinality(DOMAIN b.buffered) <= Capacity, NEW overdue \in BOOLEAN
  PROVE  /\ Pull(b, overdue) \in Buffers
         /\ Cardinality(DOMAIN Pull(b, overdue).buffered) <= Capacity
         /\ PullStatus(b, overdue) \in {"ok", "lost"} =>
              /\ Pull(b, overdue).initialized = b.initialized
              /\ Pull(b, overdue).nextSeq = SeqAfter(b.nextSeq)
              /\ DOMAIN Pull(b, overdue).buffered = DOMAIN b.buffered \ {b.nextSeq}
              /\ \A s \in DOMAIN b.buffered \ {b.nextSeq} :
                    Pull(b, overdue).buffered[s] = b.buffered[s]
<1>1. CASE PullStatus(b, overdue) \notin {"ok", "lost"}
  BY <1>1 DEF Pull
<1>2. CASE PullStatus(b, overdue) \in {"ok", "lost"}
  <2> DEFINE D == DOMAIN b.buffered \ {b.nextSeq}
             f == [s \in D |-> b.buffered[s]]
  <2>1. Pull(b, overdue) = [b EXCEPT !.nextSeq = SeqAfter(b.nextSeq), !.buffered = f]
    BY <1>2 DEF Pull, Restrict, Buffers
  <2>2. SeqAfter(b.nextSeq) \in SeqNum
    BY After DEF Buffers
  <2>3. f \in [D -> Payload] /\ D \in SUBSET SeqNum
    BY DEF Buffers
  <2>4. Cardinality(D) <= Capacity
    <3>1. IsFiniteSet(DOMAIN b.buffered)
      BY SeqNumIsFinite, FS_Subset DEF Buffers
    <3>2. Cardinality(D) <= Cardinality(DOMAIN b.buffered) /\ Cardinality(D) \in Nat
          /\ Cardinality(DOMAIN b.buffered) \in Nat
      BY <3>1, FS_Subset, FS_CardinalityType
    <3> QED BY <3>2, CapacityAssumption
  <2>5. DOMAIN f = D /\ \A s \in D : f[s] = b.buffered[s]
    OBVIOUS
  <2> HIDE DEF f, D
  <2>6. /\ Pull(b, overdue) \in Buffers /\ Pull(b, overdue).initialized = b.initialized
        /\ Pull(b, overdue).nextSeq = SeqAfter(b.nextSeq) /\ Pull(b, overdue).buffered = f
    BY <2>1, <2>2, <2>3 DEF Buffers
  <2> QED BY <2>4, <2>5, <2>6 DEF D
<1> QED BY <1>1, <1>2

-----------------------------------------------------------------------------
(* The buffer without wrapping: packets are numbered by integers, and the   *)
(* distance of two packets is the difference of their numbers.              *)

LongBuffers == [initialized : BOOLEAN, nextSeq : Int,
                buffered : UNION {[D -> Payload] : D \in SUBSET Int}]

LongPrimed(b, n) == IF b.initialized THEN b ELSE [b EXCEPT !.initialized = TRUE, !.nextSeq = n]
LongFurthest(b) == CHOOSE n \in DOMAIN b.buffered : \A m \in DOMAIN b.buffered : m <= n

LongPushStatus(b, n) ==
    LET p == LongPrimed(b, n)
    IN  CASE n < p.nextSeq -> "late"
          [] n >= p.nextSeq /\ n \in DOMAIN p.buffered -> "duplicate"
          [] /\ n >= p.nextSeq /\ n \notin DOMAIN p.buffered /\ IsFull(p)
             /\ LongFurthest(p) <= n -> "evicted"
          [] OTHER -> "accepted"

LongPush(b, n, payload) ==
    LET p    == LongPrimed(b, n)
        kept == IF IsFull(p) THEN DOMAIN p.buffered \ {LongFurthest(p)} ELSE DOMAIN p.buffered
    IN  IF LongPushStatus(b, n) # "accepted" THEN p
        ELSE [p EXCEPT !.buffered =
                 [m \in kept \cup {n} |-> IF m = n THEN payload ELSE @[m]]]

LongPullStatus(b, overdue) ==
    CASE ~b.initialized -> "empty"
      [] b.initialized /\ b.nextSeq \in DOMAIN b.buffered -> "ok"
      [] b.initialized /\ b.nextSeq \notin DOMAIN b.buffered /\ overdue -> "lost"
      [] OTHER -> "waiting"

LongPull(b, overdue) ==
    IF LongPullStatus(b, overdue) \notin {"ok", "lost"} THEN b
    ELSE [b EXCEPT !.nextSeq = @ + 1, !.buffered = Restrict(@, DOMAIN @ \ {b.nextSeq})]

\* b holds the packets of long under their numbers modulo a turn, and they are less than
\* half a turn ahead.
Wrapped(n) == n % (2 * HalfRange)
Wraps(b, long) ==
    /\ b.initialized = long.initialized /\ b.nextSeq = Wrapped(long.nextSeq)
    /\ DOMAIN b.buffered = {Wrapped(n) : n \in DOMAIN long.buffered}
    /\ \A n \in DOMAIN long.buffered :
          /\ b.buffered[Wrapped(n)] = long.buffered[n]
          /\ long.nextSeq <= n /\ n < long.nextSeq + HalfRange
    /\ ~long.initialized => DOMAIN long.buffered = {}

\* A whole number of turns that is less than one turn is none.
LEMMA NoTurn ==
  ASSUME NEW R \in Nat \ {0}, NEW z \in Int, -R < R * z, R * z < R
  PROVE  z = 0
<1>1. CASE z >= 1
  <2>1. PICK k \in Nat : z = k + 1
    <3>1. z - 1 \in Nat /\ z = (z - 1) + 1
      BY <1>1
    <3> QED BY <3>1
  <2>2. R * z = R * k + R /\ R * k \in Nat
    BY <2>1
  <2> QED BY <2>2
<1>2. CASE z <= -1
  <2>1. PICK k \in Nat : z = -(k + 1)
    <3>1. -z - 1 \in Nat /\ z = -((-z - 1) + 1)
      BY <1>2
    <3> QED BY <3>1
  <2>2. R * z = -(R * k + R) /\ R * k \in Nat
    BY <2>1
  <2> QED BY <2>2
<1> QED BY <1>1, <1>2

LEMMA WrappedIs ==
  ASSUME NEW n \in Int
  PROVE  Wrapped(n) \in SeqNum /\ \E q \in Int : n = (2 * HalfRange) * q + Wrapped(n)
<1>1. PICK R \in Nat \ {0} : R = 2 * HalfRange
  <2>1. 2 * HalfRange \in Nat \ {0}
    BY HalfRangeAssumption
  <2> QED BY <2>1
<1>2. n % R \in 0 .. R - 1 /\ n \div R \in Int /\ n = R * (n \div R) + (n % R)
  BY <1>1
<1> QED BY <1>1, <1>2 DEF Wrapped, SeqNum

\* SeqDelta is right while two packets are less than half a turn apart (jitter.go's comment
\* on seqDelta).
LEMMA DeltaIsDifference ==
  ASSUME NEW n \in Int, NEW m \in Int, -HalfRange <= n - m, n - m < HalfRange
  PROVE  SeqDelta(Wrapped(n), Wrapped(m)) = n - m
<1> DEFINE a == Wrapped(n)
           c == Wrapped(m)
           d == SeqDelta(a, c)
<1>1. PICK R \in Nat \ {0} : R = 2 * HalfRange
  <2>1. 2 * HalfRange \in Nat \ {0}
    BY HalfRangeAssumption
  <2> QED BY <2>1
<1>2. HalfRange \in Nat \ {0}
  BY HalfRangeAssumption
<1>3. a \in SeqNum /\ c \in SeqNum /\ a \in Int /\ c \in Int
  BY <1>2, WrappedIs DEF SeqNum
<1>4. PICK q \in Int : n = R * q + a
  BY <1>1, WrappedIs
<1>5. PICK r \in Int : m = R * r + c
  BY <1>1, WrappedIs
<1>6. d \in -HalfRange .. (HalfRange - 1) /\ \E k \in {-1, 0, 1} : d = a - c + R * k
  <2>1. /\ d \in -HalfRange .. (HalfRange - 1)
        /\ d = a - c \/ d = a - c + R \/ d = a - c - R
    BY <1>1, <1>3, Circle
  <2>2. R * 0 = 0 /\ R * 1 = R /\ R * (-1) = -R
    BY <1>1
  <2> HIDE DEF d, a, c
  <2> QED BY <1>3, <2>1, <2>2
<1>7. PICK k \in {-1, 0, 1} : d = a - c + R * k
  BY <1>6
<1> HIDE DEF a, c, d
<1>8. k \in Int /\ q - r - k \in Int
  OBVIOUS
<1>9. n - m - d = R * (q - r - k)
  <2>1. R * (q - r - k) = R * q - R * r - R * k
    BY <1>1, <1>8
  <2>2. R * q \in Int /\ R * r \in Int /\ R * k \in Int
    BY <1>1, <1>8
  <2> QED BY <1>3, <1>4, <1>5, <1>7, <2>1, <2>2
<1>10. -R < n - m - d /\ n - m - d < R /\ d \in Int
  BY <1>1, <1>2, <1>6
<1>11. q - r - k = 0
  BY <1>8, <1>9, <1>10, NoTurn
<1>12. R * (q - r - k) = 0
  BY <1>1, <1>11
<1>13. n - m - d = 0
  BY <1>9, <1>12
<1>14. d = n - m
  BY <1>10, <1>13
<1> QED BY <1>14 DEF d, a, c

\* Inside the half turns around nextSeq a number modulo a turn says which packet it is.
LEMMA SameNumber ==
  ASSUME NEW b \in Buffers, NEW long \in LongBuffers, Wraps(b, long),
         NEW n \in Int, -HalfRange <= n - long.nextSeq, n - long.nextSeq < HalfRange
  PROVE  /\ SeqDelta(Wrapped(n), b.nextSeq) = n - long.nextSeq
         /\ Wrapped(n) \in DOMAIN b.buffered <=> n \in DOMAIN long.buffered
         /\ \A m \in DOMAIN long.buffered : Wrapped(m) = Wrapped(n) => m = n
<1>0. HalfRange \in Nat \ {0} /\ long.nextSeq \in Int /\ DOMAIN long.buffered \subseteq Int
  BY HalfRangeAssumption DEF LongBuffers
<1>1. b.nextSeq = Wrapped(long.nextSeq)
  BY DEF Wraps
<1>2. SeqDelta(Wrapped(n), b.nextSeq) = n - long.nextSeq
  BY <1>0, <1>1, DeltaIsDifference
<1>3. ASSUME NEW m \in DOMAIN long.buffered, Wrapped(m) = Wrapped(n)
      PROVE  m = n
  <2>1. m \in Int /\ long.nextSeq <= m /\ m < long.nextSeq + HalfRange
    BY <1>0 DEF Wraps
  <2>2. SeqDelta(Wrapped(m), b.nextSeq) = m - long.nextSeq
    <3>1. -HalfRange <= m - long.nextSeq /\ m - long.nextSeq < HalfRange
      BY <1>0, <2>1
    <3> QED BY <1>0, <1>1, <2>1, <3>1, DeltaIsDifference
  <2>3. m - long.nextSeq = n - long.nextSeq
    BY <1>2, <1>3, <2>2
  <2> QED BY <1>0, <2>1, <2>3
<1>4. DOMAIN b.buffered = {Wrapped(m) : m \in DOMAIN long.buffered}
  BY DEF Wraps
<1> QED BY <1>2, <1>3, <1>4

\* The two buffers hold equally many packets, and the same one is the furthest.
LEMMA SameFurthest ==
  ASSUME NEW b \in Buffers, NEW long \in LongBuffers, Wraps(b, long)
  PROVE  /\ IsFull(b) = IsFull(long)
         /\ DOMAIN long.buffered # {} =>
              /\ LongFurthest(long) \in DOMAIN long.buffered
              /\ Furthest(b) = Wrapped(LongFurthest(long))
<1> DEFINE S == DOMAIN long.buffered
           T == DOMAIN b.buffered
<1>1. /\ HalfRange \in Nat \ {0} /\ long.nextSeq \in Int /\ S \subseteq Int
      /\ T = {Wrapped(n) : n \in S}
  BY HalfRangeAssumption DEF LongBuffers, Wraps
<1>2. \A n \in S : n \in Int /\ long.nextSeq <= n /\ n < long.nextSeq + HalfRange
  BY <1>1 DEF Wraps
<1>3. \A n \in S : /\ SeqDelta(Wrapped(n), b.nextSeq) = n - long.nextSeq
                   /\ \A m \in S : Wrapped(m) = Wrapped(n) => m = n
  <2> SUFFICES ASSUME NEW n \in S
               PROVE  /\ SeqDelta(Wrapped(n), b.nextSeq) = n - long.nextSeq
                      /\ \A m \in S : Wrapped(m) = Wrapped(n) => m = n
    OBVIOUS
  <2>1. n \in Int /\ -HalfRange <= n - long.nextSeq /\ n - long.nextSeq < HalfRange
    BY <1>1, <1>2
  <2> QED BY <2>1, SameNumber
<1>4. IsFull(b) = IsFull(long)
  <2>1. S \subseteq long.nextSeq .. (long.nextSeq + HalfRange)
    BY <1>1, <1>2
  <2>2. IsFiniteSet(long.nextSeq .. (long.nextSeq + HalfRange))
    BY <1>1, FS_Interval
  <2>3. IsFiniteSet(S)
    BY <2>1, <2>2, FS_Subset
  <2> DEFINE f == [n \in S |-> Wrapped(n)]
  <2>4. f \in Bijection(S, T)
    <3>1. f \in [S -> T]
      BY <1>1
    <3>2. \A n, m \in S : f[n] = f[m] => n = m
      BY <1>3
    <3>3. \A t \in T : \E n \in S : f[n] = t
      BY <1>1
    <3> HIDE DEF f
    <3> QED BY <3>1, <3>2, <3>3 DEF Bijection, Injection, IsInjective, Surjection
  <2>5. Cardinality(S) = Cardinality(T)
    <3> HIDE DEF f, S, T
    <3> QED BY <2>3, <2>4, FS_Bijection DEF ExistsBijection
  <2> QED BY <2>5 DEF IsFull
<1>5. ASSUME S # {}
      PROVE  LongFurthest(long) \in S /\ Furthest(b) = Wrapped(LongFurthest(long))
  <2>1. T # {}
    BY <1>1, <1>5
  <2>2. /\ Furthest(b) \in T
        /\ \A t \in T : SeqDelta(t, b.nextSeq) <= SeqDelta(Furthest(b), b.nextSeq)
    BY <2>1, FurthestIsOnHand
  <2>3. PICK n \in S : Furthest(b) = Wrapped(n)
    BY <1>1, <2>2
  <2>4. \A m \in S : m <= n
    <3> SUFFICES ASSUME NEW m \in S PROVE m <= n
      OBVIOUS
    <3>1. SeqDelta(Wrapped(m), b.nextSeq) <= SeqDelta(Wrapped(n), b.nextSeq)
      BY <1>1, <2>2, <2>3
    <3>2. m - long.nextSeq <= n - long.nextSeq
      BY <1>3, <3>1
    <3> QED BY <1>1, <3>2
  <2>5. LongFurthest(long) \in S /\ \A m \in S : m <= LongFurthest(long)
    BY <2>3, <2>4 DEF LongFurthest
  <2>6. LongFurthest(long) = n
    <3>1. LongFurthest(long) \in Int /\ n \in Int /\ n <= LongFurthest(long)
          /\ LongFurthest(long) <= n
      BY <1>1, <2>4, <2>5
    <3> QED BY <3>1
  <2> QED BY <2>3, <2>5, <2>6
<1> QED BY <1>4, <1>5

\* Setting nextSeq at the first packet is the same in both.
LEMMA PrimedWraps ==
  ASSUME NEW b \in Buffers, NEW long \in LongBuffers, Wraps(b, long), NEW n \in Int
  PROVE  /\ Primed(b, Wrapped(n)) \in Buffers /\ LongPrimed(long, n) \in LongBuffers
         /\ Wraps(Primed(b, Wrapped(n)), LongPrimed(long, n))
<1>1. Wrapped(n) \in SeqNum
  BY WrappedIs
<1>2. b.initialized = long.initialized
  BY DEF Wraps
<1>3. CASE b.initialized
  BY <1>2, <1>3 DEF Primed, LongPrimed
<1>4. CASE ~b.initialized
  <2>1. /\ Primed(b, Wrapped(n)) = [b EXCEPT !.initialized = TRUE, !.nextSeq = Wrapped(n)]
        /\ LongPrimed(long, n) = [long EXCEPT !.initialized = TRUE, !.nextSeq = n]
    BY <1>2, <1>4 DEF Primed, LongPrimed
  <2>2. DOMAIN long.buffered = {}
    BY <1>2, <1>4 DEF Wraps
  <2> QED BY <1>1, <2>1, <2>2 DEF Buffers, LongBuffers, Wraps
<1> QED BY <1>3, <1>4

\* The number after a packet's is the next packet's.
LEMMA AfterIsNext ==
  ASSUME NEW n \in Int
  PROVE  SeqAfter(Wrapped(n)) = Wrapped(n + 1)
<1>1. PICK R \in Nat \ {0} : R = 2 * HalfRange /\ R >= 2
  <2>1. 2 * HalfRange \in Nat \ {0} /\ 2 * HalfRange >= 2
    BY HalfRangeAssumption
  <2> QED BY <2>1
<1> DEFINE a == Wrapped(n)
           c == Wrapped(n + 1)
<1>2. a \in 0 .. R - 1 /\ c \in 0 .. R - 1
  <2>1. n + 1 \in Int /\ SeqNum = 0 .. R - 1
    BY <1>1 DEF SeqNum
  <2>2. a \in SeqNum
    BY WrappedIs
  <2>3. c \in SeqNum
    BY <2>1, WrappedIs
  <2> QED BY <2>1, <2>2, <2>3
<1>3. PICK q \in Int : n = R * q + a
  BY <1>1, WrappedIs
<1>4. PICK r \in Int : n + 1 = R * r + c
  BY <1>1, WrappedIs
<1>5. SeqAfter(a) \in 0 .. R - 1 /\ \E k \in {0, 1} : SeqAfter(a) = a + 1 - R * k
  <2>1. /\ SeqAfter(a) \in SeqNum
        /\ SeqAfter(a) = a + 1 \/ SeqAfter(a) = a + 1 - R
    BY <1>1, WrappedIs, After
  <2>2. R * 0 = 0 /\ R * 1 = R
    BY <1>1
  <2> HIDE DEF a
  <2> QED BY <1>1, <1>2, <2>1, <2>2 DEF SeqNum
<1>6. PICK k \in {0, 1} : SeqAfter(a) = a + 1 - R * k
  BY <1>5
<1> HIDE DEF a, c
<1>7. r - q - k \in Int
  OBVIOUS
<1>8. SeqAfter(a) - c = R * (r - q - k)
  <2>1. R * (r - q - k) = R * r - R * q - R * k
    BY <1>1
  <2>2. R * q \in Int /\ R * r \in Int /\ R * k \in Int
    BY <1>1
  <2> QED BY <1>2, <1>3, <1>4, <1>6, <2>1, <2>2
<1>9. -R < SeqAfter(a) - c /\ SeqAfter(a) - c < R
  BY <1>1, <1>2, <1>5
<1>10. r - q - k = 0
  BY <1>7, <1>8, <1>9, NoTurn
<1>11. R * (r - q - k) = 0
  BY <1>1, <1>10
<1>12. SeqAfter(a) = c
  BY <1>2, <1>5, <1>8, <1>11
<1> QED BY <1>12 DEF a, c

\* An empty buffer is one without wrapping too.
LEMMA EmptyWraps == EmptyBuffer \in Buffers \cap LongBuffers /\ Wraps(EmptyBuffer, EmptyBuffer)
<1>1. EmptyBuffer \in Buffers /\ EmptyBuffer \in LongBuffers
  <2>1. 0 \in SeqNum /\ 0 \in Int /\ {} \in SUBSET SeqNum /\ {} \in SUBSET Int
    BY HalfRangeAssumption DEF SeqNum
  <2>2. [s \in {} |-> s] \in [{} -> Payload]
    OBVIOUS
  <2>3. /\ [s \in {} |-> s] \in UNION {[D -> Payload] : D \in SUBSET SeqNum}
        /\ [s \in {} |-> s] \in UNION {[D -> Payload] : D \in SUBSET Int}
    BY <2>1, <2>2
  <2> QED BY <2>1, <2>3 DEF EmptyBuffer, Buffers, LongBuffers
<1>2. Wrapped(0) = 0
  BY HalfRangeAssumption DEF Wrapped
<1> QED BY <1>1, <1>2 DEF EmptyBuffer, Wraps

\* A packet within half a turn of nextSeq is answered as if numbers did not wrap, and the
\* buffers stay alike: the one that must go to make room is the same (jitter.go's Push and
\* seqDelta, which answer by the signed 16-bit difference).
THEOREM PushIgnoresWrapping ==
  ASSUME NEW b \in Buffers, NEW long \in LongBuffers, Wraps(b, long),
         NEW n \in Int, NEW p \in Payload,
         long.initialized => -HalfRange <= n - long.nextSeq /\ n - long.nextSeq < HalfRange
  PROVE  /\ PushStatus(b, Wrapped(n)) = LongPushStatus(long, n)
         /\ Push(b, Wrapped(n), p) \in Buffers /\ LongPush(long, n, p) \in LongBuffers
         /\ Wraps(Push(b, Wrapped(n), p), LongPush(long, n, p))
<1> DEFINE s == Wrapped(n)
           c == Primed(b, s)
           d == LongPrimed(long, n)
<1>0. HalfRange \in Nat \ {0}
  BY HalfRangeAssumption
<1>1. c \in Buffers /\ d \in LongBuffers /\ Wraps(c, d) /\ d.initialized
  BY PrimedWraps DEF LongPrimed, LongBuffers
<1>2. d.nextSeq \in Int /\ -HalfRange <= n - d.nextSeq /\ n - d.nextSeq < HalfRange
  BY <1>0 DEF LongPrimed, LongBuffers
<1>3. Primed(b, s) = c /\ LongPrimed(long, n) = d
  OBVIOUS
<1> HIDE DEF c, d
<1>4. /\ SeqDelta(s, c.nextSeq) = n - d.nextSeq
      /\ s \in DOMAIN c.buffered <=> n \in DOMAIN d.buffered
      /\ \A m \in DOMAIN d.buffered : Wrapped(m) = s => m = n
  BY <1>1, <1>2, SameNumber
<1>5. IsFull(c) = IsFull(d)
  BY <1>1, SameFurthest
<1>6. ASSUME IsFull(d)
      PROVE  /\ LongFurthest(d) \in DOMAIN d.buffered /\ LongFurthest(d) \in Int
             /\ Furthest(c) = Wrapped(LongFurthest(d))
             /\ SeqDelta(Furthest(c), c.nextSeq) = LongFurthest(d) - d.nextSeq
             /\ \A m \in DOMAIN d.buffered : Wrapped(m) = Furthest(c) => m = LongFurthest(d)
  <2>1. DOMAIN d.buffered # {}
    <3>1. IsFull(d) /\ Capacity \in Nat \ {0}
      BY <1>6, CapacityAssumption
    <3> QED BY <3>1, FS_EmptySet DEF IsFull
  <2>2. LongFurthest(d) \in DOMAIN d.buffered /\ Furthest(c) = Wrapped(LongFurthest(d))
    BY <1>1, <2>1, SameFurthest
  <2>3. /\ LongFurthest(d) \in Int
        /\ -HalfRange <= LongFurthest(d) - d.nextSeq /\ LongFurthest(d) - d.nextSeq < HalfRange
    <3>1. LongFurthest(d) \in Int
      BY <1>1, <2>2 DEF LongBuffers
    <3>2. d.nextSeq <= LongFurthest(d) /\ LongFurthest(d) < d.nextSeq + HalfRange
      BY <1>1, <2>2 DEF Wraps
    <3> QED BY <1>0, <1>2, <3>1, <3>2
  <2> QED BY <1>1, <2>2, <2>3, SameNumber
<1>7. PushStatus(b, s) = LongPushStatus(long, n)
  <2>1. PushStatus(b, s) =
          CASE n - d.nextSeq < 0 -> "late"
            [] n - d.nextSeq >= 0 /\ n \in DOMAIN d.buffered -> "duplicate"
            [] /\ n - d.nextSeq >= 0 /\ n \notin DOMAIN d.buffered /\ IsFull(d)
               /\ SeqDelta(Furthest(c), c.nextSeq) <= n - d.nextSeq -> "evicted"
            [] OTHER -> "accepted"
    BY <1>3, <1>4, <1>5 DEF PushStatus
  <2>2. LongPushStatus(long, n) =
          CASE n < d.nextSeq -> "late"
            [] n >= d.nextSeq /\ n \in DOMAIN d.buffered -> "duplicate"
            [] /\ n >= d.nextSeq /\ n \notin DOMAIN d.buffered /\ IsFull(d)
               /\ LongFurthest(d) <= n -> "evicted"
            [] OTHER -> "accepted"
    BY <1>3 DEF LongPushStatus
  <2>3. /\ n - d.nextSeq < 0 <=> n < d.nextSeq
        /\ n - d.nextSeq >= 0 <=> n >= d.nextSeq
    BY <1>2
  <2>4. IsFull(d) => (SeqDelta(Furthest(c), c.nextSeq) <= n - d.nextSeq <=> LongFurthest(d) <= n)
    BY <1>2, <1>6
  <2> QED BY <1>2, <2>1, <2>2, <2>3, <2>4
<1>8. CASE PushStatus(b, s) # "accepted"
  <2>1. Push(b, s, p) = c /\ LongPush(long, n, p) = d
    BY <1>3, <1>7, <1>8 DEF Push, LongPush
  <2> QED BY <1>1, <1>7, <2>1
<1>9. CASE PushStatus(b, s) = "accepted"
  <2> DEFINE kept == IF IsFull(c) THEN DOMAIN c.buffered \ {Furthest(c)} ELSE DOMAIN c.buffered
             keptLong == IF IsFull(d) THEN DOMAIN d.buffered \ {LongFurthest(d)}
                         ELSE DOMAIN d.buffered
             now == [t \in kept \cup {s} |-> IF t = s THEN p ELSE c.buffered[t]]
             nowLong == [m \in keptLong \cup {n} |-> IF m = n THEN p ELSE d.buffered[m]]
  <2>1. Push(b, s, p) = [c EXCEPT !.buffered = now]
    BY <1>3, <1>9 DEF Push
  <2>2. LongPush(long, n, p) = [d EXCEPT !.buffered = nowLong]
    BY <1>3, <1>7, <1>9 DEF LongPush
  <2>3. n >= d.nextSeq /\ n < d.nextSeq + HalfRange
    <3>1. LongPushStatus(long, n) # "late"
      BY <1>7, <1>9
    <3>2. n >= d.nextSeq
      BY <1>2, <1>3, <3>1 DEF LongPushStatus
    <3> QED BY <1>0, <1>2, <3>2
  <2>4. DOMAIN c.buffered = {Wrapped(m) : m \in DOMAIN d.buffered}
    BY <1>1 DEF Wraps
  <2>5. kept = {Wrapped(m) : m \in keptLong}
    BY <1>5, <1>6, <2>4
  <2>6. keptLong \subseteq DOMAIN d.buffered
    OBVIOUS
  <2> HIDE DEF kept, keptLong
  <2>7. DOMAIN now = {Wrapped(m) : m \in DOMAIN nowLong}
    BY <2>5
  <2>8. ASSUME NEW m \in DOMAIN nowLong
        PROVE  /\ now[Wrapped(m)] = nowLong[m]
               /\ d.nextSeq <= m /\ m < d.nextSeq + HalfRange
    <3>1. CASE m = n
      BY <1>2, <2>3, <3>1
    <3>2. CASE m # n
      <4>1. m \in keptLong /\ m \in DOMAIN d.buffered
        BY <2>6, <3>2
      <4>2. Wrapped(m) # s
        BY <1>4, <3>2, <4>1
      <4>3. Wrapped(m) \in kept
        BY <2>5, <4>1
      <4>4. /\ c.buffered[Wrapped(m)] = d.buffered[m]
            /\ d.nextSeq <= m /\ m < d.nextSeq + HalfRange
        BY <1>1, <4>1 DEF Wraps
      <4> QED BY <3>2, <4>1, <4>2, <4>3, <4>4
    <3> QED BY <3>1, <3>2
  <2>9. c.initialized = d.initialized /\ c.nextSeq = Wrapped(d.nextSeq)
    BY <1>1 DEF Wraps
  <2> HIDE DEF now, nowLong
  <2>10. /\ Push(b, s, p).initialized = c.initialized /\ Push(b, s, p).nextSeq = c.nextSeq
         /\ Push(b, s, p).buffered = now
         /\ LongPush(long, n, p).initialized = d.initialized
         /\ LongPush(long, n, p).nextSeq = d.nextSeq /\ LongPush(long, n, p).buffered = nowLong
    BY <1>1, <2>1, <2>2 DEF Buffers, LongBuffers
  <2>11. Wraps(Push(b, s, p), LongPush(long, n, p))
    BY <1>1, <2>7, <2>8, <2>9, <2>10 DEF Wraps
  <2>12. Push(b, s, p) \in Buffers
    <3>1. now \in UNION {[D -> Payload] : D \in SUBSET SeqNum}
      <4>1. c.buffered \in UNION {[D -> Payload] : D \in SUBSET SeqNum}
        BY <1>1 DEF Buffers
      <4>2. PICK D \in SUBSET SeqNum : c.buffered \in [D -> Payload]
        BY <4>1
      <4>3. kept \subseteq D
        BY <4>2 DEF kept
      <4>4. s \in SeqNum
        BY WrappedIs
      <4>5. now \in [kept \cup {s} -> Payload]
        BY <4>2, <4>3 DEF now
      <4>6. kept \cup {s} \in SUBSET SeqNum
        BY <4>2, <4>3, <4>4
      <4> QED BY <4>5, <4>6
    <3> QED BY <1>1, <2>1, <3>1 DEF Buffers
  <2>13. LongPush(long, n, p) \in LongBuffers
    <3>1. nowLong \in UNION {[D -> Payload] : D \in SUBSET Int}
      <4>1. d.buffered \in UNION {[D -> Payload] : D \in SUBSET Int}
        BY <1>1 DEF LongBuffers
      <4>2. PICK D \in SUBSET Int : d.buffered \in [D -> Payload]
        BY <4>1
      <4>3. keptLong \subseteq D
        BY <2>6, <4>2
      <4>4. nowLong \in [keptLong \cup {n} -> Payload]
        BY <4>2, <4>3 DEF nowLong
      <4>5. keptLong \cup {n} \in SUBSET Int
        BY <4>2, <4>3
      <4> QED BY <4>4, <4>5
    <3> QED BY <1>1, <2>2, <3>1 DEF LongBuffers
  <2> QED BY <1>7, <2>11, <2>12, <2>13
<1> QED BY <1>8, <1>9

\* Pull gives out, declares lost and moves on alike, whether numbers wrap or not
\* (jitter.go's Pull).
THEOREM PullIgnoresWrapping ==
  ASSUME NEW b \in Buffers, NEW long \in LongBuffers, Wraps(b, long), NEW overdue \in BOOLEAN
  PROVE  /\ PullStatus(b, overdue) = LongPullStatus(long, overdue)
         /\ PullStatus(b, overdue) = "ok" =>
              b.buffered[b.nextSeq] = long.buffered[long.nextSeq]
         /\ Pull(b, overdue) \in Buffers /\ LongPull(long, overdue) \in LongBuffers
         /\ Wraps(Pull(b, overdue), LongPull(long, overdue))
<1> DEFINE next == long.nextSeq
<1>0. HalfRange \in Nat \ {0} /\ next \in Int /\ DOMAIN long.buffered \subseteq Int
  BY HalfRangeAssumption DEF LongBuffers
<1>1. /\ b.initialized = long.initialized /\ b.nextSeq = Wrapped(next)
      /\ DOMAIN b.buffered = {Wrapped(n) : n \in DOMAIN long.buffered}
  BY DEF Wraps
<1>2. /\ b.nextSeq \in DOMAIN b.buffered <=> next \in DOMAIN long.buffered
      /\ \A m \in DOMAIN long.buffered : Wrapped(m) = b.nextSeq => m = next
  <2>1. -HalfRange <= next - next /\ next - next < HalfRange
    BY <1>0
  <2> QED BY <1>0, <1>1, <2>1, SameNumber
<1>3. PullStatus(b, overdue) = LongPullStatus(long, overdue)
  BY <1>1, <1>2 DEF PullStatus, LongPullStatus
<1>4. PullStatus(b, overdue) = "ok" => b.buffered[b.nextSeq] = long.buffered[next]
  <2> SUFFICES ASSUME PullStatus(b, overdue) = "ok"
               PROVE  b.buffered[b.nextSeq] = long.buffered[next]
    OBVIOUS
  <2>1. b.nextSeq \in DOMAIN b.buffered
    BY DEF PullStatus
  <2>2. next \in DOMAIN long.buffered
    BY <1>2, <2>1
  <2> QED BY <1>1, <2>2 DEF Wraps
<1>5. CASE PullStatus(b, overdue) \notin {"ok", "lost"}
  <2>1. Pull(b, overdue) = b /\ LongPull(long, overdue) = long
    BY <1>3, <1>5 DEF Pull, LongPull
  <2> QED BY <1>3, <1>4, <2>1
<1>6. CASE PullStatus(b, overdue) \in {"ok", "lost"}
  <2> DEFINE left == DOMAIN b.buffered \ {b.nextSeq}
             leftLong == DOMAIN long.buffered \ {next}
             now == [t \in left |-> b.buffered[t]]
             nowLong == [n \in leftLong |-> long.buffered[n]]
  <2>1. /\ Pull(b, overdue) = [b EXCEPT !.nextSeq = SeqAfter(b.nextSeq), !.buffered = now]
        /\ LongPull(long, overdue) = [long EXCEPT !.nextSeq = next + 1, !.buffered = nowLong]
    BY <1>3, <1>6 DEF Pull, LongPull, Restrict
  <2>2. SeqAfter(b.nextSeq) = Wrapped(next + 1)
    BY <1>0, <1>1, AfterIsNext
  <2>3. left = {Wrapped(n) : n \in leftLong}
    BY <1>1, <1>2
  <2>4. ASSUME NEW n \in leftLong
        PROVE  /\ now[Wrapped(n)] = nowLong[n]
               /\ next + 1 <= n /\ n < next + 1 + HalfRange
    <3>1. n \in Int /\ next <= n /\ n < next + HalfRange /\ n # next
      BY <1>0 DEF Wraps
    <3>2. b.buffered[Wrapped(n)] = long.buffered[n] /\ Wrapped(n) \in left
      BY <2>3 DEF Wraps
    <3> QED BY <1>0, <3>1, <3>2
  <2>5. long.initialized
    BY <1>1, <1>6 DEF PullStatus
  <2> HIDE DEF left, leftLong
  <2>6. DOMAIN now = left /\ DOMAIN nowLong = leftLong
    OBVIOUS
  <2> HIDE DEF now, nowLong
  <2>7. /\ Pull(b, overdue).initialized = b.initialized
        /\ Pull(b, overdue).nextSeq = SeqAfter(b.nextSeq) /\ Pull(b, overdue).buffered = now
        /\ LongPull(long, overdue).initialized = long.initialized
        /\ LongPull(long, overdue).nextSeq = next + 1
        /\ LongPull(long, overdue).buffered = nowLong
    BY <2>1 DEF Buffers, LongBuffers
  <2>8. Wraps(Pull(b, overdue), LongPull(long, overdue))
    BY <1>1, <2>2, <2>3, <2>4, <2>5, <2>6, <2>7 DEF Wraps
  <2>9. Pull(b, overdue) \in Buffers
    <3>1. now \in UNION {[D -> Payload] : D \in SUBSET SeqNum}
      <4>1. b.buffered \in UNION {[D -> Payload] : D \in SUBSET SeqNum}
        BY DEF Buffers
      <4>2. PICK D \in SUBSET SeqNum : b.buffered \in [D -> Payload]
        BY <4>1
      <4>3. now \in [left -> Payload] /\ left \in SUBSET SeqNum
        BY <4>2 DEF now, left
      <4> QED BY <4>3
    <3>2. SeqAfter(b.nextSeq) \in SeqNum
      BY After DEF Buffers
    <3> QED BY <2>1, <3>1, <3>2 DEF Buffers
  <2>10. LongPull(long, overdue) \in LongBuffers
    <3>1. nowLong \in UNION {[D -> Payload] : D \in SUBSET Int}
      <4>1. long.buffered \in UNION {[D -> Payload] : D \in SUBSET Int}
        BY DEF LongBuffers
      <4>2. PICK D \in SUBSET Int : long.buffered \in [D -> Payload]
        BY <4>1
      <4>3. nowLong \in [leftLong -> Payload] /\ leftLong \in SUBSET Int
        BY <4>2 DEF nowLong, leftLong
      <4> QED BY <4>3
    <3>2. long.nextSeq + 1 \in Int
      BY <1>0
    <3> QED BY <2>1, <3>1, <3>2 DEF LongBuffers
  <2> QED BY <1>3, <1>4, <2>8, <2>9, <2>10
<1> QED BY <1>5, <1>6

-----------------------------------------------------------------------------
(* The invariant behind EverySampleOnce and PaddedOnlyAtEnd.                *)

\* The types again, with buf a function: everything TypeOK says of a leg, and more.
LegTyped ==
    /\ carry \in [Leg -> 0..(Frame - 1)] /\ got \in [Leg -> Nat]
    /\ todo \in [Leg -> Seq(Payload)] /\ inClosed \in [Leg -> BOOLEAN]
    /\ feed \in [Leg -> FeedPc]
    /\ seq \in [Leg -> SeqNum] /\ buf \in [Leg -> Buffers]
    /\ pushed \in [Leg -> Nat] /\ consumed \in [Leg -> Nat]
    /\ ends \in [Leg -> SUBSET Nat] /\ dropped \in [Leg -> SUBSET Payload]
    /\ heard \in [Leg -> Seq(Payload)]
    /\ \A l \in Leg : Cardinality(DOMAIN buf[l].buffered) <= Capacity

\* Payloads pushed and not resolved: feedTTSPacer counts one only after its push.
Ahead(l) == pushed[l] + (IF feed[l] = "count" THEN 1 ELSE 0) - consumed[l]
Dist(l, s) == SeqDelta(s, buf[l].nextSeq)

\* The sequence numbers wrap together: the feeder's is as far ahead of the ticker's
\* as there are payloads between them, never half a cycle with one still to push.
InStep(l) ==
    /\ Ahead(l) >= 0
    /\ Ahead(l) + Len(todo[l]) + (IF carry[l] = 0 THEN 0 ELSE 1) <= HalfRange
    /\ \/ seq[l] = buf[l].nextSeq + Ahead(l)
       \/ seq[l] = buf[l].nextSeq + Ahead(l) - 2 * HalfRange
    /\ ~buf[l].initialized => pushed[l] = 0 /\ feed[l] # "count" /\ DOMAIN buf[l].buffered = {}
    /\ ~started => feed[l] = "off"
    /\ feed[l] = "push" => todo[l] # <<>>
    /\ feed[l] \notin {"push", "count"} => todo[l] = <<>>
    /\ \A s \in DOMAIN buf[l].buffered : 0 <= Dist(l, s) /\ Dist(l, s) < Ahead(l)

\* What has been cut ends before what is held back.
Cuts(l) == got[l] - carry[l]
Within(l, p) == 1 <= p.first /\ p.first <= p.last /\ p.last <= Cuts(l)
Precedes(p, q) == p.last < q.first
Apart(p, q) == Precedes(p, q) \/ Precedes(q, p)

\* From the leg back to the feeder, payloads are in the order of their synthesis.
InOrder(l) ==
    /\ carry[l] <= got[l]
    /\ \A i \in DOMAIN heard[l] : Within(l, heard[l][i])
    /\ \A s \in DOMAIN buf[l].buffered : Within(l, buf[l].buffered[s])
    /\ \A i \in DOMAIN todo[l] : Within(l, todo[l][i])
    /\ \A i, j \in DOMAIN heard[l] : i < j => Precedes(heard[l][i], heard[l][j])
    /\ \A i \in DOMAIN heard[l], s \in DOMAIN buf[l].buffered :
          Precedes(heard[l][i], buf[l].buffered[s])
    /\ \A i \in DOMAIN heard[l], j \in DOMAIN todo[l] : Precedes(heard[l][i], todo[l][j])
    /\ \A s, t \in DOMAIN buf[l].buffered :
          Dist(l, s) < Dist(l, t) => Precedes(buf[l].buffered[s], buf[l].buffered[t])
    /\ \A s \in DOMAIN buf[l].buffered, j \in DOMAIN todo[l] :
          Precedes(buf[l].buffered[s], todo[l][j])
    /\ \A i, j \in DOMAIN todo[l] : i < j => Precedes(todo[l][i], todo[l][j])

\* What was turned away is in none of those places, nor there twice.
DroppedApart(l) == \A p \in dropped[l] :
    /\ Within(l, p)
    /\ \A i \in DOMAIN heard[l] : Apart(p, heard[l][i])
    /\ \A s \in DOMAIN buf[l].buffered : Apart(p, buf[l].buffered[s])
    /\ \A i \in DOMAIN todo[l] : Apart(p, todo[l][i])
    /\ \A q \in dropped[l] : p # q => Apart(p, q)

\* No unit is lost on the way.
Has(p, u) == p.first <= u /\ u <= p.last
Covered(l) == \A u \in 1..Cuts(l) :
    \/ \E i \in DOMAIN heard[l] : Has(heard[l][i], u)
    \/ \E s \in DOMAIN buf[l].buffered : Has(buf[l].buffered[s], u)
    \/ \E i \in DOMAIN todo[l] : Has(todo[l][i], u)
    \/ \E p \in dropped[l] : Has(p, u)

\* A payload of whole frames, or at the end of an utterance or of the stream; and no
\* utterance ends inside a payload.
WellCut(l, p) ==
    /\ (p.last - p.first + 1) % Frame # 0 =>
           p.last \in ends[l] \/ (inClosed[l] /\ p.last = got[l])
    /\ \A e \in ends[l] : ~(p.first <= e /\ e < p.last)

AllWellCut(l) ==
    /\ \A i \in DOMAIN heard[l] : WellCut(l, heard[l][i])
    /\ \A s \in DOMAIN buf[l].buffered : WellCut(l, buf[l].buffered[s])
    /\ \A i \in DOMAIN todo[l] : WellCut(l, todo[l][i])
    /\ \A p \in dropped[l] : WellCut(l, p)
    /\ \A e \in ends[l] : e <= Cuts(l)

LegInv(l) == InStep(l) /\ InOrder(l) /\ DroppedApart(l) /\ Covered(l) /\ AllWellCut(l)
SpeechInv == LegTyped /\ \A l \in Leg : LegInv(l)

-----------------------------------------------------------------------------
(* Steps of one leg.                                                        *)

\* All that LegInv reads of a leg.
Speech(l) == <<carry[l], got[l], todo[l], inClosed[l], feed[l], seq[l], buf[l], pushed[l],
               consumed[l], ends[l], dropped[l], heard[l]>>

\* A leg that a step leaves alone.
LEMMA LegAlone ==
  ASSUME NEW l \in Leg, LegInv(l), UNCHANGED Speech(l), UNCHANGED started
  PROVE  LegInv(l)'
<1>1. InStep(l)'
  BY DEF LegInv, Speech, InStep, Ahead, Dist
<1>2. InOrder(l)'
  BY DEF LegInv, Speech, InOrder, Within, Cuts, Precedes, Dist
<1>3. DroppedApart(l)'
  BY DEF LegInv, Speech, DroppedApart, Within, Cuts
<1>4. Covered(l)'
  BY DEF LegInv, Speech, Covered, Cuts
<1>5. AllWellCut(l)'
  BY DEF LegInv, Speech, AllWellCut, WellCut, Cuts
<1> QED BY <1>1, <1>2, <1>3, <1>4, <1>5 DEF LegInv

-----------------------------------------------------------------------------
(* What feedTTSPacer cuts.                                                  *)

\* The payloads of a cut are the units from a to b, each once and in order.
IsCutOf(cut, a, b) ==
    /\ cut \in Seq(Payload) /\ Len(cut) \in 0..2
    /\ \A i \in DOMAIN cut : a <= cut[i].first /\ cut[i].first <= cut[i].last /\ cut[i].last <= b
    /\ \A i, j \in DOMAIN cut : i < j => Precedes(cut[i], cut[j])
    /\ \A u \in a..b : \E i \in DOMAIN cut : Has(cut[i], u)

\* A Cut is one payload, or none when there is nothing to cut.
LEMMA OneCut ==
  ASSUME NEW a \in Nat, NEW b \in Nat
  PROVE  /\ IsCutOf(Cut(a, b), a, b) /\ Len(Cut(a, b)) \in 0..1
         /\ \A i \in DOMAIN Cut(a, b) : Cut(a, b)[i] = [first |-> a, last |-> b]
<1>1. CASE a > b
  BY <1>1 DEF Cut, IsCutOf
<1>2. CASE a <= b
  <2> DEFINE p == [first |-> a, last |-> b]
  <2>1. Cut(a, b) = <<p>> /\ p \in Payload /\ p.first = a /\ p.last = b
    BY <1>2 DEF Cut, Payload
  <2> HIDE DEF p
  <2>2. <<p>> \in Seq(Payload) /\ Len(<<p>>) = 1 /\ DOMAIN <<p>> = {1} /\ <<p>>[1] = p
    BY <2>1
  <2>3. \A u \in a..b : Has(p, u)
    BY <2>1 DEF Has
  <2>4. IsCutOf(<<p>>, a, b)
    BY <1>2, <2>1, <2>2, <2>3 DEF IsCutOf
  <2> QED BY <2>1, <2>2, <2>4 DEF p
<1> QED BY <1>1, <1>2

\* Two cuts in a row are a cut.
LEMMA TwoCuts ==
  ASSUME NEW a \in Nat, NEW b \in Nat, NEW c \in Nat, a <= b + 1, b <= c,
         NEW s, NEW t, IsCutOf(s, a, b), IsCutOf(t, b + 1, c), Len(s) \in 0..1, Len(t) \in 0..1
  PROVE  /\ IsCutOf(s \o t, a, c)
         /\ \A i \in DOMAIN (s \o t) : \/ \E j \in DOMAIN s : (s \o t)[i] = s[j]
                                       \/ \E j \in DOMAIN t : (s \o t)[i] = t[j]
<1>1. s \in Seq(Payload) /\ t \in Seq(Payload) /\ Len(s) \in 0..1 /\ Len(t) \in 0..1
  BY DEF IsCutOf
<1>2. /\ s \o t \in Seq(Payload) /\ Len(s \o t) = Len(s) + Len(t)
      /\ \A i \in 1..(Len(s) + Len(t)) : (s \o t)[i] = IF i <= Len(s) THEN s[i] ELSE t[i - Len(s)]
  BY <1>1
<1>3. DOMAIN s = 1..Len(s) /\ DOMAIN t = 1..Len(t) /\ DOMAIN (s \o t) = 1..(Len(s) + Len(t))
  BY <1>1, <1>2
<1>4. \A i \in DOMAIN (s \o t) : \/ i \in DOMAIN s /\ (s \o t)[i] = s[i]
                                 \/ i - Len(s) \in DOMAIN t /\ (s \o t)[i] = t[i - Len(s)]
  BY <1>1, <1>2, <1>3
<1>5. /\ \A j \in DOMAIN s : j \in DOMAIN (s \o t) /\ (s \o t)[j] = s[j]
      /\ \A j \in DOMAIN t : Len(s) + j \in DOMAIN (s \o t) /\ (s \o t)[Len(s) + j] = t[j]
  BY <1>1, <1>2, <1>3
<1>6. \A i \in DOMAIN s : s[i] \in Payload
  BY <1>1
<1>7. \A i \in DOMAIN t : t[i] \in Payload
  BY <1>1
<1> DEFINE st == s \o t
<1> HIDE DEF st
<1>8. \A i \in DOMAIN st : a <= st[i].first /\ st[i].first <= st[i].last /\ st[i].last <= c
  <2> SUFFICES ASSUME NEW i \in DOMAIN st
               PROVE  a <= st[i].first /\ st[i].first <= st[i].last /\ st[i].last <= c
    OBVIOUS
  <2>1. CASE i \in DOMAIN s /\ st[i] = s[i]
    <3>1. a <= s[i].first /\ s[i].first <= s[i].last /\ s[i].last <= b /\ s[i] \in Payload
      BY <1>6, <2>1 DEF IsCutOf
    <3> QED BY <2>1, <3>1 DEF Payload
  <2>2. CASE i - Len(s) \in DOMAIN t /\ st[i] = t[i - Len(s)]
    <3> DEFINE j == i - Len(s)
    <3>1. j \in DOMAIN t /\ st[i] = t[j]
      BY <2>2
    <3> HIDE DEF j
    <3>2. b + 1 <= t[j].first /\ t[j].first <= t[j].last /\ t[j].last <= c /\ t[j] \in Payload
      BY <1>7, <3>1 DEF IsCutOf
    <3> QED BY <3>1, <3>2 DEF Payload
  <2> QED BY <1>4, <2>1, <2>2 DEF st
<1>9. \A i, j \in DOMAIN st : i < j => Precedes(st[i], st[j])
  <2> SUFFICES ASSUME NEW i \in DOMAIN st, NEW j \in DOMAIN st, i < j
               PROVE  st[i].last < st[j].first
    BY DEF Precedes
  <2>0. DOMAIN st = 1..(Len(s) + Len(t))
    BY <1>3 DEF st
  <2> DEFINE m == Len(s)
             k == Len(t)
  <2>1. i = 1 /\ j = 2 /\ Len(s) = 1 /\ Len(t) = 1
    <3>1. m \in 0..1 /\ k \in 0..1 /\ i \in 1..(m + k) /\ j \in 1..(m + k)
      BY <2>0
    <3> HIDE DEF m, k
    <3>2. i = 1 /\ j = 2 /\ m = 1 /\ k = 1
      BY <3>1
    <3> QED BY <3>2 DEF m, k
  <2>2. st[1] = s[1] /\ st[2] = t[1] /\ 1 \in DOMAIN s /\ 1 \in DOMAIN t
    BY <1>2, <1>3, <2>1 DEF st
  <2>3. s[1].last <= b /\ b + 1 <= t[1].first /\ s[1] \in Payload /\ t[1] \in Payload
    BY <1>6, <1>7, <2>2 DEF IsCutOf
  <2> QED BY <2>1, <2>2, <2>3 DEF Payload
<1>10. \A u \in a..c : \E i \in DOMAIN st : Has(st[i], u)
  <2> SUFFICES ASSUME NEW u \in a..c PROVE \E i \in DOMAIN st : Has(st[i], u)
    OBVIOUS
  <2>1. CASE u <= b
    <3>1. PICK i \in DOMAIN s : Has(s[i], u)
      BY <2>1 DEF IsCutOf
    <3> QED BY <1>5, <3>1 DEF st
  <2>2. CASE u > b
    <3>1. u \in (b + 1)..c
      BY <2>2
    <3>2. PICK i \in DOMAIN t : Has(t[i], u)
      BY <3>1 DEF IsCutOf
    <3> QED BY <1>5, <3>2 DEF st
  <2> QED BY <2>1, <2>2
<1>11. st \in Seq(Payload) /\ Len(st) \in 0..2
  <2> DEFINE m == Len(s)
             k == Len(t)
  <2>1. m \in 0..1 /\ k \in 0..1 /\ Len(st) = m + k
    BY <1>2 DEF st
  <2> HIDE DEF m, k
  <2>2. Len(st) \in 0..2
    BY <2>1
  <2> QED BY <1>2, <2>2 DEF st
<1> QED BY <1>4, <1>8, <1>9, <1>10, <1>11 DEF IsCutOf, st

\* What is left when the remainder is taken off is whole frames.
LEMMA WholeFrames ==
  ASSUME NEW m \in Nat
  PROVE  /\ m % Frame \in 0..(Frame - 1) /\ m % Frame <= m
         /\ (m - (m % Frame)) % Frame = 0
<1>1. Frame \in Nat \ {0}
  BY FrameAssumption
<1> DEFINE q == m \div Frame
<1>2. q \in Nat /\ m = Frame * q + (m % Frame) /\ m % Frame \in 0..(Frame - 1)
  BY <1>1
<1>3. (Frame * q) % Frame = 0
  BY <1>1, <1>2
<1> QED BY <1>1, <1>2, <1>3

\* A chunk is received: what goes is cut from what was held back and the chunk,
\* in whole frames or up to the end of an utterance.
LEMMA ChunkIsCut ==
  ASSUME LegTyped, NEW l \in Leg, carry[l] <= got[l],
         NEW n \in ChunkSizes, NEW final \in BOOLEAN, FeedTakes(l, n, final)
  PROVE  \E cut : \E rest \in 0..(Frame - 1) :
           /\ Received(l, n, final, cut, rest)
           /\ rest <= carry[l] + n /\ (final => rest = 0)
           /\ IsCutOf(cut, Cuts(l) + 1, got[l] + n - rest)
           /\ \A i \in DOMAIN cut :
                (cut[i].last - cut[i].first + 1) % Frame # 0 => final /\ cut[i].last = got[l] + n
<1>1. n \in Nat /\ carry[l] \in Nat /\ got[l] \in Nat /\ Cuts(l) \in Nat /\ Frame \in Nat \ {0}
  BY ChunkAssumption, FrameAssumption DEF LegTyped, Cuts
<1> DEFINE m == carry[l] + n
           r == m % Frame
           A == Aligned(l, n)
           c == Cuts(l)
<1>2. m \in Nat /\ r \in 0..(Frame - 1) /\ r <= m /\ A = m - r /\ A % Frame = 0
  BY <1>1, WholeFrames DEF Aligned
<1>3. got[l] = c + carry[l] /\ got[l] + n = c + m
  BY <1>1 DEF Cuts
<1>4. Whole(l, n) = Cut(c + 1, c + A) /\ Remainder(l, n) = Cut(c + A + 1, c + m)
  BY <1>3 DEF Whole, Remainder, Cuts
<1>41. carry[l] + n - Aligned(l, n) = r /\ carry[l] + n = m
  BY <1>1, <1>2
<1> HIDE DEF m, r, A, c
<1>5. /\ A \in Nat /\ A <= m /\ c \in Nat /\ m \in Nat /\ A + r = m
      /\ {c + 1, c + A, c + A + 1, c + m} \subseteq Nat
  BY <1>1, <1>2 DEF c
<1>6. /\ IsCutOf(Whole(l, n), c + 1, c + A) /\ Len(Whole(l, n)) \in 0..1
      /\ \A i \in DOMAIN Whole(l, n) : Whole(l, n)[i] = [first |-> c + 1, last |-> c + A]
  BY <1>4, <1>5, OneCut
<1>7. /\ IsCutOf(Remainder(l, n), c + A + 1, c + m) /\ Len(Remainder(l, n)) \in 0..1
      /\ \A i \in DOMAIN Remainder(l, n) : Remainder(l, n)[i] = [first |-> c + A + 1, last |-> c + m]
  <2>1. c + A + 1 \in Nat /\ c + m \in Nat
    BY <1>5
  <2> QED BY <1>4, <2>1, OneCut
<1>8. CASE final
  <2> DEFINE cut == Whole(l, n) \o Remainder(l, n)
  <2>1. Received(l, n, final, cut, 0)
    BY <1>8 DEF FeedTakes
  <2>2. IsCutOf(cut, c + 1, c + m)
    BY <1>5, <1>6, <1>7, TwoCuts
  <2>3. \A i \in DOMAIN cut : \/ cut[i] = [first |-> c + 1, last |-> c + A]
                              \/ cut[i] = [first |-> c + A + 1, last |-> c + m]
    BY <1>5, <1>6, <1>7, TwoCuts
  <2> HIDE DEF cut
  <2>4. \A i \in DOMAIN cut :
           (cut[i].last - cut[i].first + 1) % Frame # 0 => cut[i].last = c + m
    <3> SUFFICES ASSUME NEW i \in DOMAIN cut, cut[i] = [first |-> c + 1, last |-> c + A]
                 PROVE  (cut[i].last - cut[i].first + 1) % Frame = 0
      BY <2>3
    <3>1. cut[i].last - cut[i].first + 1 = A
      BY <1>5
    <3> QED BY <1>2, <3>1
  <2>5. 0 \in 0..(Frame - 1) /\ 0 <= carry[l] + n /\ got[l] + n - 0 = c + m
    BY <1>1, <1>3, <1>5
  <2> QED BY <1>3, <1>8, <2>1, <2>2, <2>4, <2>5 DEF c
<1>9. CASE ~final
  <2>1. Received(l, n, final, Whole(l, n), r)
    <3>1. Received(l, n, final, Whole(l, n), carry[l] + n - Aligned(l, n))
      BY <1>9 DEF FeedTakes
    <3>2. carry[l] + n - Aligned(l, n) = r
      BY <1>41
    <3> QED BY <3>1, <3>2
  <2>2. got[l] + n - r = c + A /\ r <= carry[l] + n
    BY <1>1, <1>2, <1>3, <1>5, <1>41
  <2>3. \A i \in DOMAIN Whole(l, n) :
           (Whole(l, n)[i].last - Whole(l, n)[i].first + 1) % Frame = 0
    <3> SUFFICES ASSUME NEW i \in DOMAIN Whole(l, n)
                 PROVE  (Whole(l, n)[i].last - Whole(l, n)[i].first + 1) % Frame = 0
      OBVIOUS
    <3>1. Whole(l, n)[i].last - Whole(l, n)[i].first + 1 = A
      BY <1>5, <1>6
    <3> QED BY <1>2, <3>1
  <2> QED BY <1>2, <1>6, <1>9, <2>1, <2>2, <2>3 DEF c
<1> QED BY <1>8, <1>9

\* feedTTSPacer's next push is the furthest of all: it is never late nor a duplicate,
\* and evicts nothing but itself.
LEMMA PushKeeps ==
  ASSUME LegTyped, NEW l \in Leg, LegInv(l), feed[l] = "push"
  PROVE  LET b == buf[l]
             p == Head(todo[l])
             after == Push(b, seq[l], p)
         IN  /\ after \in Buffers
             /\ after.initialized /\ after.nextSeq = b.nextSeq
             /\ Cardinality(DOMAIN after.buffered) <= Capacity
             /\ PushStatus(b, seq[l]) \in {"accepted", "evicted"}
             /\ PushStatus(b, seq[l]) # "accepted" => after.buffered = b.buffered
             /\ PushStatus(b, seq[l]) = "accepted" =>
                  /\ SeqDelta(seq[l], b.nextSeq) = Ahead(l) /\ seq[l] \notin DOMAIN b.buffered
                  /\ after.buffered = [t \in DOMAIN b.buffered \cup {seq[l]} |->
                                         IF t = seq[l] THEN p ELSE b.buffered[t]]
<1> DEFINE b == buf[l]
           p == Head(todo[l])
<1>1. b \in Buffers /\ seq[l] \in SeqNum /\ Cardinality(DOMAIN b.buffered) <= Capacity
  BY DEF LegTyped
<1>2. todo[l] # <<>> /\ todo[l] \in Seq(Payload) /\ p \in Payload /\ Len(todo[l]) \in Nat \ {0}
  BY DEF LegTyped, LegInv, InStep
<1>3. HalfRange \in Nat \ {0} /\ Ahead(l) \in Nat /\ Ahead(l) = pushed[l] - consumed[l]
  BY HalfRangeAssumption DEF LegInv, InStep, LegTyped, Ahead
<1>4. Ahead(l) + 1 <= HalfRange
  <2>1. Ahead(l) + Len(todo[l]) + (IF carry[l] = 0 THEN 0 ELSE 1) <= HalfRange
    BY DEF LegInv, InStep
  <2> DEFINE k == Len(todo[l])
             one == IF carry[l] = 0 THEN 0 ELSE 1
  <2>2. k \in Nat \ {0} /\ one \in 0..1 /\ Ahead(l) + k + one <= HalfRange
    BY <1>2, <2>1
  <2> HIDE DEF k, one
  <2> QED BY <1>3, <2>2
<1>5. \/ seq[l] = b.nextSeq + Ahead(l)
      \/ seq[l] = b.nextSeq + Ahead(l) - 2 * HalfRange
  BY DEF LegInv, InStep
<1>6. /\ SeqDelta(seq[l], b.nextSeq) \in -HalfRange .. (HalfRange - 1)
      /\ \/ SeqDelta(seq[l], b.nextSeq) = seq[l] - b.nextSeq
         \/ SeqDelta(seq[l], b.nextSeq) = seq[l] - b.nextSeq + 2 * HalfRange
         \/ SeqDelta(seq[l], b.nextSeq) = seq[l] - b.nextSeq - 2 * HalfRange
  BY <1>1, Circle DEF Buffers
<1>7. b.nextSeq \in SeqNum
  BY <1>1 DEF Buffers
<1> HIDE DEF b
<1>8. SeqDelta(seq[l], b.nextSeq) >= 0 => SeqDelta(seq[l], b.nextSeq) = Ahead(l)
  BY <1>1, <1>3, <1>4, <1>5, <1>6, <1>7 DEF SeqNum
<1>9. \A s \in DOMAIN b.buffered : SeqDelta(s, b.nextSeq) < Ahead(l)
  BY DEF LegInv, InStep, Dist, b
<1>10. ~b.initialized => seq[l] = b.nextSeq /\ DOMAIN b.buffered = {}
  <2> SUFFICES ASSUME ~b.initialized PROVE seq[l] = b.nextSeq /\ DOMAIN b.buffered = {}
    OBVIOUS
  <2>1. pushed[l] = 0 /\ DOMAIN b.buffered = {}
    BY DEF LegInv, InStep, b
  <2>2. Ahead(l) = 0
    BY <1>3, <2>1 DEF LegTyped
  <2> QED BY <1>1, <1>3, <1>5, <1>7, <2>1, <2>2 DEF SeqNum
<1>11. SeqDelta(seq[l], b.nextSeq) >= 0 =>
         \A t \in DOMAIN b.buffered : SeqDelta(t, b.nextSeq) < SeqDelta(seq[l], b.nextSeq)
  BY <1>8, <1>9
<1>12. /\ Push(b, seq[l], p) \in Buffers
       /\ Push(b, seq[l], p).initialized /\ Push(b, seq[l], p).nextSeq = b.nextSeq
       /\ Cardinality(DOMAIN Push(b, seq[l], p).buffered) <= Capacity
       /\ PushStatus(b, seq[l]) # "accepted" => Push(b, seq[l], p).buffered = b.buffered
       /\ PushStatus(b, seq[l]) = "accepted" =>
            /\ SeqDelta(seq[l], b.nextSeq) >= 0 /\ seq[l] \notin DOMAIN b.buffered
            /\ Push(b, seq[l], p).buffered = [t \in DOMAIN b.buffered \cup {seq[l]} |->
                                               IF t = seq[l] THEN p ELSE b.buffered[t]]
  BY <1>1, <1>2, <1>10, <1>11, PushInOrder
<1>13. SeqDelta(seq[l], b.nextSeq) = Ahead(l)
  BY <1>1, <1>3, <1>4, <1>5, <1>6, <1>7 DEF SeqNum
<1>14. PushStatus(b, seq[l]) \in {"accepted", "evicted"}
  <2>1. Primed(b, seq[l]).nextSeq = b.nextSeq /\ Primed(b, seq[l]).buffered = b.buffered
    BY <1>1, <1>10 DEF Primed, Buffers
  <2>2. seq[l] \notin DOMAIN b.buffered
    BY <1>3, <1>9, <1>13
  <2> QED BY <1>3, <1>13, <2>1, <2>2 DEF PushStatus
<1> QED BY <1>12, <1>13, <1>14 DEF b

-----------------------------------------------------------------------------
\* A cut is taken on when all before it is in the buffer, played or turned away:
\* it follows them in order, and nothing between is missed.
LEMMA CutTakenOn ==
  ASSUME LegTyped, LegTyped', NEW l \in Leg, LegInv(l), todo[l] = <<>>,
         IsCutOf(todo'[l], Cuts(l) + 1, Cuts(l)'), Cuts(l) <= Cuts(l)', carry'[l] <= got'[l],
         UNCHANGED <<buf[l], heard[l], dropped[l]>>
  PROVE  InOrder(l)' /\ DroppedApart(l)' /\ Covered(l)'
<1>1. /\ Cuts(l) \in Int /\ Cuts(l)' \in Int
      /\ \A i \in DOMAIN heard[l] : heard[l][i] \in Payload
      /\ \A s \in DOMAIN buf[l].buffered : buf[l].buffered[s] \in Payload
      /\ \A p \in dropped[l] : p \in Payload
      /\ \A i \in DOMAIN todo'[l] : todo'[l][i] \in Payload
  BY DEF LegTyped, Cuts, Buffers
<1>2. /\ \A i \in DOMAIN heard[l] : Within(l, heard[l][i])
      /\ \A s \in DOMAIN buf[l].buffered : Within(l, buf[l].buffered[s])
      /\ \A p \in dropped[l] : Within(l, p)
  BY DEF LegInv, InOrder, DroppedApart
<1>3. Cuts(l) >= 0
  BY DEF LegInv, InOrder, LegTyped, Cuts
<1>4. ASSUME NEW p \in Payload, Within(l, p) PROVE Within(l, p)'
  BY <1>1, <1>4 DEF Within, Payload
<1>5. \A i \in DOMAIN todo'[l] : Within(l, todo[l][i])'
  BY <1>1, <1>3 DEF IsCutOf, Within, Payload
<1>6. ASSUME NEW p \in Payload, Within(l, p), NEW i \in DOMAIN todo'[l]
      PROVE  Precedes(p, todo'[l][i])
  BY <1>1, <1>6 DEF IsCutOf, Within, Precedes, Payload
<1>7. InOrder(l)'
  <2>1. /\ \A i \in DOMAIN heard'[l] : Within(l, heard[l][i])'
        /\ \A s \in DOMAIN buf'[l].buffered : Within(l, buf[l].buffered[s])'
    BY <1>1, <1>2, <1>4
  <2>2. /\ \A i \in DOMAIN heard'[l], j \in DOMAIN todo'[l] : Precedes(heard'[l][i], todo'[l][j])
        /\ \A s \in DOMAIN buf'[l].buffered, j \in DOMAIN todo'[l] :
              Precedes(buf'[l].buffered[s], todo'[l][j])
    BY <1>1, <1>2, <1>6
  <2>3. \A i, j \in DOMAIN todo'[l] : i < j => Precedes(todo'[l][i], todo'[l][j])
    BY DEF IsCutOf
  <2>4. /\ \A i, j \in DOMAIN heard'[l] : i < j => Precedes(heard'[l][i], heard'[l][j])
        /\ \A i \in DOMAIN heard'[l], s \in DOMAIN buf'[l].buffered :
              Precedes(heard'[l][i], buf'[l].buffered[s])
        /\ \A s, t \in DOMAIN buf'[l].buffered :
              Dist(l, s)' < Dist(l, t)' => Precedes(buf'[l].buffered[s], buf'[l].buffered[t])
    BY DEF LegInv, InOrder, Dist
  <2> QED BY <1>5, <2>1, <2>2, <2>3, <2>4 DEF InOrder, Precedes, Within
<1>8. DroppedApart(l)'
  <2> SUFFICES ASSUME NEW p \in dropped'[l]
               PROVE  /\ Within(l, p)'
                      /\ \A i \in DOMAIN heard'[l] : Apart(p, heard'[l][i])
                      /\ \A s \in DOMAIN buf'[l].buffered : Apart(p, buf'[l].buffered[s])
                      /\ \A i \in DOMAIN todo'[l] : Apart(p, todo'[l][i])
                      /\ \A q \in dropped'[l] : p # q => Apart(p, q)
    BY DEF DroppedApart, Apart, Precedes
  <2>1. Within(l, p)' /\ \A i \in DOMAIN todo'[l] : Apart(p, todo'[l][i])
    BY <1>1, <1>2, <1>4, <1>6 DEF Apart
  <2> QED BY <2>1 DEF LegInv, DroppedApart
<1>9. Covered(l)'
  <2> SUFFICES ASSUME NEW u \in 1..Cuts(l)'
               PROVE  \/ \E i \in DOMAIN heard'[l] : Has(heard'[l][i], u)
                      \/ \E s \in DOMAIN buf'[l].buffered : Has(buf'[l].buffered[s], u)
                      \/ \E i \in DOMAIN todo'[l] : Has(todo'[l][i], u)
                      \/ \E p \in dropped'[l] : Has(p, u)
    BY DEF Covered, Has
  <2>1. CASE u <= Cuts(l)
    <3>1. u \in 1..Cuts(l)
      BY <1>1, <2>1
    <3>2. DOMAIN todo[l] = {}
      OBVIOUS
    <3> QED BY <3>1, <3>2 DEF LegInv, Covered
  <2>2. CASE u > Cuts(l)
    <3>1. u \in (Cuts(l) + 1)..Cuts(l)'
      BY <1>1, <2>2
    <3> QED BY <3>1 DEF IsCutOf
  <2> QED BY <1>1, <2>1, <2>2
<1> QED BY <1>7, <1>8, <1>9

\* The payloads of the cut are well cut, and those before it stay so.
LEMMA CutWell ==
  ASSUME LegTyped, LegTyped', NEW l \in Leg, LegInv(l), Cuts(l) <= Cuts(l)', todo[l] = <<>>,
         \A i \in DOMAIN todo'[l] : WellCut(l, todo[l][i])',
         UNCHANGED <<buf[l], heard[l], dropped[l]>>,
         inClosed[l] => inClosed'[l] /\ got'[l] = got[l],
         \A e \in ends[l] : e \in ends'[l],
         \A e \in ends'[l] : e \in ends[l] \/ (Cuts(l) <= e /\ e <= Cuts(l)')
  PROVE  AllWellCut(l)'
<1>1. /\ Cuts(l) \in Int /\ Cuts(l)' \in Int
      /\ \A i \in DOMAIN heard[l] : heard[l][i] \in Payload
      /\ \A s \in DOMAIN buf[l].buffered : buf[l].buffered[s] \in Payload
      /\ \A p \in dropped[l] : p \in Payload
      /\ \A e \in ends'[l] : e \in Nat
  BY DEF LegTyped, Cuts, Buffers
<1>2. ASSUME NEW p \in Payload, Within(l, p), WellCut(l, p) PROVE WellCut(l, p)'
  <2>1. (p.last - p.first + 1) % Frame # 0 => p.last \in ends'[l] \/ (inClosed'[l] /\ p.last = got'[l])
    BY <1>2 DEF WellCut
  <2>2. \A e \in ends'[l] : ~(p.first <= e /\ e < p.last)
    BY <1>1, <1>2 DEF WellCut, Within, Payload
  <2> QED BY <2>1, <2>2 DEF WellCut
<1>3. /\ \A i \in DOMAIN heard[l] : WellCut(l, heard[l][i])'
      /\ \A s \in DOMAIN buf[l].buffered : WellCut(l, buf[l].buffered[s])'
      /\ \A p \in dropped[l] : WellCut(l, p)'
  BY <1>1, <1>2 DEF LegInv, InOrder, DroppedApart, AllWellCut
<1>4. \A e \in ends'[l] : e <= Cuts(l)'
  BY <1>1 DEF LegInv, AllWellCut
<1> QED BY <1>3, <1>4 DEF AllWellCut, WellCut

-----------------------------------------------------------------------------
(* Types.                                                                   *)

\* Every step of the bridge keeps the types of a leg.
LEMMA SpeechTyped ==
  ASSUME LegTyped, \A l \in Leg : LegInv(l), [Next]_vars
  PROVE  LegTyped'
<1> USE DEF LegTyped
<1>1. CASE UNCHANGED <<feedVars, buf, pushed, dropped, runVars>>
  BY <1>1 DEF feedVars, runVars
<1>2. CASE Start
  BY <1>2 DEF Start, Launch, FeedPc
<1>3. CASE Stop \/ \E l \in Leg : LegDelivers(l) \/ Bridge(l)
  BY <1>1, <1>3 DEF Stop, StopFlags, StopLeg, StopCancels, StopReturns, LegDelivers, Bridge,
     BridgeTakes, BridgePushed, BridgeEnds
<1>4. ASSUME NEW l \in Leg, NEW n \in ChunkSizes, NEW final \in BOOLEAN, FeedTakes(l, n, final)
      PROVE  LegTyped'
  <2>1. carry[l] <= got[l]
    BY DEF LegInv, InOrder
  <2>2. PICK cut : \E rest \in 0..(Frame - 1) :
           Received(l, n, final, cut, rest) /\ IsCutOf(cut, Cuts(l) + 1, got[l] + n - rest)
    BY <1>4, <2>1, ChunkIsCut
  <2>3. n \in Nat /\ got[l] + n \in Nat /\ cut \in Seq(Payload)
    BY <2>2, ChunkAssumption DEF IsCutOf
  <2> QED BY <2>2, <2>3 DEF Received, runVars, FeedPc
<1>5. ASSUME NEW l \in Leg, FeedSeesClose(l) PROVE LegTyped'
  <2>1. got[l] - carry[l] + 1 \in Nat /\ 0 \in 0..(Frame - 1)
    BY FrameAssumption DEF LegInv, InOrder
  <2>2. Cut(got[l] - carry[l] + 1, got[l]) \in Seq(Payload)
    BY <2>1, OneCut DEF IsCutOf
  <2> QED BY <1>5, <2>1, <2>2 DEF FeedSeesClose, runVars, FeedPc
<1>6. ASSUME NEW l \in Leg, FeedPushes(l) PROVE LegTyped'
  <2>1. todo[l] # <<>> /\ Head(todo[l]) \in Payload /\ Tail(todo[l]) \in Seq(Payload)
    BY <1>6 DEF FeedPushes, LegInv, InStep
  <2>2. /\ Push(buf[l], seq[l], Head(todo[l])) \in Buffers
        /\ Cardinality(DOMAIN Push(buf[l], seq[l], Head(todo[l])).buffered) <= Capacity
    <3>1. feed[l] = "push" /\ LegInv(l)
      BY <1>6 DEF FeedPushes
    <3> QED BY <3>1, PushKeeps
  <2>3. SeqAfter(seq[l]) \in SeqNum
    BY After
  <2> QED BY <1>6, <2>1, <2>2, <2>3 DEF FeedPushes, runVars, FeedPc
<1>7. ASSUME NEW l \in Leg, FeedCounts(l) \/ FeedEnds(l) PROVE LegTyped'
  <2>1. CASE FeedCounts(l)
    BY <2>1 DEF FeedCounts, runVars, FeedPc
  <2>2. CASE FeedEnds(l)
    BY <2>2 DEF FeedEnds, runVars, FeedPc
  <2> QED BY <1>7, <2>1, <2>2
<1>8. ASSUME NEW l \in Leg, Run(l) PROVE LegTyped'
  <2>1. CASE RunEnds(l)
    BY <2>1 DEF RunEnds, feedVars
  <2>2. ASSUME NEW overdue \in BOOLEAN, RunPulls(l, overdue) PROVE LegTyped'
    <3>1. /\ Pull(buf[l], overdue) \in Buffers
          /\ Cardinality(DOMAIN Pull(buf[l], overdue).buffered) <= Capacity
      BY PullKeeps
    <3>2. PullStatus(buf[l], overdue) = "ok" =>
            buf[l].buffered[buf[l].nextSeq] \in Payload
      BY DEF PullStatus, Buffers
    <3> QED BY <2>2, <3>1, <3>2 DEF RunPulls, Resolves, feedVars
  <2> QED BY <1>8, <2>1, <2>2 DEF Run
<1>9. CASE UNCHANGED vars
  BY <1>1, <1>9 DEF vars
<1> QED BY <1>2, <1>3, <1>4, <1>5, <1>6, <1>7, <1>8, <1>9 DEF Next, Feed

-----------------------------------------------------------------------------
(* Each step of a leg's feeder or ticker keeps the leg's invariant.          *)

\* feedTTSPacer receives a chunk and cuts it.
LEMMA ReceivingKeeps ==
  ASSUME LegTyped, LegTyped', NEW l \in Leg, LegInv(l),
         NEW n \in ChunkSizes, NEW final \in BOOLEAN, FeedTakes(l, n, final)
  PROVE  LegInv(l)'
<1>1. carry[l] <= got[l]
  BY DEF LegInv, InOrder
<1>2. PICK cut : \E rest \in 0..(Frame - 1) :
         /\ Received(l, n, final, cut, rest)
         /\ rest <= carry[l] + n /\ (final => rest = 0)
         /\ IsCutOf(cut, Cuts(l) + 1, got[l] + n - rest)
         /\ \A i \in DOMAIN cut :
              (cut[i].last - cut[i].first + 1) % Frame # 0 => final /\ cut[i].last = got[l] + n
  BY <1>1, ChunkIsCut
<1>3. PICK rest \in 0..(Frame - 1) :
         /\ Received(l, n, final, cut, rest)
         /\ rest <= carry[l] + n /\ (final => rest = 0)
         /\ IsCutOf(cut, Cuts(l) + 1, got[l] + n - rest)
         /\ \A i \in DOMAIN cut :
              (cut[i].last - cut[i].first + 1) % Frame # 0 => final /\ cut[i].last = got[l] + n
  BY <1>2
<1>4. /\ todo'[l] = cut /\ carry'[l] = rest /\ got'[l] = got[l] + n
      /\ feed[l] = "select" /\ feed'[l] = IF cut = <<>> THEN "select" ELSE "push"
      /\ ends'[l] = IF final THEN ends[l] \cup {got[l] + n} ELSE ends[l]
      /\ UNCHANGED <<inClosed, seq, buf, pushed, consumed, dropped, heard, started>>
      /\ ~inClosed[l] /\ HasBacklogRoom(l, cut, rest)
  BY <1>3 DEF LegTyped, Received, runVars, lifeVars
<1>5. /\ n \in Nat /\ rest \in Nat /\ carry[l] \in Nat /\ got[l] \in Nat
      /\ Cuts(l) = got[l] - carry[l] /\ Cuts(l)' = got[l] + n - rest
  BY <1>4, ChunkAssumption, FrameAssumption DEF LegTyped, Cuts
<1>6. Cuts(l) <= Cuts(l)' /\ carry'[l] <= got'[l]
  BY <1>1, <1>3, <1>4, <1>5
<1>7. todo[l] = <<>>
  BY <1>4 DEF LegInv, InStep
<1>8. InOrder(l)' /\ DroppedApart(l)' /\ Covered(l)'
  BY <1>3, <1>4, <1>5, <1>6, <1>7, CutTakenOn
<1>9. AllWellCut(l)'
  <2>1. \A e \in ends'[l] : e \in ends[l] \/ (Cuts(l) <= e /\ e <= Cuts(l)')
    BY <1>1, <1>3, <1>4, <1>5
  <2>2. ASSUME NEW i \in DOMAIN todo'[l] PROVE WellCut(l, todo[l][i])'
    <3>1. /\ cut[i] \in Payload /\ Cuts(l) + 1 <= cut[i].first /\ cut[i].last <= Cuts(l)'
      BY <1>3, <1>4, <1>5, <2>2 DEF IsCutOf
    <3>2. (cut[i].last - cut[i].first + 1) % Frame # 0 => cut[i].last \in ends'[l]
      BY <1>3, <1>4, <2>2
    <3>3. ASSUME NEW e \in ends'[l] PROVE ~(cut[i].first <= e /\ e < cut[i].last)
      <4>1. CASE e \in ends[l]
        <5>1. e <= Cuts(l) /\ e \in Nat
          BY <4>1 DEF LegInv, AllWellCut, LegTyped
        <5> QED BY <1>5, <3>1, <5>1 DEF Payload
      <4>2. CASE final /\ e = got[l] + n
        BY <1>3, <1>5, <3>1, <4>2 DEF Payload
      <4> QED BY <1>4, <3>3, <4>1, <4>2
    <3> QED BY <1>4, <3>2, <3>3 DEF WellCut
  <2> QED BY <1>4, <1>6, <1>7, <2>1, <2>2, CutWell
<1>10. InStep(l)'
  <2>1. Ahead(l)' = Ahead(l) /\ Ahead(l) = pushed[l] - consumed[l] /\ Ahead(l) \in Nat
    BY <1>4 DEF Ahead, LegInv, InStep, LegTyped
  <2>2. Len(cut) \in 0..2
    BY <1>3 DEF IsCutOf
  <2>3. Ahead(l) + Len(cut) + (IF carry'[l] = 0 THEN 0 ELSE 1) <= HalfRange
    <3> DEFINE k == Len(cut)
               one == IF rest = 0 THEN 0 ELSE 1
    <3>1. MaxBacklog <= HalfRange /\ MaxBacklog \in Nat /\ HalfRange \in Nat
      BY BacklogAssumption, HalfRangeAssumption
    <3>2. Ahead(l) + k + one <= MaxBacklog
      BY <1>4, <2>1 DEF HasBacklogRoom
    <3>3. k \in Nat /\ one \in Nat
      BY <2>2
    <3> HIDE DEF k, one
    <3>4. Ahead(l) + k + one <= HalfRange
      BY <2>1, <3>1, <3>2, <3>3
    <3> QED BY <1>4, <3>4 DEF k, one
  <2>4. \A s \in DOMAIN buf'[l].buffered : 0 <= Dist(l, s)' /\ Dist(l, s)' < Ahead(l)'
    BY <1>4, <2>1 DEF LegInv, InStep, Dist
  <2> QED BY <1>4, <2>1, <2>3, <2>4 DEF LegInv, InStep
<1> QED BY <1>8, <1>9, <1>10 DEF LegInv

\* feedTTSPacer sees the session's channel close and cuts what is left.
LEMMA ClosingKeeps ==
  ASSUME LegTyped, LegTyped', NEW l \in Leg, LegInv(l), FeedSeesClose(l)
  PROVE  LegInv(l)'
<1>1. carry[l] <= got[l]
  BY DEF LegInv, InOrder
<1>2. /\ todo'[l] = Cut(got[l] - carry[l] + 1, got[l]) /\ carry'[l] = 0
      /\ feed[l] = "select" /\ feed'[l] = IF todo'[l] = <<>> THEN "gone" ELSE "push"
      /\ UNCHANGED <<got, ends, seq, buf, pushed, consumed, dropped, heard, started>>
      /\ ~inClosed[l] /\ inClosed'[l]
  BY DEF FeedSeesClose, LegTyped, runVars, lifeVars
<1>3. /\ carry[l] \in Nat /\ got[l] \in Nat /\ Cuts(l) = got[l] - carry[l]
      /\ Cuts(l)' = got[l] /\ Cuts(l) \in Nat
  BY <1>1, <1>2, FrameAssumption DEF LegTyped, Cuts
<1>4. /\ IsCutOf(todo'[l], Cuts(l) + 1, Cuts(l)') /\ Len(todo'[l]) \in 0..1
      /\ \A i \in DOMAIN todo'[l] : todo'[l][i] = [first |-> Cuts(l) + 1, last |-> got[l]]
  <2>1. Cuts(l) + 1 \in Nat
    BY <1>3
  <2> QED BY <1>2, <1>3, <2>1, OneCut
<1>5. Cuts(l) <= Cuts(l)' /\ carry'[l] <= got'[l] /\ todo[l] = <<>>
  BY <1>2, <1>3 DEF LegInv, InStep
<1>6. InOrder(l)' /\ DroppedApart(l)' /\ Covered(l)'
  BY <1>2, <1>4, <1>5, CutTakenOn
<1>7. AllWellCut(l)'
  <2>1. ASSUME NEW i \in DOMAIN todo'[l] PROVE WellCut(l, todo[l][i])'
    <3>1. todo'[l][i].first = Cuts(l) + 1 /\ todo'[l][i].last = got[l]
      BY <1>4, <2>1
    <3>2. \A e \in ends[l] : e \in Nat /\ e <= Cuts(l)
      BY DEF LegInv, AllWellCut, LegTyped
    <3> QED BY <1>2, <1>3, <3>1, <3>2 DEF WellCut
  <2>2. inClosed[l] => inClosed'[l] /\ got'[l] = got[l]
    BY <1>2
  <2>3. /\ \A e \in ends[l] : e \in ends'[l]
        /\ \A e \in ends'[l] : e \in ends[l] \/ (Cuts(l) <= e /\ e <= Cuts(l)')
    BY <1>2
  <2> QED BY <1>2, <1>5, <2>1, <2>2, <2>3, CutWell
<1>8. InStep(l)'
  <2>1. Ahead(l)' = Ahead(l) /\ Ahead(l) \in Nat
    BY <1>2 DEF Ahead, LegInv, InStep, LegTyped
  <2>2. Ahead(l) + Len(todo'[l]) <= HalfRange
    <3>1. Ahead(l) + (IF carry[l] = 0 THEN 0 ELSE 1) <= HalfRange
      BY <1>2, <1>5, <2>1, HalfRangeAssumption DEF LegInv, InStep
    <3>2. carry[l] = 0 => Len(todo'[l]) = 0
      BY <1>2, <1>3 DEF Cut
    <3> DEFINE k == Len(todo'[l])
    <3>3. k \in 0..1
      BY <1>4
    <3>4. carry[l] = 0 => k = 0
      BY <3>2
    <3> HIDE DEF k
    <3>5. Ahead(l) + k <= HalfRange
      BY <2>1, <3>1, <3>3, <3>4, HalfRangeAssumption
    <3> QED BY <3>5 DEF k
  <2>3. Ahead(l) + Len(todo'[l]) + (IF carry'[l] = 0 THEN 0 ELSE 1) <= HalfRange
    BY <1>2, <1>4, <2>1, <2>2, HalfRangeAssumption
  <2>4. \A s \in DOMAIN buf'[l].buffered : 0 <= Dist(l, s)' /\ Dist(l, s)' < Ahead(l)'
    BY <1>2, <2>1 DEF LegInv, InStep, Dist
  <2> QED BY <1>2, <2>1, <2>3, <2>4 DEF LegInv, InStep
<1> QED BY <1>6, <1>7, <1>8 DEF LegInv

\* push counts the payload it has pushed (pushed.Add), or the feeder ends on ctx.Done.
LEMMA CountingKeeps ==
  ASSUME LegTyped, NEW l \in Leg, LegInv(l), FeedCounts(l) \/ FeedEnds(l)
  PROVE  LegInv(l)'
<1>1. UNCHANGED <<carry[l], got[l], todo[l], inClosed[l], seq[l], buf[l], consumed[l], ends[l],
                  dropped[l], heard[l], started>>
  BY DEF FeedCounts, FeedEnds, runVars, lifeVars
<1>2. InOrder(l)'
  BY <1>1 DEF LegInv, InOrder, Within, Cuts, Precedes, Dist
<1>3. DroppedApart(l)'
  BY <1>1 DEF LegInv, DroppedApart, Within, Cuts
<1>4. Covered(l)'
  BY <1>1 DEF LegInv, Covered, Cuts
<1>5. AllWellCut(l)'
  BY <1>1 DEF LegInv, AllWellCut, WellCut, Cuts
<1>6. /\ Ahead(l)' = Ahead(l) /\ feed[l] # "off" /\ feed'[l] # "count"
      /\ feed'[l] = "push" => todo[l] # <<>>
      /\ feed'[l] # "push" => todo[l] = <<>>
      /\ feed'[l] = "off" => FALSE
  <2>1. CASE FeedCounts(l)
    <3>1. pushed'[l] = pushed[l] + 1
      BY <2>1 DEF FeedCounts, LegTyped
    <3> QED BY <1>1, <2>1, <3>1 DEF FeedCounts, LegTyped, Ahead
  <2>2. CASE FeedEnds(l)
    BY <1>1, <2>2 DEF FeedEnds, LegTyped, Ahead, LegInv, InStep
  <2> QED BY <2>1, <2>2
<1>7. pushed[l] + (IF feed[l] = "count" THEN 1 ELSE 0) = pushed'[l]
  BY DEF FeedCounts, FeedEnds, LegTyped
<1>8. InStep(l)'
  <2>1. \A s \in DOMAIN buf'[l].buffered : 0 <= Dist(l, s)' /\ Dist(l, s)' < Ahead(l)'
    BY <1>1, <1>6 DEF LegInv, InStep, Dist
  <2>2. ~buf'[l].initialized => pushed'[l] = 0 /\ DOMAIN buf'[l].buffered = {}
    <3> SUFFICES ASSUME ~buf[l].initialized
                 PROVE  pushed'[l] = 0 /\ DOMAIN buf[l].buffered = {}
      BY <1>1
    <3>1. pushed[l] = 0 /\ feed[l] # "count" /\ DOMAIN buf[l].buffered = {}
      BY DEF LegInv, InStep
    <3>2. FeedEnds(l)
      BY <3>1 DEF FeedCounts
    <3> QED BY <3>1, <3>2 DEF FeedEnds
  <2> QED BY <1>1, <1>6, <2>1, <2>2 DEF LegInv, InStep
<1> QED BY <1>2, <1>3, <1>4, <1>5, <1>8 DEF LegInv

\* feedTTSPacer pushes the next payload cut, which follows all that is on hand.
LEMMA PushingKeeps ==
  ASSUME LegTyped, LegTyped', NEW l \in Leg, LegInv(l), FeedPushes(l)
  PROVE  LegInv(l)'
<1> DEFINE b == buf[l]
           p == Head(todo[l])
           rest == Tail(todo[l])
           on == DOMAIN b.buffered
<1>1. /\ feed[l] = "push" /\ feed'[l] = "count" /\ todo'[l] = rest
      /\ seq'[l] = SeqAfter(seq[l]) /\ buf'[l] = Push(b, seq[l], p)
      /\ dropped'[l] = IF PushStatus(b, seq[l]) = "evicted" THEN dropped[l] \cup {p} ELSE dropped[l]
      /\ UNCHANGED <<carry, got, inClosed, ends, pushed, consumed, heard, started>>
  BY DEF FeedPushes, LegTyped, runVars, lifeVars
<1>2. /\ todo[l] # <<>> /\ p \in Payload /\ p = todo[l][1] /\ 1 \in DOMAIN todo[l]
      /\ Len(rest) = Len(todo[l]) - 1 /\ Len(todo[l]) \in Nat \ {0}
      /\ \A i \in DOMAIN rest : i + 1 \in DOMAIN todo[l] /\ rest[i] = todo[l][i + 1] /\ i \in Nat \ {0}
      /\ \A i \in DOMAIN todo[l] : i = 1 \/ (i - 1 \in DOMAIN rest /\ rest[i - 1] = todo[l][i])
  <2>1. todo[l] # <<>> /\ todo[l] \in Seq(Payload)
    BY <1>1 DEF LegInv, InStep, LegTyped
  <2> QED BY ONLY <2>1 DEF p, rest
<1>3. /\ buf'[l].initialized /\ buf'[l].nextSeq = b.nextSeq
      /\ \/ /\ PushStatus(b, seq[l]) # "accepted" /\ buf'[l].buffered = b.buffered
            /\ dropped'[l] = dropped[l] \cup {p}
         \/ /\ PushStatus(b, seq[l]) = "accepted" /\ dropped'[l] = dropped[l]
            /\ SeqDelta(seq[l], b.nextSeq) = Ahead(l) /\ seq[l] \notin on
            /\ buf'[l].buffered = [t \in on \cup {seq[l]} |-> IF t = seq[l] THEN p ELSE b.buffered[t]]
  BY <1>1, PushKeeps
<1> HIDE DEF b, p, rest, on
<1>4. /\ Cuts(l)' = Cuts(l) /\ Cuts(l) \in Int
      /\ \A q : Within(l, q)' = Within(l, q)
  BY <1>1 DEF Cuts, LegTyped, Within
<1>5. \A s : Dist(l, s)' = Dist(l, s)
  BY <1>3 DEF Dist, b
<1>6. /\ Ahead(l) \in Nat /\ Ahead(l)' = Ahead(l) + 1
  BY <1>1 DEF Ahead, LegInv, InStep, LegTyped
\* Where p is and what it is apart from.
<1>7. /\ Within(l, p)
      /\ \A i \in DOMAIN heard[l] : Precedes(heard[l][i], p)
      /\ \A s \in on : Precedes(b.buffered[s], p)
      /\ \A i \in DOMAIN rest : Precedes(p, rest[i])
      /\ \A q \in dropped[l] : Apart(q, p)
  <2>1. \A i \in DOMAIN rest : Precedes(p, rest[i])
    BY <1>2 DEF LegInv, InOrder
  <2> QED BY <1>2, <2>1 DEF LegInv, InOrder, DroppedApart, b, on
<1>8. \A i \in DOMAIN rest : /\ Within(l, rest[i])
                             /\ \A j \in DOMAIN heard[l] : Precedes(heard[l][j], rest[i])
                             /\ \A s \in on : Precedes(b.buffered[s], rest[i])
                             /\ \A q \in dropped[l] : Apart(q, rest[i])
                             /\ \A j \in DOMAIN rest : i < j => Precedes(rest[i], rest[j])
                             /\ WellCut(l, rest[i])
  <2> SUFFICES ASSUME NEW i \in DOMAIN rest
               PROVE  /\ Within(l, rest[i])
                      /\ \A j \in DOMAIN heard[l] : Precedes(heard[l][j], rest[i])
                      /\ \A s \in on : Precedes(b.buffered[s], rest[i])
                      /\ \A q \in dropped[l] : Apart(q, rest[i])
                      /\ \A j \in DOMAIN rest : i < j => Precedes(rest[i], rest[j])
                      /\ WellCut(l, rest[i])
    OBVIOUS
  <2>1. i + 1 \in DOMAIN todo[l] /\ rest[i] = todo[l][i + 1]
    BY <1>2
  <2>2. \A j \in DOMAIN rest : i < j => Precedes(rest[i], rest[j])
    BY <1>2 DEF LegInv, InOrder
  <2> QED BY <2>1, <2>2 DEF LegInv, InOrder, DroppedApart, AllWellCut, b, on
<1>9. /\ \A i, j \in DOMAIN heard[l] : i < j => Precedes(heard[l][i], heard[l][j])
      /\ \A i \in DOMAIN heard[l] : Within(l, heard[l][i]) /\ WellCut(l, heard[l][i])
      /\ \A s \in on : Within(l, b.buffered[s]) /\ WellCut(l, b.buffered[s])
      /\ \A i \in DOMAIN heard[l], s \in on : Precedes(heard[l][i], b.buffered[s])
      /\ \A s, t \in on : Dist(l, s) < Dist(l, t) => Precedes(b.buffered[s], b.buffered[t])
      /\ \A s \in on : 0 <= Dist(l, s) /\ Dist(l, s) < Ahead(l)
      /\ carry[l] <= got[l] /\ WellCut(l, p)
  BY <1>2 DEF LegInv, InOrder, AllWellCut, InStep, b, on
\* What is in the buffer afterwards.
<1>10. \A s \in DOMAIN buf'[l].buffered :
         \/ s \in on /\ buf'[l].buffered[s] = b.buffered[s]
         \/ /\ s = seq[l] /\ s \notin on /\ buf'[l].buffered[s] = p /\ Dist(l, s) = Ahead(l)
            /\ dropped'[l] = dropped[l]
  BY <1>3 DEF on, b, Dist
<1>11. \A s \in on : s \in DOMAIN buf'[l].buffered /\ buf'[l].buffered[s] = b.buffered[s]
  BY <1>3 DEF on
<1>12. InStep(l)'
  <2>1. seq'[l] \in SeqNum /\ seq[l] \in SeqNum /\ b.nextSeq \in SeqNum
    BY DEF LegTyped, Buffers, b
  <2>2. seq'[l] = seq[l] + 1 \/ seq'[l] = seq[l] + 1 - 2 * HalfRange
    BY <1>1, <2>1, After
  <2>3. \/ seq[l] = b.nextSeq + Ahead(l)
        \/ seq[l] = b.nextSeq + Ahead(l) - 2 * HalfRange
    BY DEF LegInv, InStep, b
  <2>4. Ahead(l)' + Len(todo'[l]) + (IF carry'[l] = 0 THEN 0 ELSE 1) <= HalfRange
    <3> DEFINE k == Len(todo[l])
               one == IF carry[l] = 0 THEN 0 ELSE 1
    <3>1. k \in Nat \ {0} /\ one \in 0..1 /\ Ahead(l) + k + one <= HalfRange
      BY <1>2 DEF LegInv, InStep
    <3>2. Len(todo'[l]) = k - 1 /\ carry'[l] = carry[l]
      BY <1>1, <1>2
    <3> HIDE DEF k
    <3>3. (Ahead(l) + 1) + (k - 1) + one <= HalfRange
      BY <1>6, <3>1, HalfRangeAssumption
    <3> QED BY <1>6, <3>2, <3>3
  <2>5. Ahead(l) + 1 <= HalfRange
    <3> DEFINE k == Len(todo'[l])
               one == IF carry'[l] = 0 THEN 0 ELSE 1
    <3>1. k \in Nat /\ one \in 0..1 /\ Ahead(l) + 1 + k + one <= HalfRange
      <4>1. Len(todo'[l]) \in Nat
        BY DEF LegTyped
      <4> QED BY <1>6, <2>4, <4>1
    <3> HIDE DEF k, one
    <3> QED BY <1>6, <3>1, HalfRangeAssumption
  <2>6. \/ seq'[l] = b.nextSeq + (Ahead(l) + 1)
        \/ seq'[l] = b.nextSeq + (Ahead(l) + 1) - 2 * HalfRange
    BY <1>6, <2>1, <2>2, <2>3, <2>5, HalfRangeAssumption DEF SeqNum
  <2>7. \A s \in DOMAIN buf'[l].buffered : 0 <= Dist(l, s)' /\ Dist(l, s)' < Ahead(l)'
    <3> SUFFICES ASSUME NEW s \in DOMAIN buf'[l].buffered
                 PROVE  0 <= Dist(l, s) /\ Dist(l, s) < Ahead(l) + 1
      BY <1>5, <1>6
    <3>1. s \in on => Dist(l, s) \in Int
      <4> SUFFICES ASSUME s \in on PROVE Dist(l, s) \in Int
        OBVIOUS
      <4>1. s \in SeqNum
        BY DEF LegTyped, Buffers, on, b
      <4> QED BY <2>1, <4>1, Circle DEF Dist, b
    <3> QED BY <1>6, <1>9, <1>10, <3>1
  <2> QED BY <1>1, <1>3, <1>6, <2>4, <2>6, <2>7 DEF LegInv, InStep, b
<1>13. InOrder(l)'
  <2>1. \A s \in DOMAIN buf'[l].buffered :
          /\ Within(l, buf'[l].buffered[s])
          /\ \A i \in DOMAIN heard[l] : Precedes(heard[l][i], buf'[l].buffered[s])
          /\ \A j \in DOMAIN rest : Precedes(buf'[l].buffered[s], rest[j])
    BY <1>7, <1>8, <1>9, <1>10
  <2>2. ASSUME NEW s \in DOMAIN buf'[l].buffered, NEW t \in DOMAIN buf'[l].buffered,
               Dist(l, s) < Dist(l, t)
        PROVE  Precedes(buf'[l].buffered[s], buf'[l].buffered[t])
    <3>1. CASE s \in on /\ t \in on
      BY <1>9, <1>11, <2>2, <3>1
    <3>2. CASE s \in on /\ t \notin on
      BY <1>7, <1>10, <1>11, <3>2
    <3>3. CASE s \notin on
      <4>1. Dist(l, s) = Ahead(l) /\ Dist(l, t) <= Ahead(l)
        <5>1. t \in on => Dist(l, t) \in Int
          <6> SUFFICES ASSUME t \in on PROVE Dist(l, t) \in Int
            OBVIOUS
          <6>1. t \in SeqNum /\ buf[l].nextSeq \in SeqNum
            BY DEF LegTyped, Buffers, on, b
          <6> QED BY <6>1, Circle DEF Dist
        <5> QED BY <1>6, <1>9, <1>10, <3>3, <5>1
      <4>2. Dist(l, t) \in Int
        <5>1. t \in SeqNum /\ buf[l].nextSeq \in SeqNum
          BY DEF LegTyped, Buffers
        <5> QED BY <5>1, Circle DEF Dist
      <4> QED BY <1>6, <2>2, <4>1, <4>2
    <3> QED BY <3>1, <3>2, <3>3
  <2>3. /\ DOMAIN heard'[l] = DOMAIN heard[l] /\ heard'[l] = heard[l]
        /\ todo'[l] = rest /\ carry'[l] = carry[l] /\ got'[l] = got[l]
    BY <1>1
  <2>4. /\ \A i \in DOMAIN heard'[l] : Within(l, heard[l][i])'
        /\ \A s \in DOMAIN buf'[l].buffered : Within(l, buf[l].buffered[s])'
        /\ \A i \in DOMAIN todo'[l] : Within(l, todo[l][i])'
    <3>1. \A q : (q.first >= 1 /\ q.first <= q.last /\ q.last <= Cuts(l)) <=> Within(l, q)
      BY DEF Within
    <3> QED BY <1>4, <1>8, <1>9, <2>1, <2>3 DEF Within
  <2>5. \A s, t \in DOMAIN buf'[l].buffered :
          Dist(l, s)' < Dist(l, t)' => Precedes(buf'[l].buffered[s], buf'[l].buffered[t])
    BY <1>5, <2>2
  <2> QED BY <1>8, <1>9, <2>1, <2>3, <2>4, <2>5 DEF InOrder, Precedes
<1>14. DroppedApart(l)'
  <2> SUFFICES ASSUME NEW q \in dropped'[l]
               PROVE  /\ Within(l, q)
                      /\ \A i \in DOMAIN heard[l] : Apart(q, heard[l][i])
                      /\ \A s \in DOMAIN buf'[l].buffered : Apart(q, buf'[l].buffered[s])
                      /\ \A i \in DOMAIN rest : Apart(q, rest[i])
                      /\ \A r \in dropped'[l] : q # r => Apart(q, r)
    BY <1>1, <1>4 DEF DroppedApart, Apart, Precedes
  <2>1. CASE q \in dropped[l]
    <3>1. /\ Within(l, q)
          /\ \A i \in DOMAIN heard[l] : Apart(q, heard[l][i])
          /\ \A s \in on : Apart(q, b.buffered[s])
          /\ \A r \in dropped[l] : q # r => Apart(q, r)
      BY <2>1 DEF LegInv, DroppedApart, on, b
    <3> QED BY <1>3, <1>7, <1>8, <1>10, <2>1, <3>1
  <2>2. CASE q \notin dropped[l]
    <3>1. q = p /\ dropped'[l] = dropped[l] \cup {p}
      BY <1>3, <2>2
    <3>2. \A s \in DOMAIN buf'[l].buffered : s \in on /\ buf'[l].buffered[s] = b.buffered[s]
      BY <1>3, <1>10, <2>2
    <3> QED BY <1>7, <3>1, <3>2 DEF Apart
  <2> QED BY <2>1, <2>2
<1>15. Covered(l)'
  <2> SUFFICES ASSUME NEW u \in 1..Cuts(l)
               PROVE  \/ \E i \in DOMAIN heard[l] : Has(heard[l][i], u)
                      \/ \E s \in DOMAIN buf'[l].buffered : Has(buf'[l].buffered[s], u)
                      \/ \E i \in DOMAIN rest : Has(rest[i], u)
                      \/ \E q \in dropped'[l] : Has(q, u)
    BY <1>1, <1>4 DEF Covered, Has
  <2>1. \/ \E i \in DOMAIN heard[l] : Has(heard[l][i], u)
        \/ \E s \in on : Has(b.buffered[s], u)
        \/ \E i \in DOMAIN todo[l] : Has(todo[l][i], u)
        \/ \E q \in dropped[l] : Has(q, u)
    BY DEF LegInv, Covered, on, b
  <2>2. CASE \E i \in DOMAIN todo[l] : Has(todo[l][i], u)
    <3>1. PICK i \in DOMAIN todo[l] : Has(todo[l][i], u)
      BY <2>2
    <3>2. CASE i = 1
      <4>1. Has(p, u)
        BY <1>2, <3>1, <3>2
      <4>2. CASE dropped'[l] = dropped[l] \cup {p}
        BY <4>1, <4>2
      <4>3. CASE buf'[l].buffered =
                   [t \in on \cup {seq[l]} |-> IF t = seq[l] THEN p ELSE b.buffered[t]]
        <5>1. seq[l] \in DOMAIN buf'[l].buffered /\ buf'[l].buffered[seq[l]] = p
          BY <4>3
        <5> QED BY <4>1, <5>1
      <4> QED BY <1>3, <4>2, <4>3
    <3>3. CASE i # 1
      BY <1>2, <3>1, <3>3
    <3> QED BY <3>2, <3>3
  <2>3. CASE \E s \in on : Has(b.buffered[s], u)
    BY <1>11, <2>3
  <2>4. CASE \E q \in dropped[l] : Has(q, u)
    BY <1>3, <2>4
  <2> QED BY <2>1, <2>2, <2>3, <2>4
<1>16. AllWellCut(l)'
  <2>1. \A q : WellCut(l, q) => (/\ (q.last - q.first + 1) % Frame # 0 =>
                                      q.last \in ends'[l] \/ (inClosed'[l] /\ q.last = got'[l])
                                 /\ \A e \in ends'[l] : ~(q.first <= e /\ e < q.last))
    BY <1>1 DEF WellCut
  <2>2. \A s \in DOMAIN buf'[l].buffered : WellCut(l, buf'[l].buffered[s])
    BY <1>9, <1>10
  <2>3. \A q \in dropped'[l] : WellCut(l, q)
    BY <1>3, <1>9 DEF LegInv, AllWellCut
  <2>4. \A e \in ends'[l] : e <= Cuts(l)'
    BY <1>1, <1>4 DEF LegInv, AllWellCut
  <2> QED BY <1>1, <1>8, <1>9, <2>1, <2>2, <2>3, <2>4 DEF AllWellCut, WellCut
<1> QED BY <1>12, <1>13, <1>14, <1>15, <1>16 DEF LegInv

\* runTTSPacer plays the payload next in turn, or gives up the slot that stayed empty.
LEMMA PullingKeeps ==
  ASSUME LegTyped, NEW l \in Leg, LegInv(l), NEW overdue \in BOOLEAN, RunPulls(l, overdue)
  PROVE  LegInv(l)'
<1> DEFINE b == buf[l]
           on == DOMAIN b.buffered
           left == DOMAIN buf'[l].buffered
           n == b.nextSeq
<1>1. /\ PullStatus(b, overdue) \in {"ok", "lost"} /\ consumed[l] < pushed[l]
      /\ consumed'[l] = consumed[l] + 1 /\ buf'[l] = Pull(b, overdue)
      /\ heard'[l] = IF PullStatus(b, overdue) = "ok" THEN Append(heard[l], b.buffered[n])
                     ELSE heard[l]
      /\ UNCHANGED <<carry, got, todo, inClosed, feed, seq, pushed, ends, dropped, started>>
  BY DEF RunPulls, Resolves, LegTyped, feedVars, lifeVars
<1>2. /\ b \in Buffers /\ n \in SeqNum /\ on \subseteq SeqNum /\ heard[l] \in Seq(Payload)
      /\ Cardinality(on) <= Capacity
  BY DEF LegTyped, Buffers
<1>3. /\ buf'[l].initialized = b.initialized /\ buf'[l].nextSeq = SeqAfter(n)
      /\ left = on \ {n} /\ \A s \in left : buf'[l].buffered[s] = b.buffered[s]
  BY <1>1, <1>2, PullKeeps
<1>4. /\ b.initialized
      /\ PullStatus(b, overdue) = "ok" => n \in on
      /\ PullStatus(b, overdue) # "ok" => n \notin on
  BY <1>1 DEF PullStatus
<1>5. /\ \A s \in on : 0 <= Dist(l, s) /\ Dist(l, s) < Ahead(l) /\ Dist(l, s) \in Int
      /\ \A s \in left : Dist(l, s)' = Dist(l, s) - 1 /\ 0 < Dist(l, s)
      /\ Dist(l, n) = 0
  <2>0. HalfRange \in Nat \ {0}
    BY HalfRangeAssumption
  <2>1. ASSUME NEW s \in on PROVE 0 <= Dist(l, s) /\ Dist(l, s) < Ahead(l) /\ Dist(l, s) \in Int
    <3>1. s \in SeqNum
      BY <1>2
    <3>2. Dist(l, s) \in Int
      BY <1>2, <3>1, Circle DEF Dist
    <3> QED BY <3>2 DEF LegInv, InStep
  <2>2. ASSUME NEW s \in left PROVE Dist(l, s)' = Dist(l, s) - 1 /\ 0 < Dist(l, s)
    <3>1. s \in SeqNum /\ s \in on /\ s # n
      BY <1>2, <1>3
    <3>2. SeqDelta(s, n) >= 0 /\ SeqDelta(s, n) \in Int
      BY <2>1, <3>1 DEF Dist
    <3>3. Dist(l, s)' = Dist(l, s) - 1
      BY <1>2, <1>3, <3>1, <3>2, Nearer DEF Dist
    <3>4. \/ SeqDelta(s, n) = s - n
          \/ SeqDelta(s, n) = s - n + 2 * HalfRange
          \/ SeqDelta(s, n) = s - n - 2 * HalfRange
      BY <1>2, <3>1, Circle
    <3>5. SeqDelta(s, n) # 0
      BY <1>2, <2>0, <3>1, <3>4 DEF SeqNum
    <3> QED BY <3>2, <3>3, <3>5 DEF Dist
  <2>3. Dist(l, n) = 0
    <3> HIDE DEF n
    <3>1. SeqDelta(n, n) = 0
      <4>1. /\ SeqDelta(n, n) \in -HalfRange .. (HalfRange - 1)
            /\ \/ SeqDelta(n, n) = n - n
               \/ SeqDelta(n, n) = n - n + 2 * HalfRange
               \/ SeqDelta(n, n) = n - n - 2 * HalfRange
        BY <1>2, Circle
      <4> QED BY <1>2, <2>0, <4>1 DEF SeqNum
    <3> QED BY <3>1 DEF Dist, n
  <2> QED BY <2>1, <2>2, <2>3
<1>6. \A i \in DOMAIN heard'[l] :
        \/ i \in DOMAIN heard[l] /\ heard'[l][i] = heard[l][i]
        \/ /\ n \in on /\ heard'[l][i] = b.buffered[n] /\ i \notin DOMAIN heard[l]
           /\ \A j \in DOMAIN heard'[l] : j <= i
  BY <1>1, <1>2, <1>4
<1>7. \A i \in DOMAIN heard[l] : i \in DOMAIN heard'[l] /\ heard'[l][i] = heard[l][i]
  BY <1>1, <1>2
<1>8. n \in on => \E i \in DOMAIN heard'[l] : heard'[l][i] = b.buffered[n]
  <2> SUFFICES ASSUME n \in on PROVE \E i \in DOMAIN heard'[l] : heard'[l][i] = b.buffered[n]
    OBVIOUS
  <2>1. heard'[l] = Append(heard[l], b.buffered[n]) /\ b.buffered[n] \in Payload
    BY <1>1, <1>2, <1>4 DEF Buffers
  <2>2. /\ Len(heard[l]) + 1 \in DOMAIN heard'[l]
        /\ heard'[l][Len(heard[l]) + 1] = b.buffered[n]
    BY <1>2, <2>1
  <2> QED BY <2>2
<1> HIDE DEF b, on, left, n
<1>9. /\ Cuts(l)' = Cuts(l)
      /\ \A q : Within(l, q)' = Within(l, q)
      /\ \A q : WellCut(l, q)' = WellCut(l, q)
  BY <1>1 DEF Cuts, Within, WellCut
<1>10. /\ \A i, j \in DOMAIN heard[l] : i < j => Precedes(heard[l][i], heard[l][j])
       /\ \A i \in DOMAIN heard[l] : Within(l, heard[l][i]) /\ WellCut(l, heard[l][i])
       /\ \A s \in on : Within(l, b.buffered[s]) /\ WellCut(l, b.buffered[s])
       /\ \A i \in DOMAIN todo[l] : Within(l, todo[l][i]) /\ WellCut(l, todo[l][i])
       /\ \A i \in DOMAIN heard[l], s \in on : Precedes(heard[l][i], b.buffered[s])
       /\ \A i \in DOMAIN heard[l], j \in DOMAIN todo[l] : Precedes(heard[l][i], todo[l][j])
       /\ \A s, t \in on : Dist(l, s) < Dist(l, t) => Precedes(b.buffered[s], b.buffered[t])
       /\ \A s \in on, j \in DOMAIN todo[l] : Precedes(b.buffered[s], todo[l][j])
       /\ \A i, j \in DOMAIN todo[l] : i < j => Precedes(todo[l][i], todo[l][j])
       /\ carry[l] <= got[l]
  BY DEF LegInv, InOrder, AllWellCut, b, on
<1>11. \A s \in left : s \in on /\ buf'[l].buffered[s] = b.buffered[s]
  BY <1>3
<1>12. InStep(l)'
  <2>1. seq[l] \in SeqNum /\ SeqAfter(n) \in SeqNum
        /\ (SeqAfter(n) = n + 1 \/ SeqAfter(n) = n + 1 - 2 * HalfRange)
    BY <1>2, After DEF LegTyped
  <2>2. Ahead(l) \in Nat \ {0} /\ Ahead(l)' = Ahead(l) - 1
    BY <1>1 DEF Ahead, LegTyped
  <2>3. seq[l] = n + Ahead(l) \/ seq[l] = n + Ahead(l) - 2 * HalfRange
    BY DEF LegInv, InStep, b, n
  <2>4. Ahead(l) + Len(todo[l]) + (IF carry[l] = 0 THEN 0 ELSE 1) <= HalfRange
    BY DEF LegInv, InStep
  <2>5. Ahead(l)' + Len(todo'[l]) + (IF carry'[l] = 0 THEN 0 ELSE 1) <= HalfRange
    <3> DEFINE k == Len(todo[l])
               one == IF carry[l] = 0 THEN 0 ELSE 1
    <3>1. k \in Nat /\ one \in 0..1 /\ Ahead(l) + k + one <= HalfRange
      BY <2>4 DEF LegTyped
    <3>2. Len(todo'[l]) = k /\ (IF carry'[l] = 0 THEN 0 ELSE 1) = one
      BY <1>1
    <3> HIDE DEF k, one
    <3>3. (Ahead(l) - 1) + k + one <= HalfRange
      BY <2>2, <3>1, HalfRangeAssumption
    <3> QED BY <2>2, <3>2, <3>3
  <2>6. \/ seq'[l] = SeqAfter(n) + (Ahead(l) - 1)
        \/ seq'[l] = SeqAfter(n) + (Ahead(l) - 1) - 2 * HalfRange
    <3>1. seq'[l] = seq[l]
      BY <1>1
    <3> DEFINE ahead == Ahead(l)
               next == SeqAfter(n)
               w == seq[l]
    <3>2. /\ ahead \in Nat \ {0} /\ HalfRange \in Nat \ {0}
          /\ n \in 0..(2 * HalfRange - 1) /\ next \in 0..(2 * HalfRange - 1)
          /\ w \in 0..(2 * HalfRange - 1)
          /\ next = n + 1 \/ next = n + 1 - 2 * HalfRange
          /\ w = n + ahead \/ w = n + ahead - 2 * HalfRange
      BY <1>2, <2>1, <2>2, <2>3, HalfRangeAssumption DEF SeqNum
    <3> HIDE DEF ahead, next, w
    <3>3. w = next + (ahead - 1) \/ w = next + (ahead - 1) - 2 * HalfRange
      BY <3>2
    <3> QED BY <3>1, <3>3 DEF ahead, next, w
  <2>7. \A s \in left : 0 <= Dist(l, s)' /\ Dist(l, s)' < Ahead(l)'
    BY <1>5, <1>11, <2>2
  <2> QED BY <1>1, <1>3, <1>4, <2>2, <2>5, <2>6, <2>7 DEF LegInv, InStep, left
<1>13. InOrder(l)'
  <2>1. \A s \in left : /\ Within(l, buf'[l].buffered[s])
                        /\ \A j \in DOMAIN todo[l] : Precedes(buf'[l].buffered[s], todo[l][j])
                        /\ \A i \in DOMAIN heard'[l] : Precedes(heard'[l][i], buf'[l].buffered[s])
    <3> SUFFICES ASSUME NEW s \in left
                 PROVE  \A i \in DOMAIN heard'[l] : Precedes(heard'[l][i], buf'[l].buffered[s])
      BY <1>10, <1>11
    <3>1. n \in on => Precedes(b.buffered[n], b.buffered[s])
      BY <1>5, <1>10, <1>11
    <3> QED BY <1>6, <1>10, <1>11, <3>1
  <2>2. \A i \in DOMAIN heard'[l] : /\ Within(l, heard'[l][i])
                                    /\ \A j \in DOMAIN todo[l] : Precedes(heard'[l][i], todo[l][j])
    BY <1>6, <1>10
  <2>3. \A i, j \in DOMAIN heard'[l] : i < j => Precedes(heard'[l][i], heard'[l][j])
    <3> SUFFICES ASSUME NEW i \in DOMAIN heard'[l], NEW j \in DOMAIN heard'[l], i < j
                 PROVE  Precedes(heard'[l][i], heard'[l][j])
      OBVIOUS
    <3>1. i \in Nat /\ j \in Nat
      BY <1>1, <1>2
    <3>2. i \in DOMAIN heard[l] /\ heard'[l][i] = heard[l][i]
      BY <1>6, <3>1
    <3> QED BY <1>6, <1>10, <3>2
  <2>4. \A s, t \in left : Dist(l, s)' < Dist(l, t)' =>
           Precedes(buf'[l].buffered[s], buf'[l].buffered[t])
    <3> SUFFICES ASSUME NEW s \in left, NEW t \in left, Dist(l, s)' < Dist(l, t)'
                 PROVE  Precedes(buf'[l].buffered[s], buf'[l].buffered[t])
      OBVIOUS
    <3>1. Dist(l, s) < Dist(l, t)
      BY <1>5, <1>11
    <3> QED BY <1>10, <1>11, <3>1
  <2>5. todo'[l] = todo[l] /\ carry'[l] = carry[l] /\ got'[l] = got[l]
    BY <1>1
  <2>6. /\ \A i \in DOMAIN heard'[l] : Within(l, heard[l][i])'
        /\ \A s \in left : Within(l, buf[l].buffered[s])'
        /\ \A i \in DOMAIN todo'[l] : Within(l, todo[l][i])'
    BY <1>9, <1>10, <2>1, <2>2, <2>5 DEF Within
  <2> QED BY <1>10, <2>1, <2>2, <2>3, <2>4, <2>5, <2>6 DEF InOrder, Precedes, left
<1>14. DroppedApart(l)'
  <2> SUFFICES ASSUME NEW q \in dropped[l]
               PROVE  /\ Within(l, q)
                      /\ \A i \in DOMAIN heard'[l] : Apart(q, heard'[l][i])
                      /\ \A s \in left : Apart(q, buf'[l].buffered[s])
                      /\ \A i \in DOMAIN todo[l] : Apart(q, todo[l][i])
                      /\ \A r \in dropped[l] : q # r => Apart(q, r)
    BY <1>1, <1>9 DEF DroppedApart, Apart, Precedes, left
  <2>1. /\ Within(l, q)
        /\ \A i \in DOMAIN heard[l] : Apart(q, heard[l][i])
        /\ \A s \in on : Apart(q, b.buffered[s])
        /\ \A i \in DOMAIN todo[l] : Apart(q, todo[l][i])
        /\ \A r \in dropped[l] : q # r => Apart(q, r)
    BY DEF LegInv, DroppedApart, on, b
  <2> QED BY <1>6, <1>11, <2>1
<1>15. Covered(l)'
  <2> SUFFICES ASSUME NEW u \in 1..Cuts(l)
               PROVE  \/ \E i \in DOMAIN heard'[l] : Has(heard'[l][i], u)
                      \/ \E s \in left : Has(buf'[l].buffered[s], u)
                      \/ \E i \in DOMAIN todo[l] : Has(todo[l][i], u)
                      \/ \E q \in dropped[l] : Has(q, u)
    BY <1>1, <1>9 DEF Covered, Has, left
  <2>1. \/ \E i \in DOMAIN heard[l] : Has(heard[l][i], u)
        \/ \E s \in on : Has(b.buffered[s], u)
        \/ \E i \in DOMAIN todo[l] : Has(todo[l][i], u)
        \/ \E q \in dropped[l] : Has(q, u)
    BY DEF LegInv, Covered, on, b
  <2>2. CASE \E s \in on : Has(b.buffered[s], u)
    <3>1. PICK s \in on : Has(b.buffered[s], u)
      BY <2>2
    <3>2. CASE s = n
      BY <1>8, <3>1, <3>2
    <3>3. CASE s # n
      BY <1>3, <3>1, <3>3
    <3> QED BY <3>2, <3>3
  <2>3. CASE \E i \in DOMAIN heard[l] : Has(heard[l][i], u)
    BY <1>7, <2>3
  <2> QED BY <2>1, <2>2, <2>3
<1>16. AllWellCut(l)'
  <2>1. \A i \in DOMAIN heard'[l] : WellCut(l, heard'[l][i])
    BY <1>6, <1>10
  <2>2. \A s \in left : WellCut(l, buf'[l].buffered[s])
    BY <1>10, <1>11
  <2>3. \A q : WellCut(l, q) => (/\ (q.last - q.first + 1) % Frame # 0 =>
                                      q.last \in ends'[l] \/ (inClosed'[l] /\ q.last = got'[l])
                                 /\ \A e \in ends'[l] : ~(q.first <= e /\ e < q.last))
    BY <1>1 DEF WellCut
  <2>4. /\ \A q \in dropped'[l] : WellCut(l, q)
        /\ \A e \in ends'[l] : e <= Cuts(l)'
    BY <1>1, <1>9 DEF LegInv, AllWellCut
  <2> QED BY <1>1, <1>10, <2>1, <2>2, <2>3, <2>4 DEF AllWellCut, WellCut, left
<1> QED BY <1>12, <1>13, <1>14, <1>15, <1>16 DEF LegInv

\* Start begins a leg whose goroutines had not run.
LEMMA StartingKeeps ==
  ASSUME LegTyped, NEW l \in Leg, LegInv(l), Start
  PROVE  LegInv(l)'
<1>1. /\ UNCHANGED <<carry[l], got[l], todo[l], inClosed[l], seq[l], buf[l], pushed[l],
                     consumed[l], ends[l], dropped[l], heard[l]>>
      /\ feed[l] = "off" /\ feed'[l] = "select" /\ started'
  BY DEF Start, Launch, LegInv, InStep
<1>2. InStep(l)'
  <2>1. Ahead(l)' = Ahead(l)
    BY <1>1 DEF Ahead
  <2> QED BY <1>1, <2>1 DEF LegInv, InStep, Dist
<1>3. InOrder(l)'
  BY <1>1 DEF LegInv, InOrder, Within, Cuts, Precedes, Dist
<1>4. DroppedApart(l)'
  BY <1>1 DEF LegInv, DroppedApart, Within, Cuts
<1>5. Covered(l)'
  BY <1>1 DEF LegInv, Covered, Cuts
<1>6. AllWellCut(l)'
  BY <1>1 DEF LegInv, AllWellCut, WellCut, Cuts
<1> QED BY <1>2, <1>3, <1>4, <1>5, <1>6 DEF LegInv

\* Every step of the bridge keeps the invariant of both legs.
LEMMA SpeechKept == SpeechInv /\ [Next]_vars => SpeechInv'
<1> SUFFICES ASSUME SpeechInv, [Next]_vars PROVE SpeechInv'
  OBVIOUS
<1>1. LegTyped /\ \A l \in Leg : LegInv(l)
  BY DEF SpeechInv
<1>2. LegTyped'
  BY <1>1, SpeechTyped
<1>3. ASSUME NEW l \in Leg PROVE LegInv(l)'
  <2>1. CASE Start
    BY <1>1, <2>1, StartingKeeps
  <2>2. CASE UNCHANGED <<started, feedVars, buf, pushed, dropped, consumed, heard>>
    BY <1>1, <2>2, LegAlone DEF Speech, feedVars
  <2>3. CASE Stop \/ UNCHANGED vars \/ \E m \in Leg : LegDelivers(m) \/ Bridge(m) \/ RunEnds(m)
    BY <2>2, <2>3 DEF Stop, StopFlags, StopLeg, StopCancels, StopReturns, LegDelivers, Bridge,
       BridgeTakes, BridgePushed, BridgeEnds, RunEnds, vars, lifeVars, runVars
  <2>4. ASSUME NEW m \in Leg, m # l,
               \/ \E n \in ChunkSizes, final \in BOOLEAN : FeedTakes(m, n, final)
               \/ FeedSeesClose(m) \/ Feed(m)
               \/ \E overdue \in BOOLEAN : RunPulls(m, overdue)
        PROVE  LegInv(l)'
    <3>1. CASE \E n \in ChunkSizes, final \in BOOLEAN : FeedTakes(m, n, final)
      <4>1. PICK n, final, cut, rest : Received(m, n, final, cut, rest)
        BY <3>1 DEF FeedTakes
      <4>2. UNCHANGED Speech(l) /\ UNCHANGED started
        BY <1>1, <2>4, <4>1 DEF Received, Speech, LegTyped, runVars, lifeVars
      <4> QED BY <1>1, <4>2, LegAlone
    <3>2. CASE FeedSeesClose(m)
      <4>1. UNCHANGED Speech(l) /\ UNCHANGED started
        BY <1>1, <2>4, <3>2 DEF FeedSeesClose, Speech, LegTyped, runVars, lifeVars
      <4> QED BY <1>1, <4>1, LegAlone
    <3>3. CASE FeedPushes(m)
      <4>1. UNCHANGED Speech(l) /\ UNCHANGED started
        BY <1>1, <2>4, <3>3 DEF FeedPushes, Speech, LegTyped, runVars, lifeVars
      <4> QED BY <1>1, <4>1, LegAlone
    <3>4. CASE FeedCounts(m) \/ FeedEnds(m)
      <4>1. UNCHANGED Speech(l) /\ UNCHANGED started
        BY <1>1, <2>4, <3>4 DEF FeedCounts, FeedEnds, Speech, LegTyped, runVars, lifeVars
      <4> QED BY <1>1, <4>1, LegAlone
    <3>5. CASE \E overdue \in BOOLEAN : RunPulls(m, overdue)
      <4>1. UNCHANGED Speech(l) /\ UNCHANGED started
        BY <1>1, <2>4, <3>5 DEF RunPulls, Resolves, Speech, LegTyped, feedVars, lifeVars
      <4> QED BY <1>1, <4>1, LegAlone
    <3> QED BY <2>4, <3>1, <3>2, <3>3, <3>4, <3>5 DEF Feed
  <2>5. ASSUME NEW n \in ChunkSizes, NEW final \in BOOLEAN, FeedTakes(l, n, final)
        PROVE  LegInv(l)'
    BY <1>1, <1>2, <2>5, ReceivingKeeps
  <2>6. CASE FeedSeesClose(l)
    BY <1>1, <1>2, <2>6, ClosingKeeps
  <2>7. CASE Feed(l)
    BY <1>1, <1>2, <2>7, PushingKeeps, CountingKeeps DEF Feed
  <2>8. ASSUME NEW overdue \in BOOLEAN, RunPulls(l, overdue) PROVE LegInv(l)'
    BY <1>1, <2>8, PullingKeeps
  <2> QED BY <2>1, <2>3, <2>4, <2>5, <2>6, <2>7, <2>8 DEF Next, Run
<1> QED BY <1>2, <1>3 DEF SpeechInv

\* Before Start both legs are empty.
LEMMA SpeechInitially == Init => SpeechInv
<1> SUFFICES ASSUME Init PROVE SpeechInv
  OBVIOUS
<1>1. /\ started = FALSE /\ carry = [l \in Leg |-> 0] /\ got = [l \in Leg |-> 0]
      /\ todo = [l \in Leg |-> <<>>] /\ inClosed = [l \in Leg |-> FALSE]
      /\ feed = [l \in Leg |-> "off"] /\ seq = [l \in Leg |-> 0]
      /\ buf = [l \in Leg |-> EmptyBuffer] /\ pushed = [l \in Leg |-> 0]
      /\ consumed = [l \in Leg |-> 0] /\ ends = [l \in Leg |-> {}]
      /\ dropped = [l \in Leg |-> {}] /\ heard = [l \in Leg |-> <<>>]
  BY DEF Init
<1>2. 0 \in SeqNum /\ 0 \in 0..(Frame - 1) /\ HalfRange \in Nat \ {0}
  BY HalfRangeAssumption, FrameAssumption DEF SeqNum
<1>3. EmptyBuffer \in Buffers /\ DOMAIN EmptyBuffer.buffered = {} /\ EmptyBuffer.nextSeq = 0
      /\ EmptyBuffer.initialized = FALSE
  <2>1. [s \in {} |-> s] \in [{} -> Payload]
    OBVIOUS
  <2> QED BY <1>2, <2>1 DEF EmptyBuffer, Buffers
<1>4. LegTyped
  <2>1. Cardinality(DOMAIN EmptyBuffer.buffered) <= Capacity
    BY <1>3, FS_EmptySet, CapacityAssumption
  <2>2. <<>> \in Seq(Payload)
    OBVIOUS
  <2> QED BY <1>1, <1>2, <1>3, <2>1, <2>2 DEF LegTyped, FeedPc
<1>5. ASSUME NEW l \in Leg PROVE LegInv(l)
  <2>1. /\ carry[l] = 0 /\ got[l] = 0 /\ todo[l] = <<>> /\ inClosed[l] = FALSE /\ feed[l] = "off"
        /\ seq[l] = 0 /\ buf[l] = EmptyBuffer /\ pushed[l] = 0 /\ consumed[l] = 0
        /\ ends[l] = {} /\ dropped[l] = {} /\ heard[l] = <<>>
    BY <1>1
  <2>2. InStep(l)
    <3>1. Ahead(l) = 0
      BY <2>1 DEF Ahead
    <3>2. Len(todo[l]) = 0
      BY <2>1
    <3> QED BY <1>1, <1>2, <1>3, <2>1, <3>1, <3>2 DEF InStep
  <2>3. InOrder(l) /\ DroppedApart(l) /\ AllWellCut(l)
    BY <1>3, <2>1 DEF InOrder, DroppedApart, AllWellCut
  <2>4. Covered(l)
    BY <2>1 DEF Covered, Cuts
  <2> QED BY <2>2, <2>3, <2>4 DEF LegInv
<1> QED BY <1>4, <1>5 DEF SpeechInv

\* A unit of PCM has at most one place: two payloads that hold it are one payload in one
\* place.
LEMMA Apartness ==
  ASSUME LegTyped, NEW l \in Leg, LegInv(l), NEW u \in Int
  PROVE  /\ \A i, j \in DOMAIN heard[l] : Has(heard[l][i], u) /\ Has(heard[l][j], u) => i = j
         /\ \A i, j \in DOMAIN todo[l] : Has(todo[l][i], u) /\ Has(todo[l][j], u) => i = j
         /\ \A s, t \in DOMAIN buf[l].buffered :
               Has(buf[l].buffered[s], u) /\ Has(buf[l].buffered[t], u) => s = t
         /\ \A p, q \in dropped[l] : Has(p, u) /\ Has(q, u) => p = q
         /\ \A i \in DOMAIN heard[l], j \in DOMAIN todo[l] :
               ~(Has(heard[l][i], u) /\ Has(todo[l][j], u))
         /\ \A i \in DOMAIN heard[l], s \in DOMAIN buf[l].buffered :
               ~(Has(heard[l][i], u) /\ Has(buf[l].buffered[s], u))
         /\ \A i \in DOMAIN heard[l], p \in dropped[l] : ~(Has(heard[l][i], u) /\ Has(p, u))
         /\ \A s \in DOMAIN buf[l].buffered, j \in DOMAIN todo[l] :
               ~(Has(buf[l].buffered[s], u) /\ Has(todo[l][j], u))
         /\ \A s \in DOMAIN buf[l].buffered, p \in dropped[l] :
               ~(Has(buf[l].buffered[s], u) /\ Has(p, u))
         /\ \A p \in dropped[l], j \in DOMAIN todo[l] : ~(Has(p, u) /\ Has(todo[l][j], u))
<1>1. /\ heard[l] \in Seq(Payload) /\ todo[l] \in Seq(Payload) /\ buf[l] \in Buffers
      /\ dropped[l] \subseteq Payload
  BY DEF LegTyped
<1>2. /\ \A i \in DOMAIN heard[l] : heard[l][i] \in Payload /\ i \in Int
      /\ \A i \in DOMAIN todo[l] : todo[l][i] \in Payload /\ i \in Int
      /\ \A s \in DOMAIN buf[l].buffered : buf[l].buffered[s] \in Payload /\ s \in SeqNum
      /\ buf[l].nextSeq \in SeqNum
  BY <1>1 DEF Buffers
<1>3. ASSUME NEW p \in Payload, NEW q \in Payload, Apart(p, q) PROVE ~(Has(p, u) /\ Has(q, u))
  BY <1>3 DEF Payload, Apart, Precedes, Has
<1>4. /\ \A i, j \in DOMAIN heard[l] : i < j => Precedes(heard[l][i], heard[l][j])
      /\ \A i, j \in DOMAIN todo[l] : i < j => Precedes(todo[l][i], todo[l][j])
      /\ \A s, t \in DOMAIN buf[l].buffered :
            Dist(l, s) < Dist(l, t) => Precedes(buf[l].buffered[s], buf[l].buffered[t])
      /\ \A i \in DOMAIN heard[l], j \in DOMAIN todo[l] : Precedes(heard[l][i], todo[l][j])
      /\ \A i \in DOMAIN heard[l], s \in DOMAIN buf[l].buffered :
            Precedes(heard[l][i], buf[l].buffered[s])
      /\ \A s \in DOMAIN buf[l].buffered, j \in DOMAIN todo[l] :
            Precedes(buf[l].buffered[s], todo[l][j])
  BY DEF LegInv, InOrder
<1>5. /\ \A p \in dropped[l], i \in DOMAIN heard[l] : Apart(p, heard[l][i])
      /\ \A p \in dropped[l], s \in DOMAIN buf[l].buffered : Apart(p, buf[l].buffered[s])
      /\ \A p \in dropped[l], i \in DOMAIN todo[l] : Apart(p, todo[l][i])
      /\ \A p, q \in dropped[l] : p # q => Apart(p, q)
  BY DEF LegInv, DroppedApart
<1>6. \A i, j \in DOMAIN heard[l] : Has(heard[l][i], u) /\ Has(heard[l][j], u) => i = j
  BY <1>2, <1>3, <1>4 DEF Apart
<1>7. \A i, j \in DOMAIN todo[l] : Has(todo[l][i], u) /\ Has(todo[l][j], u) => i = j
  BY <1>2, <1>3, <1>4 DEF Apart
<1>8. ASSUME NEW s \in DOMAIN buf[l].buffered, NEW t \in DOMAIN buf[l].buffered,
             Has(buf[l].buffered[s], u), Has(buf[l].buffered[t], u)
      PROVE  s = t
  <2> DEFINE n == buf[l].nextSeq
  <2>1. s \in SeqNum /\ t \in SeqNum /\ n \in SeqNum
    BY <1>2
  <2>2. ~(Dist(l, s) < Dist(l, t)) /\ ~(Dist(l, t) < Dist(l, s))
    BY <1>2, <1>3, <1>4, <1>8 DEF Apart
  <2>3. /\ SeqDelta(s, n) \in -HalfRange .. (HalfRange - 1)
        /\ \/ SeqDelta(s, n) = s - n
           \/ SeqDelta(s, n) = s - n + 2 * HalfRange
           \/ SeqDelta(s, n) = s - n - 2 * HalfRange
    BY <2>1, Circle
  <2>4. /\ SeqDelta(t, n) \in -HalfRange .. (HalfRange - 1)
        /\ \/ SeqDelta(t, n) = t - n
           \/ SeqDelta(t, n) = t - n + 2 * HalfRange
           \/ SeqDelta(t, n) = t - n - 2 * HalfRange
    BY <2>1, Circle
  <2>5. Dist(l, s) = SeqDelta(s, n) /\ Dist(l, t) = SeqDelta(t, n)
    BY DEF Dist
  <2> HIDE DEF n
  <2>6. HalfRange \in Nat \ {0}
    BY HalfRangeAssumption
  <2>7. SeqDelta(s, n) = SeqDelta(t, n)
    BY <2>2, <2>3, <2>4, <2>5, <2>6
  <2> QED BY <2>1, <2>3, <2>4, <2>6, <2>7 DEF SeqNum
<1>9. \A p, q \in dropped[l] : Has(p, u) /\ Has(q, u) => p = q
  BY <1>1, <1>3, <1>5
<1>10. /\ \A i \in DOMAIN heard[l], j \in DOMAIN todo[l] :
             ~(Has(heard[l][i], u) /\ Has(todo[l][j], u))
       /\ \A i \in DOMAIN heard[l], s \in DOMAIN buf[l].buffered :
             ~(Has(heard[l][i], u) /\ Has(buf[l].buffered[s], u))
       /\ \A s \in DOMAIN buf[l].buffered, j \in DOMAIN todo[l] :
             ~(Has(buf[l].buffered[s], u) /\ Has(todo[l][j], u))
  BY <1>2, <1>3, <1>4 DEF Apart
<1>11. /\ \A i \in DOMAIN heard[l], p \in dropped[l] : ~(Has(heard[l][i], u) /\ Has(p, u))
       /\ \A s \in DOMAIN buf[l].buffered, p \in dropped[l] :
             ~(Has(buf[l].buffered[s], u) /\ Has(p, u))
       /\ \A p \in dropped[l], j \in DOMAIN todo[l] : ~(Has(p, u) /\ Has(todo[l][j], u))
  BY <1>1, <1>2, <1>3, <1>5
<1> QED BY <1>6, <1>7, <1>8, <1>9, <1>10, <1>11

\* A set with at most one element has cardinality 0 or 1.
LEMMA OneOfFew ==
  ASSUME NEW S, \A x, y \in S : x = y
  PROVE  /\ S = {} => Cardinality(S) = 0
         /\ S # {} => Cardinality(S) = 1
<1>1. S # {} => \E x : S = {x}
  OBVIOUS
<1> QED BY <1>1, FS_EmptySet, FS_Singleton

\* EverySampleOnce counts the places of a unit; there is exactly one.
LEMMA OnceEach == SpeechInv => EverySampleOnce
<1> SUFFICES ASSUME SpeechInv, NEW l \in Leg
             PROVE  /\ \A i, j \in DOMAIN heard[l] : i < j => heard[l][i].last < heard[l][j].first
                    /\ \A u \in 1..got[l] :
                         Cardinality({i \in DOMAIN todo[l] : Has(todo[l][i], u)})
                         + Cardinality({i \in DOMAIN heard[l] : Has(heard[l][i], u)})
                         + Cardinality({s \in DOMAIN buf[l].buffered : Has(buf[l].buffered[s], u)})
                         + Cardinality({p \in dropped[l] : Has(p, u)})
                         + (IF u \in Uncut(l) THEN 1 ELSE 0) = 1
  BY DEF EverySampleOnce, Has
<1>1. LegTyped /\ LegInv(l)
  BY DEF SpeechInv
<1>2. \A i, j \in DOMAIN heard[l] : i < j => heard[l][i].last < heard[l][j].first
  BY <1>1 DEF LegInv, InOrder, Precedes
<1>3. ASSUME NEW u \in 1..got[l]
      PROVE  Cardinality({i \in DOMAIN todo[l] : Has(todo[l][i], u)})
             + Cardinality({i \in DOMAIN heard[l] : Has(heard[l][i], u)})
             + Cardinality({s \in DOMAIN buf[l].buffered : Has(buf[l].buffered[s], u)})
             + Cardinality({p \in dropped[l] : Has(p, u)})
             + (IF u \in Uncut(l) THEN 1 ELSE 0) = 1
  <2> DEFINE T == {i \in DOMAIN todo[l] : Has(todo[l][i], u)}
             H == {i \in DOMAIN heard[l] : Has(heard[l][i], u)}
             B == {s \in DOMAIN buf[l].buffered : Has(buf[l].buffered[s], u)}
             D == {p \in dropped[l] : Has(p, u)}
  <2>0. u \in Int /\ Cuts(l) \in Int /\ Cuts(l) = got[l] - carry[l] /\ got[l] \in Int
    BY <1>1 DEF LegTyped, Cuts
  <2>1. /\ \A x, y \in T : x = y
        /\ \A x, y \in H : x = y
        /\ \A x, y \in B : x = y
        /\ \A x, y \in D : x = y
    BY <1>1, <2>0, Apartness
  <2>2. /\ T # {} => H = {} /\ B = {} /\ D = {}
        /\ H # {} => B = {} /\ D = {}
        /\ B # {} => D = {}
    BY <1>1, <2>0, Apartness
  <2>3. u <= Cuts(l) => T # {} \/ H # {} \/ B # {} \/ D # {}
    <3> SUFFICES ASSUME u <= Cuts(l) PROVE T # {} \/ H # {} \/ B # {} \/ D # {}
      OBVIOUS
    <3>1. u \in 1..Cuts(l)
      BY <2>0
    <3>2. \/ \E i \in DOMAIN heard[l] : Has(heard[l][i], u)
          \/ \E s \in DOMAIN buf[l].buffered : Has(buf[l].buffered[s], u)
          \/ \E i \in DOMAIN todo[l] : Has(todo[l][i], u)
          \/ \E p \in dropped[l] : Has(p, u)
      BY <1>1, <3>1 DEF LegInv, Covered
    <3> QED BY <3>2
  <2>4. ~(u <= Cuts(l)) => T = {} /\ H = {} /\ B = {} /\ D = {}
    <3>1. /\ \A i \in DOMAIN heard[l] : Within(l, heard[l][i]) /\ heard[l][i] \in Payload
          /\ \A s \in DOMAIN buf[l].buffered :
                Within(l, buf[l].buffered[s]) /\ buf[l].buffered[s] \in Payload
          /\ \A i \in DOMAIN todo[l] : Within(l, todo[l][i]) /\ todo[l][i] \in Payload
          /\ \A p \in dropped[l] : Within(l, p) /\ p \in Payload
      BY <1>1 DEF LegInv, InOrder, DroppedApart, LegTyped, Buffers
    <3>2. ASSUME NEW p \in Payload, Within(l, p), Has(p, u) PROVE u <= Cuts(l)
      BY <2>0, <3>2 DEF Within, Has, Payload
    <3> QED BY <3>1, <3>2
  <2>5. u \in Uncut(l) <=> ~(u <= Cuts(l))
    <3>1. u <= got[l] /\ got[l] - carry[l] + 1 \in Int
      BY <1>1 DEF LegTyped
    <3> QED BY <2>0, <3>1 DEF Uncut
  <2>6. /\ T = {} => Cardinality(T) = 0
        /\ T # {} => Cardinality(T) = 1
        /\ H = {} => Cardinality(H) = 0
        /\ H # {} => Cardinality(H) = 1
        /\ B = {} => Cardinality(B) = 0
        /\ B # {} => Cardinality(B) = 1
        /\ D = {} => Cardinality(D) = 0
        /\ D # {} => Cardinality(D) = 1
    <3> HIDE DEF T, H, B, D
    <3> QED BY <2>1, OneOfFew
  <2> HIDE DEF T, H, B, D
  <2>7. ASSUME u <= Cuts(l)
        PROVE  Cardinality(T) + Cardinality(H) + Cardinality(B) + Cardinality(D)
               + (IF u \in Uncut(l) THEN 1 ELSE 0) = 1
    <3>1. (IF u \in Uncut(l) THEN 1 ELSE 0) = 0
      BY <2>5, <2>7
    <3>2. \/ T # {} /\ H = {} /\ B = {} /\ D = {}
          \/ T = {} /\ H # {} /\ B = {} /\ D = {}
          \/ T = {} /\ H = {} /\ B # {} /\ D = {}
          \/ T = {} /\ H = {} /\ B = {} /\ D # {}
      BY <2>2, <2>3, <2>7
    <3>3. Cardinality(T) + Cardinality(H) + Cardinality(B) + Cardinality(D) = 1
      BY <2>6, <3>2
    <3> QED BY <3>1, <3>3
  <2>8. ASSUME ~(u <= Cuts(l))
        PROVE  Cardinality(T) + Cardinality(H) + Cardinality(B) + Cardinality(D)
               + (IF u \in Uncut(l) THEN 1 ELSE 0) = 1
    <3>1. (IF u \in Uncut(l) THEN 1 ELSE 0) = 1
      BY <2>5, <2>8
    <3>2. Cardinality(T) + Cardinality(H) + Cardinality(B) + Cardinality(D) = 0
      BY <2>4, <2>6, <2>8
    <3> QED BY <3>1, <3>2
  <2>9. Cardinality(T) + Cardinality(H) + Cardinality(B) + Cardinality(D)
        + (IF u \in Uncut(l) THEN 1 ELSE 0) = 1
    BY <2>7, <2>8
  <2> QED BY <2>9 DEF T, H, B, D
<1> QED BY <1>2, <1>3

\* What PaddedOnlyAtEnd says of a payload is said of it in each of its places.
LEMMA PaddedOnce == SpeechInv => PaddedOnlyAtEnd
<1> SUFFICES ASSUME SpeechInv, NEW l \in Leg, NEW p \in Resolvable(l)
             PROVE  /\ (p.last - p.first + 1) % Frame # 0 =>
                           p.last \in ends[l] \/ (inClosed[l] /\ p.last = got[l])
                    /\ \A e \in ends[l] : ~(p.first <= e /\ e < p.last)
  BY DEF PaddedOnlyAtEnd
<1>1. AllWellCut(l)
  BY DEF SpeechInv, LegInv
<1>2. WellCut(l, p)
  BY <1>1 DEF AllWellCut, Resolvable, Range
<1> QED BY <1>2 DEF WellCut

\* No PCM synthesized for a leg is lost, doubled or played out of its order between
\* feedTTSPacer and the leg, except what a full pacing buffer turns away, and nothing
\* comes too late for its slot: for any frame size, sizes of chunks, capacity and width
\* of the sequence number, across its wrap, with a backlog below half a turn.
THEOREM SamplesOnce == Spec => []EverySampleOnce
BY SpeechInitially, SpeechKept, OnceEach, PTL DEF Spec

\* feedTTSPacer hands InjectBotAudio a partial frame only at the end of an utterance or
\* of the stream, and joins no two utterances in a payload.
THEOREM PaddedAtEnd == Spec => []PaddedOnlyAtEnd
BY SpeechInitially, SpeechKept, PaddedOnce, PTL DEF Spec

-----------------------------------------------------------------------------
(* The types.                                                               *)

\* What TypeOK says beyond PlacesTyped and LegTyped.
RestTyped ==
    /\ started \in BOOLEAN /\ sawStarted \in BOOLEAN /\ cancelled \in BOOLEAN
    /\ leg \in [Leg -> {"built", "running", "stopped"}]
    /\ clean \in [Leg -> Nat] /\ frames \in [Leg -> Nat]
    /\ chunks \in [Leg -> Nat] /\ lost \in [Leg -> Nat]

\* Every step keeps the types of the flags, of the legs and of their channels.
LEMMA RestKept == RestTyped /\ [Next]_vars => RestTyped'
<1> SUFFICES ASSUME RestTyped, [Next]_vars PROVE RestTyped'
  OBVIOUS
<1> USE DEF RestTyped
<1>1. CASE Start
  BY <1>1 DEF Start, Launch
<1>2. CASE Stop
  BY <1>2 DEF Stop, StopFlags, StopLeg, StopCancels, StopReturns, bridgeVars, feedVars, runVars
<1>3. ASSUME NEW l \in Leg, LegDelivers(l) \/ Bridge(l) PROVE RestTyped'
  BY <1>3 DEF LegDelivers, Bridge, BridgeTakes, BridgePushed, BridgeEnds, lifeVars, feedVars,
     runVars
<1>4. ASSUME NEW l \in Leg, NEW n \in ChunkSizes, NEW final \in BOOLEAN, FeedTakes(l, n, final)
      PROVE  RestTyped'
  <2>1. PICK cut, rest : Received(l, n, final, cut, rest)
    BY <1>4 DEF FeedTakes
  <2> QED BY <2>1 DEF Received, lifeVars, bridgeVars, runVars
<1>5. ASSUME NEW l \in Leg, FeedSeesClose(l) \/ Feed(l) PROVE RestTyped'
  BY <1>5 DEF FeedSeesClose, Feed, FeedPushes, FeedCounts, FeedEnds, lifeVars, bridgeVars, runVars
<1>6. ASSUME NEW l \in Leg, Run(l) PROVE RestTyped'
  BY <1>6 DEF Run, RunPulls, Resolves, RunEnds, lifeVars, bridgeVars, feedVars
<1>7. CASE UNCHANGED vars
  BY <1>7 DEF vars, lifeVars, bridgeVars, feedVars, runVars
<1> QED BY <1>1, <1>2, <1>3, <1>4, <1>5, <1>6, <1>7 DEF Next

\* The types at the start.
LEMMA TypedInitially == Init => PlacesTyped /\ RestTyped
<1> SUFFICES ASSUME Init PROVE PlacesTyped /\ RestTyped
  OBVIOUS
<1>1. /\ stopPc = "none" /\ stopErr = FALSE /\ started = FALSE /\ sawStarted = FALSE
      /\ cancelled = FALSE /\ leg = [l \in Leg |-> "built"] /\ clean = [l \in Leg |-> 0]
      /\ frames = [l \in Leg |-> 0] /\ chunks = [l \in Leg |-> 0] /\ lost = [l \in Leg |-> 0]
      /\ bridge = [l \in Leg |-> "off"] /\ feed = [l \in Leg |-> "off"]
      /\ run = [l \in Leg |-> "off"]
  BY DEF Init
<1>2. PlacesTyped
  BY <1>1 DEF PlacesTyped, StopPc, BridgePc, FeedPc, RunPc
<1>3. RestTyped
  BY <1>1 DEF RestTyped
<1> QED BY <1>2, <1>3

\* The three parts say all that TypeOK says.
LEMMA PartsOfTypeOK == PlacesTyped /\ RestTyped /\ LegTyped => TypeOK
<1> SUFFICES ASSUME PlacesTyped, RestTyped, LegTyped PROVE TypeOK
  OBVIOUS
<1>1. ASSUME NEW l \in Leg
      PROVE  /\ buf[l].initialized \in BOOLEAN /\ buf[l].nextSeq \in SeqNum
             /\ DOMAIN buf[l].buffered \subseteq SeqNum
             /\ Range(buf[l].buffered) \subseteq Payload
             /\ Cardinality(DOMAIN buf[l].buffered) <= Capacity
  BY DEF LegTyped, Buffers, Range
<1> QED BY <1>1 DEF PlacesTyped, RestTyped, LegTyped, TypeOK

\* The bridge keeps its types; among them, that the pacing buffer never holds more than
\* its capacity, whatever is pushed and whoever is evicted (jitter.go, Push).
THEOREM Typed == Spec => []TypeOK
BY TypedInitially, SpeechInitially, PlacesKept, RestKept, SpeechKept, PartsOfTypeOK, PTL
   DEF Spec, SpeechInv
=============================================================================
