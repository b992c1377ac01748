---------------------------- MODULE JitterBuffer ----------------------------
(* The fixed-delay jitter buffer of pkg/rtp/jitter.go, as operators on its   *)
(* value: every method holds the buffer's mutex from beginning to end.       *)
(*                                                                           *)
(* Sequence numbers wrap; the code's are 16 bits wide (HalfRange = 2^15).    *)
(* The clock is abstracted to Pull's comparison of now with the deadline of  *)
(* nextSeq, which the caller of Pull supplies.                               *)
EXTENDS Integers, FiniteSets, Functions

CONSTANTS
    HalfRange,     \* half the number of sequence numbers
    Capacity       \* Config.MaxPacketsBuffered

ASSUME HalfRangeAssumption == HalfRange \in Nat \ {0}
ASSUME CapacityAssumption == Capacity \in Nat \ {0}

SeqNum == 0..(2 * HalfRange - 1)
SeqAfter(s) == (s + 1) % (2 * HalfRange)

\* int16(a - b): the signed circular distance from b to a.
SeqDelta(a, b) ==
    LET d == (a - b) % (2 * HalfRange) IN IF d < HalfRange THEN d ELSE d - 2 * HalfRange

EmptyBuffer == [initialized |-> FALSE, nextSeq |-> 0, buffered |-> [s \in {} |-> s]]

\* The first Push sets nextSeq.
Primed(b, seq) ==
    IF b.initialized THEN b ELSE [b EXCEPT !.initialized = TRUE, !.nextSeq = seq]

\* The least imminent of the packets on hand.
Furthest(b) ==
    CHOOSE s \in DOMAIN b.buffered :
        \A t \in DOMAIN b.buffered : SeqDelta(t, b.nextSeq) <= SeqDelta(s, b.nextSeq)

IsFull(b) == Cardinality(DOMAIN b.buffered) >= Capacity

PushStatus(b, seq) ==
    LET p     == Primed(b, seq)
        ahead == SeqDelta(seq, p.nextSeq)
    IN  CASE ahead < 0 -> "late"
          [] ahead >= 0 /\ seq \in DOMAIN p.buffered -> "duplicate"
          [] /\ ahead >= 0 /\ seq \notin DOMAIN p.buffered /\ IsFull(p)
             /\ SeqDelta(Furthest(p), p.nextSeq) <= ahead -> "evicted"
          [] OTHER -> "accepted"

\* Mutant: nothing is evicted to make room.
PushKeepsAll(b, seq, payload) ==
    LET p == Primed(b, seq)
    IN  IF SeqDelta(seq, p.nextSeq) < 0 THEN p
        ELSE [p EXCEPT !.buffered =
                 [s \in DOMAIN @ \cup {seq} |-> IF s = seq THEN payload ELSE @[s]]]

\* A full buffer makes room for a more imminent packet.
Push(b, seq, payload) ==
    LET p    == Primed(b, seq)
        kept == IF IsFull(p) THEN DOMAIN p.buffered \ {Furthest(p)} ELSE DOMAIN p.buffered
    IN  IF PushStatus(b, seq) # "accepted" THEN p
        ELSE [p EXCEPT !.buffered =
                 [s \in kept \cup {seq} |-> IF s = seq THEN payload ELSE @[s]]]

PullStatus(b, overdue) ==
    CASE ~b.initialized -> "empty"
      [] b.initialized /\ b.nextSeq \in DOMAIN b.buffered -> "ok"
      [] b.initialized /\ b.nextSeq \notin DOMAIN b.buffered /\ overdue -> "lost"
      [] OTHER -> "waiting"

\* The buffer moves past a packet it gives out or declares lost.
Pull(b, overdue) ==
    IF PullStatus(b, overdue) \notin {"ok", "lost"} THEN b
    ELSE [b EXCEPT !.nextSeq = SeqAfter(@), !.buffered = Restrict(@, DOMAIN @ \ {b.nextSeq})]
=============================================================================
