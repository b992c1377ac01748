-------------------------------- MODULE Media --------------------------------
(***************************************************************************)
(* One seat of a WebRTC room (pkg/webrtcgw/peer.go, inbound_buffer.go) and  *)
(* the browsers that take it one after another.  Each has a goroutine that  *)
(* reads its microphone into a buffer and pushes the buffer into the        *)
(* session, one that writes the session's audio to it, and the exchange of  *)
(* the offer and of the ICE candidates.  Both goroutines watch the room's   *)
(* context, not the peer: the other seat may keep the room alive when this  *)
(* one empties (Rooms).                                                    *)
(*                                                                         *)
(* A packet is a number; a chunk is FramesPerChunk frames of 20 ms, and the *)
(* frames of all chunks are numbered on.                                   *)
(***************************************************************************)
EXTENDS Naturals, Sequences

CONSTANTS
  MaxPeers,         \* bound: browsers that take the seat
  Loads,            \* bounds: the packets of a microphone, the chunks of the
                    \* session, the candidates of a browser, in one behaviour
  Target,           \* targetBytes, in packets
  FramesPerChunk    \* samples a chunk is cut into

ASSUME MediaAssumption ==
  /\ MaxPeers \in Nat /\ Loads \subseteq [packets : Nat, chunks : Nat, candidates : Nat]
  /\ {Target, FramesPerChunk} \subseteq Nat \ {0}

Peers == 1 .. MaxPeers

VARIABLES
  load,       \* the bounds of this behaviour
  came,       \* browsers that have taken the seat
  sitting,    \* the one that sits there, 0 if none
  room,       \* the room: "open", "cancelled" (its context), "closed" (its session)
  mic,        \* where each inbound goroutine is: "none", "check" (the context),
              \* "read", "ended" with the track or "cancelled" with the context
  spoken,     \* packets each microphone has sent
  read,       \* packets read of them
  buffered,   \* inboundBuffer.buffered
  pushed,     \* what the session got of each microphone
  bridge,     \* where each outbound goroutine is
  frames,     \* frames the session has handed over, of all its chunks so far
  waiting,    \* the first frames of the chunks in the session's channel
  hand,       \* the frames a bridge still has to write of its chunk
  ears,       \* the frames each browser has got
  remote,     \* peer.remoteSet
  trickled,   \* candidates each browser has sent, TRUE the well-formed ones
  pending,    \* peer.pendingICE
  applied     \* candidates given to the PeerConnection

seatVars == <<load, came, sitting, room>>
inVars == <<mic, spoken, read, buffered, pushed>>
outVars == <<bridge, frames, waiting, hand, ears>>
iceVars == <<remote, trickled, pending, applied>>
mediaVars == <<seatVars, inVars, outVars, iceVars>>

Each(v) == [p \in Peers |-> v]

MediaInit ==
  /\ load \in Loads
  /\ came = 0 /\ sitting = 0 /\ room = "open"
  /\ mic = Each("none") /\ spoken = Each(0) /\ read = Each(0)
  /\ buffered = Each(<<>>) /\ pushed = Each(<<>>)
  /\ bridge = Each("none") /\ frames = 0 /\ waiting = <<>>
  /\ hand = Each(<<>>) /\ ears = Each(<<>>)
  /\ remote = Each(FALSE) /\ trickled = Each(<<>>)
  /\ pending = Each(<<>>) /\ applied = Each(<<>>)

-----------------------------------------------------------------------------
(* The seat.                                                               *)

\* Join: newPeer, and the two bridges.
Sits ==
  /\ sitting = 0 /\ room = "open" /\ came < MaxPeers
  /\ came' = came + 1 /\ sitting' = came'
  /\ bridge' = [bridge EXCEPT ![came'] = "wait"]
  /\ UNCHANGED <<load, room, inVars, frames, waiting, hand, ears, iceVars>>

\* p.close and leave; the room lives on in the other seat.
SitterLeaves ==
  /\ sitting # 0 /\ sitting' = 0
  /\ UNCHANGED <<load, came, room, inVars, outVars, iceVars>>

\* leave or expireIncomplete tears the room down: the context, the peer that
\* waits, the session.
TearsDown ==
  \/ /\ room = "open" /\ room' = "cancelled"
     /\ UNCHANGED <<load, came, sitting, inVars, outVars, iceVars>>
  \/ /\ room = "cancelled" /\ room' = "closed" /\ sitting' = 0
     /\ UNCHANGED <<load, came, inVars, outVars, iceVars>>

-----------------------------------------------------------------------------
(* The offer and the candidates, one handler.                              *)

\* addICECandidate.
Candidate(p) ==
  /\ sitting = p /\ Len(trickled[p]) < load.candidates
  /\ \E good \in BOOLEAN :
       /\ trickled' = [trickled EXCEPT ![p] = Append(@, good)]
       /\ IF ~remote[p]
          THEN /\ pending' = [pending EXCEPT ![p] = Append(@, good)] /\ UNCHANGED applied
          ELSE /\ applied' = [applied EXCEPT ![p] = IF good THEN Append(@, good) ELSE @]
               /\ UNCHANGED pending
  /\ UNCHANGED <<seatVars, inVars, outVars, remote>>

\* handleOffer: the pending candidates are applied up to the first bad one, which
\* ends it, and the rest is forgotten.  The track starts once the answer is out.
HandleOffer(p) ==
  /\ sitting = p
  /\ remote' = [remote EXCEPT ![p] = TRUE]
  /\ \E k \in 0 .. Len(pending[p]) :
       /\ \A i \in 1 .. k : pending[p][i]
       /\ k < Len(pending[p]) => ~pending[p][k + 1]
       /\ applied' = [applied EXCEPT ![p] = @ \o SubSeq(pending[p], 1, k)]
  /\ pending' = [pending EXCEPT ![p] = <<>>]
  /\ UNCHANGED <<seatVars, inVars, outVars, trickled>>

-----------------------------------------------------------------------------
(* startInboundBridge.                                                     *)

TrackStarts(p) ==
  /\ sitting = p /\ remote[p] /\ mic[p] = "none"
  /\ mic' = [mic EXCEPT ![p] = "check"]
  /\ UNCHANGED <<seatVars, spoken, read, buffered, pushed, outVars, iceVars>>

\* The browser's own doing: one 20 ms packet.
Speaks(p) ==
  /\ sitting = p /\ remote[p] /\ spoken[p] < load.packets
  /\ spoken' = [spoken EXCEPT ![p] = @ + 1]
  /\ UNCHANGED <<seatVars, mic, read, buffered, pushed, outVars, iceVars>>

\* The context is looked at between two reads; what is buffered then is gone.
ChecksContext(p) ==
  /\ mic[p] = "check"
  /\ mic' = [mic EXCEPT ![p] = IF room = "open" THEN "read" ELSE "cancelled"]
  /\ UNCHANGED <<seatVars, spoken, read, buffered, pushed, outVars, iceVars>>

\* inboundBuffer.flush; a closed session refuses the audio.
Flushed(p, buf) ==
  /\ pushed' = [pushed EXCEPT ![p] = IF room = "closed" THEN @ ELSE @ \o buf]
  /\ buffered' = [buffered EXCEPT ![p] = <<>>]

\* inboundBuffer.add.
ReadsPacket(p) ==
  LET buf == Append(buffered[p], read[p] + 1) IN
  /\ mic[p] = "read" /\ read[p] < spoken[p]
  /\ read' = [read EXCEPT ![p] = @ + 1]
  /\ IF Len(buf) >= Target
     THEN Flushed(p, buf)
     ELSE buffered' = [buffered EXCEPT ![p] = buf] /\ UNCHANGED pushed
  /\ mic' = [mic EXCEPT ![p] = "check"]
  /\ UNCHANGED <<seatVars, spoken, outVars, iceVars>>

\* Mutant: the track's end is taken for the end of its audio.
ReadFailsUnflushed(p) ==
  /\ mic[p] = "read" /\ sitting # p
  /\ mic' = [mic EXCEPT ![p] = "ended"]
  /\ UNCHANGED <<seatVars, spoken, read, buffered, pushed, outVars, iceVars>>

\* The track ended with the connection, maybe before all packets were read.
ReadFails(p) ==
  /\ mic[p] = "read" /\ sitting # p
  /\ Flushed(p, buffered[p])
  /\ mic' = [mic EXCEPT ![p] = "ended"]
  /\ UNCHANGED <<seatVars, spoken, read, outVars, iceVars>>

-----------------------------------------------------------------------------
(* startOutboundBridge.                                                    *)

\* The leg of the session that this seat hears.
SessionSends ==
  /\ room # "closed" /\ frames < FramesPerChunk * load.chunks
  /\ waiting' = Append(waiting, frames + 1)
  /\ frames' = frames + FramesPerChunk
  /\ UNCHANGED <<seatVars, inVars, bridge, hand, ears, iceVars>>

\* Whichever goroutine receives: the sitting peer's, or one whose peer left.
BridgeTakes(p) ==
  /\ bridge[p] = "wait" /\ waiting # <<>>
  /\ hand' = [hand EXCEPT ![p] = [i \in 1 .. FramesPerChunk |-> Head(waiting) + i - 1]]
  /\ waiting' = Tail(waiting)
  /\ bridge' = [bridge EXCEPT ![p] = "write"]
  /\ UNCHANGED <<seatVars, inVars, frames, ears, iceVars>>

\* WriteSample; on the track of a closed connection it writes to nobody.
BridgeWrites(p) ==
  /\ bridge[p] = "write"
  /\ ears' = [ears EXCEPT ![p] = IF sitting = p THEN Append(@, Head(hand[p])) ELSE @]
  /\ hand' = [hand EXCEPT ![p] = Tail(@)]
  /\ bridge' = [bridge EXCEPT ![p] = IF Tail(hand[p]) = <<>> THEN "wait" ELSE "write"]
  /\ UNCHANGED <<seatVars, inVars, frames, waiting, iceVars>>

\* The write fails, the context ends or the session's channel closes.
BridgeEnds(p) ==
  /\ \/ bridge[p] = "write"
     \/ bridge[p] = "wait" /\ room # "open"
  /\ bridge' = [bridge EXCEPT ![p] = "gone"]
  /\ hand' = [hand EXCEPT ![p] = <<>>]
  /\ UNCHANGED <<seatVars, inVars, frames, waiting, ears, iceVars>>

PeerStep(p) ==
  \/ Candidate(p) \/ HandleOffer(p)
  \/ TrackStarts(p) \/ Speaks(p) \/ ChecksContext(p) \/ ReadsPacket(p) \/ ReadFails(p)
  \/ BridgeTakes(p) \/ BridgeWrites(p) \/ BridgeEnds(p)

MediaNext == Sits \/ SitterLeaves \/ TearsDown \/ SessionSends \/ \E p \in Peers : PeerStep(p)

MediaSpec == MediaInit /\ [][MediaNext]_mediaVars

-----------------------------------------------------------------------------
(* Properties.                                                             *)

UpTo(n) == [i \in 1 .. n |-> i]

\* The session gets every packet read, once and in order, however many browsers
\* take the seat, but for less than a full buffer, and a track's end leaves nothing
\* in the buffer.  A session that is closed refuses what still comes.  Only a
\* goroutine that the room's context ends, once the room is torn down, leaves what
\* it has (peer.go:156-176; inbound_buffer.go:27-29 promises a flush there too,
\* which is TornDownMicIsFlushed).
MicHeard ==
  \A p \in Peers :
    /\ pushed[p] = UpTo(Len(pushed[p])) /\ Len(pushed[p]) <= read[p]
    /\ room # "closed" => pushed[p] \o buffered[p] = UpTo(read[p])
    /\ Len(buffered[p]) < Target
    /\ mic[p] = "ended" => buffered[p] = <<>>
    /\ mic[p] = "cancelled" => room # "open"

\* inbound_buffer.go:27-29 says that flush is "used when a track ends or the room is
\* torn down, so the last few hundred milliseconds of a hung-up call's speech aren't
\* silently dropped": a microphone that ended leaves nothing in its buffer, while the
\* session still takes it.  The goroutine returns without a flush when it sees the
\* context done (peer.go:158-159).
TornDownMicIsFlushed ==
  \A p \in Peers : mic[p] \in {"ended", "cancelled"} /\ room # "closed" => buffered[p] = <<>>

\* The only browser that ever took the seat hears the session from the start,
\* frame by frame; the bridge of one that left takes chunks of its successor's
\* (peer.go:180-216, started on the room's context).
OnlySitterHearsAll ==
  came = 1 => ears[1] = UpTo(Len(ears[1]))

\* A candidate is applied at most once, and a well-formed one that no bad one
\* precedes is applied once the offer is answered, whatever comes after it
\* (peer.go:238-264).
CandidatesApplied ==
  \A p \in Peers :
    /\ Len(applied[p]) + Len(pending[p]) <= Len(trickled[p])
    /\ remote[p] => \A n \in DOMAIN trickled[p] :
                      (\A i \in 1 .. n : trickled[p][i]) => n <= Len(applied[p])

\* What goes through a seat goes through whole.
MediaWhole == MicHeard /\ OnlySitterHearsAll /\ CandidatesApplied

=============================================================================
