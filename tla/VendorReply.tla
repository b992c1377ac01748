----------------------------- MODULE VendorReply -----------------------------
(***************************************************************************)
(* What follows once a vendor has accepted a call.  A translation is read  *)
(* from an event stream inside the attempt (gpt4o.go, gemini.go); a        *)
(* synthesis is read by a goroutine that feeds the channel SynthesizeStream *)
(* has returned (cartesia.go, elevenlabs.go), watched by another that      *)
(* shuts the connection when the context ends.  The leg that asked for it  *)
(* listens under the deadline it gave the whole synthesis.                 *)
(*                                                                         *)
(* A caller's next call waits for the goroutine of its last one: the two   *)
(* share nothing.                                                          *)
(***************************************************************************)
EXTENDS VendorCall, Sequences

CONSTANTS
  Vendors,      \* the clients to consider; a behaviour is about one of them
  Followed,     \* bound: the callers whose syntheses are followed to their end;
                \* they share nothing, so the others' are forgotten once accepted
  MaxPieces,    \* bound: pieces of a reply
  ChunkCapacity   \* capacity of the channel of chunks

ASSUME ReplyAssumption == Followed \subseteq Callers /\ MaxPieces \in Nat /\ ChunkCapacity \in Nat \ {0}

VARIABLES
  client,   \* whose client this is: "gpt4o", "gemini", "cartesia" or "elevenlabs"
  text,     \* the Builder of a translation: for every piece, the attempt it came in
  billed,   \* RecordCost calls of the current call
  stream    \* the synthesis of each caller

replyVars == <<client, text, billed, stream>>
allVars == <<callVars, replyVars>>

\* A chunk is numbered by the piece of the reply it carries, 0 when empty.
Chunk(n, final) == [n |-> n, final |-> final]

\* reader: where readLoop is; hand, last: what it sends, and whether it returns
\* then; read: pieces read; ended: what became of the reply; line: the
\* connection; late: the dial's watcher has yet to run; ctx: the deadline has
\* "expired", or the context was cancelled; got: what the leg took from out.
NewStream(late) ==
  [reader |-> "read", hand |-> Chunk(0, FALSE), last |-> FALSE, read |-> 0,
   ended |-> "no", line |-> "up", late |-> late, ctx |-> "live",
   out |-> <<>>, got |-> <<>>, listening |-> TRUE]

NoStream == [NewStream(FALSE) EXCEPT !.reader = "gone", !.line = "shut", !.listening = FALSE]

ReplyInit ==
  /\ CallInit
  /\ client \in Vendors
  /\ text = [c \in Callers |-> <<>>]
  /\ billed = [c \in Callers |-> 0]
  /\ stream = [c \in Callers |-> NoStream]

-----------------------------------------------------------------------------
(* The call.                                                               *)

Begins(c) ==
  /\ stream[c].reader = "gone" /\ ~stream[c].listening
  /\ Enter(c)
  /\ text' = [text EXCEPT ![c] = <<>>]
  /\ billed' = [billed EXCEPT ![c] = 0]
  /\ stream' = [stream EXCEPT ![c] = NoStream]
  /\ UNCHANGED client

\* Mutant: the next attempt writes on into the builder of the last one.
TriesAgainInPlace(c) == Retry(c) /\ UNCHANGED replyVars

\* translateOnce starts with an empty builder.
TriesAgain(c) ==
  /\ Retry(c)
  /\ text' = [text EXCEPT ![c] = <<>>]
  /\ UNCHANGED <<client, billed, stream>>

Fails(c) == (FailsForNow(c) \/ GivesUp(c) \/ Aborts(c)) /\ UNCHANGED replyVars

\* Translate and SynthesizeStream up to the vendor's answer.
Tries(c) == Begins(c) \/ TriesAgain(c) \/ Fails(c)

\* The call is answered, and billed.
Accepted(c) ==
  /\ Succeeds(c)
  /\ billed' = [billed EXCEPT ![c] = @ + 1]
  /\ UNCHANGED client

-----------------------------------------------------------------------------
(* Translations.                                                           *)

\* An event of the stream with text in it.
ReadsText(c) ==
  /\ pc[c] = "attempt" /\ vendorUp /\ Len(text[c]) < MaxPieces
  /\ text' = [text EXCEPT ![c] = Append(@, attempt[c])]
  /\ UNCHANGED <<callVars, client, billed, stream>>

\* [DONE], or the body closed without one.
Translated(c) == Accepted(c) /\ UNCHANGED <<text, stream>>

Gpt4oTranslate(c) == client = "gpt4o" /\ (Tries(c) \/ ReadsText(c) \/ Translated(c))

\* Blocked by content safety: permanent, and not the vendor's fault.
GeminiBlocks(c) == pc[c] = "attempt" /\ vendorUp /\ Aborts(c) /\ UNCHANGED replyVars

GeminiTranslate(c) ==
  /\ client = "gemini"
  /\ Tries(c) \/ ReadsText(c) \/ GeminiBlocks(c) \/ Translated(c)

-----------------------------------------------------------------------------
(* Syntheses: the goroutine that reads one.                                *)

\* A synthesis that neither side has to do with any more is forgotten.
Set(c, s) ==
  /\ stream' = [stream EXCEPT ![c] = IF s.reader = "gone" /\ ~s.listening THEN NoStream ELSE s]
  /\ UNCHANGED <<callVars, client, text, billed>>

\* SynthesizeStream returns the channel and leaves readLoop to feed it.
Opens(c, late) ==
  stream' = IF c \in Followed THEN [stream EXCEPT ![c] = NewStream(late)] ELSE stream

\* readLoop returns: the channel and the connection are closed.
Left(s) == [s EXCEPT !.reader = "gone", !.line = "shut", !.hand = Chunk(0, FALSE),
                     !.last = FALSE, !.late = FALSE]

\* readLoop has a chunk to send, and returns afterwards if it is the last.
Holding(s, chunk, last) == [s EXCEPT !.reader = "send", !.hand = chunk, !.last = last]

\* The context is looked at again before the next read.
SendsChunk(c) ==
  LET s == stream[c]
      sent == [s EXCEPT !.out = Append(@, s.hand)] IN
  /\ s.reader = "send" /\ Len(s.out) < ChunkCapacity
  /\ Set(c, IF s.last \/ s.ctx # "live" THEN Left(sent)
            ELSE [sent EXCEPT !.reader = "read", !.hand = Chunk(0, FALSE)])

ChunkAbandoned(c) ==
  /\ stream[c].reader = "send" /\ stream[c].ctx # "live"
  /\ Set(c, Left(stream[c]))

\* The connection was shut under the reader, or the vendor broke the reply off.
ReadFails(c) ==
  LET s == stream[c] IN
  /\ s.reader = "read"
  /\ \/ s.line = "shut" /\ Set(c, Left(s))
     \/ s.line = "up" /\ Set(c, Left([s EXCEPT !.ended = "cut"]))

\* Mutant: the reader is not woken when its context ends.
CancelIgnored(c) == FALSE /\ UNCHANGED allVars

\* The goroutine that waits for the context shuts the connection.
CancelShuts(c) ==
  LET s == stream[c] IN
  /\ s.reader # "gone" /\ s.ctx # "live" /\ s.line = "up"
  /\ Set(c, [s EXCEPT !.line = "shut"])

ReadLoop(c) == SendsChunk(c) \/ ChunkAbandoned(c) \/ CancelShuts(c)

\* A piece of the reply arrives, and with it, perhaps, the end of the reply.
Piece(c, end) ==
  LET s == stream[c] IN
  /\ s.reader = "read" /\ s.line = "up" /\ s.read < MaxPieces
  /\ Set(c, Holding([s EXCEPT !.read = @ + 1, !.ended = end],
                    Chunk(s.read + 1, end = "whole"), end # "no"))

\* The reply ends without a piece.
Ends(c) == stream[c].reader = "read" /\ stream[c].line = "up"

\* The watcher dialWS leaves behind waits for the dial's context and for dialWS
\* to return.  connectAndSend cancels that context when it returns: a watcher
\* that runs only then finds both, and may pick either.
LateWatcher(c) ==
  LET s == stream[c] IN
  /\ s.late
  /\ \/ Set(c, [s EXCEPT !.late = FALSE])
     \/ Set(c, [s EXCEPT !.late = FALSE, !.line = "shut"])

CartesiaAccepts(c) ==
  /\ Accepted(c)
  /\ \E late \in BOOLEAN : Opens(c, late)
  /\ UNCHANGED text

\* A chunk that may be the last ("done": true), or a "done" message: readLoop
\* returns on it and no chunk is marked.  Other messages are skipped.
CartesiaReads(c) ==
  \/ Piece(c, "no") \/ Piece(c, "whole")
  \/ Ends(c) /\ Set(c, Left([stream[c] EXCEPT !.ended = "whole"]))

CartesiaSynthesize(c) ==
  /\ client = "cartesia"
  /\ \/ Tries(c) \/ CartesiaAccepts(c)
     \/ ReadLoop(c) \/ CartesiaReads(c) \/ ReadFails(c) \/ LateWatcher(c)

ElevenLabsAccepts(c) ==
  /\ Accepted(c)
  /\ Opens(c, FALSE)
  /\ UNCHANGED text

\* Mutant: whatever ends the body is taken for its end.
ElevenLabsReadsAnyEnd(c) ==
  \/ Piece(c, "no") \/ Piece(c, "whole") \/ Piece(c, "cut")
  \/ Ends(c) /\ \E e \in {"whole", "cut"} :
       Set(c, Holding([stream[c] EXCEPT !.ended = e], Chunk(0, TRUE), TRUE))

\* Read returns a piece, with EOF, with an error or with neither; or EOF alone,
\* for which a final chunk without audio is sent.
ElevenLabsReads(c) ==
  \/ Piece(c, "no") \/ Piece(c, "whole") \/ Piece(c, "cut")
  \/ Ends(c) /\ Set(c, Holding([stream[c] EXCEPT !.ended = "whole"], Chunk(0, TRUE), TRUE))

ElevenLabsSynthesize(c) ==
  /\ client = "elevenlabs"
  /\ \/ Tries(c) \/ ElevenLabsAccepts(c)
     \/ ReadLoop(c) \/ ElevenLabsReads(c) \/ ReadFails(c)

-----------------------------------------------------------------------------
(* The leg that listens (forwardTTSWithStallGuard and forwardAudio).       *)

\* It returns, and cancels the context of the synthesis.
Returned(s) == [s EXCEPT !.listening = FALSE, !.ctx = "ended"]

\* A reply whose first chunk is marked final is not waited out.
Takes(c) ==
  LET s == stream[c]
      taken == [s EXCEPT !.out = Tail(@), !.got = Append(@, Head(s.out))] IN
  /\ s.listening /\ s.out # <<>>
  /\ Set(c, IF s.got = <<>> /\ Head(s.out).final THEN Returned(taken) ELSE taken)

SeesClose(c) ==
  LET s == stream[c] IN
  /\ s.listening /\ s.out = <<>> /\ s.reader = "gone"
  /\ Set(c, Returned(s))

\* The deadline counts while the first chunk is awaited, the end of the session
\* at any time.
Abandons(c) ==
  LET s == stream[c] IN
  /\ s.listening
  /\ s.ctx = "ended" \/ (s.ctx = "expired" /\ s.got = <<>>)
  /\ Set(c, Returned(s))

\* SynthesizeTimeout has passed since the synthesis was asked for.
DeadlinePasses(c) ==
  /\ stream[c].listening /\ stream[c].ctx = "live"
  /\ Set(c, [stream[c] EXCEPT !.ctx = "expired"])

SessionEnds(c) ==
  /\ stream[c].listening
  /\ Set(c, [stream[c] EXCEPT !.ctx = "ended"])

Listens(c) == Takes(c) \/ SeesClose(c) \/ Abandons(c)

-----------------------------------------------------------------------------
Surroundings == (VendorChanges \/ Clock) /\ UNCHANGED replyVars

ReplyNext ==
  \/ \E c \in Callers :
       \/ Gpt4oTranslate(c) \/ GeminiTranslate(c)
       \/ CartesiaSynthesize(c) \/ ElevenLabsSynthesize(c)
       \/ Listens(c) \/ DeadlinePasses(c) \/ SessionEnds(c)
  \/ Surroundings

ReplySpec == ReplyInit /\ [][ReplyNext]_allVars

\* A call that has begun goes on, the goroutines run and a deadline passes in time.
\* A vendor owes no piece of its reply, and a leg need not take what is there.
ReplyFairness ==
  /\ WF_allVars(Clock /\ UNCHANGED replyVars)
  /\ \A c \in Callers :
       /\ WF_allVars(TriesAgain(c) \/ Fails(c))
       /\ SF_allVars(Translated(c) \/ CartesiaAccepts(c) \/ ElevenLabsAccepts(c))
       /\ WF_allVars(ReadLoop(c)) /\ WF_allVars(ReadFails(c) /\ stream[c].line = "shut")
       /\ WF_allVars(SeesClose(c) \/ Abandons(c)) /\ WF_allVars(DeadlinePasses(c))

-----------------------------------------------------------------------------
(* Properties.                                                             *)

\* What the channel has carried so far.
Delivered(c) == stream[c].got \o stream[c].out

\* The contract of both readLoops: only a reply that is whole says it is final,
\* and by then every piece of it has been delivered, in order; and ElevenLabs
\* always says so of a reply it has read to the end (cartesia.go:415-419,
\* elevenlabs.go:446-450), unless the listener's context ended first.
FinalMarksCompletion ==
  \A c \in Callers :
    LET s == stream[c]
        d == Delivered(c) IN
    /\ \A i \in DOMAIN d : d[i].final =>
         /\ s.ended = "whole" /\ i = Len(d)
         /\ {d[j].n : j \in DOMAIN d} \ {0} = 1..s.read
         /\ \A j \in DOMAIN d : d[j].n \in {j, 0}
    /\ (client = "elevenlabs" /\ s.reader = "gone" /\ s.ended = "whole" /\ s.ctx = "live")
         => \E i \in DOMAIN d : d[i].final

\* A translation is the text of one attempt, and a call is billed once if it was
\* answered and never otherwise, however many attempts broke off with half an
\* answer (gemini.go:429-432: exactly once, never zero times or more than once).
AnswerIsOneAttempt ==
  \A c \in Callers :
    /\ \A i \in DOMAIN text[c] : text[c][i] = attempt[c]
    /\ billed[c] <= 1 /\ (pc[c] # "idle" => billed[c] = 0)

\* No synthesis goroutine is left behind: not by a vendor that falls silent, not
\* by a leg that has stopped listening with chunks still to come.
ReadersEnd == \A c \in Callers : []<>(stream[c].reader = "gone")
=============================================================================
