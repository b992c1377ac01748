-------------------------- MODULE VendorCallProofs --------------------------
(* Theorems of VendorCall and of VendorReply, for any callers, threshold,  *)
(* retry budget and length of a reply.                                     *)
EXTENDS VendorReply, TLAPS

\* The breaker's methods keep its fields' types.
LEMMA MethodsTyped ==
  ASSUME BreakerTyped,
         \/ Allow \/ RecordSuccess \/ RecordFailure \/ Abort \/ CooldownElapses
         \/ UNCHANGED breakerVars
  PROVE  BreakerTyped'
<1>1. consecutiveFails' \in Nat
  BY DEF BreakerTyped, Allow, RecordSuccess, RecordFailure, Abort, CooldownElapses, breakerVars
<1>2. open' \in BOOLEAN
  BY Zenon DEF BreakerTyped, Allow, RecordSuccess, RecordFailure, Abort, CooldownElapses,
     breakerVars
<1>3. cooling' \in BOOLEAN
  BY Zenon DEF BreakerTyped, Allow, RecordSuccess, RecordFailure, Abort, CooldownElapses,
     breakerVars
<1>4. probeInFlight' \in BOOLEAN
  BY Zenon DEF BreakerTyped, Allow, RecordSuccess, RecordFailure, Abort, CooldownElapses,
     breakerVars
<1> QED BY <1>1, <1>2, <1>3, <1>4 DEF BreakerTyped

\* The failure count and the switch move together (recordSuccess and
\* recordFailure): the breaker is open exactly while its budget is spent.
LEMMA MethodsKeepBudget ==
  ASSUME BreakerTyped, OpenIffBudgetSpent,
         RecordSuccess \/ RecordFailure \/ UNCHANGED <<open, consecutiveFails>>
  PROVE  OpenIffBudgetSpent'
<1>1. CASE RecordSuccess
  BY <1>1, ThresholdAssumption DEF RecordSuccess, OpenIffBudgetSpent
<1>2. CASE RecordFailure
  <2>1. open' = (open \/ consecutiveFails + 1 >= Threshold)
    BY <1>2, Zenon DEF RecordFailure
  <2>2. consecutiveFails' = consecutiveFails + 1
    BY <1>2 DEF RecordFailure
  <2>3. open \/ consecutiveFails + 1 >= Threshold <=> consecutiveFails' >= Threshold
    BY <2>2, ThresholdAssumption DEF BreakerTyped, OpenIffBudgetSpent
  <2> QED BY <2>1, <2>3, Zenon DEF OpenIffBudgetSpent
<1>3. CASE UNCHANGED <<open, consecutiveFails>>
  BY <1>3 DEF OpenIffBudgetSpent
<1> QED BY <1>1, <1>2, <1>3

\* The types, and that no call exceeds its retry budget (the loops over attempt
\* in gpt4o.go, cartesia.go and elevenlabs.go).
THEOREM CallTyped == CallSpec => []CallsTyped
<1>1. CallInit => CallsTyped
  <2> SUFFICES ASSUME CallInit PROVE CallsTyped
    OBVIOUS
  <2>1. BreakerTyped
    BY DEF CallInit, BreakerInit, BreakerTyped
  <2>2. attempt \in [Callers -> 0..(MaxAttempts - 1)]
    BY CallAssumption DEF CallInit
  <2>3. probe \in [Callers -> BOOLEAN] /\ vendorUp \in BOOLEAN
    BY DEF CallInit
  <2> QED BY <2>1, <2>2, <2>3 DEF CallInit, CallsTyped
<1>2. CallsTyped /\ [CallNext]_callVars => CallsTyped'
  <2> SUFFICES ASSUME CallsTyped, [CallNext]_callVars PROVE CallsTyped'
    OBVIOUS
  <2>1. BreakerTyped'
    <3>1. \/ Allow \/ RecordSuccess \/ RecordFailure \/ Abort \/ CooldownElapses
          \/ UNCHANGED breakerVars
      BY Zenon DEF CallNext, Enter, Succeeds, FailsForNow, Retry, GivesUp, Aborts, VendorChanges,
         Clock, callVars
    <3> QED BY <3>1, MethodsTyped DEF CallsTyped
  <2>2. vendorUp' \in BOOLEAN
    BY Zenon DEF CallsTyped, CallNext, Enter, Succeeds, FailsForNow, Retry, GivesUp, Aborts, Return,
       VendorChanges, Clock, callVars
  <2>3. probe' \in [Callers -> BOOLEAN]
    <3>1. ASSUME NEW c \in Callers, Enter(c) PROVE probe' = [probe EXCEPT ![c] = open]
      BY <3>1 DEF Enter
    <3>2. open \in BOOLEAN /\ probe \in [Callers -> BOOLEAN]
      BY DEF CallsTyped, BreakerTyped
    <3>3. ASSUME NEW c \in Callers, Return(c) PROVE probe' = [probe EXCEPT ![c] = FALSE]
      BY <3>3 DEF Return
    <3>4. \/ \E c \in Callers : Enter(c) \/ Return(c)
          \/ UNCHANGED probe
      BY Zenon DEF CallNext, Succeeds, FailsForNow, Retry, GivesUp, Aborts, VendorChanges,
         Clock, callVars
    <3> QED BY <3>1, <3>2, <3>3, <3>4, Zenon
  <2>4. /\ \A c \in Callers : pc'[c] = "backoff" => attempt'[c] < MaxAttempts - 1
        /\ pc' \in [Callers -> {"idle", "attempt", "backoff"}]
        /\ attempt' \in [Callers -> 0..(MaxAttempts - 1)]
    <3>1. ASSUME NEW c \in Callers, Enter(c) PROVE <2>4!:
      BY <3>1, CallAssumption DEF CallsTyped, Enter
    <3>2. ASSUME NEW c \in Callers, FailsForNow(c) PROVE <2>4!:
      BY <3>2 DEF CallsTyped, FailsForNow
    <3>3. ASSUME NEW c \in Callers, Retry(c) PROVE <2>4!:
      BY <3>3, CallAssumption DEF CallsTyped, Retry
    <3>4. ASSUME NEW c \in Callers, Return(c) PROVE <2>4!:
      BY <3>4 DEF CallsTyped, Return
    <3>5. CASE UNCHANGED <<pc, attempt>>
      BY <3>5 DEF CallsTyped
    <3> QED BY <3>1, <3>2, <3>3, <3>4, <3>5 DEF CallNext, Succeeds, GivesUp, Aborts, VendorChanges,
         Clock, callVars
  <2> QED BY <2>1, <2>2, <2>3, <2>4 DEF CallsTyped
<1> QED BY <1>1, <1>2, PTL DEF CallSpec

\* The breaker is open exactly when its failure budget is spent (recordSuccess
\* and recordFailure).
THEOREM BudgetGovernsBreaker == CallSpec => []OpenIffBudgetSpent
<1>1. CallInit => OpenIffBudgetSpent
  BY ThresholdAssumption DEF CallInit, BreakerInit, OpenIffBudgetSpent
<1>2. CallsTyped /\ OpenIffBudgetSpent /\ [CallNext]_callVars => OpenIffBudgetSpent'
  <2> SUFFICES ASSUME CallsTyped, OpenIffBudgetSpent, [CallNext]_callVars PROVE OpenIffBudgetSpent'
    OBVIOUS
  <2>1. ASSUME NEW c \in Callers, Enter(c) \/ Aborts(c) \/ FailsForNow(c) \/ Retry(c)
        PROVE  UNCHANGED <<open, consecutiveFails>>
    BY <2>1 DEF Enter, Allow, Aborts, Abort, FailsForNow, Retry, breakerVars
  <2>2. VendorChanges \/ Clock \/ UNCHANGED callVars => UNCHANGED <<open, consecutiveFails>>
    BY DEF VendorChanges, Clock, CooldownElapses, callVars, breakerVars
  <2>3. RecordSuccess \/ RecordFailure \/ UNCHANGED <<open, consecutiveFails>>
    BY <2>1, <2>2 DEF CallNext, Succeeds, GivesUp
  <2> QED BY <2>3, MethodsKeepBudget DEF CallsTyped
<1> QED BY <1>1, <1>2, CallTyped, PTL DEF CallSpec

\* A probe slot that is taken is held by a call still in progress (allow's
\* pairing rule and the deferred abort).
THEOREM ProbeSlotNeverLeaks == CallSpec => []ProbeSlotIsHeld
<1> USE DEF ProbeSlotIsHeld
<1>1. CallInit => ProbeSlotIsHeld
  BY DEF CallInit, BreakerInit
<1>2. CallsTyped /\ ProbeSlotIsHeld /\ [CallNext]_callVars => ProbeSlotIsHeld'
  <2> SUFFICES ASSUME CallsTyped, ProbeSlotIsHeld, [CallNext]_callVars PROVE ProbeSlotIsHeld'
    OBVIOUS
  <2>0. pc \in [Callers -> {"idle", "attempt", "backoff"}] /\ probe \in [Callers -> BOOLEAN]
    BY DEF CallsTyped
  <2>1. ASSUME NEW c \in Callers, Enter(c) PROVE ProbeSlotIsHeld'
    <3>1. pc'[c] = "attempt" /\ \A d \in Callers \ {c} : pc'[d] = pc[d]
      BY <2>0, <2>1 DEF Enter
    <3>2. probe'[c] = open /\ \A d \in Callers \ {c} : probe'[d] = probe[d]
      BY <2>0, <2>1, Zenon DEF Enter
    <3>3. probeInFlight' = (open \/ probeInFlight)
      BY <2>1 DEF Enter, Allow
    <3>4. CASE open
      BY <3>1, <3>2, <3>4 DEF Probing
    <3>5. CASE ~open /\ probeInFlight
      <4>1. PICK d \in Callers : Probing(d)
        BY <3>5
      <4>2. d # c
        BY <2>1, <4>1 DEF Enter, Probing
      <4> QED BY <3>1, <3>2, <4>1, <4>2 DEF Probing
    <3> QED BY <3>3, <3>4, <3>5
  <2>2. ASSUME NEW c \in Callers, Succeeds(c) \/ GivesUp(c) \/ Aborts(c)
        PROVE ProbeSlotIsHeld'
    BY <2>2 DEF Succeeds, GivesUp, Aborts, RecordSuccess, RecordFailure, Abort
  <2>3. ASSUME NEW c \in Callers, FailsForNow(c) \/ Retry(c) PROVE ProbeSlotIsHeld'
    BY <2>0, <2>3 DEF FailsForNow, Retry, Probing, breakerVars
  <2>4. CASE VendorChanges \/ Clock \/ UNCHANGED callVars
    BY <2>4 DEF VendorChanges, Clock, CooldownElapses, callVars, breakerVars, Probing
  <2> QED BY <2>1, <2>2, <2>3, <2>4 DEF CallNext
<1> QED BY <1>1, <1>2, CallTyped, PTL DEF CallSpec

-----------------------------------------------------------------------------
(* The calls with their replies.                                           *)

LEMMA ReplyStep == [ReplyNext]_allVars => [CallNext]_callVars
<1> SUFFICES ASSUME ReplyNext PROVE [CallNext]_callVars
  BY DEF allVars
<1>1. ASSUME NEW c \in Callers, Tries(c) PROVE CallNext
  BY <1>1 DEF Tries, Begins, TriesAgain, Fails, CallNext
<1>2. ASSUME NEW c \in Callers, Accepted(c) PROVE CallNext
  BY <1>2 DEF Accepted, CallNext
<1>3. ASSUME NEW c \in Callers, NEW s, Set(c, s) PROVE UNCHANGED callVars
  BY <1>3 DEF Set
<1>4. ASSUME NEW c \in Callers,
             ReadLoop(c) \/ ReadFails(c) \/ CartesiaReads(c) \/ ElevenLabsReads(c)
             \/ LateWatcher(c) \/ Listens(c) \/ DeadlinePasses(c) \/ SessionEnds(c)
      PROVE  UNCHANGED callVars
  BY <1>3, <1>4
  DEF ReadLoop, SendsChunk, ChunkAbandoned, CancelShuts, ReadFails, CartesiaReads, ElevenLabsReads,
      Piece, LateWatcher, Listens, Takes, SeesClose, Abandons, DeadlinePasses, SessionEnds
<1>5. ASSUME NEW c \in Callers, Gpt4oTranslate(c) \/ GeminiTranslate(c) PROVE [CallNext]_callVars
  <2>1. CASE GeminiBlocks(c)
    BY <2>1 DEF GeminiBlocks, CallNext
  <2>2. CASE ReadsText(c)
    BY <2>2 DEF ReadsText
  <2> QED BY <1>1, <1>2, <1>5, <2>1, <2>2 DEF Gpt4oTranslate, GeminiTranslate, Translated
<1>6. ASSUME NEW c \in Callers, CartesiaSynthesize(c) \/ ElevenLabsSynthesize(c)
      PROVE  [CallNext]_callVars
  BY <1>1, <1>2, <1>4, <1>6
  DEF CartesiaSynthesize, ElevenLabsSynthesize, CartesiaAccepts, ElevenLabsAccepts
<1>7. CASE Surroundings
  BY <1>7 DEF Surroundings, CallNext
<1> QED BY <1>4, <1>5, <1>6, <1>7 DEF ReplyNext

\* A call whose reply is followed to its end is a call of VendorCall: what is
\* proved of those holds whatever becomes of the replies.
THEOREM RepliesImplementCalls == ReplySpec => CallSpec
<1>1. ReplyInit => CallInit
  BY DEF ReplyInit
<1> QED BY <1>1, ReplyStep, PTL DEF ReplySpec, CallSpec

\* The builder and the bill of a call, with their types.
AnswerInvariant ==
  /\ text \in [Callers -> Seq(0..(MaxAttempts - 1))]
  /\ billed \in [Callers -> 0..1]
  /\ \A c \in Callers : pc[c] # "idle" => billed[c] = 0
  /\ \A c \in Callers : \A i \in DOMAIN text[c] : text[c][i] = attempt[c]

\* A step that adds nothing to a text or a bill, starts no call and no attempt.
LEMMA AnswersStay ==
  ASSUME CallsTyped, AnswerInvariant, UNCHANGED <<text, billed>>,
         \A c \in Callers : attempt'[c] = attempt[c] /\ (pc'[c] # "idle" => pc[c] # "idle")
  PROVE  AnswerInvariant'
BY DEF AnswerInvariant

LEMMA AnswerStep ==
  ASSUME CallsTyped, AnswerInvariant, [ReplyNext]_allVars
  PROVE  AnswerInvariant'
<1>0. /\ pc \in [Callers -> {"idle", "attempt", "backoff"}]
      /\ attempt \in [Callers -> 0..(MaxAttempts - 1)]
      /\ text \in [Callers -> Seq(0..(MaxAttempts - 1))] /\ billed \in [Callers -> 0..1]
  BY DEF CallsTyped, AnswerInvariant
<1>1. ASSUME NEW c \in Callers, Begins(c) PROVE AnswerInvariant'
  <2>1. /\ pc' = [pc EXCEPT ![c] = "attempt"] /\ attempt' = [attempt EXCEPT ![c] = 0]
        /\ text' = [text EXCEPT ![c] = <<>>] /\ billed' = [billed EXCEPT ![c] = 0]
    BY <1>1 DEF Begins, Enter
  <2> QED BY <1>0, <2>1 DEF AnswerInvariant
<1>2. ASSUME NEW c \in Callers, TriesAgain(c) PROVE AnswerInvariant'
  <2>1. /\ pc[c] = "backoff" /\ pc' = [pc EXCEPT ![c] = "attempt"]
        /\ attempt' = [attempt EXCEPT ![c] = @ + 1]
        /\ text' = [text EXCEPT ![c] = <<>>] /\ billed' = billed
    BY <1>2 DEF TriesAgain, Retry
  <2> QED BY <1>0, <2>1 DEF AnswerInvariant
<1>3. ASSUME NEW c \in Callers, Fails(c) \/ GeminiBlocks(c) PROVE AnswerInvariant'
  <2>1. /\ UNCHANGED <<text, billed, attempt>>
        /\ pc[c] # "idle" /\ pc' \in {[pc EXCEPT ![c] = "idle"], [pc EXCEPT ![c] = "backoff"]}
    BY <1>3 DEF Fails, GeminiBlocks, FailsForNow, GivesUp, Aborts, Return, replyVars
  <2> QED BY <1>0, <2>1, AnswersStay
<1>4. ASSUME NEW c \in Callers, Accepted(c), text' = text PROVE AnswerInvariant'
  <2>1. /\ pc[c] = "attempt" /\ pc' = [pc EXCEPT ![c] = "idle"] /\ attempt' = attempt
        /\ billed' = [billed EXCEPT ![c] = @ + 1]
    BY <1>4 DEF Accepted, Succeeds, Return
  <2>2. billed[c] = 0
    BY <2>1 DEF AnswerInvariant
  <2> QED BY <1>0, <1>4, <2>1, <2>2 DEF AnswerInvariant
<1>5. ASSUME NEW c \in Callers, ReadsText(c) PROVE AnswerInvariant'
  <2>1. /\ text' = [text EXCEPT ![c] = Append(@, attempt[c])]
        /\ UNCHANGED <<pc, attempt, billed>>
    BY <1>5 DEF ReadsText, callVars
  <2>2. text[c] \in Seq(0..(MaxAttempts - 1)) /\ attempt[c] \in 0..(MaxAttempts - 1)
    BY <1>0
  <2>3. Append(text[c], attempt[c]) \in Seq(0..(MaxAttempts - 1))
    BY <2>2
  <2>4. text' \in [Callers -> Seq(0..(MaxAttempts - 1))]
    BY <1>0, <2>1, <2>3
  <2>5. \A i \in DOMAIN Append(text[c], attempt[c]) :
          Append(text[c], attempt[c])[i] = attempt[c]
    BY <2>2 DEF AnswerInvariant
  <2>6. \A d \in Callers : \A i \in DOMAIN text'[d] : text'[d][i] = attempt'[d]
    <3> SUFFICES ASSUME NEW d \in Callers
                 PROVE  \A i \in DOMAIN text'[d] : text'[d][i] = attempt'[d]
      OBVIOUS
    <3>1. CASE d = c
      BY <1>0, <2>1, <2>5, <3>1
    <3>2. CASE d # c
      BY <1>0, <2>1, <3>2 DEF AnswerInvariant
    <3> QED BY <3>1, <3>2
  <2> QED BY <2>1, <2>4, <2>6 DEF AnswerInvariant
<1>6. ASSUME UNCHANGED <<text, billed>>, UNCHANGED callVars \/ Surroundings
      PROVE  AnswerInvariant'
  BY <1>6, AnswersStay DEF Surroundings, VendorChanges, Clock, callVars
<1>7. ASSUME NEW c \in Callers, NEW s, Set(c, s) PROVE AnswerInvariant'
  BY <1>6, <1>7 DEF Set
<1>8. ASSUME NEW c \in Callers, Gpt4oTranslate(c) \/ GeminiTranslate(c)
      PROVE  AnswerInvariant'
  BY <1>1, <1>2, <1>3, <1>4, <1>5, <1>8
  DEF Gpt4oTranslate, GeminiTranslate, Tries, Translated
<1>9. ASSUME NEW c \in Callers,
             ReadLoop(c) \/ ReadFails(c) \/ CartesiaReads(c) \/ ElevenLabsReads(c)
             \/ LateWatcher(c) \/ Listens(c) \/ DeadlinePasses(c) \/ SessionEnds(c)
      PROVE  AnswerInvariant'
  BY <1>7, <1>9
  DEF ReadLoop, SendsChunk, ChunkAbandoned, CancelShuts, ReadFails, CartesiaReads, ElevenLabsReads,
      Piece, LateWatcher, Listens, Takes, SeesClose, Abandons, DeadlinePasses, SessionEnds
<1>10. ASSUME NEW c \in Callers, CartesiaSynthesize(c) \/ ElevenLabsSynthesize(c)
       PROVE  AnswerInvariant'
  BY <1>1, <1>2, <1>3, <1>4, <1>9, <1>10
  DEF CartesiaSynthesize, ElevenLabsSynthesize, Tries, CartesiaAccepts, ElevenLabsAccepts
<1>11. Surroundings \/ UNCHANGED allVars => UNCHANGED <<text, billed>>
  BY DEF Surroundings, allVars, replyVars
<1>12. UNCHANGED allVars => UNCHANGED callVars
  BY DEF allVars
<1> QED BY <1>6, <1>8, <1>9, <1>10, <1>11, <1>12 DEF ReplyNext

\* A translation is the text of the attempt that succeeded, and a call is billed
\* once at most, whatever attempts broke off half-way (translateOnce's builder
\* and recordCost of gpt4o.go and gemini.go).
THEOREM AnswersAreWhole == ReplySpec => []AnswerIsOneAttempt
<1>1. ReplyInit => AnswerInvariant
  BY DEF ReplyInit, AnswerInvariant, CallInit
<1>2. CallsTyped /\ AnswerInvariant /\ [ReplyNext]_allVars => AnswerInvariant'
  BY AnswerStep
<1>3. AnswerInvariant => AnswerIsOneAttempt
  BY DEF AnswerInvariant, AnswerIsOneAttempt
<1> QED BY <1>1, <1>2, <1>3, RepliesImplementCalls, CallTyped, PTL DEF ReplySpec
-----------------------------------------------------------------------------
(* What a synthesis delivers.                                              *)

ChunkType == [n : Nat, final : BOOLEAN]

StreamType ==
  [reader : {"read", "send", "gone"}, hand : ChunkType, last : BOOLEAN, read : Nat,
   ended : {"no", "whole", "cut"}, line : {"up", "shut"}, late : BOOLEAN,
   ctx : {"live", "expired", "ended"}, out : Seq(ChunkType), got : Seq(ChunkType),
   listening : BOOLEAN]

\* The pieces of a reply, from the first, and none of them the last.
Pieces(d) == \A j \in DOMAIN d : d[j].n = j /\ ~d[j].final

\* The pieces, and a last chunk that is marked: the last of the n pieces read
\* carries the mark, or an empty chunk after it does.
Marked(d, n) ==
  /\ d # <<>> /\ d[Len(d)].final
  /\ \A j \in DOMAIN d : j < Len(d) => d[j].n = j /\ ~d[j].final
  /\ \/ d[Len(d)].n = Len(d) /\ n = Len(d)
     \/ d[Len(d)].n = 0 /\ n = Len(d) - 1

\* What the channel has carried of a reply, seen from where its reader is: every
\* piece read but the one in its hand.
Faithful(v, s) ==
  LET d == s.got \o s.out IN
  /\ s \in StreamType
  /\ s.reader = "read" => Pieces(d) /\ s.read = Len(d) /\ s.ended = "no"
  /\ s.reader = "send" =>
       /\ Pieces(d) /\ (s.last <=> s.ended # "no") /\ (s.hand.final <=> s.ended = "whole")
       /\ \/ s.hand.n = Len(d) + 1 /\ s.read = Len(d) + 1
          \/ s.hand.n = 0 /\ s.read = Len(d) /\ s.ended = "whole"
  /\ s.reader = "gone" =>
       \/ Pieces(d) /\ (v = "elevenlabs" /\ s.ctx = "live" => s.ended # "whole")
       \/ Marked(d, s.read) /\ s.ended = "whole"

\* A step of the line, the watcher or the leg: it changes neither what was carried
\* nor the reader.
LEMMA FaithfulStays ==
  ASSUME NEW v, NEW s, Faithful(v, s), NEW t \in StreamType,
         t.got \o t.out = s.got \o s.out, t.ctx = "live" => s.ctx = "live",
         t.reader = s.reader, t.hand = s.hand, t.last = s.last, t.read = s.read, t.ended = s.ended
  PROVE  Faithful(v, t)
BY DEF Faithful

\* The reader gives up with nothing more to say.
LEMMA FaithfulGone ==
  ASSUME NEW v, NEW s, Faithful(v, s), s.reader \in {"read", "send"},
         NEW t \in StreamType, t.reader = "gone", t.got \o t.out = s.got \o s.out,
         v = "elevenlabs" /\ t.ctx = "live" => t.ended # "whole"
  PROVE  Faithful(v, t)
BY DEF Faithful

\* A synthesis that has just been opened, or that nobody follows.
LEMMA FaithfulNew ==
  ASSUME NEW v, NEW late \in BOOLEAN
  PROVE  Faithful(v, NewStream(late)) /\ Faithful(v, NoStream)
<1>1. NewStream(late) \in StreamType /\ NewStream(FALSE) \in StreamType
  BY DEF NewStream, StreamType, ChunkType, Chunk
<1>2. NoStream \in StreamType
  BY <1>1 DEF NoStream, NewStream, StreamType, ChunkType, Chunk
<1>3. <<>> \o <<>> = <<>> /\ Pieces(<<>>) /\ Len(<<>>) = 0
  BY DEF Pieces
<1>4. NewStream(late).got = <<>> /\ NewStream(late).out = <<>> /\ NewStream(late).reader = "read"
      /\ NewStream(late).read = 0 /\ NewStream(late).ended = "no"
  BY DEF NewStream
<1>5. NoStream.got = <<>> /\ NoStream.out = <<>> /\ NoStream.reader = "gone" /\ NoStream.ended = "no"
  BY DEF NewStream, NoStream
<1> QED BY <1>1, <1>2, <1>3, <1>4, <1>5 DEF Faithful

\* The reader takes a piece into its hand, with what it learned of the reply's end.
LEMMA FaithfulPiece ==
  ASSUME NEW v, NEW s, Faithful(v, s), s.reader = "read", NEW end \in {"no", "whole", "cut"}
  PROVE  Faithful(v, Holding([s EXCEPT !.read = @ + 1, !.ended = end],
                             Chunk(s.read + 1, end = "whole"), end # "no"))
<1> DEFINE t == Holding([s EXCEPT !.read = @ + 1, !.ended = end],
                        Chunk(s.read + 1, end = "whole"), end # "no")
<1>1. s \in StreamType /\ s.read \in Nat
  BY DEF Faithful, StreamType
<1>2. Chunk(s.read + 1, end = "whole") \in ChunkType
  BY <1>1 DEF Chunk, ChunkType
<1>8. s.read + 1 \in Nat
  BY <1>1
<1>3. [s EXCEPT !.read = s.read + 1, !.ended = end] \in StreamType
  <2> DEFINE r == s.read + 1
  <2> HIDE DEF r
  <2>1. r \in Nat
    BY <1>8 DEF r
  <2>2. [s EXCEPT !.read = r, !.ended = end] \in StreamType
    BY <1>1, <2>1 DEF StreamType
  <2> QED BY <2>2 DEF r
<1>5. t \in StreamType
  BY <1>2, <1>3 DEF StreamType, Holding
<1>4. /\ t.reader = "send" /\ t.hand.n = s.read + 1 /\ t.hand.final = (end = "whole")
      /\ t.last = (end # "no") /\ t.read = s.read + 1 /\ t.ended = end
      /\ t.got = s.got /\ t.out = s.out
  BY <1>1 DEF StreamType, Holding, Chunk
<1>6. /\ Pieces(s.got \o s.out) /\ s.read = Len(s.got \o s.out)
  BY DEF Faithful
<1> DEFINE d == s.got \o s.out
<1> HIDE DEF t
<1>7. t.got \o t.out = d
  BY <1>4
<1> HIDE DEF d
<1>9. /\ Pieces(d) /\ t.reader = "send" /\ (t.last <=> t.ended # "no") /\ (t.hand.final <=> t.ended = "whole")
      /\ t.hand.n = Len(d) + 1 /\ t.read = Len(d) + 1
  BY <1>4, <1>6 DEF d
<1>10. Faithful(v, t)
  BY <1>5, <1>7, <1>9 DEF Faithful
<1> QED BY <1>10 DEF t

\* The reply has ended, and the reader takes an empty chunk to say so.
LEMMA FaithfulEnd ==
  ASSUME NEW v, NEW s, Faithful(v, s), s.reader = "read"
  PROVE  Faithful(v, Holding([s EXCEPT !.ended = "whole"], Chunk(0, TRUE), TRUE))
<1> DEFINE t == Holding([s EXCEPT !.ended = "whole"], Chunk(0, TRUE), TRUE)
<1>1. s \in StreamType
  BY DEF Faithful
<1>2. Chunk(0, TRUE) \in ChunkType
  BY DEF Chunk, ChunkType
<1>3. t \in StreamType
  BY <1>1, <1>2 DEF StreamType, Holding
<1>4. /\ t.reader = "send" /\ t.hand.n = 0 /\ t.hand.final = TRUE /\ t.last = TRUE
      /\ t.read = s.read /\ t.ended = "whole" /\ t.got = s.got /\ t.out = s.out
  BY <1>1 DEF StreamType, Holding, Chunk
<1>5. /\ Pieces(s.got \o s.out) /\ s.read = Len(s.got \o s.out)
  BY DEF Faithful
<1> DEFINE d == s.got \o s.out
<1> HIDE DEF t
<1>6. t.got \o t.out = d
  BY <1>4
<1> HIDE DEF d
<1>7. /\ Pieces(d) /\ t.reader = "send" /\ (t.last <=> t.ended # "no") /\ (t.hand.final <=> t.ended = "whole")
      /\ t.hand.n = 0 /\ t.read = Len(d) /\ t.ended = "whole"
  BY <1>4, <1>5 DEF d
<1>8. Faithful(v, t)
  BY <1>3, <1>6, <1>7 DEF Faithful
<1> QED BY <1>8 DEF t

\* A chunk that goes out is the next of what was carried.
LEMMA CarriedOn ==
  ASSUME NEW got \in Seq(ChunkType), NEW out \in Seq(ChunkType), NEW c \in ChunkType
  PROVE  got \o Append(out, c) = Append(got \o out, c)
OBVIOUS

\* A chunk that the leg takes stays where it was among those carried.
LEMMA CarriedOver ==
  ASSUME NEW got \in Seq(ChunkType), NEW out \in Seq(ChunkType), out # <<>>
  PROVE  /\ Head(out) \in ChunkType /\ Tail(out) \in Seq(ChunkType)
         /\ Append(got, Head(out)) \o Tail(out) = got \o out
<1>1. Head(out) \in ChunkType /\ Tail(out) \in Seq(ChunkType) /\ Len(Tail(out)) = Len(out) - 1
      /\ Head(out) = out[1] /\ \A i \in 1..Len(Tail(out)) : Tail(out)[i] = out[i + 1]
  OBVIOUS
<1> DEFINE g == Append(got, Head(out))
<1>2. g \in Seq(ChunkType) /\ Len(g) = Len(got) + 1 /\ g[Len(got) + 1] = out[1]
      /\ \A i \in 1..Len(got) : g[i] = got[i]
  BY <1>1
<1> HIDE DEF g
<1>3. g \o Tail(out) \in Seq(ChunkType) /\ got \o out \in Seq(ChunkType)
      /\ Len(g \o Tail(out)) = Len(got \o out)
  BY <1>1, <1>2
<1>4. ASSUME NEW i \in 1..Len(got \o out) PROVE (g \o Tail(out))[i] = (got \o out)[i]
  <2>1. CASE i <= Len(got)
    BY <1>1, <1>2, <2>1
  <2>2. CASE i = Len(got) + 1
    BY <1>1, <1>2, <2>2
  <2>3. CASE i > Len(got) + 1
    <3>1. i - Len(g) \in 1..Len(Tail(out)) /\ i - Len(got) = (i - Len(g)) + 1
      BY <1>1, <1>2, <2>3
    <3>2. (g \o Tail(out))[i] = Tail(out)[i - Len(g)]
      <4> DEFINE o == Tail(out)
      <4>1. g \in Seq(ChunkType) /\ o \in Seq(ChunkType) /\ Len(g) = Len(got) + 1
            /\ i \in 1..Len(g \o o)
        BY <1>1, <1>2, <1>3
      <4> HIDE DEF o
      <4>2. i > Len(g)
        BY <2>3, <4>1
      <4>3. (g \o o)[i] = o[i - Len(g)]
        BY <4>1, <4>2
      <4> QED BY <4>3 DEF o
    <3>3. (got \o out)[i] = out[i - Len(got)]
      BY <2>3
    <3>4. Tail(out)[i - Len(g)] = out[(i - Len(g)) + 1]
      BY <1>1, <3>1
    <3> QED BY <3>1, <3>2, <3>3, <3>4
  <2>4. i <= Len(got) \/ i = Len(got) + 1 \/ i > Len(got) + 1
    <3>1. i \in Nat /\ Len(got) \in Nat
      OBVIOUS
    <3> QED BY <3>1
  <2> QED BY <2>1, <2>2, <2>3, <2>4, Zenon
<1>5. g \o Tail(out) = got \o out
  BY <1>3, <1>4
<1> QED BY <1>1, <1>5 DEF g

\* The next chunk: one more piece, or the last, with the mark.
LEMMA PiecesAppend ==
  ASSUME NEW d \in Seq(ChunkType), NEW c \in ChunkType, Pieces(d)
  PROVE  /\ ~c.final /\ c.n = Len(d) + 1 => Pieces(Append(d, c))
         /\ c.final /\ c.n = Len(d) + 1 => Marked(Append(d, c), Len(d) + 1)
         /\ c.final /\ c.n = 0 => Marked(Append(d, c), Len(d))
<1> DEFINE e == Append(d, c)
<1>1. /\ Len(d) \in Nat /\ Len(e) = Len(d) + 1 /\ e[Len(d) + 1] = c /\ e # <<>>
      /\ DOMAIN e = 1..Len(e) /\ DOMAIN d = 1..Len(d)
  OBVIOUS
<1>2. \A j \in DOMAIN e : j < Len(e) => j \in DOMAIN d /\ e[j] = d[j]
  OBVIOUS
<1> HIDE DEF e
<1>3. \A j \in DOMAIN e : j < Len(e) => e[j].n = j /\ ~e[j].final
  BY <1>2 DEF Pieces
<1>4. e[Len(e)] = c
  BY <1>1
<1>5. ASSUME ~c.final, c.n = Len(d) + 1 PROVE Pieces(e)
  BY <1>1, <1>3, <1>4, <1>5 DEF Pieces
<1>6. ASSUME c.final, c.n = Len(d) + 1 PROVE Marked(e, Len(d) + 1)
  BY <1>1, <1>3, <1>4, <1>6 DEF Marked
<1>7. ASSUME c.final, c.n = 0 PROVE Marked(e, Len(d))
  BY <1>1, <1>3, <1>4, <1>7 DEF Marked
<1> QED BY <1>5, <1>6, <1>7 DEF e

\* The reader sends what it has in hand, and returns or reads on.
LEMMA FaithfulSent ==
  ASSUME NEW v, NEW s, Faithful(v, s), s.reader = "send"
  PROVE  LET sent == [s EXCEPT !.out = Append(@, s.hand)]
         IN  /\ s.last \/ s.ctx # "live" => Faithful(v, Left(sent))
             /\ ~s.last => Faithful(v, [sent EXCEPT !.reader = "read", !.hand = Chunk(0, FALSE)])
<1> DEFINE sent == [s EXCEPT !.out = Append(@, s.hand)]
           left == Left(sent)
           on == [sent EXCEPT !.reader = "read", !.hand = Chunk(0, FALSE)]
           d == s.got \o s.out
           e == Append(d, s.hand)
<1>1. /\ s \in StreamType /\ s.got \in Seq(ChunkType) /\ s.out \in Seq(ChunkType)
      /\ s.hand \in ChunkType
  BY DEF Faithful, StreamType
<1>2. Chunk(0, FALSE) \in ChunkType /\ Append(s.out, s.hand) \in Seq(ChunkType)
  BY <1>1 DEF Chunk, ChunkType
<1>3. sent \in StreamType
  BY <1>1, <1>2 DEF StreamType
<1>4. left \in StreamType /\ on \in StreamType
  BY <1>2, <1>3 DEF StreamType, Left
<1>5. /\ left.reader = "gone" /\ left.read = s.read /\ left.ended = s.ended /\ left.ctx = s.ctx
      /\ left.got = s.got /\ left.out = Append(s.out, s.hand)
      /\ on.reader = "read" /\ on.read = s.read /\ on.ended = s.ended
      /\ on.got = s.got /\ on.out = Append(s.out, s.hand)
  BY <1>1 DEF StreamType, Left
<1>6. s.got \o Append(s.out, s.hand) = e
  BY <1>1, CarriedOn
<1>7. /\ Pieces(d) /\ (s.last <=> s.ended # "no") /\ (s.hand.final <=> s.ended = "whole")
      /\ \/ s.hand.n = Len(d) + 1 /\ s.read = Len(d) + 1
         \/ s.hand.n = 0 /\ s.read = Len(d) /\ s.ended = "whole"
  BY DEF Faithful
<1>8. d \in Seq(ChunkType) /\ Len(e) = Len(d) + 1
  BY <1>1
<1>9. /\ s.ended # "whole" => Pieces(e) /\ s.read = Len(e)
      /\ s.ended = "whole" => Marked(e, s.read)
  BY <1>1, <1>7, <1>8, PiecesAppend
<1> HIDE DEF left, on, d, e, sent
<1>10. Faithful(v, left)
  BY <1>4, <1>5, <1>6, <1>9 DEF Faithful
<1>11. ASSUME ~s.last PROVE Faithful(v, on)
  BY <1>4, <1>5, <1>6, <1>7, <1>9, <1>11 DEF Faithful
<1> QED BY <1>10, <1>11 DEF left, on, sent

\* The leg takes a chunk: what was carried stays as it was.
LEMMA FaithfulTaken ==
  ASSUME NEW v, NEW s, Faithful(v, s), s.out # <<>>
  PROVE  LET taken == [s EXCEPT !.out = Tail(@), !.got = Append(@, Head(s.out))]
         IN  Faithful(v, taken) /\ Faithful(v, Returned(taken))
<1> DEFINE taken == [s EXCEPT !.out = Tail(@), !.got = Append(@, Head(s.out))]
<1>1. s \in StreamType /\ s.got \in Seq(ChunkType) /\ s.out \in Seq(ChunkType)
  BY DEF Faithful, StreamType
<1>6. /\ Head(s.out) \in ChunkType /\ Tail(s.out) \in Seq(ChunkType)
      /\ Append(s.got, Head(s.out)) \o Tail(s.out) = s.got \o s.out
  BY <1>1, CarriedOver
<1>2. Append(s.got, Head(s.out)) \in Seq(ChunkType)
  BY <1>1, <1>6
<1>3. taken \in StreamType /\ Returned(taken) \in StreamType
  BY <1>1, <1>2, <1>6 DEF StreamType, Returned
<1>4. /\ taken.got \o taken.out = s.got \o s.out /\ taken.ctx = s.ctx
      /\ taken.reader = s.reader /\ taken.hand = s.hand /\ taken.last = s.last
      /\ taken.read = s.read /\ taken.ended = s.ended
  BY <1>1, <1>2, <1>6 DEF StreamType
<1>5. /\ Returned(taken).got \o Returned(taken).out = s.got \o s.out /\ Returned(taken).ctx = "ended"
      /\ Returned(taken).reader = s.reader /\ Returned(taken).hand = s.hand
      /\ Returned(taken).last = s.last /\ Returned(taken).read = s.read
      /\ Returned(taken).ended = s.ended
  BY <1>1, <1>2, <1>6 DEF StreamType, Returned
<1> HIDE DEF taken
<1>7. Faithful(v, taken) /\ Faithful(v, Returned(taken))
  BY <1>3, <1>4, <1>5, FaithfulStays
<1> QED BY <1>7 DEF taken

\* What the channel of every synthesis has carried is faithful to the reply.
DeliveryInvariant ==
  /\ DOMAIN stream = Callers
  /\ \A c \in Callers : Faithful(client, stream[c])

\* One synthesis changes, or is forgotten, and the others are left alone.
LEMMA DeliveryOfOne ==
  ASSUME DeliveryInvariant, NEW c \in Callers, NEW s, Set(c, s), Faithful(client, s)
  PROVE  DeliveryInvariant'
<1>1. Faithful(client, NoStream)
  BY FaithfulNew
<1>2. \/ stream' = [stream EXCEPT ![c] = NoStream]
      \/ stream' = [stream EXCEPT ![c] = s]
  BY DEF Set
<1>3. client' = client
  BY DEF Set
<1>4. ASSUME NEW t, Faithful(client, t), stream' = [stream EXCEPT ![c] = t]
      PROVE  DeliveryInvariant'
  BY <1>3, <1>4 DEF DeliveryInvariant
<1> QED BY <1>1, <1>2, <1>4

\* The goroutine that reads the reply.
LEMMA ReadingDelivers ==
  ASSUME DeliveryInvariant, NEW c \in Callers,
         ReadLoop(c) \/ ReadFails(c) \/ LateWatcher(c) \/ (client = "cartesia" /\ CartesiaReads(c))
         \/ ElevenLabsReads(c)
  PROVE  DeliveryInvariant'
<1> DEFINE s == stream[c]
<1>0. Faithful(client, s) /\ s \in StreamType
  BY DEF DeliveryInvariant, Faithful
<1>1. CASE SendsChunk(c)
  <2> DEFINE sent == [s EXCEPT !.out = Append(@, s.hand)]
             on == [sent EXCEPT !.reader = "read", !.hand = Chunk(0, FALSE)]
  <2>1. s.reader = "send" /\ Set(c, IF s.last \/ s.ctx # "live" THEN Left(sent) ELSE on)
    BY <1>1 DEF SendsChunk
  <2>2. /\ s.last \/ s.ctx # "live" => Faithful(client, Left(sent))
        /\ ~s.last => Faithful(client, on)
    BY <1>0, <2>1, FaithfulSent
  <2> HIDE DEF sent, on, s
  <2>3. Faithful(client, IF s.last \/ s.ctx # "live" THEN Left(sent) ELSE on)
    BY <2>2
  <2> QED BY <2>1, <2>3, DeliveryOfOne
<1>2. ASSUME NEW e \in {"no", "whole", "cut"}, s.reader \in {"read", "send"},
             Set(c, Left([s EXCEPT !.ended = e])) \/ (e = s.ended /\ Set(c, Left(s))),
             client = "elevenlabs" /\ s.ctx = "live" => e # "whole"
      PROVE  DeliveryInvariant'
  <2>1. PICK t : Set(c, t) /\ (t = Left([s EXCEPT !.ended = e]) \/ (t = Left(s) /\ e = s.ended))
    BY <1>2
  <2>2. Chunk(0, FALSE) \in ChunkType
    BY DEF Chunk, ChunkType
  <2>3. t \in StreamType
    BY <1>0, <2>1, <2>2 DEF StreamType, Left
  <2>4. t.reader = "gone" /\ t.got = s.got /\ t.out = s.out /\ t.ctx = s.ctx /\ t.ended = e
    BY <1>0, <2>1 DEF StreamType, Left
  <2> HIDE DEF s
  <2>5. Faithful(client, t)
    BY <1>0, <1>2, <2>3, <2>4, FaithfulGone
  <2> QED BY <2>1, <2>5, DeliveryOfOne
<1>3. CASE ChunkAbandoned(c)
  BY <1>0, <1>2, <1>3 DEF ChunkAbandoned, StreamType
<1>4. CASE ReadFails(c)
  <2>1. s.reader = "read" /\ s.ended = "no"
    BY <1>0, <1>4 DEF ReadFails, Faithful
  <2> QED BY <1>0, <1>2, <1>4, <2>1 DEF ReadFails
<1>5. ASSUME NEW t \in StreamType, Set(c, t), t.got = s.got, t.out = s.out, t.ctx = s.ctx,
             t.reader = s.reader, t.hand = s.hand, t.last = s.last, t.read = s.read,
             t.ended = s.ended
      PROVE  DeliveryInvariant'
  <2> HIDE DEF s
  <2>1. Faithful(client, t)
    BY <1>0, <1>5, FaithfulStays
  <2> QED BY <1>5, <2>1, DeliveryOfOne
<1>6. CASE CancelShuts(c)
  <2>1. Set(c, [s EXCEPT !.line = "shut"]) /\ [s EXCEPT !.line = "shut"] \in StreamType
    BY <1>0, <1>6 DEF CancelShuts, StreamType
  <2> QED BY <1>0, <1>5, <2>1 DEF StreamType
<1>7. CASE LateWatcher(c)
  <2>1. PICK t \in {[s EXCEPT !.late = FALSE], [s EXCEPT !.late = FALSE, !.line = "shut"]} : Set(c, t)
    BY <1>7 DEF LateWatcher
  <2>2. t \in StreamType
    BY <1>0 DEF StreamType
  <2>3. /\ t.got = s.got /\ t.out = s.out /\ t.ctx = s.ctx /\ t.reader = s.reader
        /\ t.hand = s.hand /\ t.last = s.last /\ t.read = s.read /\ t.ended = s.ended
    BY <1>0 DEF StreamType
  <2> QED BY <1>5, <2>1, <2>2, <2>3
<1>8. ASSUME NEW e \in {"no", "whole", "cut"}, Piece(c, e) PROVE DeliveryInvariant'
  <2> DEFINE t == Holding([s EXCEPT !.read = @ + 1, !.ended = e],
                          Chunk(s.read + 1, e = "whole"), e # "no")
  <2>1. s.reader = "read" /\ Set(c, t)
    BY <1>8 DEF Piece
  <2>2. Faithful(client, t)
    BY <1>0, <2>1, FaithfulPiece
  <2> QED BY <2>1, <2>2, DeliveryOfOne
<1>9. CASE client = "cartesia" /\ CartesiaReads(c)
  <2>1. CASE Ends(c) /\ Set(c, Left([s EXCEPT !.ended = "whole"]))
    <3>1. s.reader = "read"
      BY <2>1 DEF Ends
    <3> QED BY <1>2, <1>9, <2>1, <3>1
  <2> QED BY <1>8, <1>9, <2>1 DEF CartesiaReads
<1>10. CASE ElevenLabsReads(c)
  <2>1. CASE Ends(c) /\ Set(c, Holding([s EXCEPT !.ended = "whole"], Chunk(0, TRUE), TRUE))
    <3>1. s.reader = "read"
      BY <2>1 DEF Ends
    <3>2. Faithful(client, Holding([s EXCEPT !.ended = "whole"], Chunk(0, TRUE), TRUE))
      BY <1>0, <3>1, FaithfulEnd
    <3> QED BY <2>1, <3>2, DeliveryOfOne
  <2> QED BY <1>8, <1>10, <2>1 DEF ElevenLabsReads
<1> QED BY <1>1, <1>3, <1>4, <1>6, <1>7, <1>9, <1>10 DEF ReadLoop

\* The leg that listens, and its deadline.
LEMMA ListeningDelivers ==
  ASSUME DeliveryInvariant, NEW c \in Callers, Listens(c) \/ DeadlinePasses(c) \/ SessionEnds(c)
  PROVE  DeliveryInvariant'
<1> DEFINE s == stream[c]
<1>0. Faithful(client, s) /\ s \in StreamType
  BY DEF DeliveryInvariant, Faithful
<1>1. CASE Takes(c)
  <2> DEFINE taken == [s EXCEPT !.out = Tail(@), !.got = Append(@, Head(s.out))]
             t == IF s.got = <<>> /\ Head(s.out).final THEN Returned(taken) ELSE taken
  <2>1. s.out # <<>> /\ Set(c, t)
    BY <1>1 DEF Takes
  <2>2. Faithful(client, taken) /\ Faithful(client, Returned(taken))
    BY <1>0, <2>1, FaithfulTaken
  <2> HIDE DEF taken
  <2>3. Faithful(client, t)
    BY <2>2
  <2> QED BY <2>1, <2>3, DeliveryOfOne
<1>2. ASSUME NEW t \in {Returned(s), [s EXCEPT !.ctx = "expired"], [s EXCEPT !.ctx = "ended"]},
             Set(c, t)
      PROVE  DeliveryInvariant'
  <2>1. t \in StreamType
    BY <1>0 DEF StreamType, Returned
  <2>2. /\ t.got = s.got /\ t.out = s.out /\ t.ctx # "live" /\ t.reader = s.reader
        /\ t.hand = s.hand /\ t.last = s.last /\ t.read = s.read /\ t.ended = s.ended
    BY <1>0 DEF StreamType, Returned
  <2> HIDE DEF s
  <2>3. Faithful(client, t)
    BY <1>0, <2>1, <2>2, FaithfulStays
  <2> QED BY <1>2, <2>3, DeliveryOfOne
<1> QED BY <1>1, <1>2 DEF Listens, SeesClose, Abandons, DeadlinePasses, SessionEnds

\* A call that is accepted opens its synthesis, a call that begins has none.
LEMMA OpeningDelivers ==
  ASSUME DeliveryInvariant, NEW c \in Callers, client' = client,
         \/ stream' = stream \/ stream' = [stream EXCEPT ![c] = NoStream]
         \/ \E late \in BOOLEAN : Opens(c, late)
  PROVE  DeliveryInvariant'
<1>1. ASSUME NEW t, Faithful(client, t), stream' = [stream EXCEPT ![c] = t]
      PROVE  DeliveryInvariant'
  BY <1>1 DEF DeliveryInvariant
<1>2. \A late \in BOOLEAN : Faithful(client, NewStream(late)) /\ Faithful(client, NoStream)
  BY FaithfulNew
<1>3. CASE stream' = stream
  BY <1>3 DEF DeliveryInvariant
<1> QED BY <1>1, <1>2, <1>3 DEF Opens

\* Every step keeps every delivery faithful.
LEMMA DeliveryStep ==
  ASSUME DeliveryInvariant, [ReplyNext]_allVars
  PROVE  DeliveryInvariant'
<1>1. ASSUME NEW c \in Callers,
             Tries(c) \/ ReadsText(c) \/ Translated(c) \/ GeminiBlocks(c) \/ CartesiaAccepts(c)
             \/ ElevenLabsAccepts(c)
      PROVE  DeliveryInvariant'
  <2>1. /\ client' = client
        /\ \/ stream' = stream \/ stream' = [stream EXCEPT ![c] = NoStream]
           \/ \E late \in BOOLEAN : Opens(c, late)
    BY <1>1 DEF Tries, Begins, TriesAgain, Fails, ReadsText, Translated, GeminiBlocks, Accepted,
       CartesiaAccepts, ElevenLabsAccepts, replyVars
  <2> QED BY <2>1, OpeningDelivers
<1>2. ASSUME NEW c \in Callers, Listens(c) \/ DeadlinePasses(c) \/ SessionEnds(c)
      PROVE  DeliveryInvariant'
  BY <1>2, ListeningDelivers
<1>3. ASSUME NEW c \in Callers, Gpt4oTranslate(c) \/ GeminiTranslate(c) PROVE DeliveryInvariant'
  BY <1>1, <1>3 DEF Gpt4oTranslate, GeminiTranslate
<1>4. ASSUME NEW c \in Callers, CartesiaSynthesize(c) \/ ElevenLabsSynthesize(c)
      PROVE  DeliveryInvariant'
  BY <1>1, <1>4, ReadingDelivers DEF CartesiaSynthesize, ElevenLabsSynthesize
<1>5. CASE Surroundings \/ UNCHANGED allVars
  BY <1>5 DEF Surroundings, allVars, replyVars, DeliveryInvariant
<1> QED BY <1>2, <1>3, <1>4, <1>5 DEF ReplyNext

\* Only a whole reply says that it is final, after the last of its pieces, and
\* ElevenLabs says so of every reply it has read to its end.
LEMMA FaithfulMarks ==
  ASSUME NEW v, NEW s, Faithful(v, s)
  PROVE  LET d == s.got \o s.out
         IN  /\ \A i \in DOMAIN d : d[i].final =>
                  /\ s.ended = "whole" /\ i = Len(d)
                  /\ {d[j].n : j \in DOMAIN d} \ {0} = 1..s.read
                  /\ \A j \in DOMAIN d : d[j].n \in {j, 0}
             /\ (v = "elevenlabs" /\ s.reader = "gone" /\ s.ended = "whole" /\ s.ctx = "live")
                  => \E i \in DOMAIN d : d[i].final
<1> DEFINE d == s.got \o s.out
<1>1. s.reader \in {"read", "send", "gone"} /\ s.got \in Seq(ChunkType) /\ s.out \in Seq(ChunkType)
  BY DEF Faithful, StreamType
<1>2. d \in Seq(ChunkType) /\ Len(d) \in Nat /\ DOMAIN d = 1..Len(d)
  <2>1. s.got \o s.out \in Seq(ChunkType)
    BY <1>1
  <2>2. \A e \in Seq(ChunkType) : Len(e) \in Nat /\ DOMAIN e = 1..Len(e)
    OBVIOUS
  <2> QED BY <2>1, <2>2
<1>3. \/ Pieces(d) /\ (s.reader = "gone" => (v = "elevenlabs" /\ s.ctx = "live" => s.ended # "whole"))
      \/ Marked(d, s.read) /\ s.ended = "whole"
  BY <1>1 DEF Faithful
<1> HIDE DEF d
<1>4. CASE Pieces(d) /\ (s.reader = "gone" => (v = "elevenlabs" /\ s.ctx = "live" => s.ended # "whole"))
  <2>1. \A i \in DOMAIN d : ~d[i].final
    BY <1>4 DEF Pieces
  <2> QED BY <1>4, <2>1 DEF d
<1>5. CASE Marked(d, s.read) /\ s.ended = "whole"
  <2> DEFINE m == Len(d)
  <2>1. m \in Nat \ {0} /\ DOMAIN d = 1..m
    BY <1>2, <1>5 DEF Marked
  <2>2. d[m].final /\ \A j \in 1..m : j < m => d[j].n = j /\ ~d[j].final
    BY <1>5, <2>1 DEF Marked
  <2>3. (d[m].n = m /\ s.read = m) \/ (d[m].n = 0 /\ s.read = m - 1)
    BY <1>5 DEF Marked
  <2> HIDE DEF m
  <2>4. \A i \in 1..m : d[i].final => i = m
    BY <2>1, <2>2
  <2>5. \A j \in 1..m : d[j].n \in {j, 0}
    BY <2>1, <2>2, <2>3
  <2>6. {d[j].n : j \in 1..m} \ {0} = 1..s.read
    <3>1. ASSUME NEW x \in 1..s.read PROVE x \in {d[j].n : j \in 1..m} \ {0}
      <4>1. x \in 1..m /\ d[x].n = x /\ x # 0
        BY <2>1, <2>2, <2>3
      <4> QED BY <4>1
    <3>2. ASSUME NEW j \in 1..m, d[j].n # 0 PROVE d[j].n \in 1..s.read
      BY <2>1, <2>2, <2>3, <3>2
    <3> QED BY <3>1, <3>2
  <2>7. m = Len(d)
    BY DEF m
  <2>8. /\ \A i \in DOMAIN d : d[i].final =>
             /\ s.ended = "whole" /\ i = Len(d)
             /\ {d[j].n : j \in DOMAIN d} \ {0} = 1..s.read
             /\ \A j \in DOMAIN d : d[j].n \in {j, 0}
        /\ \E i \in DOMAIN d : d[i].final
    <3>1. m \in DOMAIN d
      BY <2>1
    <3> QED BY <1>5, <2>1, <2>2, <2>4, <2>5, <2>6, <2>7, <3>1
  <2> QED BY <2>8 DEF d
<1> QED BY <1>3, <1>4, <1>5

\* However deadlines, cut connections and the end of the session fall among the
\* pieces of a reply, a chunk is marked final only when all of the reply has been
\* delivered before it (readLoop of cartesia.go and elevenlabs.go).
THEOREM FinalMeansWhole == ReplySpec => []FinalMarksCompletion
<1>1. ReplyInit => DeliveryInvariant
  BY FaithfulNew DEF ReplyInit, DeliveryInvariant
<1>2. DeliveryInvariant => FinalMarksCompletion
  BY FaithfulMarks, Zenon DEF DeliveryInvariant, FinalMarksCompletion, Delivered
<1> QED BY <1>1, <1>2, DeliveryStep, PTL DEF ReplySpec
=============================================================================
