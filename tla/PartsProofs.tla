----------------------------- MODULE PartsProofs -----------------------------
(* For all values of their constants, the parts around a session: a page of *)
(* the dashboard adds up, the mock backends give back what they were given, *)
(* the sides of a call are understood and heard in voices asked for, a seat *)
(* of a room loses nothing but what its end cuts off, and messages of       *)
(* Cartesia come whole.  Each part has an inductive invariant, and a lemma  *)
(* per step that could disturb it.                                          *)
EXTENDS Recorder, Media, Frames, MockCall, Selection, Integers, FiniteSetTheorems,
        SequenceTheorems, TLAPS

-----------------------------------------------------------------------------
(* The pages of the dashboard (Recorder): a leg that has been counted out   *)
(* of one stage and not yet into the next makes up the difference between   *)
(* the two, for any finite set of legs and however many utterances.         *)

RecorderTyped ==
  /\ place \in [Legs -> Place]
  /\ heard \in [Legs -> Nat]
  /\ degraded \in [Legs -> BOOLEAN]
  /\ samples \in [Latency -> Nat]
  /\ errors \in [Event -> Nat]
  /\ totals \in [Event -> Nat]
  /\ reasons \in [Event -> Nat]
  /\ scraping \in {"none", "text events", "text reasons", "data reasons", "data samples", "served"}
  /\ page \in [kind : {"none", "text", "data"}, samples : [Latency -> Nat],
               errors : [Event -> Nat], totals : [Event -> Nat],
               reasons : [Event -> Nat]]
  /\ scrapes \in Nat

\* Where a leg is that has still to be counted, or timed, in the next stage.
DueTranslate == {"timed", "asked", "answered"}
DueAsrSample == {"timed"}
DueMtSample == {"timed", "asked"}
DueTts == {"tts", "speaking"}
DueTtsSample == {"tts"}

Due(S) == Cardinality({l \in Legs : place[l] \in S})

\* The counters with the legs that are between two stages.
LiveAddsUp ==
  /\ ReasonsAddUp(reasons, errors)
  /\ \A stage \in Event : errors[stage] <= totals[stage]
  /\ totals["translate"] + Due(DueTranslate) <= totals["asr_confidence"] - errors["asr_confidence"]
  /\ samples["asr_first_chunk"] + Due(DueAsrSample) <= totals["asr_confidence"] - errors["asr_confidence"]
  /\ samples["mt"] + Due(DueMtSample) <= totals["asr_confidence"] - errors["asr_confidence"]
  /\ totals["tts"] + Due(DueTts) <= totals["translate"] - errors["translate"]
  /\ samples["tts_first_chunk"] + Due(DueTtsSample) <= totals["translate"] - errors["translate"]

\* The tables read so far.
TablesAddUp ==
  /\ scraping \in {"text events", "text reasons"} => page.kind = "text"
  /\ scraping \in {"data reasons", "data samples"} => page.kind = "data"
  /\ scraping = "text events" => SamplesAddUp(page.samples, errors, totals)
  /\ scraping \in {"text reasons", "data reasons", "data samples", "served"} => EventsAddUp(page.errors, page.totals)
  /\ scraping \in {"data samples", "served"} => ReasonsAddUp(page.reasons, errors)
  /\ scraping \in {"text reasons", "served"} /\ page.kind = "text"
       => SamplesAddUp(page.samples, page.errors, page.totals)

RecorderInv == RecorderTyped /\ LiveAddsUp /\ TablesAddUp

-----------------------------------------------------------------------------
\* A count of legs at some places, before a step or after it, is a number.
LEMMA CountIsNat ==
  ASSUME NEW at, NEW S PROVE Cardinality({l \in Legs : at[l] \in S}) \in Nat
<1>1. {l \in Legs : at[l] \in S} \subseteq Legs
  OBVIOUS
<1> QED BY <1>1, RecorderAssumption, FS_Subset, FS_CardinalityType

\* So is what is due of a stage.
LEMMA DueIsNat == ASSUME NEW S PROVE Due(S) \in Nat
BY CountIsNat DEF Due

\* It changes by one when a leg comes there or goes away from there.
LEMMA Moving ==
  ASSUME RecorderTyped, NEW l \in Legs, NEW from, NEW to \in Place, Goes(l, from, to), NEW S
  PROVE  Due(S)' = Due(S) + (IF to \in S THEN 1 ELSE 0) - (IF from \in S THEN 1 ELSE 0)
<1> DEFINE At == {k \in Legs : place[k] \in S}
           Others == At \ {l}
<1>1. IsFiniteSet(At) /\ IsFiniteSet(Others)
  <2>1. At \subseteq Legs /\ Others \subseteq Legs
    OBVIOUS
  <2> QED BY <2>1, RecorderAssumption, FS_Subset
<1>2. Cardinality(At) = Cardinality(Others) + (IF from \in S THEN 1 ELSE 0)
  <2>1. place[l] = from
    BY DEF Goes
  <2>2. CASE from \in S
    <3>1. At = Others \cup {l} /\ l \notin Others
      BY <2>1, <2>2
    <3>2. Cardinality(Others \cup {l}) = Cardinality(Others) + 1
      BY <1>1, <3>1, FS_AddElement
    <3> QED BY <2>2, <3>1, <3>2
  <2>3. CASE from \notin S
    <3>1. At = Others
      BY <2>1, <2>3
    <3>2. Cardinality(At) = Cardinality(Others)
      BY <3>1, Zenon
    <3>3. Cardinality(Others) \in Nat
      BY <1>1, FS_CardinalityType
    <3> HIDE DEF At, Others
    <3> QED BY <2>3, <3>2, <3>3
  <2> QED BY <2>2, <2>3
<1>3. Cardinality(At') = Cardinality(Others) + (IF to \in S THEN 1 ELSE 0)
  <2>0. place' = [place EXCEPT ![l] = to] /\ place \in [Legs -> Place]
    BY DEF Goes, RecorderTyped
  <2>1. place'[l] = to /\ \A k \in Legs \ {l} : place'[k] = place[k]
    BY <2>0
  <2>2. CASE to \in S
    <3>1. At' = Others \cup {l} /\ l \notin Others
      BY <2>1, <2>2
    <3>2. Cardinality(Others \cup {l}) = Cardinality(Others) + 1
      BY <1>1, <3>1, FS_AddElement
    <3> QED BY <2>2, <3>1, <3>2
  <2>3. CASE to \notin S
    <3>1. At' = Others
      BY <2>1, <2>3
    <3>2. Cardinality(At') = Cardinality(Others)
      BY <3>1, Zenon
    <3>3. Cardinality(Others) \in Nat
      BY <1>1, FS_CardinalityType
    <3> HIDE DEF At, Others
    <3> QED BY <2>3, <3>2, <3>3
  <2> QED BY <2>2, <2>3
<1>4. Cardinality(Others) \in Nat
  BY <1>1, FS_CardinalityType
<1>5. Due(S) = Cardinality(At) /\ Due(S)' = Cardinality(At')
  BY DEF Due
<1> HIDE DEF At, Others
<1> QED BY <1>2, <1>3, <1>4, <1>5

\* The five counts after a leg's step.
LEMMA MovingDue ==
  ASSUME RecorderTyped, NEW l \in Legs, NEW from, NEW to \in Place, Goes(l, from, to)
  PROVE  \A S \in {DueTranslate, DueAsrSample, DueMtSample, DueTts, DueTtsSample} :
           /\ Due(S) \in Nat
           /\ Due(S)' = Due(S) + (IF to \in S THEN 1 ELSE 0) - (IF from \in S THEN 1 ELSE 0)
BY DueIsNat, Moving

\* One counter of a table goes up.
LEMMA Bump ==
  ASSUME NEW S, NEW f \in [S -> Nat], NEW g, NEW s \in S, g = [f EXCEPT ![s] = @ + 1]
  PROVE  g \in [S -> Nat] /\ g[s] = f[s] + 1 /\ \A u \in S \ {s} : g[u] = f[u]
OBVIOUS

\* What a record does to the counters.
LEMMA Records ==
  ASSUME RecorderTyped
  PROVE  /\ \A s \in Latency : Record(s) =>
              /\ samples'[s] = samples[s] + 1 /\ \A u \in Latency \ {s} : samples'[u] = samples[u]
              /\ samples' \in [Latency -> Nat] /\ UNCHANGED <<errors, totals, reasons>>
         /\ \A s \in Event : RecordEvent(s) =>
              /\ totals'[s] = totals[s] + 1 /\ \A u \in Event \ {s} : totals'[u] = totals[u]
              /\ totals' \in [Event -> Nat] /\ UNCHANGED <<samples, errors, reasons>>
         /\ \A s \in Event, n \in BOOLEAN : RecordErrorReason(s, n) =>
              /\ totals'[s] = totals[s] + 1 /\ \A u \in Event \ {s} : totals'[u] = totals[u]
              /\ errors'[s] = errors[s] + 1 /\ \A u \in Event \ {s} : errors'[u] = errors[u]
              /\ totals' \in [Event -> Nat] /\ errors' \in [Event -> Nat]
              /\ reasons' \in [Event -> Nat] /\ UNCHANGED samples
<1>1. ASSUME NEW s \in Latency, Record(s)
      PROVE  /\ samples'[s] = samples[s] + 1 /\ \A u \in Latency \ {s} : samples'[u] = samples[u]
             /\ samples' \in [Latency -> Nat] /\ UNCHANGED <<errors, totals, reasons>>
  <2>1. samples' = [samples EXCEPT ![s] = @ + 1] /\ UNCHANGED <<errors, totals, reasons>>
    BY <1>1 DEF Record
  <2>2. samples \in [Latency -> Nat]
    BY DEF RecorderTyped
  <2> QED BY ONLY <2>1, <2>2, s \in Latency, Bump
<1>2. ASSUME NEW s \in Event, RecordEvent(s)
      PROVE  /\ totals'[s] = totals[s] + 1 /\ \A u \in Event \ {s} : totals'[u] = totals[u]
             /\ totals' \in [Event -> Nat] /\ UNCHANGED <<samples, errors, reasons>>
  <2>1. totals' = [totals EXCEPT ![s] = @ + 1] /\ UNCHANGED <<samples, errors, reasons>>
    BY <1>2 DEF RecordEvent
  <2>2. totals \in [Event -> Nat]
    BY DEF RecorderTyped
  <2> QED BY ONLY <2>1, <2>2, s \in Event, Bump
<1>3. ASSUME NEW s \in Event, NEW n \in BOOLEAN, RecordErrorReason(s, n)
      PROVE  /\ totals'[s] = totals[s] + 1 /\ \A u \in Event \ {s} : totals'[u] = totals[u]
             /\ errors'[s] = errors[s] + 1 /\ \A u \in Event \ {s} : errors'[u] = errors[u]
             /\ totals' \in [Event -> Nat] /\ errors' \in [Event -> Nat]
             /\ reasons' \in [Event -> Nat] /\ UNCHANGED samples
  <2>1. /\ totals' = [totals EXCEPT ![s] = @ + 1] /\ errors' = [errors EXCEPT ![s] = @ + 1]
        /\ reasons' = [reasons EXCEPT ![s] = @ + 1] \/ reasons' = reasons
        /\ UNCHANGED samples
    BY <1>3 DEF RecordErrorReason
  <2>2. totals \in [Event -> Nat] /\ errors \in [Event -> Nat] /\ reasons \in [Event -> Nat]
    BY DEF RecorderTyped
  <2>3. totals' \in [Event -> Nat] /\ totals'[s] = totals[s] + 1
        /\ \A u \in Event \ {s} : totals'[u] = totals[u]
    BY ONLY <2>1, <2>2, s \in Event, Bump
  <2>4. errors' \in [Event -> Nat] /\ errors'[s] = errors[s] + 1
        /\ \A u \in Event \ {s} : errors'[u] = errors[u]
    BY ONLY <2>1, <2>2, s \in Event, Bump
  <2>5. reasons' \in [Event -> Nat]
    BY ONLY <2>1, <2>2, s \in Event, Bump
  <2> QED BY <2>1, <2>3, <2>4, <2>5
<1> QED BY <1>1, <1>2, <1>3

-----------------------------------------------------------------------------
\* A leg's step is one record, or none, and a move.
LEMMA LegRecords ==
  ASSUME NEW l \in Legs, LegStep(l)
  PROVE  /\ \/ \E s \in Latency : Record(s)
            \/ \E s \in Event : RecordEvent(s)
            \/ \E s \in Event, n \in BOOLEAN : RecordErrorReason(s, n)
            \/ RecordNothing
         /\ \E from, to \in Place : Goes(l, from, to)
         /\ heard' = heard \/ heard' = [heard EXCEPT ![l] = @ + 1]
         /\ degraded' = degraded \/ degraded' = [degraded EXCEPT ![l] = TRUE]
<1> USE DEF Place, Event, Latency, Hears, RecordError, recordFallback, recordFallbackErr,
            recordFallbackReason, recordSuccessMetric, recordLatency, recordTotalIfStarted
<1>1. CASE HearsDegraded(l) BY <1>1 DEF HearsDegraded
<1>2. CASE HearsUnsure(l) BY <1>2 DEF HearsUnsure
<1>3. CASE HearsWell(l) BY <1>3 DEF HearsWell
<1>4. CASE LegDies(l) BY <1>4 DEF LegDies
<1>5. CASE TimesAsr(l) BY <1>5 DEF TimesAsr
<1>6. CASE TimesMt(l) BY <1>6 DEF TimesMt
<1>7. CASE Translates(l) BY <1>7 DEF Translates
<1>8. CASE TranslateFails(l) BY <1>8 DEF TranslateFails
<1>9. CASE CountsFailure(l) BY <1>9 DEF CountsFailure
<1>10. CASE TtsFails(l) BY <1>10 DEF TtsFails
<1>11. CASE TtsStarts(l) BY <1>11 DEF TtsStarts
<1>12. CASE TtsEnds(l) BY <1>12 DEF TtsEnds
<1>13. CASE TimesTotal(l) BY <1>13 DEF TimesTotal
<1>14. CASE FlushesDead(l) BY <1>14 DEF FlushesDead
<1>15. CASE Leaves(l) BY <1>15 DEF Leaves
<1> QED
  BY <1>1, <1>2, <1>3, <1>4, <1>5, <1>6, <1>7, <1>8, <1>9, <1>10, <1>11, <1>12, <1>13,
     <1>14, <1>15, LegStep(l) DEF LegStep

\* The tables keep their types, and successes are never taken back.
LEMMA LegKeepsTypes ==
  ASSUME RecorderTyped, NEW l \in Legs, LegStep(l)
  PROVE  /\ RecorderTyped'
         /\ UNCHANGED <<scraping, page, scrapes>>
         /\ \A s \in Event : totals[s] - errors[s] <= totals'[s] - errors'[s]
<1>1. /\ samples' \in [Latency -> Nat] /\ errors' \in [Event -> Nat]
      /\ totals' \in [Event -> Nat] /\ reasons' \in [Event -> Nat]
      /\ \A s \in Event : totals[s] - errors[s] <= totals'[s] - errors'[s]
  <2>1. samples \in [Latency -> Nat] /\ errors \in [Event -> Nat]
        /\ totals \in [Event -> Nat] /\ reasons \in [Event -> Nat]
    BY DEF RecorderTyped
  <2>2. CASE \E s \in Latency : Record(s)
    BY <2>1, <2>2, Records
  <2>3. CASE \E s \in Event : RecordEvent(s)
    <3>1. PICK s \in Event : RecordEvent(s)
      BY <2>3
    <3>2. /\ totals'[s] = totals[s] + 1 /\ \A u \in Event \ {s} : totals'[u] = totals[u]
          /\ totals' \in [Event -> Nat] /\ UNCHANGED <<samples, errors, reasons>>
      BY <3>1, Records
    <3> QED BY <2>1, <3>2
  <2>4. CASE \E s \in Event, n \in BOOLEAN : RecordErrorReason(s, n)
    <3>1. PICK s \in Event, n \in BOOLEAN : RecordErrorReason(s, n)
      BY <2>4
    <3>2. /\ totals'[s] = totals[s] + 1 /\ \A u \in Event \ {s} : totals'[u] = totals[u]
          /\ errors'[s] = errors[s] + 1 /\ \A u \in Event \ {s} : errors'[u] = errors[u]
          /\ totals' \in [Event -> Nat] /\ errors' \in [Event -> Nat]
          /\ reasons' \in [Event -> Nat] /\ UNCHANGED samples
      BY <3>1, Records
    <3> QED BY <2>1, <3>2
  <2>5. CASE RecordNothing
    BY <2>1, <2>5 DEF RecordNothing
  <2> QED BY <2>2, <2>3, <2>4, <2>5, LegRecords
<1>2. /\ place' \in [Legs -> Place] /\ UNCHANGED <<scraping, page, scrapes>>
  <2>1. PICK from \in Place, to \in Place : Goes(l, from, to)
    BY LegRecords
  <2>2. place \in [Legs -> Place]
    BY DEF RecorderTyped
  <2> QED BY <2>1, <2>2 DEF Goes
<1>3. heard' \in [Legs -> Nat]
  <2>1. heard \in [Legs -> Nat]
    BY DEF RecorderTyped
  <2>2. heard' = heard \/ heard' = [heard EXCEPT ![l] = @ + 1]
    BY LegRecords
  <2> QED BY ONLY <2>1, <2>2, l \in Legs
<1>4. degraded' \in [Legs -> BOOLEAN]
  <2>1. degraded \in [Legs -> BOOLEAN]
    BY DEF RecorderTyped
  <2>2. degraded' = degraded \/ degraded' = [degraded EXCEPT ![l] = TRUE]
    BY LegRecords
  <2> QED BY ONLY <2>1, <2>2, l \in Legs
<1>5. scraping' = scraping /\ page' = page /\ scrapes' = scrapes
  BY <1>2
<1> QED BY <1>1, <1>2, <1>3, <1>4, <1>5 DEF RecorderTyped

\* A reason is counted with its error.
LEMMA LegKeepsReasons ==
  ASSUME RecorderTyped, NEW l \in Legs, LegStep(l)
  PROVE  /\ ReasonsAddUp(reasons, errors) => ReasonsAddUp(reasons, errors)'
         /\ \A s \in Event : errors[s] <= errors'[s]
<1>1. errors \in [Event -> Nat] /\ reasons \in [Event -> Nat]
  BY DEF RecorderTyped
<1>2. CASE errors' = errors /\ reasons' = reasons
  BY <1>1, <1>2 DEF ReasonsAddUp
<1>3. CASE \E s \in Event, n \in BOOLEAN : RecordErrorReason(s, n)
  <2>1. PICK s \in Event, n \in BOOLEAN : RecordErrorReason(s, n)
    BY <1>3
  <2>2. /\ errors' = [errors EXCEPT ![s] = @ + 1]
        /\ reasons' = [reasons EXCEPT ![s] = @ + 1] \/ reasons' = reasons
    BY <2>1 DEF RecordErrorReason
  <2>3. \A u \in Event : /\ errors'[u] = IF u = s THEN errors[u] + 1 ELSE errors[u]
                         /\ reasons'[u] \in {reasons[u], IF u = s THEN reasons[u] + 1 ELSE reasons[u]}
    BY ONLY <1>1, <2>2, s \in Event
  <2> QED BY <1>1, <2>3 DEF ReasonsAddUp
<1> QED BY <1>2, <1>3, LegRecords DEF Record, RecordEvent, RecordNothing

\* A leg's step keeps the counters in step with where the legs are.
LEMMA LegKeepsCounts ==
  ASSUME RecorderTyped, LiveAddsUp, NEW l \in Legs, LegStep(l)
  PROVE  LiveAddsUp'
<1>0. \A S \in {DueTranslate, DueAsrSample, DueMtSample, DueTts, DueTtsSample} :
        Due(S) \in Nat /\ Due(S)' \in Nat
  <2>1. \A S : Due(S) \in Nat /\ Due(S)' \in Nat
    BY CountIsNat DEF Due
  <2> QED BY <2>1
<1>1. ASSUME NEW from \in Place, NEW to \in Place, Goes(l, from, to)
      PROVE  \A S \in {DueTranslate, DueAsrSample, DueMtSample, DueTts, DueTtsSample} :
               /\ Due(S) \in Nat
               /\ Due(S)' = Due(S) + (IF to \in S THEN 1 ELSE 0) - (IF from \in S THEN 1 ELSE 0)
  BY <1>1, MovingDue
<1>2. samples \in [Latency -> Nat] /\ errors \in [Event -> Nat] /\ totals \in [Event -> Nat]
  BY DEF RecorderTyped
<1>2a. ReasonsAddUp(reasons, errors)'
  BY LegKeepsReasons DEF LiveAddsUp
<1>3. CASE HearsDegraded(l)
  <2>1. Goes(l, "hear", "pass")
    BY <1>3 DEF HearsDegraded, Hears, recordFallback, RecordError
  <2>2. \E named \in BOOLEAN : RecordErrorReason("leg_degraded", named)
    BY <1>3 DEF HearsDegraded, Hears, recordFallback, RecordError
  <2>3. /\ totals'["leg_degraded"] = totals["leg_degraded"] + 1 /\ errors'["leg_degraded"] = errors["leg_degraded"] + 1
        /\ \A s \in Event \ {"leg_degraded"} : totals'[s] = totals[s] /\ errors'[s] = errors[s]
        /\ samples' = samples
    BY <2>2, Records DEF Event
  <2>4. /\ Due(DueTranslate)' <= Due(DueTranslate)
        /\ Due(DueAsrSample)' <= Due(DueAsrSample)
        /\ Due(DueMtSample)' <= Due(DueMtSample)
        /\ Due(DueTts)' <= Due(DueTts)
        /\ Due(DueTtsSample)' <= Due(DueTtsSample)
    BY <1>1, <2>1 DEF Place, DueTranslate, DueAsrSample, DueMtSample, DueTts, DueTtsSample
  <2> QED BY <1>0, <1>2, <1>2a, <2>3, <2>4 DEF LiveAddsUp, Event, Latency
<1>4. CASE HearsUnsure(l)
  <2>1. Goes(l, "hear", "pass")
    BY <1>4 DEF HearsUnsure, Hears, recordFallback, RecordError
  <2>2. \E named \in BOOLEAN : RecordErrorReason("asr_confidence", named)
    BY <1>4 DEF HearsUnsure, Hears, recordFallback, RecordError
  <2>3. /\ totals'["asr_confidence"] = totals["asr_confidence"] + 1 /\ errors'["asr_confidence"] = errors["asr_confidence"] + 1
        /\ \A s \in Event \ {"asr_confidence"} : totals'[s] = totals[s] /\ errors'[s] = errors[s]
        /\ samples' = samples
    BY <2>2, Records DEF Event
  <2>4. /\ Due(DueTranslate)' <= Due(DueTranslate)
        /\ Due(DueAsrSample)' <= Due(DueAsrSample)
        /\ Due(DueMtSample)' <= Due(DueMtSample)
        /\ Due(DueTts)' <= Due(DueTts)
        /\ Due(DueTtsSample)' <= Due(DueTtsSample)
    BY <1>1, <2>1 DEF Place, DueTranslate, DueAsrSample, DueMtSample, DueTts, DueTtsSample
  <2> QED BY <1>0, <1>2, <1>2a, <2>3, <2>4 DEF LiveAddsUp, Event, Latency
<1>5. CASE HearsWell(l)
  <2>1. Goes(l, "hear", "timed")
    BY <1>5 DEF HearsWell, Hears, recordSuccessMetric
  <2>2. RecordEvent("asr_confidence")
    BY <1>5 DEF HearsWell, Hears, recordSuccessMetric
  <2>3. /\ totals'["asr_confidence"] = totals["asr_confidence"] + 1
        /\ \A s \in Event \ {"asr_confidence"} : totals'[s] = totals[s]
        /\ samples' = samples /\ errors' = errors
    BY <2>2, Records DEF Event
  <2>4. /\ Due(DueTranslate)' <= Due(DueTranslate) + 1
        /\ Due(DueAsrSample)' <= Due(DueAsrSample) + 1
        /\ Due(DueMtSample)' <= Due(DueMtSample) + 1
        /\ Due(DueTts)' <= Due(DueTts)
        /\ Due(DueTtsSample)' <= Due(DueTtsSample)
    BY <1>1, <2>1 DEF Place, DueTranslate, DueAsrSample, DueMtSample, DueTts, DueTtsSample
  <2> QED BY <1>0, <1>2, <1>2a, <2>3, <2>4 DEF LiveAddsUp, Event, Latency
<1>6. CASE LegDies(l)
  <2>1. Goes(l, "hear", "flush")
    BY <1>6 DEF LegDies, Hears, recordFallbackReason
  <2>2. \E named \in BOOLEAN : RecordErrorReason("leg_degraded", named)
    BY <1>6 DEF LegDies, Hears, recordFallbackReason
  <2>3. /\ totals'["leg_degraded"] = totals["leg_degraded"] + 1 /\ errors'["leg_degraded"] = errors["leg_degraded"] + 1
        /\ \A s \in Event \ {"leg_degraded"} : totals'[s] = totals[s] /\ errors'[s] = errors[s]
        /\ samples' = samples
    BY <2>2, Records DEF Event
  <2>4. /\ Due(DueTranslate)' <= Due(DueTranslate)
        /\ Due(DueAsrSample)' <= Due(DueAsrSample)
        /\ Due(DueMtSample)' <= Due(DueMtSample)
        /\ Due(DueTts)' <= Due(DueTts)
        /\ Due(DueTtsSample)' <= Due(DueTtsSample)
    BY <1>1, <2>1 DEF Place, DueTranslate, DueAsrSample, DueMtSample, DueTts, DueTtsSample
  <2> QED BY <1>0, <1>2, <1>2a, <2>3, <2>4 DEF LiveAddsUp, Event, Latency
<1>7. CASE TimesAsr(l)
  <2>1. Goes(l, "timed", "asked")
    BY <1>7 DEF TimesAsr, recordLatency
  <2>2. Record("asr_first_chunk") \/ RecordNothing
    BY <1>7 DEF TimesAsr, recordLatency
  <2>3. /\ samples'["asr_first_chunk"] \in {samples["asr_first_chunk"], samples["asr_first_chunk"] + 1}
        /\ \A s \in Latency \ {"asr_first_chunk"} : samples'[s] = samples[s]
        /\ totals' = totals /\ errors' = errors
    BY <2>2, Records DEF RecordNothing, Latency
  <2>4. /\ Due(DueTranslate)' <= Due(DueTranslate)
        /\ Due(DueAsrSample)' <= Due(DueAsrSample) - 1
        /\ Due(DueMtSample)' <= Due(DueMtSample)
        /\ Due(DueTts)' <= Due(DueTts)
        /\ Due(DueTtsSample)' <= Due(DueTtsSample)
    BY <1>1, <2>1 DEF Place, DueTranslate, DueAsrSample, DueMtSample, DueTts, DueTtsSample
  <2> QED BY <1>0, <1>2, <1>2a, <2>3, <2>4 DEF LiveAddsUp, Event, Latency
<1>8. CASE TimesMt(l)
  <2>1. Goes(l, "asked", "answered")
    BY <1>8 DEF TimesMt, recordLatency
  <2>2. Record("mt")
    BY <1>8 DEF TimesMt, recordLatency
  <2>3. /\ samples'["mt"] = samples["mt"] + 1
        /\ \A s \in Latency \ {"mt"} : samples'[s] = samples[s]
        /\ totals' = totals /\ errors' = errors
    BY <2>2, Records DEF Latency
  <2>4. /\ Due(DueTranslate)' <= Due(DueTranslate)
        /\ Due(DueAsrSample)' <= Due(DueAsrSample)
        /\ Due(DueMtSample)' <= Due(DueMtSample) - 1
        /\ Due(DueTts)' <= Due(DueTts)
        /\ Due(DueTtsSample)' <= Due(DueTtsSample)
    BY <1>1, <2>1 DEF Place, DueTranslate, DueAsrSample, DueMtSample, DueTts, DueTtsSample
  <2> QED BY <1>0, <1>2, <1>2a, <2>3, <2>4 DEF LiveAddsUp, Event, Latency
<1>9. CASE Translates(l)
  <2>1. Goes(l, "answered", "tts") \/ Goes(l, "answered", "hear")
    BY <1>9 DEF Translates, recordSuccessMetric
  <2>2. RecordEvent("translate")
    BY <1>9 DEF Translates, recordSuccessMetric
  <2>3. /\ totals'["translate"] = totals["translate"] + 1
        /\ \A s \in Event \ {"translate"} : totals'[s] = totals[s]
        /\ samples' = samples /\ errors' = errors
    BY <2>2, Records DEF Event
  <2>4. /\ Due(DueTranslate)' <= Due(DueTranslate) - 1
        /\ Due(DueAsrSample)' <= Due(DueAsrSample)
        /\ Due(DueMtSample)' <= Due(DueMtSample)
        /\ Due(DueTts)' <= Due(DueTts) + 1
        /\ Due(DueTtsSample)' <= Due(DueTtsSample) + 1
    BY <1>1, <2>1 DEF Place, DueTranslate, DueAsrSample, DueMtSample, DueTts, DueTtsSample
  <2> QED BY <1>0, <1>2, <1>2a, <2>3, <2>4 DEF LiveAddsUp, Event, Latency
<1>10. CASE TranslateFails(l)
  <2>1. Goes(l, "answered", "failed")
    BY <1>10 DEF TranslateFails, recordFallbackErr
  <2>2. \E named \in BOOLEAN : RecordErrorReason("translate", named)
    BY <1>10 DEF TranslateFails, recordFallbackErr
  <2>3. /\ totals'["translate"] = totals["translate"] + 1 /\ errors'["translate"] = errors["translate"] + 1
        /\ \A s \in Event \ {"translate"} : totals'[s] = totals[s] /\ errors'[s] = errors[s]
        /\ samples' = samples
    BY <2>2, Records DEF Event
  <2>4. /\ Due(DueTranslate)' <= Due(DueTranslate) - 1
        /\ Due(DueAsrSample)' <= Due(DueAsrSample)
        /\ Due(DueMtSample)' <= Due(DueMtSample)
        /\ Due(DueTts)' <= Due(DueTts)
        /\ Due(DueTtsSample)' <= Due(DueTtsSample)
    BY <1>1, <2>1 DEF Place, DueTranslate, DueAsrSample, DueMtSample, DueTts, DueTtsSample
  <2> QED BY <1>0, <1>2, <1>2a, <2>3, <2>4 DEF LiveAddsUp, Event, Latency
<1>11. CASE CountsFailure(l)
  <2>1. Goes(l, "failed", "pass")
    BY <1>11 DEF CountsFailure, recordFallback, RecordError
  <2>2. (\E named \in BOOLEAN : RecordErrorReason("leg_degraded", named)) \/ RecordNothing
    BY <1>11 DEF CountsFailure, recordFallback, RecordError
  <2>3. /\ totals'["leg_degraded"] - errors'["leg_degraded"] = totals["leg_degraded"] - errors["leg_degraded"]
        /\ \A s \in Event \ {"leg_degraded"} : totals'[s] = totals[s] /\ errors'[s] = errors[s]
        /\ totals' \in [Event -> Nat] /\ errors' \in [Event -> Nat]
        /\ samples' = samples
    BY <1>2, <2>2, Records DEF RecordNothing, Event
  <2>4. /\ Due(DueTranslate)' <= Due(DueTranslate)
        /\ Due(DueAsrSample)' <= Due(DueAsrSample)
        /\ Due(DueMtSample)' <= Due(DueMtSample)
        /\ Due(DueTts)' <= Due(DueTts)
        /\ Due(DueTtsSample)' <= Due(DueTtsSample)
    BY <1>1, <2>1 DEF Place, DueTranslate, DueAsrSample, DueMtSample, DueTts, DueTtsSample
  <2> QED BY <1>0, <1>2, <1>2a, <2>3, <2>4 DEF LiveAddsUp, Event, Latency
<1>12. CASE TtsFails(l)
  <2>1. Goes(l, "tts", "failed")
    BY <1>12 DEF TtsFails, recordFallbackErr, recordFallback, RecordError
  <2>2. \E named \in BOOLEAN : RecordErrorReason("tts", named)
    BY <1>12 DEF TtsFails, recordFallbackErr, recordFallback, RecordError
  <2>3. /\ totals'["tts"] = totals["tts"] + 1 /\ errors'["tts"] = errors["tts"] + 1
        /\ \A s \in Event \ {"tts"} : totals'[s] = totals[s] /\ errors'[s] = errors[s]
        /\ samples' = samples
    BY <2>2, Records DEF Event
  <2>4. /\ Due(DueTranslate)' <= Due(DueTranslate)
        /\ Due(DueAsrSample)' <= Due(DueAsrSample)
        /\ Due(DueMtSample)' <= Due(DueMtSample)
        /\ Due(DueTts)' <= Due(DueTts) - 1
        /\ Due(DueTtsSample)' <= Due(DueTtsSample) - 1
    BY <1>1, <2>1 DEF Place, DueTranslate, DueAsrSample, DueMtSample, DueTts, DueTtsSample
  <2> QED BY <1>0, <1>2, <1>2a, <2>3, <2>4 DEF LiveAddsUp, Event, Latency
<1>13. CASE TtsStarts(l)
  <2>1. Goes(l, "tts", "speaking")
    BY <1>13 DEF TtsStarts, recordLatency
  <2>2. Record("tts_first_chunk")
    BY <1>13 DEF TtsStarts, recordLatency
  <2>3. /\ samples'["tts_first_chunk"] = samples["tts_first_chunk"] + 1
        /\ \A s \in Latency \ {"tts_first_chunk"} : samples'[s] = samples[s]
        /\ totals' = totals /\ errors' = errors
    BY <2>2, Records DEF Latency
  <2>4. /\ Due(DueTranslate)' <= Due(DueTranslate)
        /\ Due(DueAsrSample)' <= Due(DueAsrSample)
        /\ Due(DueMtSample)' <= Due(DueMtSample)
        /\ Due(DueTts)' <= Due(DueTts)
        /\ Due(DueTtsSample)' <= Due(DueTtsSample) - 1
    BY <1>1, <2>1 DEF Place, DueTranslate, DueAsrSample, DueMtSample, DueTts, DueTtsSample
  <2> QED BY <1>0, <1>2, <1>2a, <2>3, <2>4 DEF LiveAddsUp, Event, Latency
<1>14. CASE TtsEnds(l)
  <2>1. Goes(l, "speaking", "total") \/ Goes(l, "tts", "total")
    BY <1>14 DEF TtsEnds, recordSuccessMetric
  <2>2. RecordEvent("tts")
    BY <1>14 DEF TtsEnds, recordSuccessMetric
  <2>3. /\ totals'["tts"] = totals["tts"] + 1
        /\ \A s \in Event \ {"tts"} : totals'[s] = totals[s]
        /\ samples' = samples /\ errors' = errors
    BY <2>2, Records DEF Event
  <2>4. /\ Due(DueTranslate)' <= Due(DueTranslate)
        /\ Due(DueAsrSample)' <= Due(DueAsrSample)
        /\ Due(DueMtSample)' <= Due(DueMtSample)
        /\ Due(DueTts)' <= Due(DueTts) - 1
        /\ Due(DueTtsSample)' <= Due(DueTtsSample)
    BY <1>1, <2>1 DEF Place, DueTranslate, DueAsrSample, DueMtSample, DueTts, DueTtsSample
  <2> QED BY <1>0, <1>2, <1>2a, <2>3, <2>4 DEF LiveAddsUp, Event, Latency
<1>15. CASE TimesTotal(l)
  <2>1. Goes(l, "total", "hear") \/ Goes(l, "pass", "hear") \/ Goes(l, "flush", "dead")
    BY <1>15 DEF TimesTotal, recordTotalIfStarted, recordLatency
  <2>2. Record("total") \/ RecordNothing
    BY <1>15 DEF TimesTotal, recordTotalIfStarted, recordLatency
  <2>3. /\ samples'["total"] \in {samples["total"], samples["total"] + 1}
        /\ \A s \in Latency \ {"total"} : samples'[s] = samples[s]
        /\ totals' = totals /\ errors' = errors
    BY <2>2, Records DEF RecordNothing, Latency
  <2>4. /\ Due(DueTranslate)' <= Due(DueTranslate)
        /\ Due(DueAsrSample)' <= Due(DueAsrSample)
        /\ Due(DueMtSample)' <= Due(DueMtSample)
        /\ Due(DueTts)' <= Due(DueTts)
        /\ Due(DueTtsSample)' <= Due(DueTtsSample)
    BY <1>1, <2>1 DEF Place, DueTranslate, DueAsrSample, DueMtSample, DueTts, DueTtsSample
  <2> QED BY <1>0, <1>2, <1>2a, <2>3, <2>4 DEF LiveAddsUp, Event, Latency
<1>16. CASE FlushesDead(l)
  <2>1. Goes(l, "dead", "flush")
    BY <1>16 DEF FlushesDead, recordFallbackReason
  <2>2. \E named \in BOOLEAN : RecordErrorReason("leg_degraded", named)
    BY <1>16 DEF FlushesDead, recordFallbackReason
  <2>3. /\ totals'["leg_degraded"] = totals["leg_degraded"] + 1 /\ errors'["leg_degraded"] = errors["leg_degraded"] + 1
        /\ \A s \in Event \ {"leg_degraded"} : totals'[s] = totals[s] /\ errors'[s] = errors[s]
        /\ samples' = samples
    BY <2>2, Records DEF Event
  <2>4. /\ Due(DueTranslate)' <= Due(DueTranslate)
        /\ Due(DueAsrSample)' <= Due(DueAsrSample)
        /\ Due(DueMtSample)' <= Due(DueMtSample)
        /\ Due(DueTts)' <= Due(DueTts)
        /\ Due(DueTtsSample)' <= Due(DueTtsSample)
    BY <1>1, <2>1 DEF Place, DueTranslate, DueAsrSample, DueMtSample, DueTts, DueTtsSample
  <2> QED BY <1>0, <1>2, <1>2a, <2>3, <2>4 DEF LiveAddsUp, Event, Latency
<1>17. CASE Leaves(l)
  <2>1. \E from \in {"hear", "tts", "speaking", "pass", "flush", "dead"} : Goes(l, from, "gone")
    BY <1>17 DEF Leaves
  <2>2. RecordNothing
    BY <1>17 DEF Leaves
  <2>3. samples' = samples /\ totals' = totals /\ errors' = errors
    BY <2>2 DEF RecordNothing
  <2>4. /\ Due(DueTranslate)' <= Due(DueTranslate)
        /\ Due(DueAsrSample)' <= Due(DueAsrSample)
        /\ Due(DueMtSample)' <= Due(DueMtSample)
        /\ Due(DueTts)' <= Due(DueTts)
        /\ Due(DueTtsSample)' <= Due(DueTtsSample)
    BY <1>1, <2>1 DEF Place, DueTranslate, DueAsrSample, DueMtSample, DueTts, DueTtsSample
  <2> QED BY <1>0, <1>2, <1>2a, <2>3, <2>4 DEF LiveAddsUp, Event, Latency
<1> QED
  BY <1>3, <1>4, <1>5, <1>6, <1>7, <1>8, <1>9, <1>10, <1>11, <1>12, <1>13, <1>14, <1>15,
     <1>16, <1>17, LegStep(l) DEF LegStep

\* It keeps what the tables already read show of one another.
LEMMA LegKeepsTables ==
  ASSUME RecorderTyped, TablesAddUp, NEW l \in Legs, LegStep(l)
  PROVE  TablesAddUp'
<1>1. scraping' = scraping /\ page' = page
  BY LegKeepsTypes
<1>2. \A s \in Event : totals'[s] - errors'[s] >= totals[s] - errors[s]
  BY LegKeepsTypes
<1>3. page.samples \in [Latency -> Nat] /\ totals \in [Event -> Nat] /\ errors \in [Event -> Nat]
  BY DEF RecorderTyped
<1>4. totals' \in [Event -> Nat] /\ errors' \in [Event -> Nat]
  BY LegKeepsTypes DEF RecorderTyped
<1>5. SamplesAddUp(page.samples, errors, totals) => SamplesAddUp(page.samples, errors', totals')
  BY <1>2, <1>3, <1>4 DEF SamplesAddUp, Succeeded, Event, Latency
<1>6. page.reasons \in [Event -> Nat] /\ \A s \in Event : errors[s] <= errors'[s]
  BY LegKeepsReasons DEF RecorderTyped
<1>7. ReasonsAddUp(page.reasons, errors) => ReasonsAddUp(page.reasons, errors')
  BY <1>3, <1>4, <1>6 DEF ReasonsAddUp
<1> QED BY <1>1, <1>5, <1>7 DEF TablesAddUp

-----------------------------------------------------------------------------
\* The counters themselves, read at one moment, add up.
LEMMA LiveTables ==
  ASSUME RecorderTyped, LiveAddsUp
  PROVE  EventsAddUp(errors, totals) /\ SamplesAddUp(samples, errors, totals)
<1>1. /\ Due(DueTranslate) \in Nat /\ Due(DueAsrSample) \in Nat /\ Due(DueMtSample) \in Nat
      /\ Due(DueTts) \in Nat /\ Due(DueTtsSample) \in Nat
  BY DueIsNat
<1>2. samples \in [Latency -> Nat] /\ errors \in [Event -> Nat] /\ totals \in [Event -> Nat]
  BY DEF RecorderTyped
<1> QED BY <1>1, <1>2 DEF LiveAddsUp, EventsAddUp, SamplesAddUp, Succeeded, Event, Latency

\* A table that is read joins those read before it.
LEMMA ScrapeKeeps ==
  ASSUME RecorderInv, Scrape
  PROVE  RecorderInv'
<1> USE DEF RecorderInv
<1>1. EventsAddUp(errors, totals) /\ SamplesAddUp(samples, errors, totals)
  BY LiveTables
<1>2. /\ UNCHANGED <<place, heard, degraded, samples, errors, totals, reasons>>
      /\ scraping' \in {"none", "text events", "text reasons", "data reasons", "data samples", "served"}
  BY DEF Scrape, TextSamples, TextEvents, TextReasons, DataEvents, DataReasons, DataSamples, Serves, Begins, Reads
<1>3. LiveAddsUp'
  BY <1>2 DEF LiveAddsUp, Due
<1>4. scrapes' \in Nat
  <2>1. scrapes' = scrapes \/ scrapes' = scrapes + 1
    BY DEF Scrape, TextSamples, TextEvents, TextReasons, DataEvents, DataReasons, DataSamples, Serves, Begins
  <2>2. scrapes \in Nat
    BY DEF RecorderTyped
  <2> QED BY <2>1, <2>2
<1>5. page \in [kind : {"none", "text", "data"}, samples : [Latency -> Nat],
                errors : [Event -> Nat], totals : [Event -> Nat],
                reasons : [Event -> Nat]]
      /\ samples \in [Latency -> Nat] /\ errors \in [Event -> Nat] /\ totals \in [Event -> Nat]
      /\ reasons \in [Event -> Nat]
  BY DEF RecorderTyped
<1>6. ASSUME page' \in [kind : {"none", "text", "data"}, samples : [Latency -> Nat],
                        errors : [Event -> Nat], totals : [Event -> Nat],
                reasons : [Event -> Nat]]
      PROVE  RecorderTyped'
  BY <1>2, <1>4, <1>6 DEF RecorderTyped
<1>6a. ReasonsAddUp(reasons, errors)
  BY DEF LiveAddsUp
<1>7. CASE TextSamples
  <2>1. scraping' = "text events" /\ page' = [page EXCEPT !.kind = "text", !.samples = samples]
    BY <1>7 DEF TextSamples, Begins, Reads
  <2>2. page'.kind = "text" /\ page'.samples = samples
    BY <1>5, <2>1
  <2>3. TablesAddUp'
    BY <1>1, <1>2, <2>1, <2>2 DEF TablesAddUp
  <2> QED BY <1>3, <1>5, <1>6, <2>1, <2>3
<1>8. CASE TextEvents
  <2>1. scraping = "text events" /\ scraping' = "text reasons"
        /\ page' = [page EXCEPT !.errors = errors, !.totals = totals]
    BY <1>8 DEF TextEvents, Reads, ReadsEvents
  <2>2. page'.kind = page.kind /\ page'.samples = page.samples
        /\ page'.errors = errors /\ page'.totals = totals
    BY <1>5, <2>1
  <2>3. page.kind = "text" /\ SamplesAddUp(page.samples, errors, totals)
    BY <2>1 DEF TablesAddUp
  <2>4. TablesAddUp'
    BY <1>1, <2>1, <2>2, <2>3 DEF TablesAddUp
  <2> QED BY <1>3, <1>5, <1>6, <2>1, <2>4
<1>9. CASE TextReasons
  <2>1. scraping = "text reasons" /\ scraping' = "served" /\ page' = [page EXCEPT !.reasons = reasons]
    BY <1>9 DEF TextReasons, Reads, ReadsReasons
  <2>2. page'.kind = page.kind /\ page'.samples = page.samples /\ page'.reasons = reasons
        /\ page'.errors = page.errors /\ page'.totals = page.totals
    BY <1>5, <2>1
  <2>3. TablesAddUp'
    BY <1>2, <1>6a, <2>1, <2>2 DEF TablesAddUp
  <2> QED BY <1>3, <1>5, <1>6, <2>1, <2>3
<1>10. CASE DataEvents
  <2>1. scraping' = "data reasons"
        /\ page' = [page EXCEPT !.kind = "data", !.errors = errors, !.totals = totals]
    BY <1>10 DEF DataEvents, Begins, Reads
  <2>2. page'.kind = "data" /\ page'.errors = errors /\ page'.totals = totals
    BY <1>5, <2>1
  <2>3. TablesAddUp'
    BY <1>1, <2>1, <2>2 DEF TablesAddUp
  <2> QED BY <1>3, <1>5, <1>6, <2>1, <2>3
<1>10a. CASE DataReasons
  <2>1. scraping = "data reasons" /\ scraping' = "data samples"
        /\ page' = [page EXCEPT !.reasons = reasons]
    BY <1>10a DEF DataReasons, Reads, ReadsReasons
  <2>2. page'.kind = page.kind /\ page'.reasons = reasons
        /\ page'.errors = page.errors /\ page'.totals = page.totals
    BY <1>5, <2>1
  <2>3. TablesAddUp'
    BY <1>2, <1>6a, <2>1, <2>2 DEF TablesAddUp
  <2> QED BY <1>3, <1>5, <1>6, <2>1, <2>3
<1>11. CASE DataSamples
  <2>1. scraping = "data samples" /\ scraping' = "served"
        /\ page' = [page EXCEPT !.samples = samples]
    BY <1>11 DEF DataSamples, Reads, ReadsSamples
  <2>2. page'.kind = page.kind /\ page'.errors = page.errors /\ page'.totals = page.totals
        /\ page'.reasons = page.reasons
    BY <1>5, <2>1
  <2>3. page.kind = "data" /\ EventsAddUp(page.errors, page.totals)
        /\ ReasonsAddUp(page.reasons, errors)
    BY <2>1 DEF TablesAddUp
  <2>4. TablesAddUp'
    BY <1>2, <2>1, <2>2, <2>3 DEF TablesAddUp
  <2> QED BY <1>3, <1>5, <1>6, <2>1, <2>4
<1>12. CASE Serves
  <2>1. scraping' = "none" /\ page' = Blank
    BY <1>12 DEF Serves, Reads
  <2>2. Blank \in [kind : {"none", "text", "data"}, samples : [Latency -> Nat],
                   errors : [Event -> Nat], totals : [Event -> Nat],
                reasons : [Event -> Nat]]
    BY DEF Blank, Zero
  <2>3. TablesAddUp'
    BY <2>1 DEF TablesAddUp
  <2> QED BY <1>3, <1>6, <2>1, <2>2, <2>3
<1> QED BY <1>7, <1>8, <1>9, <1>10, <1>11, <1>12, <1>10a DEF Scrape

-----------------------------------------------------------------------------
\* Nothing is counted and no leg is due anywhere when a call begins.
LEMMA RecorderStarts == RecorderInit => RecorderInv
<1> SUFFICES ASSUME RecorderInit PROVE RecorderInv
  OBVIOUS
<1>1. RecorderTyped
  BY DEF RecorderInit, RecorderTyped, Blank, Zero, Place
<1>2. \A S \in {DueTranslate, DueAsrSample, DueMtSample, DueTts, DueTtsSample} : Due(S) = 0
  <2> SUFFICES ASSUME NEW S \in {DueTranslate, DueAsrSample, DueMtSample, DueTts, DueTtsSample}
               PROVE  Due(S) = 0
    OBVIOUS
  <2>1. {l \in Legs : place[l] \in S} = {}
    BY DEF RecorderInit, DueTranslate, DueAsrSample, DueMtSample, DueTts, DueTtsSample
  <2> QED BY <2>1, FS_EmptySet DEF Due
<1>3. LiveAddsUp
  BY <1>2 DEF RecorderInit, LiveAddsUp, ReasonsAddUp, Zero, Event, Latency
<1>4. TablesAddUp
  BY DEF RecorderInit, TablesAddUp
<1> QED BY <1>1, <1>3, <1>4 DEF RecorderInv

\* Every step keeps the invariant.
LEMMA RecorderSteps == RecorderInv /\ [RecorderNext]_recorderVars => RecorderInv'
<1> SUFFICES ASSUME RecorderInv, [RecorderNext]_recorderVars PROVE RecorderInv'
  OBVIOUS
<1>1. CASE \E l \in Legs : LegStep(l)
  <2>1. PICK l \in Legs : LegStep(l)
    BY <1>1
  <2> QED BY <2>1, LegKeepsTypes, LegKeepsCounts, LegKeepsTables DEF RecorderInv
<1>2. CASE Scrape
  BY <1>2, ScrapeKeeps
<1>3. CASE UNCHANGED recorderVars
  BY <1>3 DEF recorderVars, RecorderInv, RecorderTyped, LiveAddsUp, TablesAddUp, Due
<1> QED BY <1>1, <1>2, <1>3 DEF RecorderNext

\* Whatever the legs record while it is read, a page adds up: no stage shows
\* more calls than successes of the stage before it (runLeg's records in
\* session.go; WriteText's and BuildDashboardData's snapshots).
THEOREM PagesAddUp == RecorderSpec => []PageAddsUp
<1>1. RecorderInv => PageAddsUp
  BY DEF RecorderInv, TablesAddUp, PageAddsUp
<1> QED BY <1>1, RecorderStarts, RecorderSteps, PTL DEF RecorderSpec

-----------------------------------------------------------------------------
(* A call on the mocks (MockCall).                                         *)

MockTyped ==
  /\ use \in {"demo", "benchmark", "call"}
  /\ user \in {"push", "listen", "close", "closing", "waiting", "done"}
  /\ outcome \in {"none", "heard", "silent", "failed"}
  /\ feeder \in [Feeders -> {"ready", "sending", "gone"}]
  /\ closed \in BOOLEAN /\ outOpen \in BOOLEAN /\ cancelled \in BOOLEAN
  /\ hurried \in BOOLEAN /\ late \in BOOLEAN
  /\ out \in Seq({"partial", "final"}) /\ emitted \in Seq({"partial", "final"})
  /\ leg \in {"listen", "translate", "await", "forward", "pass", "gone"}
  /\ voice \in {"none", "speaking", "ended"} /\ next \in Nat /\ voiced \in Nat
  /\ speech \in Seq({"chunk", "last"}) /\ hears \in Seq({"chunk", "last", "raw"})

\* The user has not hung up yet: the benchmark listens before, the demo after.
OnTheLine == user \in {"push", "close"} \/ (use = "benchmark" /\ user = "listen")

\* Close has returned.
HungUp == user = "done" \/ (use = "demo" /\ user = "listen")

\* How far the user is and how far the stream has been closed; nothing ends the
\* context before Close does, unless a deadline passes.
MockPhases ==
  /\ closed <=> ~OnTheLine
  /\ outOpen <=> OnTheLine \/ user = "closing"
  /\ use = "call" => user # "listen"
  /\ cancelled /\ ~hurried => HungUp
  /\ HungUp => leg = "gone"
  /\ ~outOpen => NoneSending

NoFinalIn(s) == \A i \in DOMAIN s : s[i] # "final"

\* Until the stream is closed the leg has had nothing to translate.
MockQuiet ==
  outOpen => /\ NoFinalIn(emitted) /\ NoFinalIn(out)
             /\ leg \in {"listen", "gone"} /\ voiced = 0 /\ hears = <<>>

\* The one final transcript: in the channel behind the partial ones, or with the
\* leg, or spoken.  The demo's user will find something to hear once it is.
Queued == leg = "listen" /\ voiced = 0 /\ Len(out) > 0 /\ out[Len(out)] = "final"
          /\ \A i \in DOMAIN out : i < Len(out) => out[i] # "final"
InHand == voiced = 0 /\ out = <<>> /\ leg \in {"translate", "await", "forward"}
Voiced == voiced = 1 /\ out = <<>> /\ leg \in {"listen", "gone"}

\* While the synthesis is under way its goroutine ends only when it has said all,
\* and its channel keeps all it has said until the leg takes the first of it.
Speaking ==
  /\ leg \in {"await", "forward"} =>
       \/ voice = "speaking" /\ next < NumChunks
       \/ voice = "ended" /\ next = NumChunks
  /\ leg = "await" => Len(speech) = next

MockOnce ==
  ~outOpen /\ ~hurried =>
    /\ Finals = {Len(emitted)} /\ ~late
    /\ Queued \/ InHand \/ Voiced
    /\ Speaking
    /\ use = "demo" /\ outcome = "none" /\ (leg = "forward" \/ Voiced) => hears # <<>>

\* The leg outlives the stream, unless the context ends; and the demo listens only
\* when it has no error to show for itself.
MockGone == outOpen /\ leg = "gone" => cancelled
MockListens == use = "demo" /\ user = "listen" => outcome = "none"

MockInv ==
  /\ MockTyped /\ MockPhases /\ MockQuiet /\ MockOnce /\ MockGone /\ MockListens
  /\ use = "demo" /\ outcome = "silent" => hurried
  /\ use = "benchmark" => outcome # "heard"
  /\ late => hurried

\* Nothing has been said on a mock's call yet.
LEMMA MockStarts == MockInit => MockInv
<1> SUFFICES ASSUME MockInit PROVE MockInv
  OBVIOUS
<1>1. NoFinalIn(<<>>) /\ Len(<<>>) = 0
  BY DEF NoFinalIn
<1>2. MockTyped
  <2>1. <<>> \in Seq({"partial", "final"}) /\ <<>> \in Seq({"chunk", "last"})
        /\ <<>> \in Seq({"chunk", "last", "raw"})
    OBVIOUS
  <2> QED BY <2>1 DEF MockInit, MockTyped
<1> QED BY <1>1, <1>2 DEF MockInit, MockInv, MockTyped, MockPhases, MockQuiet, MockOnce, NoneSending, NoFinalIn,
   MockGone, MockListens, OnTheLine, HungUp

\* The transport of a call pushes; the last of its sends is over before the
\* channel is closed.
LEMMA FeedersKeep ==
  ASSUME MockInv, NEW f \in Feeders, PushAudio(f) \/ PushSends(f) \/ PushRefused(f)
  PROVE  MockInv'
<1>1. CASE PushAudio(f) \/ PushRefused(f)
  <2>1. /\ UNCHANGED <<closed, out, outOpen, emitted, legVars, userVars>>
        /\ ~outOpen => ~PushAudio(f)
    BY <1>1 DEF PushAudio, PushRefused, Buffers, MockInv, MockPhases
  <2>2. /\ feeder' \in [Feeders -> {"ready", "sending", "gone"}]
        /\ ~outOpen => \A g \in Feeders : feeder'[g] # "sending"
    BY <1>1, <2>1 DEF PushAudio, PushRefused, MockInv, MockPhases, MockTyped, NoneSending
  <2> QED BY <2>1, <2>2 DEF MockInv, MockTyped, MockPhases, MockQuiet, MockOnce, NoneSending,
      NoFinalIn, MockGone, MockListens, OnTheLine, HungUp, Queued, InHand, Voiced, Speaking, Finals, legVars, userVars
<1>2. CASE PushSends(f)
  <2>1. outOpen /\ outOpen' /\ UNCHANGED <<closed, legVars, userVars>>
    BY <1>2 DEF PushSends, MockInv, MockPhases, NoneSending
  <2>2. /\ out' \in Seq({"partial", "final"}) /\ emitted' \in Seq({"partial", "final"})
        /\ NoFinalIn(out)' /\ NoFinalIn(emitted)'
    <3>1. \A s \in Seq({"partial", "final"}) :
            NoFinalIn(s) => Append(s, "partial") \in Seq({"partial", "final"})
                            /\ NoFinalIn(Append(s, "partial"))
      BY DEF NoFinalIn
    <3>2. /\ out \in Seq({"partial", "final"}) /\ emitted \in Seq({"partial", "final"})
          /\ NoFinalIn(out) /\ NoFinalIn(emitted)
      BY <2>1 DEF MockInv, MockTyped, MockQuiet
    <3>3. \/ out' = Append(out, "partial") /\ emitted' = Append(emitted, "partial")
          \/ UNCHANGED <<out, emitted>>
      BY <1>2 DEF PushSends, Emits
    <3>4. /\ out' \in Seq({"partial", "final"}) /\ emitted' \in Seq({"partial", "final"})
          /\ NoFinalIn(out') /\ NoFinalIn(emitted')
      BY <3>1, <3>2, <3>3
    <3> QED BY <3>4 DEF NoFinalIn
  <2>3. feeder' \in [Feeders -> {"ready", "sending", "gone"}]
    BY <1>2 DEF PushSends, MockInv, MockTyped
  <2> QED BY <2>1, <2>2, <2>3 DEF MockInv, MockTyped, MockPhases, MockQuiet, MockOnce,
      MockGone, MockListens, OnTheLine, HungUp, legVars, userVars
<1> QED BY <1>1, <1>2

\* The leg takes a transcript, or returns.
LEMMA ListeningKeeps ==
  ASSUME MockInv, LegListens
  PROVE  MockInv'
<1>1. /\ UNCHANGED <<feeder, closed, outOpen, emitted, late, next, voice, speech, voiced, hears,
                     use, user, outcome, cancelled, hurried>>
      /\ leg = "listen" /\ leg' \in {"listen", "translate", "gone"}
  BY DEF LegListens, userVars
<1>2. /\ out \in Seq({"partial", "final"}) /\ (HungUp => FALSE)
  BY <1>1 DEF MockInv, MockTyped, MockPhases
<1>3. /\ out' \in Seq({"partial", "final"})
      /\ \A i \in DOMAIN out' : (i + 1 \in DOMAIN out /\ out'[i] = out[i + 1]) \/ out' = out
      /\ leg' = "translate" => out # <<>> /\ Head(out) = "final" /\ out' = Tail(out)
      /\ leg' = "listen" => out # <<>> /\ Head(out) # "final" /\ out' = Tail(out)
      /\ leg' = "gone" => out' = out /\ (cancelled \/ (out = <<>> /\ ~outOpen))
  BY <1>2 DEF LegListens
<1>4. MockTyped' /\ MockPhases'
  BY <1>1, <1>2, <1>3 DEF MockInv, MockTyped, MockPhases, MockGone, MockListens, OnTheLine, HungUp, NoneSending
<1>5. MockQuiet'
  <2> SUFFICES ASSUME outOpen PROVE MockQuiet'
    BY <1>1 DEF MockQuiet
  <2>1. NoFinalIn(emitted) /\ NoFinalIn(out) /\ voiced = 0 /\ hears = <<>>
    BY DEF MockInv, MockQuiet
  <2>2. leg' \in {"listen", "gone"}
    <3>1. out # <<>> => Head(out) # "final"
      BY <1>2, <2>1 DEF NoFinalIn
    <3> QED BY <1>1, <1>3, <3>1
  <2>3. \A i \in DOMAIN out' : out'[i] # "final"
    BY <1>3, <2>1 DEF NoFinalIn
  <2> QED BY <1>1, <2>1, <2>2, <2>3 DEF MockQuiet, NoFinalIn
<1>6. MockOnce'
  <2> SUFFICES ASSUME ~outOpen, ~hurried PROVE MockOnce'
    BY <1>1 DEF MockOnce
  <2>1. Finals = {Len(emitted)} /\ ~late /\ (Queued \/ Voiced) /\ ~cancelled
    BY <1>1, <1>2 DEF MockInv, MockOnce, InHand, MockPhases
  <2>2. CASE Voiced
    <3>1. Voiced' /\ leg' \in {"listen", "gone"} /\ out' = out
      BY <1>1, <1>3, <2>2 DEF Voiced
    <3> QED BY <1>1, <2>1, <2>2, <3>1 DEF MockOnce, MockInv, Finals, Speaking
  <2>3. CASE Queued
    <3>1. Len(out) \in Nat \ {0} /\ out # <<>> /\ DOMAIN out = 1..Len(out)
      BY <1>2, <2>3 DEF Queued
    <3>2. leg' # "gone" /\ out' = Tail(out)
      BY <1>1, <1>3, <2>1, <3>1
    <3>3. Len(out') = Len(out) - 1 /\ Head(out) = out[1]
          /\ \A i \in 1..Len(out') : out'[i] = out[i + 1]
      BY <1>2, <3>1, <3>2
    <3>4. CASE Len(out) = 1
      <4>1. leg' = "translate" /\ out' = <<>>
        BY <1>1, <1>2, <1>3, <2>3, <3>2, <3>3, <3>4 DEF Queued
      <4> QED BY <1>1, <2>1, <2>3, <4>1 DEF MockOnce, MockInv, Finals, Speaking, Queued, InHand, Voiced
    <3>5. CASE Len(out) > 1
      <4>1. Head(out) # "final"
        BY <2>3, <3>1, <3>3, <3>5 DEF Queued
      <4>2. leg' = "listen"
        BY <1>1, <1>3, <3>2, <4>1
      <4>3. Len(out') > 0 /\ out'[Len(out')] = "final"
        BY <2>3, <3>1, <3>3, <3>5 DEF Queued
      <4>4. \A i \in DOMAIN out' : i < Len(out') => out'[i] # "final"
        <5>1. DOMAIN out' = 1..Len(out')
          BY <1>3
        <5> QED BY <2>3, <3>1, <3>3, <5>1 DEF Queued
      <4>5. Queued'
        BY <1>1, <2>3, <4>2, <4>3, <4>4 DEF Queued
      <4> QED BY <1>1, <2>1, <2>3, <4>2, <4>5 DEF MockOnce, MockInv, Finals, Speaking, Voiced, Queued
    <3> QED BY <3>1, <3>4, <3>5
  <2> QED BY <2>1, <2>2, <2>3
<1> QED BY <1>1, <1>3, <1>4, <1>5, <1>6 DEF MockInv, MockGone, MockListens

\* The steps of a translation and its synthesis.
LEMMA LegKeeps ==
  ASSUME MockInv, Translate \/ VoiceSpeaks \/ SynthesisLate \/ PassesThrough
  PROVE  MockInv'
<1>1. /\ UNCHANGED <<feedVars, use, user, outcome, cancelled, voiced>>
      /\ hurried => hurried'
  BY DEF Translate, VoiceSpeaks, SynthesisLate, PassesThrough, userVars, MockInv
<1>2. next \in Nat /\ speech \in Seq({"chunk", "last"}) /\ Len(speech) \in Nat
      /\ hears \in Seq({"chunk", "last", "raw"})
  BY DEF MockInv, MockTyped
<1>3. CASE Translate
  <2>1. leg = "translate" /\ UNCHANGED <<hurried, hears>>
        /\ IF cancelled THEN leg' = "pass" /\ UNCHANGED <<late, next, voice, speech>>
           ELSE leg' = "await" /\ late' = FALSE /\ next' = 0 /\ voice' = "speaking" /\ speech' = <<>>
    BY <1>3 DEF Translate, userVars
  <2>2. ~outOpen /\ (cancelled => hurried) /\ ~HungUp
    BY <2>1 DEF MockInv, MockQuiet, MockPhases
  <2>3. MockTyped'
    <3>1. /\ leg' \in {"pass", "await"} /\ late' \in BOOLEAN /\ next' \in Nat
          /\ voice' \in {"none", "speaking", "ended"} /\ speech' \in Seq({"chunk", "last"})
      <4>1. <<>> \in Seq({"chunk", "last"}) /\ 0 \in Nat
        OBVIOUS
      <4>2. late \in BOOLEAN /\ voice \in {"none", "speaking", "ended"}
        BY DEF MockInv, MockTyped
      <4> QED BY <1>2, <2>1, <4>1, <4>2, Zenon
    <3> QED BY <1>1, <2>1, <3>1 DEF MockInv, MockTyped, feedVars
  <2>4. ~hurried => Speaking' /\ InHand /\ InHand' /\ ~Voiced' /\ leg' = "await" /\ ~late'
    BY <1>1, <1>2, <2>1, <2>2, MockAssumption
    DEF MockInv, MockOnce, Queued, InHand, Voiced, Speaking, feedVars
  <2> QED BY <1>1, <2>1, <2>2, <2>3, <2>4 DEF MockInv, MockPhases, MockQuiet, MockOnce, Finals,
      MockGone, MockListens, OnTheLine, HungUp, NoneSending, feedVars
<1>4. CASE VoiceSpeaks
  <2>1. UNCHANGED <<leg, late, hurried, hears>> /\ voice = "speaking"
    BY <1>4 DEF VoiceSpeaks, userVars
  <2>2. \/ /\ Len(speech) < NumChunks /\ next' = next + 1
           /\ \E w \in {"chunk", "last"} : speech' = Append(speech, w)
           /\ voice' = IF next' = NumChunks THEN "ended" ELSE "speaking"
        \/ /\ late \/ cancelled \/ leg \notin {"await", "forward"}
           /\ voice' = "ended" /\ UNCHANGED <<next, speech>>
    BY <1>4 DEF VoiceSpeaks
  <2>3. MockTyped'
    <3>1. \A w \in {"chunk", "last"} : Append(speech, w) \in Seq({"chunk", "last"})
      BY <1>2
    <3>2. next' \in Nat /\ voice' \in {"speaking", "ended"} /\ speech' \in Seq({"chunk", "last"})
      <4>1. next + 1 \in Nat
        BY <1>2
      <4> QED BY <1>2, <2>1, <2>2, <3>1, <4>1, Zenon
    <3> QED BY <1>1, <2>1, <3>2 DEF MockInv, MockTyped, feedVars
  <2>4. ~outOpen /\ ~hurried /\ leg \in {"await", "forward"} => ~late /\ ~cancelled /\ Speaking
    BY DEF MockInv, MockOnce, MockPhases
  <2>5. ~outOpen /\ ~hurried => Speaking'
    <3>1. CASE leg \notin {"await", "forward"}
      BY <2>1, <3>1 DEF Speaking
    <3>2. ASSUME ~outOpen, ~hurried, leg \in {"await", "forward"} PROVE Speaking'
      <4>1. Len(speech') = Len(speech) + 1 /\ next' = next + 1
            /\ voice' = IF next' = NumChunks THEN "ended" ELSE "speaking"
        BY <1>2, <2>2, <2>4, <3>2
      <4>2. next < NumChunks
        BY <2>1, <2>4, <3>2 DEF Speaking
      <4>3. leg = "await" => Len(speech) = next
        BY <2>4, <3>2 DEF Speaking
      <4> QED BY <1>2, <2>1, <4>1, <4>2, <4>3, MockAssumption DEF Speaking
    <3> QED BY <3>1, <3>2
  <2> QED BY <1>1, <2>1, <2>3, <2>5 DEF MockInv, MockPhases, MockQuiet, MockOnce, Finals,
      MockGone, MockListens, OnTheLine, HungUp, NoneSending, feedVars, Queued, InHand, Voiced
<1>5. CASE SynthesisLate
  BY <1>1, <1>5 DEF SynthesisLate, MockInv, MockTyped, MockPhases, MockQuiet, MockOnce,
     MockGone, MockListens, OnTheLine, HungUp, NoneSending, feedVars
<1>6. CASE PassesThrough
  <2>1. /\ leg = "pass" /\ leg' \in {"listen", "gone"}
        /\ hears' \in {hears, Append(hears, "raw")}
        /\ UNCHANGED <<late, next, voice, speech, hurried>>
    BY <1>6 DEF PassesThrough, Delivers, userVars
  <2>2. ~outOpen /\ hurried
    BY <2>1 DEF MockInv, MockQuiet, MockOnce, Queued, InHand, Voiced
  <2>3. ~HungUp
    BY <2>1 DEF MockInv, MockPhases
  <2>4. MockTyped'
    <3>1. hears' \in Seq({"chunk", "last", "raw"})
      BY <1>2, <2>1
    <3> QED BY <1>1, <2>1, <3>1 DEF MockInv, MockTyped, feedVars
  <2> QED BY <1>1, <2>1, <2>2, <2>3, <2>4 DEF MockInv, MockPhases, MockQuiet, MockOnce,
      MockGone, MockListens, OnTheLine, HungUp, NoneSending, feedVars
<1> QED BY <1>3, <1>4, <1>5, <1>6

\* The leg forwards what it is given to say.
LEMMA ForwardsKeep ==
  ASSUME MockInv, Forwards
  PROVE  MockInv'
<1>1. /\ UNCHANGED <<late, next, voice, feedVars, userVars>> /\ leg \in {"await", "forward"}
  BY DEF Forwards
<1>2. /\ next \in Nat /\ speech \in Seq({"chunk", "last"}) /\ Len(speech) \in Nat /\ voiced \in Nat
      /\ hears \in Seq({"chunk", "last", "raw"})
  BY DEF MockInv, MockTyped
<1>3. ~outOpen /\ ~HungUp
  BY <1>1 DEF MockInv, MockQuiet, MockPhases
<1>4. \/ /\ speech # <<>> /\ speech' = Tail(speech) /\ hears' = Append(hears, Head(speech))
         /\ \/ leg' = "listen" /\ voiced' = voiced + 1
            \/ leg' = "forward" /\ voiced' = voiced
      \/ /\ speech = <<>> /\ voice = "ended" /\ leg' = "listen"
         /\ voiced' = IF next = NumChunks THEN voiced + 1 ELSE voiced
         /\ UNCHANGED <<speech, hears>>
      \/ (cancelled \/ late) /\ leg' \in {"gone", "pass"} /\ UNCHANGED <<speech, voiced, hears>>
  BY DEF Forwards, Delivers
<1>5. /\ speech' \in Seq({"chunk", "last"}) /\ hears' \in Seq({"chunk", "last", "raw"})
      /\ voiced' \in Nat /\ leg' \in {"listen", "forward", "gone", "pass"}
  <2>1. speech # <<>> => Head(speech) \in {"chunk", "last"} /\ Tail(speech) \in Seq({"chunk", "last"})
    BY <1>2
  <2>2. speech # <<>> => Append(hears, Head(speech)) \in Seq({"chunk", "last", "raw"})
    BY <1>2, <2>1
  <2>3. voiced + 1 \in Nat
    BY <1>2
  <2> QED BY <1>2, <1>4, <2>1, <2>2, <2>3, Zenon
<1>6. MockTyped'
  BY <1>1, <1>5 DEF MockInv, MockTyped, feedVars, userVars
<1>7. MockOnce'
  <2> SUFFICES ASSUME ~hurried PROVE MockOnce'
    BY <1>1 DEF MockOnce, userVars
  <2>1. Finals = {Len(emitted)} /\ ~late /\ InHand /\ Speaking /\ ~cancelled
    BY <1>1, <1>3 DEF MockInv, MockOnce, MockPhases, Queued, Voiced
  <2>2. use = "demo" /\ outcome = "none" /\ leg = "forward" => hears # <<>>
    BY <1>3 DEF MockInv, MockOnce
  <2>3. CASE /\ speech # <<>> /\ hears' = Append(hears, Head(speech))
             /\ \/ leg' = "listen" /\ voiced' = voiced + 1
                \/ leg' = "forward" /\ voiced' = voiced
    <3>1. hears' # <<>>
      BY <1>2, <2>3
    <3> QED BY <1>1, <1>2, <2>1, <2>3, <3>1 DEF MockOnce, Finals, Queued, InHand, Voiced, Speaking,
        feedVars, userVars
  <2>4. CASE /\ speech = <<>> /\ voice = "ended" /\ leg' = "listen"
             /\ voiced' = IF next = NumChunks THEN voiced + 1 ELSE voiced
             /\ UNCHANGED <<speech, hears>>
    <3>1. next = NumChunks
      BY <1>1, <2>1, <2>4 DEF Speaking
    <3>2. leg = "forward"
      BY <1>1, <2>1, <2>4, <3>1, MockAssumption DEF Speaking
    <3> QED BY <1>1, <1>2, <2>1, <2>2, <2>4, <3>1, <3>2 DEF MockOnce, Finals, InHand, Voiced,
        Speaking, feedVars, userVars
  <2> QED BY <1>4, <2>1, <2>3, <2>4
<1> QED BY <1>1, <1>3, <1>6, <1>7 DEF MockInv, MockPhases, MockQuiet, MockGone, MockListens, OnTheLine, HungUp,
    NoneSending, feedVars, userVars

\* The user goes on without the stream: it pushes, its call ends, a deadline passes.
LEMMA UserKeeps ==
  ASSUME MockInv, PushesFrame \/ PushFails \/ CallEnds \/ Backstop
  PROVE  MockInv'
<1>1. /\ UNCHANGED <<feeder, closed, out, outOpen, emitted, legVars, use>> /\ (hurried => hurried')
  BY DEF PushesFrame, PushFails, CallEnds, Backstop, Buffers, UserGoes, feedVars, MockInv
<1>2. CASE PushesFrame
  BY <1>1, <1>2 DEF PushesFrame, UserGoes, Buffers, MockInv, MockTyped, MockPhases, MockQuiet,
     MockOnce, MockGone, MockListens, OnTheLine, HungUp, NoneSending, NoFinalIn, Queued, InHand, Voiced, Speaking, Finals,
     legVars
<1>3. CASE PushFails
  BY <1>1, <1>3 DEF PushFails, UserGoes, MockInv, MockTyped, MockPhases, MockQuiet,
     MockOnce, MockGone, MockListens, OnTheLine, HungUp, NoneSending, NoFinalIn, Queued, InHand, Voiced, Speaking, Finals,
     legVars
<1>4. CASE CallEnds
  BY <1>1, <1>4 DEF CallEnds, UserGoes, MockInv, MockTyped, MockPhases, MockQuiet,
     MockOnce, MockGone, MockListens, OnTheLine, HungUp, NoneSending, NoFinalIn, Queued, InHand, Voiced, Speaking, Finals,
     legVars
<1>5. CASE Backstop
  BY <1>1, <1>5 DEF Backstop, MockInv, MockTyped, MockPhases, MockQuiet,
     MockOnce, MockGone, MockListens, OnTheLine, HungUp, NoneSending, NoFinalIn, Queued, InHand, Voiced, Speaking, Finals,
     legVars
<1> QED BY <1>2, <1>3, <1>4, <1>5

\* Close: the stream in its two halves, then the legs.
LEMMA ClosingKeeps ==
  ASSUME MockInv, ClosesStream \/ StreamCloses \/ LegsDone
  PROVE  MockInv'
<1>1. CASE ClosesStream
  BY <1>1 DEF ClosesStream, MarksClosed, UserGoes, MockInv, MockTyped, MockPhases, MockQuiet,
     MockOnce, MockGone, MockListens, OnTheLine, HungUp, NoneSending, NoFinalIn, legVars
<1>2. CASE StreamCloses
  <2>1. /\ UNCHANGED <<pushes, feeder, closed, legVars, use, outcome, cancelled, hurried>>
        /\ user = "closing" /\ user' = "waiting" /\ NoneSending /\ outOpen /\ outOpen' = FALSE
        /\ Emits("final")
    BY <1>2 DEF StreamCloses, FlushesFinal
  <2>2. /\ out \in Seq({"partial", "final"}) /\ emitted \in Seq({"partial", "final"})
        /\ NoFinalIn(emitted) /\ NoFinalIn(out) /\ leg \in {"listen", "gone"} /\ voiced = 0
        /\ hears = <<>> /\ (late => hurried)
    BY <2>1 DEF MockInv, MockTyped, MockQuiet
  <2>3. /\ out' \in Seq({"partial", "final"}) /\ emitted' \in Seq({"partial", "final"})
    <3>1. \A s \in Seq({"partial", "final"}) : Append(s, "final") \in Seq({"partial", "final"})
      OBVIOUS
    <3> QED BY <2>1, <2>2, <3>1, Zenon DEF Emits
  <2>4. MockTyped'
    BY <2>1, <2>3 DEF MockInv, MockTyped, legVars
  <2>5. MockPhases'
    BY <2>1 DEF MockInv, MockTyped, MockPhases, MockGone, MockListens, OnTheLine, HungUp, NoneSending, legVars
  <2>6. ASSUME ~hurried PROVE MockOnce'
    <3>1. ~cancelled
      BY <2>1, <2>6 DEF MockInv, MockPhases, HungUp
    <3>2. out' = Append(out, "final") /\ emitted' = Append(emitted, "final")
      BY <2>1, <3>1 DEF Emits
    <3>3. \A s \in Seq({"partial", "final"}) :
            NoFinalIn(s) => LET t == Append(s, "final")
                            IN  /\ Len(t) > 0 /\ t[Len(t)] = "final"
                                /\ \A i \in DOMAIN t : i < Len(t) => t[i] # "final"
                                /\ {i \in DOMAIN t : t[i] = "final"} = {Len(t)}
      <4> SUFFICES ASSUME NEW s \in Seq({"partial", "final"}), NoFinalIn(s)
                   PROVE  LET t == Append(s, "final")
                          IN  /\ Len(t) > 0 /\ t[Len(t)] = "final"
                              /\ \A i \in DOMAIN t : i < Len(t) => t[i] # "final"
                              /\ {i \in DOMAIN t : t[i] = "final"} = {Len(t)}
        OBVIOUS
      <4> DEFINE t == Append(s, "final")
      <4>1. /\ Len(t) = Len(s) + 1 /\ Len(s) \in Nat /\ DOMAIN t = 1..Len(t)
            /\ t[Len(t)] = "final" /\ \A i \in 1..Len(s) : t[i] = s[i] /\ i \in DOMAIN s
        OBVIOUS
      <4> HIDE DEF t
      <4>2. \A i \in DOMAIN t : i < Len(t) => t[i] # "final"
        BY <4>1 DEF NoFinalIn
      <4>3. Len(t) \in DOMAIN t /\ \A i \in DOMAIN t : i <= Len(t)
        BY <4>1
      <4>4. {i \in DOMAIN t : t[i] = "final"} = {Len(t)}
        <5>1. \A i \in DOMAIN t : t[i] = "final" => i = Len(t)
          BY <4>1, <4>2, <4>3
        <5> QED BY <4>1, <4>3, <5>1
      <4>5. Len(t) > 0
        BY <4>1
      <4> QED BY <4>1, <4>2, <4>4, <4>5 DEF t
    <3>4. /\ Len(out') > 0 /\ out'[Len(out')] = "final"
          /\ \A i \in DOMAIN out' : i < Len(out') => out'[i] # "final"
          /\ Finals' = {Len(emitted')}
      BY <2>2, <3>2, <3>3 DEF Finals
    <3>5. leg = "listen"
      <4>1. leg = "gone" => cancelled
        BY <2>1 DEF MockInv, MockGone
      <4> QED BY <2>2, <3>1, <4>1
    <3>6. Queued'
      BY <2>1, <2>2, <3>4, <3>5 DEF Queued, legVars
    <3> QED BY <2>1, <2>2, <2>6, <3>4, <3>5, <3>6 DEF MockOnce, Voiced, Speaking, legVars
  <2>7. MockOnce'
    BY <2>1, <2>6 DEF MockOnce
  <2> QED BY <2>1, <2>2, <2>4, <2>5, <2>7 DEF MockInv, MockQuiet, MockGone, MockListens, legVars
<1>3. CASE LegsDone
  BY <1>3 DEF LegsDone, UserGoes, MockInv, MockTyped, MockPhases, MockQuiet,
     MockOnce, MockGone, MockListens, OnTheLine, HungUp, NoneSending, NoFinalIn, Queued, InHand, Voiced, Speaking, Finals,
     legVars, feedVars
<1> QED BY <1>1, <1>2, <1>3

\* Somebody hears what was spoken.
LEMMA HearingKeeps ==
  ASSUME MockInv, Hearing \/ Plays
  PROVE  MockInv'
<1>1. /\ UNCHANGED <<feedVars, leg, late, next, voice, speech, voiced, use, cancelled, hurried>>
      /\ hears' \in Seq({"chunk", "last", "raw"})
      /\ hears = <<>> => hears' = <<>>
  <2>1. hears' = hears \/ (hears # <<>> /\ hears' = Tail(hears))
    BY DEF Hearing, Plays
  <2>2. hears \in Seq({"chunk", "last", "raw"})
    BY DEF MockInv, MockTyped
  <2>3. hears # <<>> => Tail(hears) \in Seq({"chunk", "last", "raw"})
    BY <2>2
  <2>4. UNCHANGED <<feedVars, leg, late, next, voice, speech, voiced, use, cancelled, hurried>>
    BY DEF Hearing, Plays, UserGoes, userVars
  <2> QED BY <2>1, <2>2, <2>3, <2>4, Zenon
<1>2. CASE Plays
  BY <1>1, <1>2 DEF Plays, MockInv, MockTyped, MockPhases, MockQuiet,
     MockOnce, MockGone, MockListens, OnTheLine, HungUp, NoneSending, NoFinalIn, Queued, InHand, Voiced, Speaking, Finals,
     feedVars, userVars
<1>3. CASE Hearing
  <2>1. user = "listen" /\ user' = IF use = "demo" THEN "done" ELSE "close"
    BY <1>3 DEF Hearing, UserGoes
  <2>2. use # "call"
    BY <2>1 DEF MockInv, MockPhases
  <2>3. outcome' \in {"heard", "silent"} /\ (outcome' = "heard" => hears # <<>>)
        /\ (outcome' = "silent" => hears = <<>> \/ use = "benchmark")
    BY <1>3 DEF Hearing
  <2>4. MockTyped'
    BY <1>1, <2>1, <2>3 DEF MockInv, MockTyped, feedVars
  <2>5. use = "benchmark" => outOpen /\ hears = <<>>
    BY <2>1 DEF MockInv, MockPhases, MockQuiet, OnTheLine
  <2>6. use = "demo" => leg = "gone" /\ ~outOpen
    BY <2>1 DEF MockInv, MockPhases, HungUp, OnTheLine
  <2>7. use = "demo" /\ ~hurried => outcome' # "silent"
    <3>1. SUFFICES ASSUME use = "demo", ~hurried PROVE hears # <<>>
      BY <2>3
    <3>2. Voiced
      BY <2>6, <3>1 DEF MockInv, MockOnce, Queued, InHand
    <3>3. outcome = "none"
      BY <2>1, <3>1 DEF MockInv, MockListens
    <3> QED BY <2>6, <3>1, <3>2, <3>3 DEF MockInv, MockOnce
  <2>8. use \in {"demo", "benchmark"}
    BY <2>2 DEF MockInv, MockTyped
  <2>9. MockPhases'
    BY <1>1, <2>1, <2>6, <2>8 DEF MockInv, MockPhases, MockGone, MockListens, OnTheLine, HungUp, NoneSending, feedVars
  <2> QED BY <1>1, <2>1, <2>3, <2>4, <2>5, <2>6, <2>7, <2>8, <2>9 DEF MockInv, MockQuiet,
      MockOnce, NoFinalIn, Queued, InHand, Voiced, Speaking, Finals, feedVars, MockGone, MockListens
<1> QED BY <1>2, <1>3

\* No step of a call on the mocks disturbs it.
LEMMA MockSteps == MockInv /\ [MockNext]_mockVars => MockInv'
<1> SUFFICES ASSUME MockInv, [MockNext]_mockVars PROVE MockInv'
  OBVIOUS
<1>1. CASE UNCHANGED mockVars
  BY <1>1 DEF mockVars, feedVars, legVars, userVars, MockInv, MockTyped, MockPhases, MockQuiet,
     MockOnce, MockGone, MockListens, OnTheLine, HungUp, NoneSending, NoFinalIn, Queued, InHand, Voiced, Speaking, Finals,
     MockGone, MockListens
<1> QED BY <1>1, FeedersKeep, ListeningKeeps, LegKeeps, ForwardsKeep, UserKeeps, ClosingKeeps,
    HearingKeeps DEF MockNext

\* On the mocks nothing is put on a closed channel, and unless a deadline cuts it
\* short the one final transcript that Close flushes is spoken whole before Close
\* returns, so that the demo, which listens only then, hears it (asr/mock.go: Close;
\* main.go: runDemo).
THEOREM MockCallIsHeard == MockSpec => []MockHeard
<1>1. MockInv => MockHeard
  BY DEF MockInv, MockPhases, MockOnce, MockHeard, HungUp, OnTheLine, Queued, InHand, Voiced
<1> QED BY <1>1, MockStarts, MockSteps, PTL DEF MockSpec

-----------------------------------------------------------------------------
(* What a call is made of (Selection).                                     *)

\* The persona a side's leg may use for the language it speaks: the default one, or
\* one that was set for it.
Fits(p, lang) ==
  \/ <<lang, p>> \in asked
  \/ p = [voice |-> <<"default", lang>>, lang |-> lang]

SelectionInv ==
  /\ DOMAIN holds = Sides
  /\ SidesUnderstood
  /\ call = None => said = None /\ \A side \in Sides : holds[side] = None
  /\ call # None => call.lang \in Wanted
  /\ \A lang \in DOMAIN personas : <<lang, personas[lang]>> \in asked
  /\ \A side \in Sides : holds[side] # None =>
       /\ call.lang[Other(side)] \in Known
       /\ Fits(holds[side], call.lang[Other(side)])
  /\ VoicesAskedFor

\* The default persona of a language with voices is spoken by its default voice.
LEMMA DefaultVoice ==
  ASSUME NEW vendor, NEW lang \in Known,
         NEW p, p = [voice |-> <<"default", lang>>, lang |-> lang]
  PROVE  CanSpeak(vendor, p) /\ voiceFor(vendor, p) = VoicesOf(vendor)[lang][<<"default", lang>>]
<1>1. p.lang = lang /\ p.voice = <<"default", lang>> /\ SpokenIn(p) = lang
  BY DEF SpokenIn, Known
<1>2. DOMAIN VoicesOf(vendor) = Known /\ DOMAIN VoicesOf(vendor)[lang] = Roster(lang)
  BY DEF VoicesOf, CartesiaVoices, ElevenLabsVoices
<1>3. <<"default", lang>> \in Roster(lang)
  BY DEF Roster
<1> QED BY <1>1, <1>2, <1>3 DEF CanSpeak, voiceFor

\* No call has been made and no persona set.
LEMMA SelectionStarts == SelectionInit => SelectionInv
BY DEF SelectionInit, SelectionInv, SidesUnderstood, VoicesAskedFor

\* A call is started.
LEMMA StartsKeeps ==
  ASSUME SelectionInv, StartsCall
  PROVE  SelectionInv'
<1>0. PICK flag \in {"", "mock"} \cup AllVendors : \E wanted \in Wanted, switching \in BOOLEAN,
        env \in Envs, speaker \in Personas \cup {None} :
       LET name == [s \in Stages |-> resolveBackend(flag, env[s])]
           made == [flag |-> flag, env |-> env, switching |-> switching, lang |-> wanted,
                    uses |-> [s \in Stages |-> registry[s][name[s]]]]
       IN  /\ \A s \in Stages : Constructs(s, name[s])
           /\ \A side \in Sides : Hinted(made.uses.asr, Hint(made, side)) \in Known
           /\ call' = made
           /\ personas' = IF speaker = None THEN personas ELSE Set(speaker.lang, speaker)
           /\ asked' = IF speaker = None THEN asked ELSE asked \cup {<<speaker.lang, speaker>>}
  BY DEF StartsCall
<1>1. PICK wanted \in Wanted, switching \in BOOLEAN, env \in Envs, speaker \in Personas \cup {None} :
       LET name == [s \in Stages |-> resolveBackend(flag, env[s])]
           made == [flag |-> flag, env |-> env, switching |-> switching, lang |-> wanted,
                    uses |-> [s \in Stages |-> registry[s][name[s]]]]
       IN  /\ \A s \in Stages : Constructs(s, name[s])
           /\ \A side \in Sides : Hinted(made.uses.asr, Hint(made, side)) \in Known
           /\ call' = made
           /\ personas' = IF speaker = None THEN personas ELSE Set(speaker.lang, speaker)
           /\ asked' = IF speaker = None THEN asked ELSE asked \cup {<<speaker.lang, speaker>>}
  BY <1>0
<1>2. /\ call'.switching = switching /\ call'.lang = wanted
      /\ \A side \in Sides : Hinted(call'.uses.asr, Hint(call', side)) \in Known
      /\ personas' = IF speaker = None THEN personas ELSE Set(speaker.lang, speaker)
      /\ asked' = IF speaker = None THEN asked ELSE asked \cup {<<speaker.lang, speaker>>}
  BY <1>1
<1>3. UNCHANGED <<holds, said>> /\ said = None /\ \A side \in Sides : holds[side] = None
  BY DEF StartsCall, SelectionInv
<1>4. ASSUME NEW side \in Sides
      PROVE  call'.lang[side] \in Understands(call'.uses.asr, Hint(call', side))
               <=> /\ call'.lang[side] \in Known
                   /\ call'.switching => call'.uses.asr = "sarvam" \/ call'.lang[side] = "en"
  <2> DEFINE asr == call'.uses.asr
             lang == call'.lang[side]
  <2>1. lang # ""
    BY <1>2, SelectionAssumption DEF Sides
  <2>2. Hint(call', side) = IF switching THEN "" ELSE lang
    BY <1>2 DEF Hint
  <2>3. Hinted(asr, Hint(call', side)) \in Known
    BY <1>2
  <2> HIDE DEF asr, lang
  <2>4. lang \in Understands(asr, Hint(call', side))
          <=> lang \in Known /\ (switching => asr = "sarvam" \/ lang = "en")
    <3>1. CASE switching
      BY <2>1, <2>2, <3>1 DEF Understands, Hinted, Known
    <3>2. CASE ~switching
      BY <2>1, <2>2, <2>3, <3>2 DEF Understands, Hinted, Known
    <3> QED BY <3>1, <3>2
  <2> QED BY <1>2, <2>4 DEF asr, lang
<1>5. SidesUnderstood'
  BY <1>4 DEF SidesUnderstood
<1>6. \A lang \in DOMAIN personas' : <<lang, personas'[lang]>> \in asked'
  BY <1>2 DEF Set, SelectionInv
<1> QED BY <1>2, <1>3, <1>5, <1>6 DEF SelectionInv, VoicesAskedFor

\* Personas are set, and taken by the legs.
LEMMA PersonasKeep ==
  ASSUME SelectionInv,
         SetsPersona \/ \E side \in Sides : TakesPersona(side)
  PROVE  SelectionInv'
<1>1. CASE SetsPersona
  <2>1. PICK side \in Sides, p \in Personas :
          personas' = Set(call.lang[side], p) /\ asked' = asked \cup {<<call.lang[side], p>>}
    BY <1>1 DEF SetsPersona
  <2>2. \A lang \in DOMAIN personas' : <<lang, personas'[lang]>> \in asked'
    BY <2>1 DEF Set, SelectionInv
  <2>3. asked \subseteq asked' /\ UNCHANGED <<call, holds, said>>
    BY <1>1, <2>1 DEF SetsPersona
  <2> QED BY <2>2, <2>3 DEF SelectionInv, SidesUnderstood, VoicesAskedFor, Fits
<1>2. ASSUME NEW side \in Sides, TakesPersona(side) PROVE SelectionInv'
  <2> DEFINE lang == call.lang[Other(side)]
  <2>1. /\ call # None /\ holds' = [holds EXCEPT ![side] = Get(lang)]
        /\ lang \in Known
        /\ UNCHANGED <<call, personas, asked, said>>
    BY <1>2 DEF TakesPersona, Supports, Known
  <2>2. Fits(Get(lang), lang)
    BY DEF Get, Fits, SelectionInv
  <2>3. \A other \in Sides : holds'[other] # None =>
          call.lang[Other(other)] \in Known /\ Fits(holds'[other], call.lang[Other(other)])
    BY <2>1, <2>2 DEF SelectionInv
  <2>4. DOMAIN holds' = Sides
    BY <2>1 DEF SelectionInv
  <2> QED BY <2>1, <2>3, <2>4 DEF SelectionInv, SidesUnderstood, VoicesAskedFor, Fits
<1> QED BY <1>1, <1>2

\* A request is made for the persona that was held.
LEMMA RequestsKeeps ==
  ASSUME SelectionInv, NEW side \in Sides, Requests(side)
  PROVE  SelectionInv'
<1> DEFINE p == holds[side]
           vendor == call.uses.tts
           lang == call.lang[Other(side)]
<1>1. /\ p # None /\ UNCHANGED <<call, personas, asked>>
      /\ said'.side = side /\ said'.persona = p
      /\ said'.voice = IF CanSpeak(vendor, p) THEN voiceFor(vendor, p) ELSE NoVoice
      /\ holds' = [holds EXCEPT ![side] = None]
  BY DEF Requests
<1>2. call # None /\ lang \in Known /\ Fits(p, lang)
  BY <1>1 DEF SelectionInv
<1>3. <<lang, p>> \in asked \/ said'.voice = VoicesOf(vendor)[lang][<<"default", lang>>]
  BY <1>1, <1>2, DefaultVoice DEF Fits
<1>4. VoicesAskedFor'
  BY <1>1, <1>3 DEF VoicesAskedFor
<1>5. DOMAIN holds' = Sides
      /\ \A other \in Sides : holds'[other] # None => holds'[other] = holds[other]
  BY <1>1 DEF SelectionInv
<1> QED BY <1>1, <1>2, <1>4, <1>5 DEF SelectionInv, SidesUnderstood, Fits

\* No registration, call or change of persona disturbs it.
LEMMA SelectionSteps == SelectionInv /\ [SelectionNext]_selectionVars => SelectionInv'
<1>1. SelectionInv /\ (Registers \/ UNCHANGED selectionVars) => SelectionInv'
  BY DEF Registers, selectionVars, SelectionInv, SidesUnderstood, VoicesAskedFor, Fits
<1> QED BY <1>1, StartsKeeps, PersonasKeep, RequestsKeeps DEF SelectionNext

\* Whatever is registered, set and configured, and in whatever order: a side is
\* understood in its own language exactly when SidesUnderstood says so, and heard in
\* the default voice of its listener's language or in a persona that was set for
\* that very language (NewSession, PersonaManager, session.go:651, voiceFor).
THEOREM CallsFit == SelectionSpec => []CallFits
<1>1. SelectionInv => CallFits
  BY DEF SelectionInv, CallFits
<1> QED BY <1>1, SelectionStarts, SelectionSteps, PTL DEF SelectionSpec

-----------------------------------------------------------------------------
(* The microphone of a seat (Media).                                       *)

\* The types, and the property itself.
MicInv ==
  /\ room \in {"open", "cancelled", "closed"}
  /\ mic \in [Peers -> {"none", "check", "read", "ended", "cancelled"}]
  /\ read \in [Peers -> Nat]
  /\ buffered \in [Peers -> Seq(Nat)] /\ pushed \in [Peers -> Seq(Nat)]
  /\ MicHeard

\* The row of the first numbers.
LEMMA UpToIsSeq ==
  ASSUME NEW n \in Nat
  PROVE  UpTo(n) \in Seq(Nat) /\ Len(UpTo(n)) = n
BY DEF UpTo

\* One more number in the row of the first ones.
LEMMA UpToNext ==
  ASSUME NEW n \in Nat
  PROVE  Append(UpTo(n), n + 1) = UpTo(n + 1)
<1>1. UpTo(n) \in Seq(Nat) /\ UpTo(n + 1) \in Seq(Nat) /\ Len(UpTo(n)) = n /\ Len(UpTo(n + 1)) = n + 1
  BY DEF UpTo
<1>2. \A i \in 1..n : UpTo(n)[i] = i
  BY DEF UpTo
<1>3. \A i \in 1..(n + 1) : UpTo(n + 1)[i] = i
  BY DEF UpTo
<1> DEFINE u == UpTo(n)
           w == UpTo(n + 1)
<1> HIDE DEF u, w
<1>4. Append(u, n + 1) = w
  <2>1. u \in Seq(Nat) /\ w \in Seq(Nat) /\ Len(u) = n /\ Len(w) = n + 1
    BY <1>1 DEF u, w
  <2>2. \A i \in 1..Len(w) : Append(u, n + 1)[i] = w[i]
    <3> SUFFICES ASSUME NEW i \in 1..Len(w) PROVE Append(u, n + 1)[i] = w[i]
      OBVIOUS
    <3>1. w[i] = i
      BY <1>3, <2>1 DEF w
    <3>2. i \in 1..n => u[i] = i
      BY <1>2 DEF u
    <3> QED BY <2>1, <3>1, <3>2
  <2>3. Append(u, n + 1) \in Seq(Nat) /\ Len(Append(u, n + 1)) = Len(w)
    BY <2>1
  <2> QED BY <2>1, <2>2, <2>3
<1> QED BY <1>4 DEF u, w

\* Something more at the end of the second of two sequences.
LEMMA AppendOver ==
  ASSUME NEW S, NEW a \in Seq(S), NEW b \in Seq(S), NEW x \in S
  PROVE  /\ Append(b, x) \in Seq(S) /\ a \o Append(b, x) \in Seq(S) /\ a \o b \in Seq(S)
         /\ a \o Append(b, x) = Append(a \o b, x)
OBVIOUS

\* No packet has been read.
LEMMA MicStarts == MediaInit => MicInv
<1> SUFFICES ASSUME MediaInit PROVE MicInv
  OBVIOUS
<1>1. <<>> \in Seq(Nat) /\ <<>> \o <<>> = <<>> /\ UpTo(0) = <<>> /\ Len(<<>>) = 0
  BY DEF UpTo
<1>2. Target \in Nat /\ Target > 0
  BY MediaAssumption
<1> QED BY <1>1, <1>2 DEF MediaInit, MicInv, MicHeard, Each

\* Once a buffer has been flushed into it, the session has all that was read.
LEMMA FlushedIsHeard ==
  ASSUME NEW n \in Nat, NEW a, a = UpTo(n)
  PROVE  /\ a \in Seq(Nat) /\ a = UpTo(Len(a)) /\ Len(a) <= n /\ a \o <<>> = a
         /\ <<>> \in Seq(Nat) /\ Len(<<>>) = 0
BY UpToIsSeq, ConcatEmptySeq

\* A packet is read into the buffer, and the buffer flushed when it is full.
LEMMA PacketKeepsMic ==
  ASSUME MicInv, NEW p \in Peers, ReadsPacket(p)
  PROVE  MicInv'
<1> DEFINE buf == Append(buffered[p], read[p] + 1)
<1>1. /\ read' = [read EXCEPT ![p] = @ + 1] /\ mic' = [mic EXCEPT ![p] = "check"]
      /\ mic[p] = "read" /\ room' = room
      /\ \/ pushed' = [pushed EXCEPT ![p] = IF room = "closed" THEN @ ELSE @ \o buf]
            /\ buffered' = [buffered EXCEPT ![p] = <<>>]
         \/ buffered' = [buffered EXCEPT ![p] = buf] /\ pushed' = pushed /\ ~(Len(buf) >= Target)
  BY DEF ReadsPacket, Flushed, seatVars
<1>2. /\ read[p] \in Nat /\ buffered[p] \in Seq(Nat) /\ pushed[p] \in Seq(Nat)
      /\ <<>> \in Seq(Nat) /\ Len(<<>>) = 0 /\ Target \in Nat /\ Target > 0
      /\ Len(pushed[p]) \in Nat
  BY MediaAssumption DEF MicInv
<1>3. read[p] + 1 \in Nat /\ buf \in Seq(Nat) /\ Len(buf) \in Nat /\ pushed[p] \o buf \in Seq(Nat)
      /\ pushed[p] \o buf = Append(pushed[p] \o buffered[p], read[p] + 1)
  <2>1. read[p] + 1 \in Nat
    BY <1>2
  <2> DEFINE a == pushed[p]
             b == buffered[p]
             x == read[p] + 1
  <2>2. a \in Seq(Nat) /\ b \in Seq(Nat) /\ x \in Nat
    BY <1>2, <2>1
  <2> HIDE DEF a, b, x
  <2>3. /\ Append(b, x) \in Seq(Nat) /\ a \o Append(b, x) \in Seq(Nat)
        /\ a \o Append(b, x) = Append(a \o b, x)
    BY <2>2, AppendOver
  <2>4. Len(Append(b, x)) \in Nat
    BY <2>3
  <2> QED BY <2>1, <2>3, <2>4 DEF a, b, x
<1>4. room # "closed" => pushed[p] \o buf = UpTo(read[p] + 1)
  BY <1>2, <1>3, UpToNext DEF MicInv, MicHeard
<1> HIDE DEF buf
<1>5. /\ read' \in [Peers -> Nat]
      /\ mic' \in [Peers -> {"none", "check", "read", "ended", "cancelled"}]
      /\ pushed' \in [Peers -> Seq(Nat)] /\ buffered' \in [Peers -> Seq(Nat)]
  BY <1>1, <1>2, <1>3 DEF MicInv
<1>6. /\ pushed'[p] = UpTo(Len(pushed'[p])) /\ Len(pushed'[p]) <= read'[p]
      /\ room # "closed" => pushed'[p] \o buffered'[p] = UpTo(read'[p])
      /\ Len(buffered'[p]) < Target
  <2>1. read'[p] = read[p] + 1
    BY <1>1 DEF MicInv
  <2>2. /\ pushed[p] = UpTo(Len(pushed[p])) /\ Len(pushed[p]) <= read[p] + 1
    BY <1>2 DEF MicInv, MicHeard
  <2>3. CASE pushed'[p] = pushed[p] \o buf /\ buffered'[p] = <<>> /\ room # "closed"
    BY <1>2, <1>3, <1>4, <2>1, <2>3, FlushedIsHeard
  <2>4. CASE pushed'[p] = pushed[p] /\ buffered'[p] = <<>> /\ room = "closed"
    BY <1>2, <2>1, <2>2, <2>4
  <2>5. CASE pushed'[p] = pushed[p] /\ buffered'[p] = buf /\ ~(Len(buf) >= Target)
    <3>1. room # "closed" => pushed'[p] \o buffered'[p] = UpTo(read'[p])
      BY <1>4, <2>1, <2>5
    <3>2. Len(buffered'[p]) < Target
      BY <1>2, <1>3, <2>5
    <3> QED BY <2>1, <2>2, <2>5, <3>1, <3>2
  <2> QED BY <1>1, <2>3, <2>4, <2>5 DEF MicInv
<1>7. mic'[p] = "check"
  BY <1>1 DEF MicInv
<1>8. ASSUME NEW q \in Peers, q # p
      PROVE  UNCHANGED <<read[q], mic[q], pushed[q], buffered[q]>>
  BY <1>1, <1>8 DEF MicInv
<1>9. MicHeard'
  <2> SUFFICES ASSUME NEW q \in Peers
               PROVE  /\ pushed'[q] = UpTo(Len(pushed'[q])) /\ Len(pushed'[q]) <= read'[q]
                      /\ room' # "closed" => pushed'[q] \o buffered'[q] = UpTo(read'[q])
                      /\ Len(buffered'[q]) < Target
                      /\ mic'[q] = "ended" => buffered'[q] = <<>>
                      /\ mic'[q] = "cancelled" => room' # "open"
    BY DEF MicHeard
  <2>1. room' = room
    BY <1>1
  <2>2. CASE q = p
    BY <1>6, <1>7, <2>1, <2>2
  <2>3. CASE q # p
    BY <1>8, <2>1, <2>3 DEF MicInv, MicHeard
  <2> QED BY <2>2, <2>3
<1> QED BY <1>1, <1>5, <1>9 DEF MicInv

\* The connection ends the track: what is buffered is flushed first.
LEMMA TrackEndKeepsMic ==
  ASSUME MicInv, NEW p \in Peers, ReadFails(p)
  PROVE  MicInv'
<1>1. /\ mic' = [mic EXCEPT ![p] = "ended"] /\ UNCHANGED <<room, read>>
      /\ pushed' = [pushed EXCEPT ![p] = IF room = "closed" THEN @ ELSE @ \o buffered[p]]
      /\ buffered' = [buffered EXCEPT ![p] = <<>>]
  BY DEF ReadFails, Flushed, seatVars
<1>2. /\ read[p] \in Nat /\ buffered[p] \in Seq(Nat) /\ pushed[p] \in Seq(Nat)
      /\ <<>> \in Seq(Nat) /\ Len(<<>>) = 0 /\ Target \in Nat /\ Target > 0
  BY MediaAssumption DEF MicInv
<1>3. pushed[p] \o buffered[p] \in Seq(Nat)
  BY <1>2
<1>4. /\ mic' \in [Peers -> {"none", "check", "read", "ended", "cancelled"}]
      /\ pushed' \in [Peers -> Seq(Nat)] /\ buffered' \in [Peers -> Seq(Nat)]
  BY <1>1, <1>2, <1>3 DEF MicInv
<1>5. /\ pushed'[p] = UpTo(Len(pushed'[p])) /\ Len(pushed'[p]) <= read[p]
      /\ room # "closed" => pushed'[p] \o buffered'[p] = UpTo(read[p])
      /\ Len(buffered'[p]) < Target /\ buffered'[p] = <<>> /\ mic'[p] = "ended"
  <2>1. buffered'[p] = <<>> /\ mic'[p] = "ended"
    BY <1>1 DEF MicInv
  <2>2. CASE room = "closed"
    BY <1>1, <1>2, <2>1, <2>2 DEF MicInv, MicHeard
  <2>3. CASE room # "closed"
    <3>1. pushed'[p] = UpTo(read[p])
      BY <1>1, <2>3 DEF MicInv, MicHeard
    <3> QED BY <1>2, <2>1, <3>1, FlushedIsHeard
  <2> QED BY <2>2, <2>3
<1>6. ASSUME NEW q \in Peers, q # p
      PROVE  UNCHANGED <<mic[q], pushed[q], buffered[q]>>
  BY <1>1, <1>6 DEF MicInv
<1> QED BY <1>1, <1>4, <1>5, <1>6 DEF MicInv, MicHeard

\* Only reading touches what was read.
LEMMA MicSteps == MicInv /\ [MediaNext]_mediaVars => MicInv'
<1> SUFFICES ASSUME MicInv, [MediaNext]_mediaVars PROVE MicInv'
  OBVIOUS
<1>1. CASE UNCHANGED <<room, mic, read, buffered, pushed>>
  BY <1>1 DEF MicInv, MicHeard
<1>2. CASE Sits \/ SitterLeaves \/ SessionSends \/ UNCHANGED mediaVars
  BY <1>1, <1>2 DEF Sits, SitterLeaves, SessionSends, mediaVars, seatVars, inVars
<1>3. CASE TearsDown
  BY <1>3 DEF TearsDown, inVars, MicInv, MicHeard
<1>4. ASSUME NEW p \in Peers,
             Candidate(p) \/ HandleOffer(p) \/ Speaks(p) \/ BridgeTakes(p) \/ BridgeWrites(p)
             \/ BridgeEnds(p)
      PROVE  MicInv'
  BY <1>1, <1>4 DEF Candidate, HandleOffer, Speaks, BridgeTakes, BridgeWrites, BridgeEnds,
     seatVars, inVars
<1>5. ASSUME NEW p \in Peers, TrackStarts(p) \/ ChecksContext(p) PROVE MicInv'
  BY <1>5 DEF TrackStarts, ChecksContext, seatVars, MicInv, MicHeard
<1> QED BY <1>2, <1>3, <1>4, <1>5, PacketKeepsMic, TrackEndKeepsMic DEF MediaNext, PeerStep

-----------------------------------------------------------------------------
(* The candidates of a seat.                                               *)

\* Before the offer every candidate waits; after it none does, and those at the
\* front that are well-formed have been applied.
GoodFront(cs, n) == \A i \in 1 .. n : cs[i]

IceInv ==
  /\ remote \in [Peers -> BOOLEAN]
  /\ trickled \in [Peers -> Seq(BOOLEAN)] /\ pending \in [Peers -> Seq(BOOLEAN)]
  /\ applied \in [Peers -> Seq(BOOLEAN)]
  /\ \A p \in Peers :
       /\ ~remote[p] => pending[p] = trickled[p] /\ applied[p] = <<>>
       /\ remote[p] => pending[p] = <<>> /\ Len(applied[p]) <= Len(trickled[p])
       /\ remote[p] => \A n \in DOMAIN trickled[p] :
                         GoodFront(trickled[p], n) => n <= Len(applied[p])

\* No candidate has been sent.
LEMMA IceStarts == MediaInit => IceInv
<1>1. <<>> \in Seq(BOOLEAN)
  OBVIOUS
<1> QED BY <1>1 DEF MediaInit, IceInv, Each

\* One more of them.
LEMMA OneMore ==
  ASSUME NEW s \in Seq(BOOLEAN), NEW good \in BOOLEAN
  PROVE  /\ Append(s, good) \in Seq(BOOLEAN)
         /\ Len(Append(s, good)) = Len(s) + 1 /\ Len(s) \in Nat
         /\ DOMAIN s = 1..Len(s) /\ DOMAIN Append(s, good) = 1..(Len(s) + 1)
         /\ Append(s, good)[Len(s) + 1] = good
         /\ \A i \in 1..Len(s) : Append(s, good)[i] = s[i]
OBVIOUS

\* A candidate waits for the offer, or is applied at once.
LEMMA CandidateKeepsIce ==
  ASSUME IceInv, NEW p \in Peers, Candidate(p)
  PROVE  IceInv'
<1>1. PICK good \in BOOLEAN :
       /\ trickled' = [trickled EXCEPT ![p] = Append(@, good)]
       /\ IF ~remote[p]
          THEN /\ pending' = [pending EXCEPT ![p] = Append(@, good)] /\ UNCHANGED applied
          ELSE /\ applied' = [applied EXCEPT ![p] = IF good THEN Append(@, good) ELSE @]
               /\ UNCHANGED pending
  BY DEF Candidate
<1>2. remote' = remote
  BY DEF Candidate
<1>4. /\ trickled[p] \in Seq(BOOLEAN) /\ pending[p] \in Seq(BOOLEAN) /\ applied[p] \in Seq(BOOLEAN)
  BY DEF IceInv
<1>5. /\ trickled' \in [Peers -> Seq(BOOLEAN)] /\ pending' \in [Peers -> Seq(BOOLEAN)]
      /\ applied' \in [Peers -> Seq(BOOLEAN)]
  <2>1. /\ Append(trickled[p], good) \in Seq(BOOLEAN) /\ Append(pending[p], good) \in Seq(BOOLEAN)
        /\ Append(applied[p], good) \in Seq(BOOLEAN)
    BY <1>4, OneMore
  <2>2. \A f \in [Peers -> Seq(BOOLEAN)] : \A s \in Seq(BOOLEAN) :
          [f EXCEPT ![p] = s] \in [Peers -> Seq(BOOLEAN)]
    OBVIOUS
  <2>3. /\ trickled' = [trickled EXCEPT ![p] = Append(trickled[p], good)]
        /\ pending' \in {pending, [pending EXCEPT ![p] = Append(pending[p], good)]}
        /\ applied' \in {applied, [applied EXCEPT ![p] = Append(applied[p], good)],
                          [applied EXCEPT ![p] = applied[p]]}
    BY <1>1
  <2> QED BY <1>4, <2>1, <2>2, <2>3 DEF IceInv
<1>6. ASSUME NEW q \in Peers
      PROVE  /\ ~remote[q] => pending'[q] = trickled'[q] /\ applied'[q] = <<>>
             /\ remote[q] => pending'[q] = <<>> /\ Len(applied'[q]) <= Len(trickled'[q])
             /\ remote[q] => \A n \in DOMAIN trickled'[q] :
                               GoodFront(trickled'[q], n) => n <= Len(applied'[q])
  <2>1. CASE q # p
    BY <1>1, <2>1 DEF IceInv
  <2>2. CASE q = p /\ ~remote[p]
    BY <1>1, <2>2 DEF IceInv
  <2>3. CASE q = p /\ remote[p]
    <3> DEFINE t == trickled[p]
               a == applied[p]
               u == Append(t, good)
    <3>1. /\ trickled'[p] = u /\ pending'[p] = <<>>
          /\ applied'[p] = IF good THEN Append(a, good) ELSE a
      BY <1>1, <2>3 DEF IceInv
    <3>2. /\ Len(a) <= Len(t)
          /\ \A n \in DOMAIN t : GoodFront(t, n) => n <= Len(a)
      BY <2>3 DEF IceInv
    <3>3. /\ Len(u) = Len(t) + 1 /\ Len(t) \in Nat /\ DOMAIN t = 1..Len(t)
          /\ DOMAIN u = 1..(Len(t) + 1)
          /\ u[Len(t) + 1] = good /\ \A i \in 1..Len(t) : u[i] = t[i]
      BY <1>4, OneMore
    <3>4. Len(Append(a, good)) = Len(a) + 1 /\ Len(a) \in Nat
      BY <1>4, OneMore
    <3> HIDE DEF t, a, u
    <3>5. ASSUME NEW n \in DOMAIN u, GoodFront(u, n) PROVE n <= Len(applied'[p])
      <4>1. CASE n <= Len(t)
        <5>1. n \in DOMAIN t /\ GoodFront(t, n)
          BY <3>3, <3>5, <4>1 DEF GoodFront
        <5> QED BY <3>1, <3>2, <3>3, <3>4, <5>1
      <4>2. CASE n = Len(t) + 1
        <5>1. good
          BY <3>3, <3>5, <4>2 DEF GoodFront
        <5>2. Len(t) > 0 => Len(t) \in DOMAIN t /\ GoodFront(t, Len(t))
          BY <3>3, <3>5, <4>2 DEF GoodFront
        <5>3. Len(t) <= Len(a)
          BY <3>2, <3>3, <3>4, <5>2
        <5>4. Len(applied'[p]) = Len(a) + 1
          BY <3>1, <3>4, <5>1
        <5> QED BY <3>3, <3>4, <4>2, <5>3, <5>4
      <4> QED BY <3>3, <3>5, <4>1, <4>2
    <3>6. Len(applied'[p]) <= Len(u)
      BY <3>1, <3>2, <3>3, <3>4
    <3> QED BY <2>3, <3>1, <3>5, <3>6
  <2> QED BY <2>1, <2>2, <2>3
<1> QED BY <1>2, <1>5, <1>6 DEF IceInv

\* The first of them.
LEMMA FrontOf ==
  ASSUME NEW s \in Seq(BOOLEAN), NEW k \in 0..Len(s)
  PROVE  SubSeq(s, 1, k) \in Seq(BOOLEAN) /\ Len(SubSeq(s, 1, k)) = k
BY SubSeqProperties

\* The offer applies what waited, up to the first that is refused.
LEMMA OfferKeepsIce ==
  ASSUME IceInv, NEW p \in Peers, HandleOffer(p)
  PROVE  IceInv'
<1>1. PICK k \in 0..Len(pending[p]) :
        /\ k < Len(pending[p]) => ~pending[p][k + 1]
        /\ applied' = [applied EXCEPT ![p] = @ \o SubSeq(pending[p], 1, k)]
  BY DEF HandleOffer
<1>2. /\ remote' = [remote EXCEPT ![p] = TRUE]
      /\ pending' = [pending EXCEPT ![p] = <<>>] /\ trickled' = trickled
  BY DEF HandleOffer
<1>3. /\ trickled[p] \in Seq(BOOLEAN) /\ pending[p] \in Seq(BOOLEAN) /\ applied[p] \in Seq(BOOLEAN)
      /\ <<>> \in Seq(BOOLEAN) /\ Len(<<>>) = 0 /\ Len(pending[p]) \in Nat
      /\ Len(applied[p]) \in Nat /\ Len(trickled[p]) \in Nat
  BY DEF IceInv
<1> DEFINE new == SubSeq(pending[p], 1, k)
<1>5. new \in Seq(BOOLEAN) /\ Len(new) = k
  BY <1>3, FrontOf
<1>6. applied[p] \o new \in Seq(BOOLEAN) /\ Len(applied[p] \o new) = Len(applied[p]) + k
  <2> HIDE DEF new
  <2> QED BY <1>3, <1>5, ConcatProperties
<1>7. applied'[p] = applied[p] \o new /\ applied' \in [Peers -> Seq(BOOLEAN)]
  <2>1. applied' = [applied EXCEPT ![p] = applied[p] \o new]
    BY <1>1
  <2> HIDE DEF new
  <2> QED BY <1>6, <2>1 DEF IceInv
<1>8. /\ remote' \in [Peers -> BOOLEAN] /\ pending' \in [Peers -> Seq(BOOLEAN)]
      /\ remote'[p] /\ pending'[p] = <<>>
  BY <1>2, <1>3 DEF IceInv
<1>9. \A q \in Peers : q # p =>
        UNCHANGED <<remote[q], pending[q], applied[q]>>
  BY <1>1, <1>2 DEF IceInv
<1> HIDE DEF new
<1>10. /\ Len(applied'[p]) <= Len(trickled[p])
       /\ \A n \in DOMAIN trickled[p] : GoodFront(trickled[p], n) => n <= Len(applied'[p])
  <2>1. CASE ~remote[p]
    <3>1. pending[p] = trickled[p] /\ Len(applied[p]) = 0
      BY <1>3, <2>1 DEF IceInv
    <3>2. Len(applied'[p]) = k
      BY <1>6, <1>7, <3>1
    <3>3. ASSUME NEW n \in DOMAIN trickled[p], GoodFront(trickled[p], n) PROVE n <= k
      <4>1. n \in Nat /\ n <= Len(pending[p])
        BY <1>3, <3>1, <3>3
      <4>2. SUFFICES ASSUME k < n PROVE FALSE
        BY <1>1, <4>1
      <4>3. k < Len(pending[p]) /\ k + 1 \in 1..n
        BY <1>1, <1>3, <4>1, <4>2
      <4> QED BY <1>1, <3>1, <3>3, <4>3 DEF GoodFront
    <3> QED BY <1>1, <1>3, <3>1, <3>2, <3>3
  <2>2. CASE remote[p]
    <3>1. Len(pending[p]) = 0
      BY <1>3, <2>2 DEF IceInv
    <3>2. Len(applied'[p]) = Len(applied[p])
      BY <1>1, <1>3, <1>6, <1>7, <3>1
    <3> QED BY <2>2, <3>2 DEF IceInv
  <2> QED BY <2>1, <2>2
<1>11. ASSUME NEW q \in Peers
       PROVE  /\ ~remote'[q] => pending'[q] = trickled'[q] /\ applied'[q] = <<>>
              /\ remote'[q] => pending'[q] = <<>> /\ Len(applied'[q]) <= Len(trickled'[q])
              /\ remote'[q] => \A n \in DOMAIN trickled'[q] :
                                GoodFront(trickled'[q], n) => n <= Len(applied'[q])
  <2>1. CASE q # p
    BY <1>2, <1>9, <2>1 DEF IceInv
  <2>2. CASE q = p
    BY <1>2, <1>8, <1>10, <2>2
  <2> QED BY <2>1, <2>2
<1> QED BY <1>2, <1>7, <1>8, <1>11 DEF IceInv

\* Only the handlers of a peer touch its candidates.
LEMMA IceSteps == IceInv /\ [MediaNext]_mediaVars => IceInv'
<1> SUFFICES ASSUME IceInv, [MediaNext]_mediaVars PROVE IceInv'
  OBVIOUS
<1>1. CASE UNCHANGED iceVars
  BY <1>1 DEF IceInv, iceVars
<1>2. CASE Sits \/ SitterLeaves \/ TearsDown \/ SessionSends \/ UNCHANGED mediaVars
  BY <1>1, <1>2 DEF Sits, SitterLeaves, TearsDown, SessionSends, mediaVars
<1>3. ASSUME NEW p \in Peers,
             TrackStarts(p) \/ Speaks(p) \/ ChecksContext(p) \/ ReadsPacket(p) \/ ReadFails(p)
             \/ BridgeTakes(p) \/ BridgeWrites(p) \/ BridgeEnds(p)
      PROVE  IceInv'
  BY <1>1, <1>3 DEF TrackStarts, Speaks, ChecksContext, ReadsPacket, ReadFails, BridgeTakes,
     BridgeWrites, BridgeEnds
<1> QED BY <1>2, <1>3, CandidateKeepsIce, OfferKeepsIce DEF MediaNext, PeerStep

-----------------------------------------------------------------------------
(* The ears of a seat (Media).                                             *)

\* The chunks of w are the frames after at up to last, in a row.
InARow(w, at, last) ==
  /\ w = <<>> => last = at
  /\ w # <<>> => w[1] = at + 1 /\ last + 1 = w[Len(w)] + FramesPerChunk
  /\ \A k \in 1..(Len(w) - 1) : w[k + 1] = w[k] + FramesPerChunk

HearTyped ==
  /\ came \in 0..MaxPeers /\ sitting \in {0, came}
  /\ bridge \in [Peers -> {"none", "wait", "write", "gone"}]
  /\ frames \in Nat /\ waiting \in Seq(Nat)
  /\ hand \in [Peers -> Seq(Nat)] /\ ears \in [Peers -> Seq(Nat)]

\* While the first browser sits and its bridge runs, its ears, the bridge's hand and
\* the channel are one row of frames from the first on.
HearInv ==
  /\ HearTyped
  /\ \A p \in Peers : /\ p > came => bridge[p] = "none" /\ ears[p] = <<>> /\ hand[p] = <<>>
                      /\ bridge[p] = "write" <=> hand[p] # <<>>
  /\ came = 0 => InARow(waiting, 0, frames)
  /\ came = 1 => ears[1] = UpTo(Len(ears[1]))
  /\ came = 1 /\ sitting = 1 /\ bridge[1] # "gone" =>
       /\ \A i \in DOMAIN hand[1] : hand[1][i] = Len(ears[1]) + i
       /\ InARow(waiting, Len(ears[1]) + Len(hand[1]), frames)

\* Lengths of sequences are numbers, and so is their sum.
LEMMA LengthsAdd ==
  ASSUME NEW S, NEW a \in Seq(S), NEW b \in Seq(S)
  PROVE  Len(a) \in Nat /\ Len(b) \in Nat /\ Len(a) + Len(b) \in Nat
<1>1. Len(a) \in Nat /\ Len(b) \in Nat
  OBVIOUS
<1> QED BY <1>1

\* One more chunk continues a row.
LEMMA RowGrows ==
  ASSUME NEW w \in Seq(Nat), NEW at \in Nat, NEW last \in Nat, InARow(w, at, last)
  PROVE  InARow(Append(w, last + 1), at, last + FramesPerChunk)
<1> DEFINE g == Append(w, last + 1)
<1>1. Len(w) \in Nat /\ Len(g) = Len(w) + 1 /\ g # <<>> /\ g[Len(w) + 1] = last + 1
      /\ \A k \in 1..Len(w) : g[k] = w[k]
  <2>1. last + 1 \in Nat /\ Len(w) \in Nat
    OBVIOUS
  <2> DEFINE x == last + 1
  <2> HIDE DEF x
  <2>2. x \in Nat
    BY <2>1 DEF x
  <2>3. Len(Append(w, x)) = Len(w) + 1 /\ Append(w, x) # <<>> /\ Append(w, x)[Len(w) + 1] = x
        /\ \A k \in 1..Len(w) : Append(w, x)[k] = w[k]
    BY <2>2, AppendProperties
  <2> QED BY <2>1, <2>3 DEF x
<1>2. w = <<>> <=> Len(w) = 0
  OBVIOUS
<1>3. \A k \in 1..Len(w) : w[k] \in Nat
  OBVIOUS
<1> HIDE DEF g
<1>4. FramesPerChunk \in Nat
  BY MediaAssumption
<1>5. g[1] = at + 1
  <2>1. CASE w = <<>>
    BY <1>1, <1>2, <2>1 DEF InARow
  <2>2. CASE w # <<>>
    <3>1. 1 \in 1..Len(w)
      BY <1>1, <1>2, <2>2
    <3> QED BY <1>1, <2>2, <3>1 DEF InARow
  <2> QED BY <2>1, <2>2
<1>6. last + FramesPerChunk + 1 = g[Len(g)] + FramesPerChunk
  BY <1>1, <1>4
<1>7. ASSUME NEW k \in 1..(Len(g) - 1) PROVE g[k + 1] = g[k] + FramesPerChunk
  <2>1. k \in 1..Len(w) /\ g[k] = w[k] /\ Len(w) # 0
    BY <1>1
  <2>2. CASE k = Len(w)
    <3>1. last + 1 = w[Len(w)] + FramesPerChunk
      BY <1>2, <2>1 DEF InARow
    <3> QED BY <1>1, <2>1, <2>2, <3>1
  <2>3. CASE k # Len(w)
    <3>1. k \in 1..(Len(w) - 1) /\ k + 1 \in 1..Len(w)
      BY <1>1, <2>1, <2>3
    <3>2. w[k + 1] = w[k] + FramesPerChunk
      BY <3>1 DEF InARow
    <3> QED BY <1>1, <2>1, <3>1, <3>2
  <2> QED BY <2>2, <2>3
<1>8. InARow(g, at, last + FramesPerChunk)
  BY <1>1, <1>5, <1>6, <1>7 DEF InARow
<1> QED BY <1>8 DEF g

\* The first chunk is taken off a row, and the rest is a row.
LEMMA RowTaken ==
  ASSUME NEW w \in Seq(Nat), NEW at \in Nat, NEW last \in Nat, InARow(w, at, last), w # <<>>
  PROVE  Head(w) = at + 1 /\ InARow(Tail(w), at + FramesPerChunk, last)
<1> DEFINE t == Tail(w)
<1>1. Len(w) \in Nat /\ Len(w) # 0 /\ Len(t) = Len(w) - 1 /\ t \in Seq(Nat)
      /\ \A k \in 1..Len(t) : t[k] = w[k + 1]
  OBVIOUS
<1>2. Head(w) = w[1] /\ w[1] = at + 1 /\ last + 1 = w[Len(w)] + FramesPerChunk
  BY DEF InARow
<1> HIDE DEF t
<1>3. (t = <<>> <=> Len(t) = 0) /\ Len(t) \in Nat
  BY <1>1
<1>4. FramesPerChunk \in Nat
  BY MediaAssumption
<1>5. t = <<>> => last = at + FramesPerChunk
  <2> SUFFICES ASSUME t = <<>> PROVE last = at + FramesPerChunk
    OBVIOUS
  <2>1. Len(w) = 1
    BY <1>1, <1>3
  <2>2. last + 1 = (at + 1) + FramesPerChunk
    BY <1>2, <2>1
  <2> QED BY <1>4, <2>2
<1>6. t # <<>> => t[1] = at + FramesPerChunk + 1 /\ last + 1 = t[Len(t)] + FramesPerChunk
  <2> SUFFICES ASSUME t # <<>>
               PROVE  t[1] = at + FramesPerChunk + 1 /\ last + 1 = t[Len(t)] + FramesPerChunk
    OBVIOUS
  <2>1. 1 \in 1..Len(t) /\ Len(t) \in 1..Len(t) /\ 1 \in 1..(Len(w) - 1) /\ Len(t) + 1 = Len(w)
    BY <1>1, <1>3
  <2>2. t[1] = w[1 + 1] /\ t[Len(t)] = w[Len(t) + 1]
    BY <1>1, <2>1
  <2>3. w[1 + 1] = w[1] + FramesPerChunk
    BY <2>1 DEF InARow
  <2>4. t[1] = at + FramesPerChunk + 1
    BY <1>2, <1>4, <2>2, <2>3
  <2> QED BY <1>2, <2>1, <2>2, <2>4
<1>7. ASSUME NEW k \in 1..(Len(t) - 1) PROVE t[k + 1] = t[k] + FramesPerChunk
  <2>1. k \in 1..Len(t) /\ k + 1 \in 1..Len(t) /\ k + 1 \in 1..(Len(w) - 1)
    BY <1>1, <1>3
  <2>2. t[k] = w[k + 1] /\ t[k + 1] = w[(k + 1) + 1]
    BY <1>1, <2>1
  <2>3. w[(k + 1) + 1] = w[k + 1] + FramesPerChunk
    BY <2>1 DEF InARow
  <2> QED BY <2>2, <2>3
<1>8. InARow(t, at + FramesPerChunk, last)
  BY <1>5, <1>6, <1>7 DEF InARow
<1> QED BY <1>2, <1>8 DEF t

\* Nothing has been handed over or heard.
LEMMA HearStarts == MediaInit => HearInv
<1> SUFFICES ASSUME MediaInit PROVE HearInv
  OBVIOUS
<1>1. <<>> \in Seq(Nat) /\ Len(<<>>) = 0 /\ \A k \in 1..(0 - 1) : FALSE
  OBVIOUS
<1>2. MaxPeers \in Nat
  BY MediaAssumption
<1>3. came = 0 /\ waiting = <<>> /\ frames = 0
  BY DEF MediaInit
<1>4. InARow(waiting, 0, frames)
  BY <1>1, <1>3 DEF InARow
<1>5. HearTyped
  BY <1>1, <1>2 DEF MediaInit, HearTyped, Each
<1>6. \A p \in Peers : bridge[p] = "none" /\ ears[p] = <<>> /\ hand[p] = <<>>
  BY DEF MediaInit, Each
<1> QED BY <1>3, <1>4, <1>5, <1>6 DEF HearInv

\* A browser takes the seat; to the first of them nothing has been lost.
LEMMA SittingKeepsHear ==
  ASSUME HearInv, Sits
  PROVE  HearInv'
<1>1. /\ sitting = 0 /\ came < MaxPeers /\ came' = came + 1 /\ sitting' = came + 1
      /\ bridge' = [bridge EXCEPT ![came + 1] = "wait"]
      /\ UNCHANGED <<frames, waiting, hand, ears>>
  BY DEF Sits
<1>2. came \in Nat /\ MaxPeers \in Nat /\ came + 1 \in Peers /\ came + 1 \in 0..MaxPeers
  BY <1>1, MediaAssumption DEF HearInv, HearTyped, Peers
<1>3. HearTyped'
  BY <1>1, <1>2 DEF HearInv, HearTyped
<1>4. ASSUME NEW p \in Peers, p > came'
      PROVE  bridge'[p] = "none" /\ ears'[p] = <<>> /\ hand'[p] = <<>>
  <2>1. p \in Nat /\ p > came /\ p # came + 1
    BY <1>1, <1>2, <1>4 DEF Peers
  <2> QED BY <1>1, <2>1 DEF HearInv
<1>7. \A p \in Peers : bridge'[p] = "write" <=> hand'[p] # <<>>
  <2>1. came + 1 > came
    BY <1>2
  <2>2. bridge[came + 1] = "none" /\ hand'[came + 1] = <<>>
    BY <1>1, <1>2, <2>1 DEF HearInv
  <2> QED BY <1>1, <1>2, <2>2 DEF HearInv, HearTyped
<1>5. CASE came = 0
  <2>1. 1 \in Peers /\ 1 > came
    BY <1>2, <1>5
  <2>2. bridge'[1] = "wait" /\ ears'[1] = <<>> /\ hand'[1] = <<>>
    BY <1>1, <1>5, <2>1 DEF HearInv, HearTyped
  <2>3. Len(<<>>) = 0 /\ DOMAIN <<>> = {} /\ UpTo(0) = <<>> /\ 0 + 0 = 0
    BY DEF UpTo
  <2>4. InARow(waiting, 0, frames)
    BY <1>5 DEF HearInv
  <2>5. InARow(waiting', 0, frames')
    BY <1>1, <2>4
  <2> QED BY <1>1, <1>3, <1>4, <1>5, <1>7, <2>2, <2>3, <2>5 DEF HearInv
<1>6. CASE came # 0
  <2>1. came' # 0 /\ came' # 1
    BY <1>1, <1>2, <1>6
  <2> QED BY <1>3, <1>4, <1>7, <2>1 DEF HearInv
<1> QED BY <1>5, <1>6

\* The session hands one more chunk over.
LEMMA SendingKeepsHear ==
  ASSUME HearInv, SessionSends
  PROVE  HearInv'
<1>1. /\ waiting' = Append(waiting, frames + 1) /\ frames' = frames + FramesPerChunk
      /\ UNCHANGED <<came, sitting, bridge, hand, ears>>
  BY DEF SessionSends, seatVars
<1>2. /\ frames \in Nat /\ waiting \in Seq(Nat) /\ FramesPerChunk \in Nat
  BY MediaAssumption DEF HearInv, HearTyped
<1>3. waiting' \in Seq(Nat) /\ frames' \in Nat
  BY <1>1, <1>2
<1>4. HearTyped'
  BY <1>1, <1>3 DEF HearInv, HearTyped
<1>5. \A at \in Nat : InARow(waiting, at, frames) => InARow(waiting', at, frames')
  BY <1>1, <1>2, RowGrows
<1>6. came = 0 => InARow(waiting', 0, frames')
  BY <1>5 DEF HearInv
<1>7. ASSUME came = 1, sitting = 1, bridge[1] # "gone"
      PROVE  InARow(waiting', Len(ears[1]) + Len(hand[1]), frames')
  <2>1. 1 \in Peers
    BY <1>7, MediaAssumption DEF HearInv, HearTyped, Peers
  <2>2. ears[1] \in Seq(Nat) /\ hand[1] \in Seq(Nat)
    BY <2>1 DEF HearInv, HearTyped
  <2>3. Len(ears[1]) + Len(hand[1]) \in Nat
    BY <2>2, LengthsAdd
  <2>4. InARow(waiting, Len(ears[1]) + Len(hand[1]), frames)
    BY <1>7 DEF HearInv
  <2> QED BY <1>5, <2>3, <2>4
<1> QED BY <1>1, <1>4, <1>6, <1>7 DEF HearInv

\* A bridge takes the next chunk: if it is the first browser's, the next in its row.
LEMMA TakingKeepsHear ==
  ASSUME HearInv, NEW p \in Peers, BridgeTakes(p)
  PROVE  HearInv'
<1> DEFINE chunk == [i \in 1..FramesPerChunk |-> Head(waiting) + i - 1]
<1>1. /\ bridge[p] = "wait" /\ waiting # <<>> /\ waiting' = Tail(waiting)
      /\ hand' = [hand EXCEPT ![p] = chunk] /\ bridge' = [bridge EXCEPT ![p] = "write"]
      /\ UNCHANGED <<came, sitting, frames, ears>>
  BY DEF BridgeTakes, seatVars
<1>2. /\ frames \in Nat /\ waiting \in Seq(Nat) /\ FramesPerChunk \in Nat /\ FramesPerChunk # 0
      /\ came \in Nat
  BY MediaAssumption DEF HearInv, HearTyped
<1>3. Head(waiting) \in Nat /\ Tail(waiting) \in Seq(Nat)
  BY <1>1, <1>2
<1>4. chunk \in Seq(Nat) /\ Len(chunk) = FramesPerChunk /\ DOMAIN chunk = 1..FramesPerChunk
  <2>1. \A i \in 1..FramesPerChunk : Head(waiting) + i - 1 \in Nat
    BY <1>2, <1>3
  <2> QED BY <1>2, <2>1
<1>5. \A i \in 1..FramesPerChunk : chunk[i] = Head(waiting) + i - 1
  OBVIOUS
<1> HIDE DEF chunk
<1>6. chunk # <<>>
  BY <1>2, <1>4
<1>7. HearTyped'
  BY <1>1, <1>2, <1>3, <1>4 DEF HearInv, HearTyped
<1>8. p \in Nat /\ ~(p > came) /\ p # 0
  BY <1>1 DEF HearInv, Peers
<1>9. \A q \in Peers : q > came => bridge'[q] = "none" /\ ears'[q] = <<>> /\ hand'[q] = <<>>
  BY <1>1, <1>8 DEF HearInv
<1>12. \A q \in Peers : bridge'[q] = "write" <=> hand'[q] # <<>>
  BY <1>1, <1>6 DEF HearInv, HearTyped
<1>10. came # 0
  BY <1>2, <1>8
<1>11. ASSUME came = 1, sitting = 1
       PROVE  /\ \A i \in DOMAIN hand'[1] : hand'[1][i] = Len(ears[1]) + i
              /\ InARow(waiting', Len(ears[1]) + Len(hand'[1]), frames)
  <2>1. p = 1
    BY <1>8, <1>11
  <2>2. bridge'[1] = "write" /\ hand'[1] = chunk
    BY <1>1, <2>1 DEF HearInv, HearTyped
  <2>3. hand[1] = <<>> /\ InARow(waiting, Len(ears[1]) + Len(hand[1]), frames)
    BY <1>1, <1>11, <2>1 DEF HearInv
  <2>4. ears[1] \in Seq(Nat)
    BY <2>1 DEF HearInv, HearTyped
  <2>5. Len(ears[1]) \in Nat /\ Len(<<>>) = 0
    BY <2>4
  <2>6. InARow(waiting, Len(ears[1]), frames)
    BY <2>3, <2>5
  <2>7. Head(waiting) = Len(ears[1]) + 1 /\ InARow(waiting', Len(ears[1]) + FramesPerChunk, frames)
    BY <1>1, <1>2, <2>5, <2>6, RowTaken
  <2>8. \A i \in 1..FramesPerChunk : chunk[i] = Len(ears[1]) + i
    BY <1>2, <1>5, <2>5, <2>7
  <2> QED BY <1>4, <1>6, <2>2, <2>7, <2>8
<1> QED BY <1>1, <1>7, <1>9, <1>10, <1>11, <1>12 DEF HearInv

\* The number after the last of a row continues it.
LEMMA OneMoreHeard ==
  ASSUME NEW e \in Seq(Nat), e = UpTo(Len(e)), NEW x, x = Len(e) + 1
  PROVE  Append(e, x) = UpTo(Len(e) + 1) /\ Len(Append(e, x)) = Len(e) + 1
<1>1. Len(e) \in Nat /\ Len(Append(e, x)) = Len(e) + 1
  OBVIOUS
<1> DEFINE n == Len(e)
<1>2. n \in Nat /\ e = UpTo(n) /\ x = n + 1
  BY <1>1
<1> HIDE DEF n
<1>3. Append(UpTo(n), n + 1) = UpTo(n + 1)
  BY <1>2, UpToNext
<1>4. Append(e, x) = UpTo(n + 1)
  BY <1>2, <1>3
<1> QED BY <1>1, <1>4 DEF n

\* The first frame of a hand is written, and what is left of it moves up.
LEMMA HandMovesUp ==
  ASSUME NEW h \in Seq(Nat), h # <<>>, NEW n \in Nat, \A i \in DOMAIN h : h[i] = n + i
  PROVE  /\ Head(h) = n + 1 /\ Tail(h) \in Seq(Nat) /\ Len(h) \in Nat
         /\ Len(Tail(h)) \in Nat /\ (n + 1) + Len(Tail(h)) = n + Len(h)
         /\ \A i \in DOMAIN Tail(h) : Tail(h)[i] = (n + 1) + i
<1> DEFINE t == Tail(h)
<1>1. /\ Len(h) \in Nat /\ Len(h) # 0 /\ t \in Seq(Nat) /\ Len(t) = Len(h) - 1
      /\ Head(h) = h[1] /\ DOMAIN h = 1..Len(h) /\ DOMAIN t = 1..Len(t)
      /\ \A i \in 1..Len(t) : t[i] = h[i + 1]
  OBVIOUS
<1> HIDE DEF t
<1>2. 1 \in DOMAIN h /\ \A i \in DOMAIN t : i + 1 \in DOMAIN h /\ i \in Nat
  BY <1>1
<1>3. \A i \in DOMAIN t : t[i] = n + (i + 1)
  BY <1>1, <1>2
<1>4. \A i \in DOMAIN t : t[i] = (n + 1) + i
  BY <1>2, <1>3
<1>5. Len(t) \in Nat /\ (n + 1) + Len(t) = n + Len(h)
  BY <1>1
<1> QED BY <1>1, <1>2, <1>4, <1>5 DEF t

\* A bridge writes a frame: the first browser gets it while it sits there.
LEMMA WritingKeepsHear ==
  ASSUME HearInv, NEW p \in Peers, BridgeWrites(p)
  PROVE  HearInv'
<1>1. /\ bridge[p] = "write"
      /\ ears' = [ears EXCEPT ![p] = IF sitting = p THEN Append(@, Head(hand[p])) ELSE @]
      /\ hand' = [hand EXCEPT ![p] = Tail(@)]
      /\ bridge' = [bridge EXCEPT ![p] = IF Tail(hand[p]) = <<>> THEN "wait" ELSE "write"]
      /\ UNCHANGED <<came, sitting, frames, waiting>>
  BY DEF BridgeWrites, seatVars
<1>2. hand[p] \in Seq(Nat) /\ hand[p] # <<>> /\ ears[p] \in Seq(Nat) /\ came \in Nat
  BY <1>1 DEF HearInv, HearTyped
<1>3. Tail(hand[p]) \in Seq(Nat) /\ Head(hand[p]) \in Nat
  BY <1>2
<1>4. Append(ears[p], Head(hand[p])) \in Seq(Nat)
  BY <1>2, <1>3
<1>5. HearTyped'
  BY <1>1, <1>2, <1>3, <1>4 DEF HearInv, HearTyped
<1>6. p \in Nat /\ ~(p > came) /\ p # 0
  BY <1>1 DEF HearInv, Peers
<1>7. \A q \in Peers : q > came => bridge'[q] = "none" /\ ears'[q] = <<>> /\ hand'[q] = <<>>
  BY <1>1, <1>6 DEF HearInv
<1>11. \A q \in Peers : bridge'[q] = "write" <=> hand'[q] # <<>>
  BY <1>1 DEF HearInv, HearTyped
<1>8. CASE came # 1
  BY <1>1, <1>2, <1>5, <1>6, <1>7, <1>8, <1>11 DEF HearInv
<1>9. CASE came = 1 /\ sitting # 1
  <2>1. p = 1
    BY <1>6, <1>9
  <2>2. ears'[1] = ears[1]
    BY <1>1, <1>9, <2>1
  <2> QED BY <1>1, <1>5, <1>7, <1>9, <1>11, <2>2 DEF HearInv
<1>10. CASE came = 1 /\ sitting = 1
  <2>1. p = 1
    BY <1>6, <1>10
  <2>2. /\ ears'[1] = Append(ears[1], Head(hand[1])) /\ hand'[1] = Tail(hand[1])
        /\ bridge'[1] = IF Tail(hand[1]) = <<>> THEN "wait" ELSE "write"
    BY <1>1, <1>10, <2>1 DEF HearInv, HearTyped
  <2>3. /\ ears[1] = UpTo(Len(ears[1]))
        /\ \A i \in DOMAIN hand[1] : hand[1][i] = Len(ears[1]) + i
        /\ InARow(waiting, Len(ears[1]) + Len(hand[1]), frames)
    BY <1>1, <1>10, <2>1 DEF HearInv
  <2>4. Len(ears[1]) \in Nat
    BY <1>2, <2>1
  <2>5. /\ Head(hand[1]) = Len(ears[1]) + 1
        /\ (Len(ears[1]) + 1) + Len(Tail(hand[1])) = Len(ears[1]) + Len(hand[1])
        /\ \A i \in DOMAIN Tail(hand[1]) : Tail(hand[1])[i] = (Len(ears[1]) + 1) + i
    BY <1>2, <2>1, <2>3, <2>4, HandMovesUp
  <2>6. ears'[1] = UpTo(Len(ears[1]) + 1) /\ Len(ears'[1]) = Len(ears[1]) + 1
    BY <1>2, <2>1, <2>2, <2>3, <2>5, OneMoreHeard
  <2>7. InARow(waiting, Len(ears'[1]) + Len(hand'[1]), frames)
    BY <2>2, <2>3, <2>5, <2>6
  <2>8. \A i \in DOMAIN hand'[1] : hand'[1][i] = Len(ears'[1]) + i
    BY <2>2, <2>5, <2>6
  <2> QED BY <1>1, <1>5, <1>7, <1>10, <1>11, <2>2, <2>6, <2>7, <2>8 DEF HearInv
<1> QED BY <1>8, <1>9, <1>10

\* A bridge ends, and what it still held is lost to everyone.
LEMMA EndingKeepsHear ==
  ASSUME HearInv, NEW p \in Peers, BridgeEnds(p)
  PROVE  HearInv'
<1>1. /\ bridge[p] \in {"wait", "write"}
      /\ bridge' = [bridge EXCEPT ![p] = "gone"] /\ hand' = [hand EXCEPT ![p] = <<>>]
      /\ UNCHANGED <<came, sitting, frames, waiting, ears>>
  BY DEF BridgeEnds, seatVars
<1>2. <<>> \in Seq(Nat) /\ came \in Nat
  BY DEF HearInv, HearTyped
<1>3. HearTyped'
  BY <1>1, <1>2 DEF HearInv, HearTyped
<1>4. p \in Nat /\ ~(p > came) /\ p # 0
  BY <1>1 DEF HearInv, Peers
<1>5. \A q \in Peers : q > came => bridge'[q] = "none" /\ ears'[q] = <<>> /\ hand'[q] = <<>>
  BY <1>1, <1>4 DEF HearInv
<1>7. \A q \in Peers : bridge'[q] = "write" <=> hand'[q] # <<>>
  BY <1>1 DEF HearInv, HearTyped
<1>6. came # 0 /\ (came = 1 => p = 1 /\ bridge'[1] = "gone")
  BY <1>1, <1>2, <1>4 DEF HearInv, HearTyped
<1> QED BY <1>1, <1>3, <1>5, <1>6, <1>7 DEF HearInv

\* Only the seat, the session and the bridges touch what is heard.
LEMMA HearSteps == HearInv /\ [MediaNext]_mediaVars => HearInv'
<1> SUFFICES ASSUME HearInv, [MediaNext]_mediaVars PROVE HearInv'
  OBVIOUS
<1>1. CASE UNCHANGED outVars /\ came' = came /\ sitting' \in {0, sitting}
  <2>1. UNCHANGED <<bridge, frames, waiting, hand, ears>>
    BY <1>1 DEF outVars
  <2>2. HearTyped'
    BY <1>1, <2>1 DEF HearInv, HearTyped
  <2>3. came' = came /\ (sitting' = 1 => sitting = 1)
    BY <1>1
  <2>4. CASE came' = 1 /\ sitting' = 1 /\ bridge'[1] # "gone"
    BY <2>1, <2>2, <2>3, <2>4 DEF HearInv
  <2>5. CASE ~(came' = 1 /\ sitting' = 1 /\ bridge'[1] # "gone")
    BY <2>1, <2>2, <2>3, <2>5 DEF HearInv
  <2> QED BY <2>4, <2>5
<1>2. CASE SitterLeaves \/ TearsDown \/ UNCHANGED mediaVars
  BY <1>1, <1>2 DEF SitterLeaves, TearsDown, mediaVars, seatVars, outVars
<1>3. ASSUME NEW p \in Peers,
             Candidate(p) \/ HandleOffer(p) \/ TrackStarts(p) \/ Speaks(p) \/ ChecksContext(p)
             \/ ReadsPacket(p) \/ ReadFails(p)
      PROVE  HearInv'
  BY <1>1, <1>3 DEF Candidate, HandleOffer, TrackStarts, Speaks, ChecksContext, ReadsPacket,
     ReadFails, seatVars, outVars
<1> QED BY <1>2, <1>3, SittingKeepsHear, SendingKeepsHear, TakingKeepsHear, WritingKeepsHear,
     EndingKeepsHear DEF MediaNext, PeerStep

-----------------------------------------------------------------------------
\* What the three say of a seat is what the run checks of it.
LEMMA SeatIsWhole == MicInv /\ HearInv /\ IceInv => MediaWhole
<1> SUFFICES ASSUME MicInv, HearInv, IceInv PROVE MediaWhole
  OBVIOUS
<1>1. MicHeard
  BY DEF MicInv
<1>2. OnlySitterHearsAll
  BY DEF HearInv, OnlySitterHearsAll
<1>3. CandidatesApplied
  <2> SUFFICES ASSUME NEW p \in Peers
               PROVE  /\ Len(applied[p]) + Len(pending[p]) <= Len(trickled[p])
                      /\ remote[p] => \A n \in DOMAIN trickled[p] :
                                        (\A i \in 1 .. n : trickled[p][i]) => n <= Len(applied[p])
    BY DEF CandidatesApplied
  <2>1. applied[p] \in Seq(BOOLEAN) /\ pending[p] \in Seq(BOOLEAN) /\ trickled[p] \in Seq(BOOLEAN)
    BY DEF IceInv
  <2>2. Len(applied[p]) \in Nat /\ Len(pending[p]) \in Nat /\ Len(trickled[p]) \in Nat
        /\ Len(<<>>) = 0
    BY <2>1, LengthsAdd
  <2> QED BY <2>2 DEF IceInv, GoodFront
<1> QED BY <1>1, <1>2, <1>3 DEF MediaWhole

\* However many browsers take a seat, and whenever each leaves or the room is torn
\* down: what the session gets of a microphone is in order and lacks less than a full
\* buffer of what was read, and nothing once a track has ended; the only sitter hears
\* the session from the start without a gap; and a well-formed candidate that no bad
\* one precedes is applied, before the offer or after it (peer.go:158-264,
\* inbound_buffer.go).
THEOREM SeatIsWired == MediaSpec => []MediaWhole
<1>1. MediaInit => MicInv /\ HearInv /\ IceInv
  BY MicStarts, HearStarts, IceStarts
<1>2. (MicInv /\ HearInv /\ IceInv) /\ [MediaNext]_mediaVars => (MicInv /\ HearInv /\ IceInv)'
  <2>1. MicInv /\ [MediaNext]_mediaVars => MicInv'
    BY MicSteps
  <2>2. HearInv /\ [MediaNext]_mediaVars => HearInv'
    BY HearSteps
  <2>3. IceInv /\ [MediaNext]_mediaVars => IceInv'
    BY IceSteps
  <2> QED BY <2>1, <2>2, <2>3
<1> QED BY <1>1, <1>2, SeatIsWhole, PTL DEF MediaSpec

-----------------------------------------------------------------------------
(* The frames of Cartesia's WebSocket (Frames).                            *)

\* In the middle of a message after the first n frames of s.
OpenAfter(s, n) ==
  \E j \in 1..n : Carries(s[j]) /\ ~s[j].fin /\ \A i \in (j + 1)..n : ~Carries(s[i])

HeaderType == [short : Nat, extension : Nat]
FrameType == [id : Nat, fin : BOOLEAN, op : Opcode, size : Nat, header : HeaderType]
PieceType == Nat \X Nat

\* The server opens a message, and goes on with it, where RFC 6455 lets it.
ServerInv ==
  /\ sent \in Seq(FrameType) /\ open \in BOOLEAN
  /\ open <=> OpenAfter(sent, Len(sent))
  /\ \A i \in 1..Len(sent) :
       /\ sent[i].id = i /\ Length(sent[i].header) = sent[i].size
       /\ Carries(sent[i]) => (sent[i].op = "continuation" <=> OpenAfter(sent, i - 1))

\* The pieces in P[1] to P[n] are the frames of s up to the m-th that carry data.
OnceInOrder(P, n, s, m) ==
  /\ \A k \in 1..n : \A i \in DOMAIN P[k] :
       /\ P[k][i][1] \in 1..m /\ Carries(s[P[k][i][1]])
       /\ P[k][i][2] = s[P[k][i][1]].size
  /\ \A k, l \in 1..n : \A i \in DOMAIN P[k], j \in DOMAIN P[l] :
       k < l \/ (k = l /\ i < j) => P[k][i][1] < P[l][j][1]
  /\ \A id \in 1..m : Carries(s[id]) => \E k \in 1..n : \E i \in DOMAIN P[k] : P[k][i][1] = id

Shelf == [k \in Messages |-> Pieces(k)]

ReaderTyped ==
  /\ seen \in 0..Len(sent) /\ started \in BOOLEAN
  /\ msgOpcode \in Data \cup {"none"} /\ (started => msgOpcode \in Data)
  /\ assembled \in Seq(PieceType)
  /\ delivered \in Seq([op : Data, pieces : Seq(PieceType)])
  /\ written \in Seq([op : {"pong", "close"}, header : HeaderType])
  /\ reading \in {"on", "closed", "failed"}
  /\ reading = "failed" => seen < Len(sent) /\ Next1.size > MaxPayload

\* What is put together is the beginning of the message the reader is in.
MidMessage ==
  /\ started <=> OpenAfter(sent, seen)
  /\ started <=> assembled # <<>>
  /\ \A i \in DOMAIN assembled : ~sent[assembled[i][1]].fin
  /\ assembled # <<>> => sent[assembled[1][1]].op = msgOpcode

\* Until it closes, the client writes nothing but pongs.
PongsInv ==
  /\ reading # "closed" => Len(written) = PingsUpTo(seen)
                           /\ \A i \in DOMAIN written : written[i].op = "pong"
  /\ \A i \in 1..seen : sent[i].op = "ping" => PingsUpTo(i) \in 1..PingsUpTo(seen)
  /\ PingsAnswered

FramesInv ==
  /\ ServerInv /\ ReaderTyped /\ MidMessage /\ MessagesAsSent /\ PongsInv
  /\ OnceInOrder(Shelf, Len(delivered) + 1, sent, seen)

\* The length of a payload survives the header, around both of its limits.
LEMMA HeaderKeepsLength ==
  ASSUME NEW n \in Nat
  PROVE  Header(n) \in HeaderType /\ Length(Header(n)) = n
<1>1. n <= 65535 => n % 65536 = n
  OBVIOUS
<1>2. 2^16 = 65536
  OBVIOUS
<1>3. n <= 65535 => n % 2^16 = n
  BY <1>1, <1>2
<1>4. CASE n <= 125
  BY <1>4 DEF Header, Length, HeaderType
<1>5. CASE n > 125 /\ n <= 65535
  BY <1>3, <1>5 DEF Header, Length, HeaderType
<1>6. CASE n > 65535
  BY <1>6 DEF Header, Length, HeaderType
<1> QED BY <1>4, <1>5, <1>6

\* Whether a message is open depends on the last frame that carries data.
LEMMA OpenNext ==
  ASSUME NEW s, NEW n \in Nat
  PROVE  /\ Carries(s[n + 1]) => (OpenAfter(s, n + 1) <=> ~s[n + 1].fin)
         /\ ~Carries(s[n + 1]) => (OpenAfter(s, n + 1) <=> OpenAfter(s, n))
<1>1. ASSUME Carries(s[n + 1]), OpenAfter(s, n + 1) PROVE ~s[n + 1].fin
  <2>1. PICK j \in 1..(n + 1) : /\ Carries(s[j]) /\ ~s[j].fin
                                /\ \A i \in (j + 1)..(n + 1) : ~Carries(s[i])
    BY <1>1 DEF OpenAfter
  <2>2. j = n + 1
    <3>1. ~(n + 1 \in (j + 1)..(n + 1))
      BY <1>1, <2>1
    <3> QED BY <3>1
  <2> QED BY <2>1, <2>2
<1>2. ASSUME Carries(s[n + 1]), ~s[n + 1].fin PROVE OpenAfter(s, n + 1)
  <2>1. n + 1 \in 1..(n + 1) /\ \A i \in ((n + 1) + 1)..(n + 1) : FALSE
    OBVIOUS
  <2> QED BY <1>2, <2>1 DEF OpenAfter
<1>3. ASSUME ~Carries(s[n + 1]), OpenAfter(s, n + 1) PROVE OpenAfter(s, n)
  <2>1. PICK j \in 1..(n + 1) : /\ Carries(s[j]) /\ ~s[j].fin
                                /\ \A i \in (j + 1)..(n + 1) : ~Carries(s[i])
    BY <1>3 DEF OpenAfter
  <2>2. j # n + 1
    BY <1>3, <2>1
  <2>3. j \in 1..n /\ \A i \in (j + 1)..n : i \in (j + 1)..(n + 1)
    BY <2>2
  <2> QED BY <2>1, <2>3 DEF OpenAfter
<1>4. ASSUME ~Carries(s[n + 1]), OpenAfter(s, n) PROVE OpenAfter(s, n + 1)
  <2>1. PICK j \in 1..n : /\ Carries(s[j]) /\ ~s[j].fin
                          /\ \A i \in (j + 1)..n : ~Carries(s[i])
    BY <1>4 DEF OpenAfter
  <2>2. j \in 1..(n + 1) /\ \A i \in (j + 1)..(n + 1) : i \in (j + 1)..n \/ i = n + 1
    OBVIOUS
  <2> QED BY <1>4, <2>1, <2>2 DEF OpenAfter
<1> QED BY <1>1, <1>2, <1>3, <1>4

\* It depends on the first n frames only.
LEMMA OpenOfSame ==
  ASSUME NEW s, NEW t, NEW n \in Nat, \A i \in 1..n : s[i] = t[i]
  PROVE  OpenAfter(s, n) <=> OpenAfter(t, n)
<1>1. \A j \in 1..n : \A i \in (j + 1)..n : i \in 1..n
  OBVIOUS
<1> QED BY <1>1 DEF OpenAfter

\* One more frame to count pings among.
LEMMA PingsNext ==
  ASSUME NEW n \in Nat
  PROVE  /\ PingsUpTo(n) \in Nat
         /\ PingsUpTo(n + 1) = IF sent[n + 1].op = "ping" THEN PingsUpTo(n) + 1 ELSE PingsUpTo(n)
<1> DEFINE A == {i \in 1..n : sent[i].op = "ping"}
           B == {i \in 1..(n + 1) : sent[i].op = "ping"}
<1>1. IsFiniteSet(1..n)
  BY FS_Interval
<1>2. A \subseteq 1..n
  OBVIOUS
<1>3. IsFiniteSet(A)
  BY <1>1, <1>2, FS_Subset
<1>4. n + 1 \notin A
  OBVIOUS
<1>5. IF sent[n + 1].op = "ping" THEN B = A \cup {n + 1} ELSE B = A
  OBVIOUS
<1> HIDE DEF A, B
<1>6. Cardinality(A) \in Nat /\ Cardinality(A \cup {n + 1}) = Cardinality(A) + 1
  BY <1>3, <1>4, FS_CardinalityType, FS_AddElement
<1>7. IF sent[n + 1].op = "ping" THEN Cardinality(B) = Cardinality(A) + 1
                                 ELSE Cardinality(B) = Cardinality(A)
  BY <1>5, <1>6
<1> QED BY <1>6, <1>7 DEF PingsUpTo, A, B

\* A piece goes to the end of the last message.
LEMMA ShelfGrows ==
  ASSUME NEW n \in Nat \ {0}, NEW P \in [1..n -> Seq(PieceType)], NEW s, NEW m \in Nat,
         OnceInOrder(P, n, s, m), Carries(s[m + 1]), NEW size \in Nat, size = s[m + 1].size,
         NEW Q, Q = [P EXCEPT ![n] = Append(@, <<m + 1, size>>)]
  PROVE  OnceInOrder(Q, n, s, m + 1)
<1> DEFINE L == Len(P[n])
<1>1. n \in 1..n /\ P[n] \in Seq(PieceType) /\ L \in Nat
  OBVIOUS
<1>2. Q[n] = Append(P[n], <<m + 1, size>>) /\ \A k \in 1..n : k # n => Q[k] = P[k]
  OBVIOUS
<1>3. <<m + 1, size>> \in PieceType
  BY DEF PieceType
<1>4. /\ DOMAIN Q[n] = 1..(L + 1) /\ Q[n][L + 1] = <<m + 1, size>>
      /\ DOMAIN P[n] = 1..L /\ \A i \in 1..L : Q[n][i] = P[n][i]
  <2> DEFINE a == P[n]
             x == <<m + 1, size>>
  <2>1. a \in Seq(PieceType) /\ x \in PieceType
    BY <1>1, <1>3
  <2> HIDE DEF a, x
  <2>2. /\ Append(a, x) \in Seq(PieceType) /\ Len(Append(a, x)) = Len(a) + 1
        /\ Append(a, x)[Len(a) + 1] = x /\ \A i \in 1..Len(a) : Append(a, x)[i] = a[i]
    BY <2>1, AppendProperties
  <2>3. DOMAIN Append(a, x) = 1..(Len(a) + 1) /\ DOMAIN a = 1..Len(a)
    BY <2>1, <2>2
  <2> QED BY <1>2, <2>2, <2>3 DEF a, x
<1> HIDE DEF L
\* A place on the new shelf is one of the old, or the new one.
<1>5. \A k \in 1..n : \A i \in DOMAIN Q[k] :
        \/ i \in DOMAIN P[k] /\ Q[k][i] = P[k][i]
        \/ k = n /\ i = L + 1 /\ Q[k][i] = <<m + 1, size>>
  BY <1>1, <1>2, <1>4
<1>6. \A k \in 1..n : \A i \in DOMAIN P[k] :
        /\ i \in DOMAIN Q[k] /\ Q[k][i] = P[k][i] /\ P[k][i][1] \in 1..m
        /\ k = n => i \in 1..L
  BY <1>1, <1>2, <1>4 DEF OnceInOrder
<1>7. \A k \in 1..n : \A i \in DOMAIN Q[k] :
        /\ Q[k][i][1] \in 1..(m + 1) /\ Carries(s[Q[k][i][1]])
        /\ Q[k][i][2] = s[Q[k][i][1]].size
  <2> SUFFICES ASSUME NEW k \in 1..n, NEW i \in DOMAIN Q[k]
               PROVE  /\ Q[k][i][1] \in 1..(m + 1) /\ Carries(s[Q[k][i][1]])
                      /\ Q[k][i][2] = s[Q[k][i][1]].size
    OBVIOUS
  <2>1. CASE i \in DOMAIN P[k] /\ Q[k][i] = P[k][i]
    <3>1. P[k][i][1] \in 1..m /\ 1..m \subseteq 1..(m + 1)
      BY <1>6, <2>1
    <3> QED BY <2>1, <3>1 DEF OnceInOrder
  <2>2. CASE Q[k][i] = <<m + 1, size>>
    <3>1. m + 1 \in 1..(m + 1)
      OBVIOUS
    <3> QED BY <2>2, <3>1
  <2> QED BY <1>5, <2>1, <2>2
<1>8. \A k, l \in 1..n : \A i \in DOMAIN Q[k], j \in DOMAIN Q[l] :
        k < l \/ (k = l /\ i < j) => Q[k][i][1] < Q[l][j][1]
  <2> SUFFICES ASSUME NEW k \in 1..n, NEW l \in 1..n, NEW i \in DOMAIN Q[k], NEW j \in DOMAIN Q[l],
                      k < l \/ (k = l /\ i < j)
               PROVE  Q[k][i][1] < Q[l][j][1]
    OBVIOUS
  <2>1. i \in DOMAIN P[k] /\ Q[k][i] = P[k][i]
    <3> SUFFICES ASSUME k = n, i = L + 1 PROVE FALSE
      BY <1>5
    <3>1. l = n
      OBVIOUS
    <3>2. j \in 1..(L + 1)
      BY <1>4, <3>1
    <3> QED BY <1>1, <3>1, <3>2
  <2>2. CASE j \in DOMAIN P[l] /\ Q[l][j] = P[l][j]
    BY <2>1, <2>2 DEF OnceInOrder
  <2>3. CASE Q[l][j] = <<m + 1, size>>
    <3>1. P[k][i][1] \in 1..m
      BY <1>6, <2>1
    <3>2. \A y \in 1..m : y < m + 1
      OBVIOUS
    <3>3. Q[l][j][1] = m + 1 /\ Q[k][i][1] = P[k][i][1]
      BY <2>1, <2>3
    <3> QED BY <3>1, <3>2, <3>3
  <2> QED BY <1>5, <2>2, <2>3
<1>9. ASSUME NEW id \in 1..(m + 1), Carries(s[id])
      PROVE  \E k \in 1..n : \E i \in DOMAIN Q[k] : Q[k][i][1] = id
  <2>1. CASE id = m + 1
    <3>1. L + 1 \in DOMAIN Q[n] /\ Q[n][L + 1][1] = m + 1
      BY <1>1, <1>4
    <3> QED BY <1>1, <2>1, <3>1
  <2>2. CASE id \in 1..m
    <3>1. PICK k \in 1..n : \E i \in DOMAIN P[k] : P[k][i][1] = id
      BY <1>9, <2>2 DEF OnceInOrder
    <3>2. PICK i \in DOMAIN P[k] : P[k][i][1] = id
      BY <3>1
    <3>3. i \in DOMAIN Q[k] /\ Q[k][i] = P[k][i]
      BY <1>6
    <3> QED BY <3>2, <3>3
  <2>3. id = m + 1 \/ id \in 1..m
    OBVIOUS
  <2> QED BY <2>1, <2>2, <2>3
<1> QED BY <1>7, <1>8, <1>9 DEF OnceInOrder

\* A message that has been begun and has no piece yet.
LEMMA ShelfGetsNew ==
  ASSUME NEW n \in Nat, NEW P, NEW Q, NEW s, NEW m \in Nat,
         OnceInOrder(P, n, s, m), \A k \in 1..n : Q[k] = P[k], Q[n + 1] = <<>>
  PROVE  OnceInOrder(Q, n + 1, s, m)
<1>1. \A k \in 1..(n + 1) : k \in 1..n \/ k = n + 1
  OBVIOUS
<1>2. 1..n \subseteq 1..(n + 1) /\ DOMAIN <<>> = {}
  OBVIOUS
<1>3. \A k \in 1..(n + 1) : \A i \in DOMAIN Q[k] : k \in 1..n /\ Q[k] = P[k]
  BY <1>1, <1>2
<1> QED BY <1>2, <1>3 DEF OnceInOrder

\* A frame that carries nothing leaves everything where it is.
LEMMA ShelfKeepsOver ==
  ASSUME NEW n \in Nat, NEW P, NEW s, NEW m \in Nat, OnceInOrder(P, n, s, m), ~Carries(s[m + 1])
  PROVE  OnceInOrder(P, n, s, m + 1)
<1>1. \A id \in 1..(m + 1) : id \in 1..m \/ id = m + 1
  OBVIOUS
<1>2. 1..m \subseteq 1..(m + 1)
  OBVIOUS
<1> QED BY <1>1, <1>2 DEF OnceInOrder

\* The shelf is about the frames that have been read.
LEMMA ShelfOfSame ==
  ASSUME NEW n \in Nat, NEW P, NEW s, NEW t, NEW m \in Nat, OnceInOrder(P, n, s, m),
         \A i \in 1..m : s[i] = t[i]
  PROVE  OnceInOrder(P, n, t, m)
BY DEF OnceInOrder

\* No frame has been sent or read.
LEMMA FramesStart == FramesInit => FramesInv
<1> SUFFICES ASSUME FramesInit PROVE FramesInv
  OBVIOUS
<1>1. /\ sent = <<>> /\ open = FALSE /\ seen = 0 /\ started = FALSE /\ msgOpcode = "none"
      /\ assembled = <<>> /\ delivered = <<>> /\ written = <<>> /\ reading = "on"
  BY DEF FramesInit
<1>2. Len(<<>>) = 0 /\ DOMAIN <<>> = {} /\ 1..0 = {} /\ \A S : <<>> \in Seq(S)
  OBVIOUS
<1>3. ~OpenAfter(<<>>, 0)
  BY <1>2 DEF OpenAfter
<1>4. ServerInv
  <2>1. sent \in Seq(FrameType) /\ Len(sent) = 0
    BY <1>1, <1>2
  <2> QED BY <1>1, <1>2, <1>3, <2>1 DEF ServerInv
<1>5. ReaderTyped
  <2>1. /\ assembled \in Seq(PieceType) /\ delivered \in Seq([op : Data, pieces : Seq(PieceType)])
        /\ written \in Seq([op : {"pong", "close"}, header : HeaderType])
    BY <1>1, <1>2
  <2>2. seen \in 0..Len(sent)
    BY <1>1, <1>2
  <2> QED BY <1>1, <2>1, <2>2 DEF ReaderTyped
<1>6. MidMessage /\ MessagesAsSent
  BY <1>1, <1>2, <1>3 DEF MidMessage, MessagesAsSent
<1>7. PingsUpTo(0) = 0
  <2>1. {i \in 1..0 : sent[i].op = "ping"} = {}
    BY <1>2
  <2> QED BY <2>1, FS_EmptySet DEF PingsUpTo
<1>8. PongsInv
  BY <1>1, <1>2, <1>7 DEF PongsInv, PingsAnswered
<1>9. OnceInOrder(Shelf, Len(delivered) + 1, sent, seen)
  <2>1. \A k \in 1..(0 + 1) : Shelf[k] = <<>>
    BY <1>1, <1>2 DEF Shelf, Messages, Pieces
  <2> QED BY <1>1, <1>2, <2>1 DEF OnceInOrder
<1> QED BY <1>4, <1>5, <1>6, <1>8, <1>9 DEF FramesInv

\* The pieces on the shelf, by name.
LEMMA OnTheShelf ==
  ASSUME FramesInv
  PROVE  /\ Len(delivered) \in Nat /\ DOMAIN delivered = 1..Len(delivered)
         /\ Shelf \in [1..(Len(delivered) + 1) -> Seq(PieceType)]
         /\ Shelf[Len(delivered) + 1] = assembled
         /\ \A k \in DOMAIN delivered : /\ Shelf[k] = delivered[k].pieces
                                        /\ delivered[k].pieces \in Seq(PieceType)
         /\ \A i \in DOMAIN assembled : assembled[i][1] \in 1..seen
         /\ \A k \in DOMAIN delivered : \A i \in DOMAIN delivered[k].pieces :
              delivered[k].pieces[i][1] \in 1..seen
<1>1. /\ delivered \in Seq([op : Data, pieces : Seq(PieceType)]) /\ assembled \in Seq(PieceType)
  BY DEF FramesInv, ReaderTyped
<1> DEFINE n == Len(delivered) + 1
<1>2. Len(delivered) \in Nat /\ DOMAIN delivered = 1..Len(delivered)
  BY <1>1
<1>3. \A k \in DOMAIN delivered : delivered[k].pieces \in Seq(PieceType)
  <2>1. \A k \in DOMAIN delivered : delivered[k] \in [op : Data, pieces : Seq(PieceType)]
    BY <1>1, <1>2, ElementOfSeq
  <2> QED BY <2>1
<1>4. Messages = 1..n /\ n \in 1..n /\ n \notin DOMAIN delivered /\ DOMAIN delivered \subseteq 1..n
  BY <1>2 DEF Messages
<1> HIDE DEF n
<1>5. Shelf = [k \in 1..n |-> IF k \in DOMAIN delivered THEN delivered[k].pieces ELSE assembled]
  BY <1>4 DEF Shelf, Pieces
<1>6. Shelf \in [1..n -> Seq(PieceType)]
  BY <1>1, <1>3, <1>5
<1>7. Shelf[n] = assembled /\ \A k \in DOMAIN delivered : Shelf[k] = delivered[k].pieces
  BY <1>4, <1>5
<1>8. OnceInOrder(Shelf, n, sent, seen)
  BY DEF FramesInv, n
<1>9. \A k \in 1..n : \A i \in DOMAIN Shelf[k] : Shelf[k][i][1] \in 1..seen
  BY <1>8 DEF OnceInOrder
<1>10. \A i \in DOMAIN assembled : assembled[i][1] \in 1..seen
  BY <1>4, <1>7, <1>9
<1>11. \A k \in DOMAIN delivered : \A i \in DOMAIN delivered[k].pieces :
         delivered[k].pieces[i][1] \in 1..seen
  BY <1>4, <1>7, <1>9
<1> QED BY <1>2, <1>3, <1>6, <1>7, <1>10, <1>11 DEF n

\* The server sends a frame that RFC 6455 lets it send.
LEMMA SendingKeepsFrames ==
  ASSUME FramesInv, NEW fin \in BOOLEAN, NEW op \in Opcode, NEW n \in Nat, Sends(fin, op, n),
         op \in Data \cup {"continuation"} => (op = "continuation" <=> open) /\ open' = ~fin,
         op \notin Data \cup {"continuation"} => open' = open
  PROVE  FramesInv'
<1> DEFINE f == Frame(fin, op, n)
           N == Len(sent)
<1>1. sent' = Append(sent, f) /\ UNCHANGED readerVars
  BY DEF Sends
<1>2. N \in Nat /\ sent \in Seq(FrameType) /\ seen \in 0..N /\ open \in BOOLEAN
  BY DEF FramesInv, ServerInv, ReaderTyped
<1>3. /\ f \in FrameType /\ f.id = N + 1 /\ f.fin = fin /\ f.op = op
      /\ f.size = n /\ Length(f.header) = n
  BY <1>2, HeaderKeepsLength DEF Frame, FrameType
<1> HIDE DEF f, N
<1>4. /\ sent' \in Seq(FrameType) /\ Len(sent') = N + 1 /\ sent'[N + 1] = f
      /\ \A i \in 1..N : sent'[i] = sent[i]
  BY <1>1, <1>2, <1>3, AppendProperties DEF N
<1>5. \A k \in 0..N : OpenAfter(sent', k) <=> OpenAfter(sent, k)
  <2> SUFFICES ASSUME NEW k \in 0..N PROVE OpenAfter(sent', k) <=> OpenAfter(sent, k)
    OBVIOUS
  <2>1. k \in Nat /\ \A i \in 1..k : i \in 1..N
    BY <1>2
  <2>2. \A i \in 1..k : sent'[i] = sent[i]
    BY <1>4, <2>1
  <2> QED BY <2>1, <2>2, OpenOfSame
<1>6. open <=> OpenAfter(sent, N)
  BY DEF FramesInv, ServerInv, N
<1>7. N \in 0..N /\ seen \in 0..(N + 1) /\ 1..seen \subseteq 1..N
  BY <1>2
<1>8. open' <=> OpenAfter(sent', N + 1)
  <2>1. OpenAfter(sent', N) <=> open
    BY <1>5, <1>6, <1>7
  <2>2. /\ Carries(f) => (OpenAfter(sent', N + 1) <=> ~f.fin)
        /\ ~Carries(f) => (OpenAfter(sent', N + 1) <=> OpenAfter(sent', N))
    BY <1>2, <1>4, OpenNext
  <2>3. Carries(f) <=> op \in Data \cup {"continuation"}
    BY <1>3 DEF Carries
  <2>4. CASE op \in Data \cup {"continuation"}
    BY <1>3, <2>2, <2>3, <2>4
  <2>5. CASE op \notin Data \cup {"continuation"}
    BY <1>3, <2>1, <2>2, <2>3, <2>5
  <2> QED BY <2>4, <2>5
<1>9. \A i \in 1..(N + 1) :
       /\ sent'[i].id = i /\ Length(sent'[i].header) = sent'[i].size
       /\ Carries(sent'[i]) => (sent'[i].op = "continuation" <=> OpenAfter(sent', i - 1))
  <2> SUFFICES ASSUME NEW i \in 1..(N + 1)
               PROVE  /\ sent'[i].id = i /\ Length(sent'[i].header) = sent'[i].size
                      /\ Carries(sent'[i]) => (sent'[i].op = "continuation" <=> OpenAfter(sent', i - 1))
    OBVIOUS
  <2>1. CASE i \in 1..N
    <3>1. i - 1 \in 0..N /\ sent'[i] = sent[i]
      BY <1>2, <1>4, <2>1
    <3>2. /\ sent[i].id = i /\ Length(sent[i].header) = sent[i].size
          /\ Carries(sent[i]) => (sent[i].op = "continuation" <=> OpenAfter(sent, i - 1))
      BY <2>1 DEF FramesInv, ServerInv, N
    <3> QED BY <1>5, <3>1, <3>2
  <2>2. CASE i = N + 1
    <3>1. i - 1 = N
      BY <1>2, <2>2
    <3>2. Carries(f) => (op = "continuation" <=> open)
      BY <1>3 DEF Carries
    <3> QED BY <1>3, <1>4, <1>5, <1>6, <1>7, <2>2, <3>1, <3>2
  <2> QED BY <1>2, <2>1, <2>2
<1>10. ServerInv'
  <2>1. open' \in BOOLEAN
    BY <1>2
  <2> QED BY <1>4, <1>8, <1>9, <2>1 DEF ServerInv
<1>11. UNCHANGED <<seen, started, msgOpcode, assembled, delivered, written, reading>>
  BY <1>1 DEF readerVars
<1>12. ReaderTyped'
  <2>1. reading = "failed" => sent'[seen + 1] = sent[seen + 1] /\ seen < N + 1
    <3>1. reading = "failed" => seen + 1 \in 1..N
      BY <1>2 DEF FramesInv, ReaderTyped, N
    <3> QED BY <1>2, <1>4, <3>1
  <2> QED BY <1>4, <1>7, <1>11, <2>1 DEF FramesInv, ReaderTyped, Next1
<1>13. \A i \in 1..seen : sent'[i] = sent[i]
  BY <1>4, <1>7
<1>14. MidMessage'
  <2>1. OpenAfter(sent', seen) <=> OpenAfter(sent, seen)
    BY <1>2, <1>5
  <2>2. \A i \in DOMAIN assembled : sent'[assembled[i][1]] = sent[assembled[i][1]]
    BY <1>13, OnTheShelf
  <2>3. assembled # <<>> => 1 \in DOMAIN assembled
    BY DEF FramesInv, ReaderTyped
  <2> QED BY <1>11, <2>1, <2>2, <2>3 DEF FramesInv, MidMessage
<1>15. MessagesAsSent'
  <2>1. \A k \in DOMAIN delivered : \A i \in DOMAIN delivered[k].pieces :
          sent'[delivered[k].pieces[i][1]] = sent[delivered[k].pieces[i][1]]
    BY <1>13, OnTheShelf
  <2>2. \A k \in DOMAIN delivered : delivered[k].pieces # <<>> => 1 \in DOMAIN delivered[k].pieces
    <3>1. \A k \in DOMAIN delivered : delivered[k].pieces \in Seq(PieceType)
      BY OnTheShelf
    <3> QED BY <3>1
  <2> QED BY <1>11, <2>1, <2>2 DEF FramesInv, MessagesAsSent
<1>16. PongsInv'
  <2>1. \A k \in 0..seen : PingsUpTo(k)' = PingsUpTo(k)
    <3> SUFFICES ASSUME NEW k \in 0..seen PROVE PingsUpTo(k)' = PingsUpTo(k)
      OBVIOUS
    <3>1. 1..k \subseteq 1..seen
      BY <1>2
    <3>2. {i \in 1..k : sent'[i].op = "ping"} = {i \in 1..k : sent[i].op = "ping"}
      BY <1>13, <3>1
    <3> QED BY <3>2 DEF PingsUpTo
  <2>2. seen \in 0..seen /\ \A i \in 1..seen : i \in 0..seen
    BY <1>2
  <2>3. PingsUpTo(seen)' = PingsUpTo(seen) /\ \A i \in 1..seen : PingsUpTo(i)' = PingsUpTo(i)
    <3>1. {i \in 1..seen : sent'[i].op = "ping"} = {i \in 1..seen : sent[i].op = "ping"}
      BY <1>13
    <3>2. PingsUpTo(seen)' = PingsUpTo(seen)
      BY <1>11, <3>1 DEF PingsUpTo
    <3> QED BY <2>1, <2>2, <3>2
  <2> QED BY <1>11, <1>13, <2>3 DEF FramesInv, PongsInv, PingsAnswered
<1>17. OnceInOrder(Shelf, Len(delivered) + 1, sent, seen)'
  <2>1. Shelf' = Shelf
    BY <1>11 DEF Shelf, Messages, Pieces
  <2>2. OnceInOrder(Shelf, Len(delivered) + 1, sent, seen) /\ Len(delivered) + 1 \in Nat /\ seen \in Nat
    BY <1>2, OnTheShelf DEF FramesInv
  <2>3. OnceInOrder(Shelf, Len(delivered) + 1, sent', seen)
    BY <1>13, <2>2, ShelfOfSame
  <2> QED BY <1>11, <2>1, <2>3
<1> QED BY <1>10, <1>12, <1>14, <1>15, <1>16, <1>17 DEF FramesInv

\* The frame that is read next.
LEMMA NextFrame ==
  ASSUME FramesInv, NEW ops, Reads1(ops)
  PROVE  /\ seen \in Nat /\ seen + 1 \in 1..Len(sent) /\ seen' = seen + 1 /\ reading = "on"
         /\ Next1 = sent[seen + 1] /\ Next1 \in FrameType /\ Next1.id = seen + 1 /\ Next1.op \in ops
         /\ Length(Next1.header) = Next1.size
         /\ Carries(Next1) => (Next1.op = "continuation" <=> started)
         /\ ServerInv' /\ UNCHANGED <<sent, open>>
<1>1. /\ reading = "on" /\ seen < Len(sent) /\ Next1.op \in ops /\ seen' = seen + 1
      /\ UNCHANGED <<sent, open>>
  BY DEF Reads1, serverVars
<1>2. seen \in 0..Len(sent) /\ sent \in Seq(FrameType) /\ Len(sent) \in Nat
  BY DEF FramesInv, ReaderTyped, ServerInv
<1>3. seen \in Nat /\ seen + 1 \in 1..Len(sent) /\ (seen + 1) - 1 = seen
  BY <1>1, <1>2
<1>4. /\ sent[seen + 1].id = seen + 1 /\ Length(sent[seen + 1].header) = sent[seen + 1].size
      /\ Carries(sent[seen + 1]) => (sent[seen + 1].op = "continuation" <=> OpenAfter(sent, seen))
  BY <1>3 DEF FramesInv, ServerInv
<1>5. sent[seen + 1] \in FrameType
  BY <1>2, <1>3, ElementOfSeq
<1>6. started <=> OpenAfter(sent, seen)
  BY DEF FramesInv, MidMessage
<1>7. ServerInv'
  BY <1>1 DEF FramesInv, ServerInv
<1> QED BY <1>1, <1>3, <1>4, <1>5, <1>6, <1>7 DEF Next1

\* The pongs after a step that reads a frame and writes none, or a pong for a ping.
LEMMA PongsAfter ==
  ASSUME FramesInv, NEW ops, Reads1(ops), reading' \in {"on", "closed"},
         \/ Next1.op # "ping" /\ written' = written
         \/ Next1.op # "ping" /\ reading' = "closed" /\ written' = Append(written, [op |-> "close", header |-> Header(0)])
         \/ Next1.op = "ping" /\ written' = Append(written, [op |-> "pong", header |-> Header(Next1.size)])
  PROVE  PongsInv' /\ written' \in Seq([op : {"pong", "close"}, header : HeaderType])
<1> DEFINE W == [op : {"pong", "close"}, header : HeaderType]
           N == Len(written)
           c == PingsUpTo(seen)
           after == sent[seen + 1]
<1>1. /\ seen \in Nat /\ seen' = seen + 1 /\ sent' = sent /\ reading = "on" /\ Next1 = after
      /\ after.size \in Nat /\ Length(after.header) = after.size
  BY NextFrame DEF FrameType
<1>2. written \in Seq(W) /\ N \in Nat /\ DOMAIN written = 1..N
  BY DEF FramesInv, ReaderTyped
<1>3. N = c /\ \A i \in 1..N : written[i].op = "pong"
  BY <1>1, <1>2 DEF FramesInv, PongsInv
<1>4. \A i \in 1..seen : sent[i].op = "ping" =>
        PingsUpTo(i) \in 1..c /\ Length(written[PingsUpTo(i)].header) = sent[i].size
  BY DEF FramesInv, PongsInv, PingsAnswered
<1>5. c \in Nat /\ PingsUpTo(seen + 1) = IF after.op = "ping" THEN c + 1 ELSE c
  BY <1>1, PingsNext
<1>6. PingsUpTo(seen)' = PingsUpTo(seen + 1) /\ \A i \in 1..(seen + 1) : PingsUpTo(i)' = PingsUpTo(i)
  BY <1>1 DEF PingsUpTo
<1> HIDE DEF W, N, c, after
<1>7. ASSUME after.op # "ping", NEW w, DOMAIN w \in {1..N, 1..(N + 1)}, \A i \in 1..N : w[i] = written[i],
             DOMAIN w = 1..(N + 1) => w[N + 1].op = "close"
      PROVE  /\ {i \in DOMAIN w : w[i].op = "pong"} = 1..c
             /\ \A i \in 1..(seen + 1) : sent[i].op = "ping" =>
                  /\ PingsUpTo(i) \in 1..c /\ Length(w[PingsUpTo(i)].header) = sent[i].size
  <2>1. {i \in DOMAIN w : w[i].op = "pong"} = 1..N
    <3>1. \A i \in 1..(N + 1) : i \in 1..N \/ i = N + 1
      BY <1>2
    <3>2. 1..N \subseteq 1..(N + 1)
      BY <1>2
    <3>3. \A i \in 1..N : w[i].op = "pong"
      BY <1>3, <1>7
    <3> QED BY <1>7, <3>1, <3>2, <3>3
  <2>2. \A i \in 1..(seen + 1) : sent[i].op = "ping" => i \in 1..seen
    <3>1. \A i \in 1..(seen + 1) : i \in 1..seen \/ i = seen + 1
      BY <1>1
    <3> QED BY <1>7, <3>1 DEF after
  <2> QED BY <1>3, <1>4, <1>7, <2>1, <2>2
<1>8. CASE after.op # "ping" /\ written' = written
  <2>1. written \in Seq(W) /\ DOMAIN written = 1..N
    BY <1>2
  <2>2. DOMAIN written # 1..(N + 1)
    <3>1. N + 1 \in 1..(N + 1) /\ N + 1 \notin 1..N
      BY <1>2
    <3> QED BY <2>1, <3>1
  <2>6. /\ DOMAIN written \in {1..N, 1..(N + 1)} /\ \A i \in 1..N : written[i] = written[i]
        /\ DOMAIN written = 1..(N + 1) => written[N + 1].op = "close"
    BY <2>1, <2>2
  <2>3. /\ {i \in DOMAIN written : written[i].op = "pong"} = 1..c
        /\ \A i \in 1..(seen + 1) : sent[i].op = "ping" =>
             PingsUpTo(i) \in 1..c /\ Length(written[PingsUpTo(i)].header) = sent[i].size
    BY <1>7, <1>8, <2>6
  <2>4. PingsUpTo(seen + 1) = c
    BY <1>5, <1>8
  <2>5. PongsInv'
    BY <1>1, <1>2, <1>3, <1>6, <1>8, <2>3, <2>4 DEF PongsInv, PingsAnswered, N
  <2> QED BY <1>8, <2>1, <2>5 DEF W
<1>9. CASE after.op # "ping" /\ reading' = "closed"
           /\ written' = Append(written, [op |-> "close", header |-> Header(0)])
  <2> DEFINE x == [op |-> "close", header |-> Header(0)]
  <2>1. x \in W /\ x.op = "close"
    BY HeaderKeepsLength DEF W
  <2>2. written' = Append(written, x)
    BY <1>9
  <2> HIDE DEF x
  <2>3. /\ written' \in Seq(W) /\ DOMAIN written' = 1..(N + 1) /\ written'[N + 1] = x
        /\ \A i \in 1..N : written'[i] = written[i]
    <3>1. /\ Append(written, x) \in Seq(W) /\ Len(Append(written, x)) = Len(written) + 1
          /\ Append(written, x)[Len(written) + 1] = x
          /\ \A i \in 1..Len(written) : Append(written, x)[i] = written[i]
      BY <1>2, <2>1, AppendProperties
    <3>2. DOMAIN Append(written, x) = 1..(Len(written) + 1)
      BY <3>1
    <3> QED BY <2>2, <3>1, <3>2 DEF N
  <2>4. /\ {i \in DOMAIN written' : written'[i].op = "pong"} = 1..c
        /\ \A i \in 1..(seen + 1) : sent[i].op = "ping" =>
             PingsUpTo(i) \in 1..c /\ Length(written'[PingsUpTo(i)].header) = sent[i].size
    <3>1. /\ DOMAIN written' \in {1..N, 1..(N + 1)} /\ \A i \in 1..N : written'[i] = written[i]
          /\ DOMAIN written' = 1..(N + 1) => written'[N + 1].op = "close"
      BY <2>1, <2>3
    <3>2. PICK v : v = written'
      OBVIOUS
    <3>3. /\ {i \in DOMAIN v : v[i].op = "pong"} = 1..c
          /\ \A i \in 1..(seen + 1) : sent[i].op = "ping" =>
               PingsUpTo(i) \in 1..c /\ Length(v[PingsUpTo(i)].header) = sent[i].size
      <4>1. /\ DOMAIN v \in {1..N, 1..(N + 1)} /\ \A i \in 1..N : v[i] = written[i]
            /\ DOMAIN v = 1..(N + 1) => v[N + 1].op = "close"
        BY <3>1, <3>2
      <4> QED BY <1>7, <1>9, <4>1
    <3> QED BY <3>2, <3>3
  <2>5. PingsUpTo(seen + 1) = c
    BY <1>5, <1>9
  <2>6. PongsInv'
    BY <1>1, <1>6, <1>9, <2>4, <2>5 DEF PongsInv, PingsAnswered
  <2> QED BY <2>3, <2>6 DEF W
<1>10. CASE after.op = "ping" /\ written' = Append(written, [op |-> "pong", header |-> Header(after.size)])
  <2> DEFINE x == [op |-> "pong", header |-> Header(after.size)]
  <2>1. x \in W /\ x.op = "pong" /\ Length(x.header) = after.size
    BY <1>1, HeaderKeepsLength DEF W
  <2>2. written' = Append(written, x)
    BY <1>10
  <2> HIDE DEF x
  <2>3. /\ written' \in Seq(W) /\ Len(written') = N + 1 /\ DOMAIN written' = 1..(N + 1)
        /\ written'[N + 1] = x /\ \A i \in 1..N : written'[i] = written[i]
    <3>1. /\ Append(written, x) \in Seq(W) /\ Len(Append(written, x)) = Len(written) + 1
          /\ Append(written, x)[Len(written) + 1] = x
          /\ \A i \in 1..Len(written) : Append(written, x)[i] = written[i]
      BY <1>2, <2>1, AppendProperties
    <3>2. DOMAIN Append(written, x) = 1..(Len(written) + 1)
      BY <3>1
    <3> QED BY <2>2, <3>1, <3>2 DEF N
  <2>4. PingsUpTo(seen + 1) = N + 1
    BY <1>3, <1>5, <1>10
  <2>5. \A i \in 1..(N + 1) : written'[i].op = "pong"
    <3>1. \A i \in 1..(N + 1) : i \in 1..N \/ i = N + 1
      BY <1>2
    <3> QED BY <1>3, <2>1, <2>3, <3>1
  <2>6. {i \in DOMAIN written' : written'[i].op = "pong"} = 1..(N + 1)
    BY <2>3, <2>5
  <2>7. \A i \in 1..(seen + 1) : sent[i].op = "ping" =>
          PingsUpTo(i) \in 1..(N + 1) /\ Length(written'[PingsUpTo(i)].header) = sent[i].size
    <3> SUFFICES ASSUME NEW i \in 1..(seen + 1), sent[i].op = "ping"
                 PROVE  PingsUpTo(i) \in 1..(N + 1)
                        /\ Length(written'[PingsUpTo(i)].header) = sent[i].size
      OBVIOUS
    <3>1. CASE i \in 1..seen
      <4>1. PingsUpTo(i) \in 1..N /\ Length(written[PingsUpTo(i)].header) = sent[i].size
        BY <1>3, <1>4, <3>1
      <4>2. 1..N \subseteq 1..(N + 1)
        BY <1>2
      <4> QED BY <2>3, <4>1, <4>2
    <3>2. CASE i = seen + 1
      <4>1. N + 1 \in 1..(N + 1)
        BY <1>2
      <4> QED BY <2>1, <2>3, <2>4, <3>2, <4>1 DEF after
    <3>3. i \in 1..seen \/ i = seen + 1
      BY <1>1
    <3> QED BY <3>1, <3>2, <3>3
  <2>8. PongsInv'
    BY <1>1, <1>6, <2>3, <2>4, <2>5, <2>6, <2>7 DEF PongsInv, PingsAnswered
  <2> QED BY <2>3, <2>8 DEF W
<1> QED BY <1>1, <1>8, <1>9, <1>10

\* A frame that carries no data leaves the messages alone, between any two pieces.
LEMMA ControlKeepsFrames ==
  ASSUME FramesInv, AnswersPing \/ IgnoresPong \/ ReadsClose
  PROVE  FramesInv'
<1>1. PICK ops : /\ Reads1(ops) /\ ops \in {{"ping"}, {"pong"}, {"close"}}
                 /\ UNCHANGED <<started, msgOpcode, assembled, delivered>>
                 /\ reading' \in {"on", "closed"}
                 /\ \/ ops # {"ping"} /\ written' = written
                    \/ /\ ops = {"close"} /\ reading' = "closed"
                       /\ written' = Append(written, [op |-> "close", header |-> Header(0)])
                    \/ /\ ops = {"ping"}
                       /\ written' = Append(written, [op |-> "pong", header |-> Header(Length(Next1.header))])
  <2>1. CASE AnswersPing
    BY <2>1 DEF AnswersPing, WriteFrame, Reads1
  <2>2. CASE IgnoresPong
    BY <2>2 DEF IgnoresPong, Reads1
  <2>3. CASE ReadsClose
    BY <2>3 DEF ReadsClose, WriteFrame, Reads1
  <2> QED BY <2>1, <2>2, <2>3
<1>2. /\ seen \in Nat /\ seen + 1 \in 1..Len(sent) /\ seen' = seen + 1 /\ reading = "on"
      /\ Next1 = sent[seen + 1] /\ Next1.op \in ops /\ Length(Next1.header) = Next1.size
      /\ ServerInv' /\ UNCHANGED <<sent, open>>
  BY <1>1, NextFrame
<1>3. ~Carries(Next1)
  BY <1>1, <1>2 DEF Carries, Data
<1>4. PongsInv' /\ written' \in Seq([op : {"pong", "close"}, header : HeaderType])
  <2>1. \/ Next1.op # "ping" /\ written' = written
        \/ Next1.op # "ping" /\ reading' = "closed" /\ written' = Append(written, [op |-> "close", header |-> Header(0)])
        \/ Next1.op = "ping" /\ written' = Append(written, [op |-> "pong", header |-> Header(Next1.size)])
    BY <1>1, <1>2
  <2> QED BY <1>1, <2>1, PongsAfter
<1>5. ReaderTyped'
  <2>1. seen + 1 \in 0..Len(sent)
    BY <1>2
  <2> QED BY <1>1, <1>2, <1>4, <2>1 DEF FramesInv, ReaderTyped
<1>6. MidMessage'
  <2>1. OpenAfter(sent, seen + 1) <=> OpenAfter(sent, seen)
    BY <1>2, <1>3, OpenNext
  <2> QED BY <1>1, <1>2, <2>1 DEF FramesInv, MidMessage
<1>7. MessagesAsSent'
  BY <1>1, <1>2 DEF FramesInv, MessagesAsSent
<1>8. OnceInOrder(Shelf, Len(delivered) + 1, sent, seen)'
  <2>1. Shelf' = Shelf
    BY <1>1 DEF Shelf, Messages, Pieces
  <2>2. OnceInOrder(Shelf, Len(delivered) + 1, sent, seen) /\ Len(delivered) + 1 \in Nat
    BY OnTheShelf DEF FramesInv
  <2>3. OnceInOrder(Shelf, Len(delivered) + 1, sent, seen + 1)
    BY <1>2, <1>3, <2>2, ShelfKeepsOver
  <2> QED BY <1>1, <1>2, <2>1, <2>3
<1> QED BY <1>2, <1>4, <1>5, <1>6, <1>7, <1>8 DEF FramesInv

\* A frame that carries data goes to the end of what is put together; the one that
\* ends the message takes all of it along.
LEMMA DataKeepsFrames ==
  ASSUME FramesInv, ReadsData \/ ReadsContinuation
  PROVE  FramesInv'
<1> DEFINE new == Append(assembled, Piece(Next1))
           opcode == IF started THEN msgOpcode ELSE Next1.op
           n == Len(delivered) + 1
<1>1. PICK ops : /\ Reads1(ops)
                 /\ (ops = Data /\ ReadsData) \/ (ops = {"continuation"} /\ ReadsContinuation)
  BY DEF ReadsData, ReadsContinuation
<1>2. /\ seen \in Nat /\ seen + 1 \in 1..Len(sent) /\ seen' = seen + 1 /\ reading = "on"
      /\ Next1 = sent[seen + 1] /\ Next1 \in FrameType /\ Next1.id = seen + 1 /\ Next1.op \in ops
      /\ Length(Next1.header) = Next1.size
      /\ Carries(Next1) => (Next1.op = "continuation" <=> started)
      /\ ServerInv' /\ UNCHANGED <<sent, open>>
  BY <1>1, NextFrame
<1>3. Carries(Next1) /\ (Next1.op = "continuation" <=> started) /\ Next1.op # "ping"
      /\ ((ReadsData /\ ~started) \/ (ReadsContinuation /\ started))
  BY <1>1, <1>2 DEF Carries, Data
<1>4. /\ assembled \in Seq(PieceType) /\ delivered \in Seq([op : Data, pieces : Seq(PieceType)])
      /\ (started <=> assembled # <<>>) /\ opcode \in Data
  BY <1>1, <1>2, <1>3 DEF FramesInv, ReaderTyped, MidMessage, Data
<1>5. /\ UNCHANGED <<written, reading>>
      /\ IF Next1.fin
         THEN /\ delivered' = Append(delivered, [op |-> opcode, pieces |-> new])
              /\ started' = FALSE /\ msgOpcode' = "none" /\ assembled' = <<>>
         ELSE /\ started' = TRUE /\ msgOpcode' = opcode /\ assembled' = new /\ delivered' = delivered
  <2>1. CASE ReadsData /\ ~started
    BY <2>1 DEF ReadsData, Returns
  <2>2. CASE ReadsContinuation /\ started
    <3>1. started = TRUE
      BY <2>2 DEF FramesInv, ReaderTyped
    <3> QED BY <2>2, <3>1 DEF ReadsContinuation, Returns
  <2> QED BY <1>3, <2>1, <2>2
<1>6. Piece(Next1) = <<seen + 1, Next1.size>> /\ Piece(Next1) \in PieceType /\ Next1.size \in Nat
  BY <1>2 DEF Piece, PieceType, FrameType
<1>7. /\ new \in Seq(PieceType) /\ Len(new) = Len(assembled) + 1 /\ new # <<>>
      /\ new[Len(assembled) + 1] = Piece(Next1) /\ \A i \in 1..Len(assembled) : new[i] = assembled[i]
      /\ Len(assembled) \in Nat /\ DOMAIN assembled = 1..Len(assembled)
  <2> DEFINE x == Piece(Next1)
  <2>1. x \in PieceType
    BY <1>6
  <2> HIDE DEF x
  <2>2. /\ Append(assembled, x) \in Seq(PieceType) /\ Len(Append(assembled, x)) = Len(assembled) + 1
        /\ Append(assembled, x) # <<>> /\ Append(assembled, x)[Len(assembled) + 1] = x
        /\ \A i \in 1..Len(assembled) : Append(assembled, x)[i] = assembled[i]
    BY <1>4, <2>1, AppendProperties
  <2>3. Len(assembled) \in Nat /\ DOMAIN assembled = 1..Len(assembled)
    BY <1>4
  <2> QED BY <2>2, <2>3 DEF x
<1>8. DOMAIN new = 1..(Len(assembled) + 1)
  BY <1>7
<1> HIDE DEF new, opcode, n
\* The message so far is as the server sent it.
<1>9. /\ sent[new[1][1]].op = opcode
      /\ \A i \in 1..Len(assembled) : ~sent[new[i][1]].fin
      /\ sent[new[Len(assembled) + 1][1]] = Next1
  <2>1. sent[new[Len(assembled) + 1][1]] = Next1
    BY <1>2, <1>6, <1>7
  <2>2. \A i \in 1..Len(assembled) : ~sent[new[i][1]].fin
    BY <1>7 DEF FramesInv, MidMessage
  <2>3. CASE started
    <3>1. 1 \in 1..Len(assembled)
      BY <1>4, <1>7, <2>3
    <3>2. sent[assembled[1][1]].op = msgOpcode
      BY <1>4, <2>3 DEF FramesInv, MidMessage
    <3> QED BY <1>7, <2>1, <2>2, <2>3, <3>1, <3>2 DEF opcode
  <2>4. CASE ~started
    <3>1. Len(assembled) = 0
      BY <1>4, <2>4
    <3> QED BY <2>1, <2>2, <2>4, <3>1 DEF opcode
  <2> QED BY <2>3, <2>4
<1>10. OpenAfter(sent, seen + 1) <=> ~Next1.fin
  BY <1>2, <1>3, OpenNext
<1>11. PongsInv' /\ written' \in Seq([op : {"pong", "close"}, header : HeaderType])
  BY <1>1, <1>2, <1>3, <1>5, PongsAfter
<1>12. seen + 1 \in 0..Len(sent)
  BY <1>2
<1>13. n \in Nat \ {0} /\ Len(delivered) \in Nat /\ DOMAIN delivered = 1..Len(delivered)
  BY OnTheShelf DEF n
<1>14. PICK Q : Q = [Shelf EXCEPT ![n] = Append(@, <<seen + 1, Next1.size>>)]
  OBVIOUS
<1>15. Shelf \in [1..n -> Seq(PieceType)] /\ Shelf[n] = assembled
       /\ \A k \in 1..Len(delivered) : Shelf[k] = delivered[k].pieces
  BY <1>13, OnTheShelf DEF n
<1>16. OnceInOrder(Q, n, sent, seen + 1)
  <2>1. OnceInOrder(Shelf, n, sent, seen)
    BY DEF FramesInv, n
  <2> QED BY <1>2, <1>3, <1>6, <1>13, <1>14, <1>15, <2>1, ShelfGrows
<1>17. Q \in [1..n -> Seq(PieceType)] /\ Q[n] = new /\ n \in 1..n
       /\ \A k \in 1..Len(delivered) : k \in 1..n /\ k # n /\ Q[k] = delivered[k].pieces
  <2>1. n \in 1..n /\ \A k \in 1..Len(delivered) : k \in 1..n /\ k # n
    BY <1>13 DEF n
  <2>2. Q = [Shelf EXCEPT ![n] = new]
    BY <1>6, <1>14, <1>15, <2>1 DEF new
  <2> QED BY <1>7, <1>15, <2>1, <2>2
<1>18. CASE ~Next1.fin
  <2>1. UNCHANGED <<delivered, written, reading>> /\ started' = TRUE /\ msgOpcode' = opcode /\ assembled' = new
    BY <1>5, <1>18
  <2>2. ReaderTyped'
    BY <1>2, <1>4, <1>7, <1>11, <1>12, <2>1 DEF FramesInv, ReaderTyped
  <2>3. MidMessage'
    <3>1. \A i \in DOMAIN new : ~sent[new[i][1]].fin
      <4>1. \A i \in 1..(Len(assembled) + 1) : i \in 1..Len(assembled) \/ i = Len(assembled) + 1
        BY <1>7
      <4> QED BY <1>8, <1>9, <1>18, <4>1
    <3> QED BY <1>2, <1>7, <1>9, <1>10, <1>18, <2>1, <3>1 DEF MidMessage
  <2>4. MessagesAsSent'
    BY <1>2, <2>1 DEF FramesInv, MessagesAsSent
  <2>5. OnceInOrder(Shelf, Len(delivered) + 1, sent, seen)'
    <3>1. Shelf' = Q
      <4>1. Shelf' = [k \in 1..n |-> IF k \in 1..Len(delivered) THEN delivered[k].pieces ELSE new]
        BY <1>13, <2>1 DEF Shelf, Messages, Pieces, n
      <4>2. \A k \in 1..n : k \in 1..Len(delivered) \/ (k = n /\ k \notin 1..Len(delivered))
        BY <1>13 DEF n
      <4> QED BY <1>17, <4>1, <4>2
    <3> QED BY <1>2, <1>16, <2>1, <3>1 DEF n
  <2> QED BY <1>2, <1>11, <2>2, <2>3, <2>4, <2>5 DEF FramesInv
<1>19. CASE Next1.fin
  <2> DEFINE msg == [op |-> opcode, pieces |-> new]
  <2>1. /\ UNCHANGED <<written, reading>> /\ started' = FALSE /\ msgOpcode' = "none"
        /\ assembled' = <<>> /\ delivered' = Append(delivered, msg)
    BY <1>5, <1>19
  <2>2. msg \in [op : Data, pieces : Seq(PieceType)] /\ msg.op = opcode /\ msg.pieces = new
    BY <1>4, <1>7
  <2> HIDE DEF msg
  <2>3. /\ delivered' \in Seq([op : Data, pieces : Seq(PieceType)]) /\ Len(delivered') = n
        /\ delivered'[n] = msg /\ \A k \in 1..Len(delivered) : delivered'[k] = delivered[k]
    BY <1>4, <2>1, <2>2, AppendProperties DEF n
  <2>4. DOMAIN delivered' = 1..n
    BY <2>3
  <2>5. \A k \in 1..n : k \in 1..Len(delivered) \/ (k = n /\ k \notin 1..Len(delivered))
    BY <1>13 DEF n
  <2>6. ReaderTyped'
    <3>1. <<>> \in Seq(PieceType)
      OBVIOUS
    <3> QED BY <1>2, <1>11, <1>12, <2>1, <2>3, <3>1 DEF FramesInv, ReaderTyped
  <2>7. MidMessage'
    <3>1. DOMAIN <<>> = {}
      OBVIOUS
    <3> QED BY <1>2, <1>10, <1>19, <2>1, <3>1 DEF MidMessage
  <2>8. MessagesAsSent'
    <3>1. \A i \in DOMAIN new : sent[new[i][1]].fin <=> i = Len(new)
      <4>1. \A i \in 1..(Len(assembled) + 1) : \/ i \in 1..Len(assembled) /\ i # Len(assembled) + 1
                                               \/ i = Len(assembled) + 1
        BY <1>7
      <4> QED BY <1>7, <1>8, <1>9, <1>19, <4>1
    <3>2. \A k \in 1..n :
            /\ delivered'[k].pieces # <<>>
            /\ sent[delivered'[k].pieces[1][1]].op = delivered'[k].op
            /\ \A i \in DOMAIN delivered'[k].pieces :
                 sent[delivered'[k].pieces[i][1]].fin <=> i = Len(delivered'[k].pieces)
      <4> SUFFICES ASSUME NEW k \in 1..n
                   PROVE  /\ delivered'[k].pieces # <<>>
                          /\ sent[delivered'[k].pieces[1][1]].op = delivered'[k].op
                          /\ \A i \in DOMAIN delivered'[k].pieces :
                               sent[delivered'[k].pieces[i][1]].fin <=> i = Len(delivered'[k].pieces)
        OBVIOUS
      <4>1. CASE k \in 1..Len(delivered)
        <5>1. delivered'[k] = delivered[k]
          BY <2>3, <4>1
        <5>2. k \in DOMAIN delivered
          BY <1>13, <4>1
        <5>3. /\ delivered[k].pieces # <<>>
              /\ sent[delivered[k].pieces[1][1]].op = delivered[k].op
              /\ \A i \in DOMAIN delivered[k].pieces :
                   sent[delivered[k].pieces[i][1]].fin <=> i = Len(delivered[k].pieces)
          BY <5>2 DEF FramesInv, MessagesAsSent
        <5> QED BY <5>1, <5>3
      <4>2. CASE k = n
        BY <1>7, <1>9, <2>2, <2>3, <3>1, <4>2
      <4> QED BY <2>5, <4>1, <4>2
    <3> QED BY <1>2, <2>4, <3>2 DEF MessagesAsSent
  <2>9. OnceInOrder(Shelf, Len(delivered) + 1, sent, seen)'
    <3> DEFINE R == [k \in 1..(n + 1) |-> IF k \in 1..n THEN delivered'[k].pieces ELSE <<>>]
    <3>1. Shelf' = R
      BY <1>13, <2>1, <2>3, <2>4 DEF Shelf, Messages, Pieces
    <3>2. n + 1 \in 1..(n + 1) /\ n + 1 \notin 1..n /\ 1..n \subseteq 1..(n + 1)
      BY <1>13
    <3>3. R[n + 1] = <<>> /\ \A k \in 1..n : R[k] = delivered'[k].pieces
      BY <3>2
    <3>4. \A k \in 1..n : R[k] = Q[k]
      BY <1>17, <2>2, <2>3, <2>5, <3>3
    <3> HIDE DEF R
    <3>5. OnceInOrder(R, n + 1, sent, seen + 1)
      BY <1>2, <1>13, <1>16, <3>3, <3>4, ShelfGetsNew
    <3> QED BY <1>2, <2>3, <3>1, <3>5
  <2> QED BY <1>2, <1>11, <2>6, <2>7, <2>8, <2>9 DEF FramesInv
<1> QED BY <1>18, <1>19

\* Neither the server nor a step of the reader disturbs any of it.
LEMMA FramesSteps == FramesInv /\ [FramesNext]_framesVars => FramesInv'
<1> SUFFICES ASSUME FramesInv, [FramesNext]_framesVars PROVE FramesInv'
  OBVIOUS
<1>1. CASE UNCHANGED framesVars
  <2>1. UNCHANGED <<sent, open, seen, started, msgOpcode, assembled, delivered, written, reading>>
    BY <1>1 DEF framesVars, serverVars, readerVars
  <2>2. ServerInv' /\ ReaderTyped' /\ MidMessage' /\ MessagesAsSent'
    BY <2>1 DEF FramesInv, ServerInv, ReaderTyped, MidMessage, MessagesAsSent, Next1
  <2>3. PongsInv'
    BY <2>1 DEF FramesInv, PongsInv, PingsAnswered, PingsUpTo
  <2>4. Shelf' = Shelf
    BY <2>1 DEF Shelf, Messages, Pieces
  <2> QED BY <2>1, <2>2, <2>3, <2>4 DEF FramesInv
<1>2. CASE ServerSendsData
  <2>1. PICK fin \in BOOLEAN : \E n \in Sizes :
          /\ IF open THEN Sends(fin, "continuation", n) ELSE \E op \in Data : Sends(fin, op, n)
          /\ open' = ~fin
    BY <1>2 DEF ServerSendsData
  <2>2. PICK n \in Sizes :
          /\ IF open THEN Sends(fin, "continuation", n) ELSE \E op \in Data : Sends(fin, op, n)
          /\ open' = ~fin
    BY <2>1
  <2>3. PICK op \in Opcode : /\ Sends(fin, op, n) /\ op \in Data \cup {"continuation"}
                             /\ (op = "continuation" <=> open)
    BY <2>2 DEF Opcode, Data
  <2>4. n \in Nat
    BY FramesAssumption
  <2> QED BY <2>2, <2>3, <2>4, SendingKeepsFrames
<1>3. CASE ServerSendsControl
  <2>1. PICK op \in {"ping", "pong", "close"} : \E n \in {m \in Sizes : m <= 125} : Sends(TRUE, op, n)
    BY <1>3 DEF ServerSendsControl
  <2>2. PICK n \in {m \in Sizes : m <= 125} : Sends(TRUE, op, n)
    BY <2>1
  <2>3. op \in Opcode /\ op \notin Data \cup {"continuation"} /\ n \in Nat /\ open' = open
    BY <1>3, FramesAssumption DEF Opcode, Data, ServerSendsControl
  <2> QED BY <2>2, <2>3, SendingKeepsFrames
<1>4. CASE TooLarge
  <2>1. /\ reading = "on" /\ seen < Len(sent) /\ Length(Next1.header) > MaxPayload /\ reading' = "failed"
        /\ UNCHANGED <<sent, open, seen, started, msgOpcode, assembled, delivered, written>>
    BY <1>4 DEF TooLarge, serverVars
  <2>2. seen + 1 \in 1..Len(sent)
    BY <2>1 DEF FramesInv, ReaderTyped, ServerInv
  <2>3. Length(Next1.header) = Next1.size
    BY <2>2 DEF FramesInv, ServerInv, Next1
  <2>4. ServerInv' /\ MidMessage' /\ MessagesAsSent'
    BY <2>1 DEF FramesInv, ServerInv, MidMessage, MessagesAsSent
  <2>5. ReaderTyped'
    BY <2>1, <2>3 DEF FramesInv, ReaderTyped, Next1
  <2>6. PongsInv'
    BY <2>1 DEF FramesInv, PongsInv, PingsAnswered, PingsUpTo
  <2>7. OnceInOrder(Shelf, Len(delivered) + 1, sent, seen)'
    <3>1. Shelf' = Shelf
      BY <2>1 DEF Shelf, Messages, Pieces
    <3> QED BY <2>1, <3>1 DEF FramesInv
  <2> QED BY <2>4, <2>5, <2>6, <2>7 DEF FramesInv
<1> QED BY <1>1, <1>2, <1>3, <1>4, ControlKeepsFrames, DataKeepsFrames DEF FramesNext

\* However the server cuts its messages and whatever control frames it puts between the
\* pieces, with payloads of any lengths: every message comes whole and in order, and
\* every ping read is answered in turn (readWSMessage and readWSFrame of
\* cartesia_ws.go).
THEOREM MessagesComeWhole == FramesSpec => []MessagesWhole
<1>1. FramesInv => MessagesWhole
  <2> SUFFICES ASSUME FramesInv PROVE MessagesWhole
    OBVIOUS
  <2>1. Messages = 1..(Len(delivered) + 1) /\ \A k \in Messages : Shelf[k] = Pieces(k)
    BY DEF Messages, Shelf
  <2>2. OnceInOrder(Shelf, Len(delivered) + 1, sent, seen)
    BY DEF FramesInv
  <2>3. PiecesOnceInOrder
    BY <2>1, <2>2 DEF OnceInOrder, PiecesOnceInOrder
  <2> QED BY <2>3 DEF FramesInv, MessagesWhole, PongsInv, ReaderTyped
<1> QED BY <1>1, FramesStart, FramesSteps, PTL DEF FramesSpec

=============================================================================
