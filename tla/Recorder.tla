------------------------------ MODULE Recorder ------------------------------
(***************************************************************************)
(* The counters of a call (pkg/observability/metrics.go), as the two legs  *)
(* of a session keep them (session.go, fallback.go) and as a scrape reads  *)
(* them.  Every record is one step under the recorder's lock; a leg makes  *)
(* several per utterance, and WriteText takes the lock again for each      *)
(* table of its page, so what a page shows is never one moment's state.    *)
(*                                                                         *)
(* A duration is counted, not measured.  Both legs use the same vendors,   *)
(* so a stage stands for its pair of stage and vendor; "leg_degraded" is   *)
(* kept per leg, and its counter here is the sum over the legs.  There is  *)
(* no table of costs: nothing under cmd/ wires the recorder to a vendor's  *)
(* client, and only a client records a cost.                               *)
(***************************************************************************)
EXTENDS Naturals, FiniteSets

CONSTANTS
  Legs,            \* the legs of the call
  MaxUtterances,   \* bound: utterances of a leg, and flushes once it is dead
  MaxScrapes       \* bound: pages served

ASSUME RecorderAssumption == IsFiniteSet(Legs) /\ MaxUtterances \in Nat /\ MaxScrapes \in Nat

Latency == {"asr_first_chunk", "mt", "tts_first_chunk", "total"}
Event == {"asr_confidence", "translate", "tts", "leg_degraded"}

\* Where a leg is between two records of an utterance.
Place == {"hear", "timed", "asked", "answered", "failed", "tts", "speaking",
          "total", "pass", "flush", "dead", "gone"}

VARIABLES
  place,      \* where each leg is
  heard,      \* utterances of each leg so far
  degraded,   \* legState.degraded
  samples,    \* LatencyRecorder.samples: observations of each latency stage
  errors,     \* errorEvents
  totals,     \* totalEvents
  reasons,    \* reasonEvents, over all the reasons of a stage
  scraping,   \* what is done for the page next, "none" if none is asked for
  page,       \* what the tables of the page show
  scrapes     \* pages begun

recorderVars == <<place, heard, degraded, samples, errors, totals, reasons,
                  scraping, page, scrapes>>

Zero(S) == [s \in S |-> 0]

Blank == [kind |-> "none", samples |-> Zero(Latency),
          errors |-> Zero(Event), totals |-> Zero(Event), reasons |-> Zero(Event)]

RecorderInit ==
  /\ place = [l \in Legs |-> "hear"]
  /\ heard = [l \in Legs |-> 0]
  /\ degraded = [l \in Legs |-> FALSE]
  /\ samples = Zero(Latency)
  /\ errors = Zero(Event) /\ totals = Zero(Event) /\ reasons = Zero(Event)
  /\ scraping = "none"
  /\ page = Blank
  /\ scrapes = 0

-----------------------------------------------------------------------------
(* Records.                                                                *)

Record(stage) ==
  /\ samples' = [samples EXCEPT ![stage] = @ + 1]
  /\ UNCHANGED <<errors, totals, reasons>>

RecordEvent(stage) ==
  /\ totals' = [totals EXCEPT ![stage] = @ + 1]
  /\ UNCHANGED <<samples, errors, reasons>>

\* named: the error comes with a reason, such as "circuit_open".
RecordErrorReason(stage, named) ==
  /\ errors' = [errors EXCEPT ![stage] = @ + 1]
  /\ totals' = [totals EXCEPT ![stage] = @ + 1]
  /\ reasons' = IF named THEN [reasons EXCEPT ![stage] = @ + 1] ELSE reasons
  /\ UNCHANGED samples

RecordError(stage) == RecordErrorReason(stage, FALSE)

RecordNothing == UNCHANGED <<samples, errors, totals, reasons>>

\* The records a leg makes, by the names they have in fallback.go.
recordFallback(stage) == RecordError(stage)
recordFallbackErr(stage) == \E circuitOpen \in BOOLEAN : RecordErrorReason(stage, circuitOpen)
recordFallbackReason(stage) == RecordErrorReason(stage, TRUE)
recordSuccessMetric(stage) == RecordEvent(stage)
recordLatency(stage) == Record(stage)

\* No sample of an utterance whose audio was not pushed.
recordTotalIfStarted == recordLatency("total") \/ RecordNothing

-----------------------------------------------------------------------------
(* One leg: runLeg, drainDeadLeg.                                          *)

Goes(l, from, to) ==
  /\ place[l] = from
  /\ place' = [place EXCEPT ![l] = to]
  /\ UNCHANGED <<scraping, page, scrapes>>

\* A final transcript, or the end of the stream of them.
Hears(l, to) ==
  /\ Goes(l, "hear", to)
  /\ heard[l] < MaxUtterances
  /\ heard' = [heard EXCEPT ![l] = @ + 1]

HearsDegraded(l) ==
  /\ degraded[l] /\ Hears(l, "pass")
  /\ recordFallback("leg_degraded") /\ UNCHANGED degraded

HearsUnsure(l) ==
  /\ ~degraded[l] /\ Hears(l, "pass")
  /\ recordFallback("asr_confidence") /\ UNCHANGED degraded

HearsWell(l) ==
  /\ ~degraded[l] /\ Hears(l, "timed")
  /\ recordSuccessMetric("asr_confidence") /\ UNCHANGED degraded

LegDies(l) ==
  /\ Hears(l, "flush")
  /\ degraded' = [degraded EXCEPT ![l] = TRUE]
  /\ recordFallbackReason("leg_degraded")

\* No sample of an utterance whose audio was not pushed.
TimesAsr(l) ==
  /\ Goes(l, "timed", "asked") /\ UNCHANGED <<heard, degraded>>
  /\ recordLatency("asr_first_chunk") \/ RecordNothing

TimesMt(l) ==
  /\ Goes(l, "asked", "answered") /\ UNCHANGED <<heard, degraded>>
  /\ recordLatency("mt")

\* Text to speak, or none.
Translates(l) ==
  /\ Goes(l, "answered", "tts") \/ Goes(l, "answered", "hear")
  /\ recordSuccessMetric("translate") /\ UNCHANGED <<heard, degraded>>

TranslateFails(l) ==
  /\ Goes(l, "answered", "failed") /\ UNCHANGED <<heard, degraded>>
  /\ recordFallbackErr("translate")

\* recordFailure: this may be the failure that degrades the leg.
CountsFailure(l) ==
  /\ Goes(l, "failed", "pass") /\ UNCHANGED heard
  /\ \/ RecordNothing /\ UNCHANGED degraded
     \/ /\ ~degraded[l] /\ recordFallback("leg_degraded")
        /\ degraded' = [degraded EXCEPT ![l] = TRUE]

\* Refused, or stalled.
TtsFails(l) ==
  /\ Goes(l, "tts", "failed") /\ UNCHANGED <<heard, degraded>>
  /\ recordFallbackErr("tts") \/ recordFallback("tts")

TtsStarts(l) ==
  /\ Goes(l, "tts", "speaking") /\ UNCHANGED <<heard, degraded>>
  /\ recordLatency("tts_first_chunk")

\* A stream that closes without a chunk counts as a success too.
TtsEnds(l) ==
  /\ Goes(l, "speaking", "total") \/ Goes(l, "tts", "total")
  /\ recordSuccessMetric("tts") /\ UNCHANGED <<heard, degraded>>

\* The utterance is over; after "flush" the leg is drained on, dead.
TimesTotal(l) ==
  /\ Goes(l, "total", "hear") \/ Goes(l, "pass", "hear") \/ Goes(l, "flush", "dead")
  /\ recordTotalIfStarted
  /\ UNCHANGED <<heard, degraded>>

FlushesDead(l) ==
  /\ Goes(l, "dead", "flush") /\ heard[l] < MaxUtterances
  /\ heard' = [heard EXCEPT ![l] = @ + 1]
  /\ recordFallbackReason("leg_degraded") /\ UNCHANGED degraded

\* The session closes: no more transcripts, or the send is given up.
Leaves(l) ==
  /\ \E from \in {"hear", "tts", "speaking", "pass", "flush", "dead"} : Goes(l, from, "gone")
  /\ RecordNothing /\ UNCHANGED <<heard, degraded>>

LegStep(l) ==
  \/ HearsDegraded(l) \/ HearsUnsure(l) \/ HearsWell(l) \/ LegDies(l)
  \/ TimesAsr(l) \/ TimesMt(l) \/ Translates(l) \/ TranslateFails(l)
  \/ CountsFailure(l) \/ TtsFails(l) \/ TtsStarts(l) \/ TtsEnds(l)
  \/ TimesTotal(l) \/ FlushesDead(l) \/ Leaves(l)

-----------------------------------------------------------------------------
(* A request to the dashboard.  WriteText reads the samples, then the       *)
(* events, then the reasons; BuildDashboardData the events, the reasons,    *)
(* then the samples; each under a lock of its own.                         *)

Reads(from, to) ==
  /\ scraping = from
  /\ scraping' = to
  /\ UNCHANGED <<place, heard, degraded, samples, errors, totals, reasons>>

Begins(table) ==
  /\ Reads("none", table) /\ scrapes < MaxScrapes
  /\ scrapes' = scrapes + 1

ReadsSamples == page' = [page EXCEPT !.samples = samples]
ReadsEvents == page' = [page EXCEPT !.errors = errors, !.totals = totals]
ReadsReasons == page' = [page EXCEPT !.reasons = reasons]

\* Mutant: the samples are read once the events have been.
TextSamplesLate ==
  \/ Begins("text events") /\ page' = [page EXCEPT !.kind = "text"]
  \/ Reads("text reasons", "served") /\ ReadsSamples /\ UNCHANGED scrapes

\* Snapshot.
TextSamples ==
  /\ Begins("text events")
  /\ page' = [page EXCEPT !.kind = "text", !.samples = samples]

\* ErrorSnapshot.
TextEvents == Reads("text events", "text reasons") /\ ReadsEvents /\ UNCHANGED scrapes

\* ReasonSnapshot.
TextReasons == Reads("text reasons", "served") /\ ReadsReasons /\ UNCHANGED scrapes

DataEvents ==
  /\ Begins("data reasons")
  /\ page' = [page EXCEPT !.kind = "data", !.errors = errors, !.totals = totals]

DataReasons == Reads("data reasons", "data samples") /\ ReadsReasons /\ UNCHANGED scrapes

\* Count and Percentile of every stage of Stages, each under the lock again; the
\* page relates no two of them.
DataSamples == Reads("data samples", "served") /\ ReadsSamples /\ UNCHANGED scrapes

\* The page is written out.
Serves == Reads("served", "none") /\ page' = Blank /\ UNCHANGED scrapes

Scrape ==
  \/ TextSamples \/ TextEvents \/ TextReasons
  \/ DataEvents \/ DataReasons \/ DataSamples
  \/ Serves

RecorderNext == (\E l \in Legs : LegStep(l)) \/ Scrape

RecorderSpec == RecorderInit /\ [][RecorderNext]_recorderVars

-----------------------------------------------------------------------------
(* Properties.                                                             *)

Succeeded(f, e, stage) == f[stage] - e[stage]

\* What goes into a stage has come out of the stage before it.
EventsAddUp(e, t) ==
  /\ \A stage \in Event : e[stage] <= t[stage]
  /\ t["translate"] <= Succeeded(t, e, "asr_confidence")
  /\ t["tts"] <= Succeeded(t, e, "translate")

\* No duration is shown of a call that is not shown.
SamplesAddUp(n, e, t) ==
  /\ n["asr_first_chunk"] <= Succeeded(t, e, "asr_confidence")
  /\ n["mt"] <= Succeeded(t, e, "asr_confidence")
  /\ n["tts_first_chunk"] <= Succeeded(t, e, "translate")

\* The reasons are read after the errors, and may be ahead of them; they are
\* never ahead of the errors recorded by now.
ReasonsAddUp(r, e) == \A stage \in Event : r[stage] <= e[stage]

\* A page adds up although legs record while it is read: no stage shows more
\* calls than successes of the stage before it and, on the text page, whose
\* samples are the older, none more samples than calls, and no reason of an
\* error that is not counted (runLeg's records in session.go; WriteText's and
\* BuildDashboardData's snapshots).
PageAddsUp ==
  scraping = "served" =>
    /\ EventsAddUp(page.errors, page.totals)
    /\ ReasonsAddUp(page.reasons, errors)
    /\ page.kind = "text" => SamplesAddUp(page.samples, page.errors, page.totals)

=============================================================================
