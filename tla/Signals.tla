------------------------------- MODULE Signals -------------------------------
(***************************************************************************)
(* What the project computes of sound and of time: the A-law code of a     *)
(* sample (pkg/webrtcgw/alaw.go), the silence a voice detector waits for   *)
(* (pkg/langstream/vad.go) and the delay before a retry (backoff.go of     *)
(* asr, translate and tts).                                                *)
(*                                                                         *)
(* A root mean square is compared by its square.  The inversion of every   *)
(* other bit of an A-law byte maps bytes to bytes and is left out.  A      *)
(* delay is in milliseconds, and far from the width of a Duration after    *)
(* the twenty doublings it is held to.                                     *)
(***************************************************************************)
EXTENDS Integers, Sequences

CONSTANTS
  Stride,       \* from one sample of 16 bits to the next that is coded
  SampleRate,   \* of the frames a voice detector hears
  Amplitudes,   \* the samples of those frames
  Threshold,    \* VAD.Threshold
  SilenceHold,  \* silenceHoldMS
  MaxFrameSize, \* bound: samples of a frame
  MaxHeard,     \* bound: frames in a row without speech
  Delays,       \* the base and the cap of the delays of a client
  MaxRetries    \* bound: retries in a row

ASSUME SizesAssumption ==
  /\ MaxFrameSize \in Nat /\ MaxHeard \in Nat /\ MaxRetries \in Nat
  /\ Stride \in Nat \ {0} /\ SampleRate \in Nat \ {0}
  /\ Threshold \in Nat \ {0} /\ SilenceHold \in Nat \ {0}
ASSUME AmplitudesAssumption == Amplitudes \subseteq -32768 .. 32767
\* A client's delays are at their cap after the twenty doublings at the latest, as those
\* of every vendor are after five.
ASSUME DelaysAssumption ==
  \A d \in Delays : /\ d.base \in Nat \ {0} /\ d.cap \in Nat
                    /\ d.base <= d.cap /\ d.cap <= d.base * 2^20

VARIABLES
  pcm,         \* a sample
  silenceMS,   \* UtteranceBoundaryTracker.silenceMS
  unvoiced,    \* the frames, and their samples, since there was speech or a reset
  boundary,    \* what Observe returned last
  delay,       \* the base and the cap of this client
  attempt      \* its next retry, from 0

silenceVars == <<silenceMS, unvoiced, boundary>>
delayVars == <<delay, attempt>>
signalsVars == <<pcm, silenceVars, delayVars>>

-----------------------------------------------------------------------------
(* The A-law code: a sign, an exponent and a mantissa.                     *)

\* 1 << n.
Bit(n) == 2^n

Code == [sign : 0 .. 1, exponent : 0 .. 7, mantissa : 0 .. 15]

\* alawDecodeByte.
Expanded(exponent, mantissa) ==
  IF exponent = 0 THEN mantissa * 16 + 8 ELSE (mantissa * 16 + 264) * Bit(exponent - 1)

Decode(code) ==
  LET magnitude == Expanded(code.exponent, code.mantissa)
  IN  IF code.sign = 0 THEN -magnitude ELSE magnitude

\* alawEncodeSample: the highest bit above bit 7, and the four bits below it.
HighestBit(m, e) == m \div Bit(e + 7) = 1
Segment(m) == CHOOSE e \in 1 .. 7 : HighestBit(m, e)
Exponent(m) == IF m < 256 THEN 0 ELSE Segment(m)
Mantissa(m, e) == (m \div Bit(IF e = 0 THEN 4 ELSE e + 3)) % 16
Clipped(m) == IF m > 32635 THEN 32635 ELSE m

Encode(s) ==
  LET magnitude == Clipped(IF s < 0 THEN -s - 1 ELSE s)
      exponent == Exponent(magnitude)
  IN  [sign |-> IF s < 0 THEN 0 ELSE 1, exponent |-> exponent,
       mantissa |-> Mantissa(magnitude, exponent)]

-----------------------------------------------------------------------------
(* The voice detector.                                                     *)

SumOfSquares(frame) ==
  LET sum[n \in 0 .. Len(frame)] == IF n = 0 THEN 0 ELSE sum[n - 1] + frame[n] * frame[n]
  IN  sum[Len(frame)]

\* RMS(pcm) > Threshold; an empty frame is silence.
IsSpeech(frame) == SumOfSquares(frame) > Len(frame) * Threshold * Threshold

frameDurationMS(frame) == (Len(frame) * 1000) \div SampleRate

-----------------------------------------------------------------------------
(* reconnectBackoff, retryBackoff.                                         *)

Doublings(n) == IF n > 20 THEN 20 ELSE n

\* The delay before retry n, jitter left out.
Backoff(d, n) ==
  LET doubled == d.base * Bit(Doublings(n)) IN IF doubled > d.cap THEN d.cap ELSE doubled

\* With up to a fifth of it as jitter.
BackoffDelays(d, n) == Backoff(d, n) .. Backoff(d, n) + Backoff(d, n) \div 5

-----------------------------------------------------------------------------
(* The inputs.                                                             *)

SignalsInit ==
  /\ pcm = -32768
  /\ silenceMS = 0 /\ unvoiced = [frames |-> 0, samples |-> 0] /\ boundary = FALSE
  /\ delay \in Delays /\ attempt = 0

TakesSample ==
  /\ pcm + Stride <= 32767
  /\ pcm' = pcm + Stride
  /\ UNCHANGED <<silenceVars, delayVars>>

\* UtteranceBoundaryTracker.ObserveFrame.
Observe ==
  /\ unvoiced.frames < MaxHeard
  /\ \E n \in 0 .. MaxFrameSize : \E frame \in [1 .. n -> Amplitudes] :
       \/ /\ IsSpeech(frame)
          /\ silenceMS' = 0 /\ boundary' = FALSE
          /\ unvoiced' = [frames |-> 0, samples |-> 0]
       \/ /\ ~IsSpeech(frame)
          /\ silenceMS' = silenceMS + frameDurationMS(frame)
          /\ boundary' = (silenceMS' >= SilenceHold)
          /\ unvoiced' = [frames |-> unvoiced.frames + 1, samples |-> unvoiced.samples + n]
  /\ UNCHANGED <<pcm, delayVars>>

\* The caller has acted on a boundary.
Reset ==
  /\ boundary
  /\ silenceMS' = 0 /\ boundary' = FALSE /\ unvoiced' = [frames |-> 0, samples |-> 0]
  /\ UNCHANGED <<pcm, delayVars>>

Retries ==
  /\ attempt < MaxRetries
  /\ attempt' = attempt + 1
  /\ UNCHANGED <<pcm, silenceVars, delay>>

SignalsNext == TakesSample \/ Observe \/ Reset \/ Retries

SignalsSpec == SignalsInit /\ [][SignalsNext]_signalsVars

-----------------------------------------------------------------------------
(* Properties.                                                             *)

\* Half of the distance of two samples of a segment.
HalfStep(exponent) == IF exponent = 0 THEN 8 ELSE Bit(exponent + 2)

\* A sample comes back within half a step of its segment, and what comes back
\* has the same code: audio coded twice is not worse.
AudioMeasured ==
  LET code == Encode(pcm)
      back == Decode(code)
      half == HalfStep(code.exponent)
  IN  /\ code \in Code
      /\ back - pcm \in -half .. half
      /\ Encode(back) = code

\* An utterance never ends before the silence has lasted, and ends at the latest
\* when each frame of it may have lost the fraction of a millisecond.
SilenceMeasured ==
  LET lasted(ms) == unvoiced.samples * 1000 >= ms * SampleRate IN
  /\ boundary => lasted(SilenceHold)
  /\ unvoiced.frames > 0 /\ lasted(SilenceHold + unvoiced.frames) => boundary

\* A retry never comes sooner after its failure than the retry before it did
\* after its own, until the delays are at their cap.
DelaysMeasured ==
  /\ \A d \in BackoffDelays(delay, attempt) : delay.base <= d /\ 5 * d <= 6 * delay.cap
  /\ \A n \in 0 .. attempt - 1 :
       \/ Backoff(delay, attempt) = delay.cap
       \/ \A d \in BackoffDelays(delay, n) : d <= Backoff(delay, attempt)

\* Sound and time are what they claim to be (alaw.go, vad.go, backoff.go).
SignalsMeasured == AudioMeasured /\ SilenceMeasured /\ DelaysMeasured

=============================================================================
