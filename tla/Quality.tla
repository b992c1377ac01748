------------------------------- MODULE Quality -------------------------------
(***************************************************************************)
(* The measures the project judges itself by, over inputs that grow: the    *)
(* word error rate (pkg/qa/wer.go) and the n-gram matches of the BLEU score *)
(* (bleu.go) of two sentences, the percentile of a set of latencies         *)
(* (pkg/observability/metrics.go), and what Signals computes.               *)
(*                                                                         *)
(* Divisions are left to the reader: a rate is the pair of its terms, and a *)
(* percentile is a hundred times itself.                                   *)
(***************************************************************************)
EXTENDS Signals, FiniteSetsExt

CONSTANTS
  Words,        \* the words of a sentence
  MaxWords,     \* bound: words of a sentence
  Millis,       \* latencies
  MaxSamples    \* bound: latencies recorded

ASSUME QualityAssumption == MaxWords \in Nat /\ MaxSamples \in Nat /\ Millis \subseteq Nat

VARIABLES
  measured,    \* what is measured: "sentences", "latencies", "audio", "silence"
               \* or "delays"
  ref,         \* the reference, a sequence of words
  hyp,         \* the hypothesis of a recogniser, the candidate of a translator
  values       \* the latencies of a stage, as recorded

sentenceVars == <<ref, hyp>>
qualityVars == <<measured, sentenceVars, values, signalsVars>>

-----------------------------------------------------------------------------
(* wordErrorRate.                                                          *)

\* min3.
Least(a, b, c) == Min({a, b, c})

\* Mutant: a substitution costs as much as a deletion and an insertion.
EntryWithoutSub(r, h, dp, i, j) ==
  IF i = 0 \/ j = 0 THEN i + j
  ELSE IF r[i] = h[j] THEN dp[<<i - 1, j - 1>>]
  ELSE Least(dp[<<i - 1, j - 1>>] + 2, dp[<<i - 1, j>>] + 1, dp[<<i, j - 1>>] + 1)

\* dp[i][j], from the entries above and left of it.
Entry(r, h, dp, i, j) ==
  IF i = 0 \/ j = 0 THEN i + j
  ELSE IF r[i] = h[j] THEN dp[<<i - 1, j - 1>>]
  ELSE Least(dp[<<i - 1, j - 1>>] + 1, dp[<<i - 1, j>>] + 1, dp[<<i, j - 1>>] + 1)

Places(r, h) == (0 .. Len(r)) \X (0 .. Len(h))

\* dp[n][m].
Distance(r, h) ==
  LET dp[x \in Places(r, h)] == Entry(r, h, dp, x[1], x[2])
  IN  dp[<<Len(r), Len(h)>>]

Rate(num, den) == [num |-> num, den |-> den]

WordErrorRate(r, h) ==
  IF r = <<>> THEN IF h = <<>> THEN Rate(0, 1) ELSE Rate(1, 1)
  ELSE Rate(Distance(r, h), Len(r))

-----------------------------------------------------------------------------
(* bleuScore.                                                              *)

Gram(s, n, i) == SubSeq(s, i, i + n - 1)
Starts(s, n) == {i \in 1 .. Len(s) : i + n - 1 <= Len(s)}

\* nGramCounts.
NGramCount(s, n, gram) == Cardinality({i \in Starts(s, n) : Gram(s, n, i) = gram})

\* clippedNGramMatches.
ClippedMatches(r, c, n) ==
  MapThenSumSet(LAMBDA gram : Min({NGramCount(c, n, gram), NGramCount(r, n, gram)}),
                {Gram(c, n, i) : i \in Starts(c, n)})

\* The orders that count, and their precisions.
Orders(c) == 1 .. Min({4, Len(c)})
Precision(r, c, n) == Rate(ClippedMatches(r, c, n), Len(c) - n + 1)

\* The geometric mean of the precisions, and the brevity penalty, are both 1.
ScoreIsOne(r, c) ==
  IF r = <<>> THEN c = <<>>
  ELSE /\ c # <<>>
       /\ \A n \in Orders(c) : Precision(r, c, n).num = Precision(r, c, n).den
       /\ Len(c) >= Len(r)

-----------------------------------------------------------------------------
(* percentile, linear between the closest ranks.                           *)

\* sort.Float64s: the k-th value has k - 1 before it.
Before(vs, i) == {j \in DOMAIN vs : vs[j] < vs[i] \/ (vs[j] = vs[i] /\ j < i)}
Ranked(vs, k) == CHOOSE i \in DOMAIN vs : Cardinality(Before(vs, i)) = k - 1
Sorted(vs) == [k \in DOMAIN vs |-> vs[Ranked(vs, k)]]

\* A hundred times the p-th percentile of n >= 1 values.
Percentile(vs, p) ==
  LET s == Sorted(vs)
      n == Len(vs)
      rank == p * (n - 1)
      lower == rank \div 100
      upper == IF rank % 100 = 0 THEN lower ELSE lower + 1
      frac == rank % 100
  IN  s[lower + 1] * (100 - frac) + s[upper + 1] * frac

-----------------------------------------------------------------------------
(* The inputs.                                                             *)

QualityInit ==
  /\ measured \in {"sentences", "latencies", "audio", "silence", "delays"}
  /\ ref = <<>> /\ hyp = <<>> /\ values = <<>>
  /\ SignalsInit

\* The reference first, then the hypothesis.
AddsWord ==
  /\ measured = "sentences"
  /\ \E w \in Words :
       \/ hyp = <<>> /\ Len(ref) < MaxWords /\ ref' = Append(ref, w) /\ UNCHANGED hyp
       \/ Len(hyp) < MaxWords /\ hyp' = Append(hyp, w) /\ UNCHANGED ref
  /\ UNCHANGED <<measured, values, signalsVars>>

AddsLatency ==
  /\ measured = "latencies" /\ Len(values) < MaxSamples
  /\ \E ms \in Millis : values' = Append(values, ms)
  /\ UNCHANGED <<measured, sentenceVars, signalsVars>>

SignalStep ==
  /\ \/ measured = "audio" /\ TakesSample
     \/ measured = "silence" /\ (Observe \/ Reset)
     \/ measured = "delays" /\ Retries
  /\ UNCHANGED <<measured, sentenceVars, values>>

QualityNext == AddsWord \/ AddsLatency \/ SignalStep

QualitySpec == QualityInit /\ [][QualityNext]_qualityVars

-----------------------------------------------------------------------------
(* Properties.                                                             *)

\* Pairs of places, each place in one pair at most.
Matchings(S) ==
  {A \in SUBSET S : \A x, y \in A : x[1] = y[1] <=> x[2] = y[2]}

\* Alignments of two sentences: the pairs do not cross.
Alignments(r, h) ==
  {A \in Matchings((1 .. Len(r)) \X (1 .. Len(h))) :
     \A x, y \in A : x[1] < y[1] <=> x[2] < y[2]}

\* Words in a pair that differ are substituted, words in none are inserted or
\* deleted.
Edits(r, h, A) ==
  Cardinality({x \in A : r[x[1]] # h[x[2]]}) + (Len(r) - Cardinality(A)) + (Len(h) - Cardinality(A))

EqualGrams(r, c, n) ==
  {x \in Starts(r, n) \X Starts(c, n) : Gram(r, n, x[1]) = Gram(c, n, x[2])}

\* The table of wordErrorRate finds the fewest edits; the clipped matches are
\* what can be matched one to one; the score is 1 for the reference itself and,
\* among the candidates of up to four words, for nothing else.
SentencesMeasured ==
  /\ Distance(ref, hyp) = Min({Edits(ref, hyp, A) : A \in Alignments(ref, hyp)})
  /\ WordErrorRate(ref, hyp).num = 0 <=> ref = hyp
  /\ \A n \in Orders(hyp) :
       ClippedMatches(ref, hyp, n) = Max({Cardinality(A) : A \in Matchings(EqualGrams(ref, hyp, n))})
  /\ ref = hyp => ScoreIsOne(ref, hyp)
  /\ Len(hyp) <= 4 /\ ScoreIsOne(ref, hyp) => ref = hyp

\* A percentile has enough latencies on either side of it, and a higher one is
\* not lower.
LatenciesMeasured ==
  values # <<>> =>
    /\ \A p \in {50, 90, 95, 99} :
         LET below == {i \in DOMAIN values : 100 * values[i] <= Percentile(values, p)}
             above == {i \in DOMAIN values : 100 * values[i] >= Percentile(values, p)}
         IN  /\ 100 * Cardinality(below) >= p * (Len(values) - 1)
             /\ 100 * Cardinality(above) >= (100 - p) * (Len(values) - 1)
    /\ \A p, q \in {50, 90, 95, 99} : p < q => Percentile(values, p) <= Percentile(values, q)

\* Every measure is what it claims to be.
Measures ==
  /\ measured = "sentences" => SentencesMeasured
  /\ measured = "latencies" => LatenciesMeasured
  /\ measured \in {"audio", "silence", "delays"} => SignalsMeasured

=============================================================================
