-------------------------------- MODULE Timing --------------------------------
(***************************************************************************)
(* curl's times to phases, and percentiles of samples: what the server     *)
(* (internal/timing), the dashboard (web/static/app.js) and the script     *)
(* (scripts/vm-bench.sh) compute, each with code of its own.               *)
(*                                                                         *)
(* Times are whole microseconds, the resolution of curl's report: the      *)
(* roundings to a thousandth of a millisecond change nothing.  Percentiles *)
(* are scaled by 100, so that an interpolated one is a whole number too.   *)
(***************************************************************************)
EXTENDS Integers, FiniteSets, SequencesExt

\* curl's report; appconnect is 0 when there was no TLS handshake.
CurlTimes == [lookup: Nat, connect: Nat, appconnect: Nat, pretransfer: Nat,
              starttransfer: Nat, redirect: Nat, total: Nat]

secondsToMs(t) == IF t <= 0 THEN 0 ELSE t

delta(end, start) == IF end - start < 0 THEN 0 ELSE end - start

tlsDelta(appconnect, connect) == IF appconnect <= 0 THEN 0 ELSE delta(appconnect, connect)

PhasesFromCurl(t) ==
  LET lookup  == secondsToMs(t.lookup)
      connect == secondsToMs(t.connect)
      start   == secondsToMs(t.starttransfer)
      total   == secondsToMs(t.total)
  IN  [dns      |-> lookup,
       tcp      |-> delta(connect, lookup),
       tls      |-> tlsDelta(secondsToMs(t.appconnect), connect),
       redirect |-> secondsToMs(t.redirect),
       ttfb     |-> delta(start, secondsToMs(t.pretransfer)),
       transfer |-> delta(total, start),
       total    |-> total]

\* The script's own translation of the same report.
curl_phases_ms(t) ==
  [tls   |-> IF t.appconnect > 0 /\ t.appconnect > t.connect THEN t.appconnect - t.connect ELSE 0,
   tcp   |-> IF t.connect > t.lookup THEN t.connect - t.lookup ELSE 0,
   total |-> t.total]

-----------------------------------------------------------------------------
(***************************************************************************)
(* Percentiles of a sorted sequence that is not empty.                     *)
(***************************************************************************)
Between(s, lower, upper, weight) == s[lower + 1] * (100 - weight) + s[upper + 1] * weight

\* stats.go: an upper rank behind the last one gives the last value.
goPercentile(s, p) ==
  LET rank  == p * (Len(s) - 1)
      lower == rank \div 100
  IN  IF Len(s) = 1 THEN 100 * s[1]
      ELSE IF lower + 1 >= Len(s) THEN 100 * s[Len(s)]
      ELSE Between(s, lower, lower + 1, rank % 100)

\* app.js: the upper rank is cut to the last one.
jsPercentile(s, p) ==
  LET rank  == p * (Len(s) - 1)
      lower == rank \div 100
      upper == IF lower + 1 < Len(s) - 1 THEN lower + 1 ELSE Len(s) - 1
  IN  IF Len(s) = 1 THEN 100 * s[1] ELSE Between(s, lower, upper, rank % 100)

\* vm-bench.sh.
pct(s, p) ==
  LET rank == p * (Len(s) - 1)
      lo   == rank \div 100
      hi   == IF lo + 1 <= Len(s) - 1 THEN lo + 1 ELSE Len(s) - 1
  IN  IF Len(s) = 1 THEN 100 * s[1] ELSE Between(s, lo, hi, rank % 100)

(***************************************************************************)
(* Stable sorting of the places in S by what key has at them: the place of *)
(* rank r has r others before it.                                          *)
(***************************************************************************)
Precedes(key, i, j) == key[i] < key[j] \/ (key[i] = key[j] /\ i < j)

Rank(S, key, i) == Cardinality({j \in S : Precedes(key, j, i)})

Ordered(S, key) == [k \in 1..Cardinality(S) |-> CHOOSE i \in S : Rank(S, key, i) = k - 1]

(***************************************************************************)
(* Summaries: the samples that are not zero, sorted.  The mean is kept as  *)
(* the sum it divides.                                                     *)
(***************************************************************************)
Positive(samples) == {i \in DOMAIN samples : samples[i] > 0}

positive(samples) ==
  LET order == Ordered(Positive(samples), samples)
  IN  [k \in DOMAIN order |-> samples[order[k]]]

Total(s) == FoldSeq(+, 0, s)

NoSamples == [count |-> 0, min |-> 0, max |-> 0, sum |-> 0, p50 |-> 0, p90 |-> 0, p99 |-> 0]

SummaryOf(s, Percentile(_, _)) ==
  IF s = <<>> THEN NoSamples
  ELSE [count |-> Len(s), min |-> s[1], max |-> s[Len(s)], sum |-> Total(s),
        p50 |-> Percentile(s, 50), p90 |-> Percentile(s, 90), p99 |-> Percentile(s, 99)]

\* stats.go.
Summarize(samples) == SummaryOf(positive(samples), goPercentile)

\* vm-bench.sh, which prints {} when there are no samples.
percentile_summary(samples) == SummaryOf(positive(samples), pct)

\* app.js, which shows less.
summarize(samples) ==
  LET s == SummaryOf(positive(samples), jsPercentile)
  IN  [count |-> s.count, p50 |-> s.p50, p99 |-> s.p99]

-----------------------------------------------------------------------------
(***************************************************************************)
(* What a percentile is, without sorting: of the samples that are not      *)
(* zero, the value of rank r (from 0) has at most r smaller ones and more  *)
(* than r up to it; between two ranks one interpolates.                    *)
(***************************************************************************)
HasRank(v, s, r) ==
  /\ Cardinality({i \in Positive(s) : s[i] < v}) <= r
  /\ Cardinality({i \in Positive(s) : s[i] <= v}) > r

IsPercentile(q, s, p) ==
  LET rank  == p * (Cardinality(Positive(s)) - 1)
      lower == rank \div 100
  IN  \E i, j \in Positive(s) :
        /\ HasRank(s[i], s, lower)
        /\ IF rank % 100 = 0 THEN j = i ELSE HasRank(s[j], s, lower + 1)
        /\ q = 100 * s[i] + (rank % 100) * (s[j] - s[i])

IsSummary(sum, s) ==
  /\ sum.count = Cardinality(Positive(s))
  /\ Positive(s) # {} =>
       /\ \E i, j \in Positive(s) : sum.min = s[i] /\ sum.max = s[j]
       /\ \A i \in Positive(s) : s[i] \in sum.min..sum.max
       /\ IsPercentile(sum.p50, s, 50) /\ IsPercentile(sum.p90, s, 90)
       /\ IsPercentile(sum.p99, s, 99)
=============================================================================
