-------------------------------- MODULE VMBench -------------------------------
(***************************************************************************)
(* One run of scripts/vm-bench.sh, from its command line to the summary it *)
(* prints, against a server that records every request.                    *)
(*                                                                         *)
(* BenchSession has several scripts beside each other and the ways in      *)
(* which a sample can be lost; here there is one, with its options, its    *)
(* arrays of samples and its percentiles.  A request is recorded and       *)
(* answered in one step.  The script's experiment id is its own.           *)
(***************************************************************************)
EXTENDS SharedLog

CONSTANTS
  Setups,         \* command lines it may be called with, and what curl then measures
  RepeatDefault,  \* samples of --handshake-only (30 in the script)
  WarmupDefault,  \* warmup samples where none are asked for (3 in the script)
  Curl            \* the reports of each series, for requests that open a connection

CommandLine == [only: BOOLEAN, reuse: BOOLEAN, http11: BOOLEAN, http2: BOOLEAN,
                repeat: Nat, warmup: Nat]

ASSUME VMBenchAssumption ==
  /\ Setups \subseteq [opt: CommandLine, series: DOMAIN Curl]
  /\ RepeatDefault \in Nat \ {0} /\ WarmupDefault \in Nat \ {0}
  /\ \A s \in DOMAIN Curl : \A i \in DOMAIN Curl[s] : Curl[s][i] \in CurlTimes

VARIABLES
  opt,      \* the command line
  series,   \* what curl measures in this run
  opener,   \* the streams of --reuse that opened a connection
  pc, at,   \* where the script is, and at which of its requests
  TLS_HS_SAMPLES, TCP_SAMPLES, TOTAL_SAMPLES,  \* requests whose values they hold
  printed   \* the three summaries, once they are printed

arrays == <<TLS_HS_SAMPLES, TCP_SAMPLES, TOTAL_SAMPLES>>
script == <<opt, series, opener, pc, at, arrays, printed>>

(***************************************************************************)
(* The command line: 0 is an option that was not given.                    *)
(***************************************************************************)
Repeat(o) == IF o.repeat # 0 THEN o.repeat ELSE IF o.only THEN RepeatDefault ELSE 1

Warmup(o) ==
  IF o.only /\ o.reuse THEN 0
  ELSE IF o.warmup > 0 THEN o.warmup
  ELSE IF o.only \/ Repeat(o) > 1 THEN WarmupDefault ELSE 0

\* curl reports on every request.
ASSUME CurlAssumption ==
  \A s \in Setups : 1..(Warmup(s.opt) + Repeat(s.opt) + 1) \subseteq DOMAIN Curl[s.series]

Refused(o) ==
  \/ o.http11 /\ o.http2
  \/ o.reuse /\ (~o.only \/ o.http11)
  \/ o.only /\ ~o.reuse /\ ~o.http11 /\ ~o.http2

\* One upload and one download, without a summary.
Single(o) == ~o.only /\ Repeat(o) = 1 /\ Warmup(o) = 0

TOTAL_ITERS == Warmup(opt) + Repeat(opt)

(***************************************************************************)
(* The requests: the samples, and a download after those of uploads.       *)
(***************************************************************************)
Experiment == 1
BlobName == 1
probeName(idx) == 100 * Experiment + idx

Op(k) == IF opt.only THEN "handshake" ELSE IF k <= TOTAL_ITERS THEN "upload" ELSE "download"
Idx(k) == IF k <= TOTAL_ITERS THEN k ELSE 1

DraftOf(k) == [op |-> Op(k), name |-> IF opt.only THEN probeName(k) ELSE BlobName,
               exp |-> Experiment, idx |-> Idx(k)]

\* Of the streams of --reuse only one that opened a connection has connected and
\* shaken hands.
TimesOf(k) ==
  LET t == Curl[series][k]
  IN  IF opt.reuse /\ k \notin opener
      THEN [t EXCEPT !.connect = t.lookup, !.appconnect = 0] ELSE t

PostOf(k) == [op |-> Op(k), name |-> probeName(Idx(k)), exp |-> Experiment, idx |-> Idx(k),
              phases |-> k, hs |-> PhasesFromCurl(TimesOf(k)).tls]

-----------------------------------------------------------------------------
ScriptInit ==
  /\ \E s \in Setups : opt = s.opt /\ series = s.series
  /\ opener = {} /\ pc = "start" /\ at = 1
  /\ TLS_HS_SAMPLES = <<>> /\ TCP_SAMPLES = <<>> /\ TOTAL_SAMPLES = <<>>
  /\ printed = <<>>

Start ==
  /\ pc = "start"
  /\ pc' = IF Refused(opt) THEN "refused" ELSE "ask"
  /\ UNCHANGED <<table, opt, series, opener, at, arrays, printed>>

Ask ==
  /\ pc = "ask" /\ ~opt.reuse
  /\ table' = Append(table, Stamp(DraftOf(at), Len(table) + 1))
  /\ pc' = "post"
  /\ UNCHANGED <<opt, series, opener, at, arrays, printed>>

\* Mutation: the connections are not counted.
Bug_multiplex_timing_rows(h2, opened) == h2

\* The streams came over HTTP/2, over one connection.
multiplex_timing_rows(h2, opened) ==
  /\ h2
  /\ Repeat(opt) > 1 => Cardinality(opened) = 1

\* curl sends all the streams, in one connection or more; the handlers record them in
\* any order.  Over HTTP/1.1 each request has a connection of its own, and without TLS
\* the server speaks no HTTP/2.
AskAll ==
  /\ pc = "ask" /\ opt.reuse
  /\ \E order \in [1..Repeat(opt) -> 1..Repeat(opt)] :
       /\ \A i, j \in DOMAIN order : order[i] = order[j] => i = j
       /\ table' = table \o [i \in DOMAIN order |-> Stamp(DraftOf(order[i]), Len(table) + i)]
  /\ \E h2 \in BOOLEAN, opened \in SUBSET (1..Repeat(opt)) \ {{}} :
       /\ ~h2 => opened = 1..Repeat(opt)
       /\ h2 => \A k \in opened : Curl[series][k].appconnect > 0
       /\ opener' = opened
       /\ pc' = IF multiplex_timing_rows(h2, opened) THEN "post" ELSE "failed"
  /\ UNCHANGED <<opt, series, at, arrays, printed>>

\* Values that are zero are left out, and so are all of a single upload or download.
record_sample(k) ==
  LET p == curl_phases_ms(TimesOf(k))
      Add(array, v) == IF v # 0 /\ Op(k) # "download" /\ ~Single(opt)
                       THEN Append(array, k) ELSE array
  IN  /\ TLS_HS_SAMPLES' = Add(TLS_HS_SAMPLES, p.tls)
      /\ TCP_SAMPLES' = Add(TCP_SAMPLES, p.tcp)
      /\ TOTAL_SAMPLES' = Add(TOTAL_SAMPLES, p.total)

\* Mutation: the loop of the samples ends one early.
Bug_GoOn ==
  /\ pc' = CASE at > TOTAL_ITERS                    -> "done"
             [] at = TOTAL_ITERS /\ Single(opt)     -> "ask"
             [] at = TOTAL_ITERS /\ ~Single(opt)    -> "print"
             [] OTHER                               -> IF opt.reuse THEN "post" ELSE "ask"
  /\ at' = at + 1

\* The next sample; after the last one the summary, or the single download.
GoOn ==
  /\ pc' = CASE at > TOTAL_ITERS                    -> "done"
             [] at = TOTAL_ITERS /\ Single(opt)     -> "ask"
             [] at = TOTAL_ITERS /\ ~Single(opt)    -> "print"
             [] OTHER                               -> IF opt.reuse THEN "post" ELSE "ask"
  /\ at' = IF at > TOTAL_ITERS THEN at ELSE at + 1

\* submit_timings and record_sample.  The status of the post is not looked at.
PostTimings ==
  LET found == Matches(table, PostOf(at)) IN
  /\ pc = "post"
  /\ table' = IF Cardinality(found) = 1
              THEN Merged(table, CHOOSE k \in found : TRUE, PostOf(at)) ELSE table
  /\ record_sample(at) /\ GoOn
  /\ UNCHANGED <<opt, series, opener, printed>>

\* Mutation: the last values are cut.
Bug_Measured(array) == SubSeq(array, 1, Len(array) - Warmup(opt))

\* The first WARMUP values of an array are cut.
Measured(array) == SubSeq(array, Warmup(opt) + 1, Len(array))

Values(array, metric) == [i \in DOMAIN array |-> curl_phases_ms(TimesOf(array[i]))[metric]]

PrintSummary ==
  /\ pc = "print"
  /\ TLS_HS_SAMPLES' = Measured(TLS_HS_SAMPLES)
  /\ TCP_SAMPLES' = Measured(TCP_SAMPLES)
  /\ TOTAL_SAMPLES' = Measured(TOTAL_SAMPLES)
  /\ printed' = <<percentile_summary(Values(TLS_HS_SAMPLES', "tls")),
                  percentile_summary(Values(TCP_SAMPLES', "tcp")),
                  percentile_summary(Values(TOTAL_SAMPLES', "total"))>>
  /\ pc' = IF opt.only THEN "done" ELSE "ask"
  /\ UNCHANGED <<table, opt, series, opener, at>>

\* curl cannot reach the server: set -e.
Break ==
  /\ pc \in {"ask", "post"}
  /\ pc' = "failed"
  /\ UNCHANGED <<table, opt, series, opener, at, arrays, printed>>

ScriptNext == Start \/ Ask \/ AskAll \/ PostTimings \/ PrintSummary \/ Break

-----------------------------------------------------------------------------
ScriptTypeOK ==
  /\ [opt |-> opt, series |-> series] \in Setups
  /\ opener \subseteq 1..Repeat(opt)
  /\ pc \in {"start", "refused", "ask", "post", "print", "done", "failed"}
  /\ at \in 1..(TOTAL_ITERS + 1)
  /\ \A array \in {TLS_HS_SAMPLES, TCP_SAMPLES, TOTAL_SAMPLES} : array \in Seq(1..TOTAL_ITERS)
  /\ Len(printed) \in {0, 3}

\* What the server derives from the reports of the measured samples.
StudyValues(metric) ==
  [i \in 1..Repeat(opt) |-> PhasesFromCurl(TimesOf(Warmup(opt) + i))[metric]]

\* A value of zero is left out of its array, so that the cut is that of the warmup samples
\* only where all of them have a value, or no sample has: plain HTTP has no handshakes.
WarmupsCount ==
  \A s \in Setups, m \in {"tls", "tcp", "total"} :
    LET value(k) == curl_phases_ms(Curl[s.series][k])[m]
    IN  \/ \A k \in 1..Warmup(s.opt) : value(k) > 0
        \/ \A k \in 1..(Warmup(s.opt) + Repeat(s.opt)) : value(k) = 0

\* To connect and to shake hands takes a microsecond at least.
ConnectsTakeTime ==
  \A s \in Setups : \A k \in DOMAIN Curl[s.series] :
    LET t == Curl[s.series][k]
    IN  t.lookup < t.connect /\ (t.appconnect > 0 => t.connect < t.appconnect)

\* The summaries printed are those of the samples after the warmup, all of them and no
\* others, in the server's reading of curl's reports, and by the definition of a
\* percentile; the server's own Summarize gives the same.
SummaryIsStudy ==
  printed # <<>> =>
    \A m \in {<<1, "tls">>, <<2, "tcp">>, <<3, "total">>} :
      /\ IsSummary(printed[m[1]], StudyValues(m[2]))
      /\ printed[m[1]] = Summarize(StudyValues(m[2]))

\* A --reuse run that prints a summary has measured exactly one handshake and one TCP
\* connect, that of the stream that opened the connection ("count: 1").
ReusePrintsOneHandshake ==
  opt.reuse /\ Repeat(opt) > 1 /\ printed # <<>> =>
    printed[1].count = 1 /\ printed[2].count = 1
=============================================================================
