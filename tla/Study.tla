--------------------------------- MODULE Study --------------------------------
(***************************************************************************)
(* A study: vm-bench.sh measures while the dashboard is open.  They share  *)
(* the results log: the script adds runs and timings, the dashboard reads  *)
(* pages of it at any time.                                                *)
(***************************************************************************)
EXTENDS VMBench, Dashboard

CONSTANT MaxEarlier  \* bound on the runs that are in the log before the study

vars == <<table, script, page>>

\* The log has runs that were generated without an experiment id.
Earlier(n) == [i \in 1..n |-> Stamp([op |-> "generate", name |-> 9, exp |-> 0, idx |-> 0], i)]

Init == (\E n \in 0..MaxEarlier : table = Earlier(n)) /\ ScriptInit /\ DashInit

Next ==
  \/ ScriptNext /\ UNCHANGED page
  \/ DashNext /\ UNCHANGED script

\* The timer fires, and the browser gets each answer or an error.
Spec ==
  /\ Init /\ [][Next]_vars
  /\ WF_vars(Tick /\ UNCHANGED script)
  /\ \A i \in 1..MaxFlight :
       WF_vars(i \in DOMAIN flight /\ (Answer(i) \/ Render(i) \/ Fail(i)) /\ UNCHANGED script)

-----------------------------------------------------------------------------
\* Types of both parts; the runs of the study are behind the earlier ones, each once.
TypeOK ==
  /\ ScriptTypeOK /\ DashTypeOK
  /\ table \in Seq(Run) /\ \A i \in DOMAIN table : table[i].id = i

\* The summary row of the script's samples.
StudyKey == experimentKey(DraftOf(1))

\* The page shows a summary row of a study that has ended, read since, and not the
\* notice that there are more runs.
StudyShown ==
  printed # <<>> /\ Newest /\ ~view.page.truncated /\ StudyKey \in SummaryRows

Cell(sum) == [count |-> sum.count, p50 |-> sum.p50, p99 |-> sum.p99]

\* Then its samples are those of the study, once each and the last one first, and its
\* handshake percentiles those of all of them, the warmup included; without a warmup they
\* are the ones the script printed.  The server's phases, the merge into the log, the
\* page, the grouping and the JavaScript percentile are on one side, the reference
\* percentiles, and the script's arrays and Python percentile, on the other.
RowIsStudy ==
  StudyShown =>
    LET samples == Group(StudyKey)
        all     == [k \in 1..TOTAL_ITERS |-> PhasesFromCurl(TimesOf(k)).tls]
    IN  /\ [i \in DOMAIN samples |-> samples[i].idx] = Reverse([i \in 1..TOTAL_ITERS |-> i])
        /\ HandshakeCell(samples) = Cell(Summarize(all))
        /\ Warmup(opt) = 0 => HandshakeCell(samples) = Cell(printed[1])

\* What docs/tls-benchmark-methodology.md says: discard the warmup when --repeat is above
\* 1 (line 97), and compare the handshake's p50 and p99 in the dashboard (line 44).  The
\* code does not keep to it: the row has the percentiles with the warmup, the script
\* prints them without.
RowDiscardsWarmup ==
  StudyShown /\ Repeat(opt) > 1 =>
    LET cell == HandshakeCell(Group(StudyKey))
    IN  cell.p50 = printed[1].p50 /\ cell.p99 = printed[1].p99
=============================================================================
