------------------------------ MODULE BenchSession ------------------------------
(***************************************************************************)
(* Benchmark sessions end to end: scripts/vm-bench.sh runs curl, the       *)
(* handlers of internal/server record a run for every request, and the     *)
(* script posts curl's timings of each sample to /api/results/timings,     *)
(* where they are merged into the run the sample recorded.                 *)
(*                                                                         *)
(* Every step of a script waits for the answer to its last request, but a  *)
(* download is recorded after its body was sent, the streams of --reuse    *)
(* are handled side by side, and scripts run beside each other.  The log   *)
(* is used through its operations, each one step (ResultsLog shows that    *)
(* they are).  Scripts talk to an https route that keeps TLS to the pod.   *)
(***************************************************************************)
EXTENDS Runs, FiniteSets

CONSTANTS
  Scripts,     \* running vm-bench.sh processes, as numbers
  Mode,        \* what each one does: "probe", "blob" or "multiplex"
  Experiment,  \* its --experiment-id
  ValidIds,    \* the ids that validExperimentID accepts
  Warmup,      \* its samples to discard, after the defaults of the script
  Repeat,      \* its samples after those
  MaxFaults    \* bound on the failures of storage and connections

ASSUME SessionAssumption ==
  /\ Scripts \subseteq Nat \ {0}
  /\ Mode \in [Scripts -> {"probe", "blob", "multiplex"}]
  /\ Experiment \in [Scripts -> Nat \ {0}]
  /\ Warmup \in [Scripts -> Nat] /\ Repeat \in [Scripts -> Nat \ {0}]
  /\ MaxFaults \in Nat

\* An unset --warmup is 3 for cold probes and for repeated uploads; --reuse has none.
ASSUME WarmupAssumption ==
  \A s \in Scripts :
    /\ Mode[s] = "multiplex" <=> Mode[s] # "blob" /\ Warmup[s] = 0
    /\ Mode[s] = "blob" /\ Repeat[s] > 1 => Warmup[s] > 0

\* The requests a script makes, in order.
TotalIters(s) == Warmup[s] + Repeat[s]

Plan(s) ==
  LET samples(op) == [k \in 1..TotalIters(s) |-> [op |-> op, idx |-> k]] IN
  IF Mode[s] = "blob" THEN Append(samples("upload"), [op |-> "download", idx |-> 1])
                      ELSE samples("handshake")

Op(s, k) == Plan(s)[k].op

\* vm-SIZE.bin, and the name of a probe.
BlobName == 1
probeName(exp, idx) == 100 * exp + idx

\* What curl measured of request k of script s, and its TLS part: every cold curl
\* has a handshake of its own, of the streams of --reuse only the first one has.
Timing(s, k)    == 100 * s + k
Handshake(s, k) == IF Mode[s] = "multiplex" /\ k > 1 THEN 0 ELSE Timing(s, k)

\* benchProbe takes the sample from the query, record takes it from the bench
\* headers and ignores an experiment id that is not valid.
DraftOf(s, k) ==
  [op   |-> Op(s, k),
   name |-> IF Op(s, k) = "handshake" THEN probeName(Experiment[s], Plan(s)[k].idx)
                                      ELSE BlobName,
   exp  |-> IF Experiment[s] \in ValidIds THEN Experiment[s] ELSE 0,
   idx  |-> Plan(s)[k].idx]

\* submit_timings, as attachClientTimings reads it.
PostOf(s, k) ==
  [op |-> Op(s, k), name |-> probeName(Experiment[s], Plan(s)[k].idx),
   exp |-> Experiment[s], idx |-> Plan(s)[k].idx,
   phases |-> Timing(s, k), hs |-> Handshake(s, k)]

-----------------------------------------------------------------------------
VARIABLES
  table,   \* the runs of the log; a run's id is its place
  owner,   \* history: the script and request that recorded each of them
  cold,    \* the runs with a TLSHandshakeServerMs; the others are TLSReused
  taken,   \* scripts whose --reuse connection has given its handshake away
  pc, at,  \* where each script is, and at which request
  req,     \* the state of each request
  faults,  \* failures so far
  failed,  \* history: requests whose run or timings the storage refused
  late     \* history: requests answered and not yet recorded when their timings came

vars == <<table, owner, cold, taken, pc, at, req, faults, failed, late>>

log == <<table, owner, cold, taken>>

Requests(s) == DOMAIN Plan(s)

Init ==
  /\ table = <<>> /\ owner = <<>> /\ cold = {} /\ taken = {}
  /\ pc = [s \in Scripts |-> "ask"] /\ at = [s \in Scripts |-> 1]
  /\ req = [s \in Scripts |-> [k \in Requests(s) |-> "none"]]
  /\ faults = 0 /\ failed = {} /\ late = {}

SetReq(s, k, st) == req' = [req EXCEPT ![s][k] = st]
Fault == faults < MaxFaults /\ faults' = faults + 1

\* curl sends one request, or all the streams at once.
Ask(s) ==
  /\ pc[s] = "ask"
  /\ req' = [req EXCEPT ![s] = [k \in Requests(s) |->
               IF Mode[s] = "multiplex" \/ k = at[s] THEN "asked" ELSE @[k]]]
  /\ pc' = [pc EXCEPT ![s] = "await"]
  /\ UNCHANGED <<log, at, faults, failed, late>>

(***************************************************************************)
(* The handlers.                                                           *)
(***************************************************************************)
\* ConsumeHandshake and Append.  A probe and an upload are recorded before they are
\* answered, a download when io.Copy has returned.
Recorded(s, k) ==
  /\ table' = Append(table, Stamp(DraftOf(s, k), Len(table) + 1))
  /\ owner' = Append(owner, <<s, k>>)
  /\ cold'  = IF s \in taken THEN cold ELSE cold \cup {Len(table) + 1}

Takes(s) == taken' = IF Mode[s] = "multiplex" THEN taken \cup {s} ELSE taken

AfterRecord(s, k) ==
  \/ req[s][k] = "asked" /\ SetReq(s, k, "recorded")
  \/ req[s][k] = "streamed" /\ SetReq(s, k, "ok")

Accepts(s, k) == Op(s, k) = "handshake" => Experiment[s] \in ValidIds

Record(s, k) ==
  /\ Accepts(s, k) /\ AfterRecord(s, k)
  /\ Recorded(s, k) /\ Takes(s)
  /\ UNCHANGED <<pc, at, faults, failed, late>>

\* Append returns an error: it is logged, and the request is answered all the same.
RecordFails(s, k) ==
  /\ Accepts(s, k) /\ AfterRecord(s, k)
  /\ Fault /\ failed' = failed \cup {<<s, k>>}
  /\ Takes(s)
  /\ UNCHANGED <<table, owner, cold, pc, at, late>>

Answer(s, k) ==
  /\ req[s][k] = "recorded" /\ SetReq(s, k, "ok")
  /\ UNCHANGED <<log, pc, at, faults, failed, late>>

\* Mutation: a probe is answered before it is recorded.
Bug_Stream(s, k) ==
  /\ req[s][k] = "asked" /\ SetReq(s, k, "streamed")
  /\ UNCHANGED <<log, pc, at, faults, failed, late>>

\* The last bytes of the blob leave before the download is recorded.
Stream(s, k) ==
  /\ Op(s, k) = "download"
  /\ req[s][k] = "asked" /\ SetReq(s, k, "streamed")
  /\ UNCHANGED <<log, pc, at, faults, failed, late>>

\* 400 for an experiment id that is not valid.
RefuseProbe(s, k) ==
  /\ ~Accepts(s, k)
  /\ req[s][k] = "asked" /\ SetReq(s, k, "refused")
  /\ UNCHANGED <<log, pc, at, faults, failed, late>>

\* The blob store refuses, or has no such blob.
RefuseBlob(s, k) ==
  /\ Op(s, k) # "handshake" /\ Fault
  /\ req[s][k] = "asked" /\ SetReq(s, k, "refused")
  /\ UNCHANGED <<log, pc, at, failed, late>>

(***************************************************************************)
(* The script goes on.  curl runs without --fail: an HTTP error is timed   *)
(* and posted like a success, except in --reuse.                           *)
(***************************************************************************)
Answered(s, k) == req[s][k] \in {"streamed", "ok", "refused"}

Collect(s) ==
  /\ pc[s] = "await" /\ Mode[s] # "multiplex"
  /\ Answered(s, at[s])
  /\ pc' = [pc EXCEPT ![s] = "post"]
  /\ UNCHANGED <<log, at, req, faults, failed, late>>

\* multiplex_timing_rows: all streams have answered, and all of them with 200.
CollectAll(s) ==
  /\ pc[s] = "await" /\ Mode[s] = "multiplex"
  /\ \A k \in Requests(s) : Answered(s, k)
  /\ pc' = [pc EXCEPT ![s] = IF \E k \in Requests(s) : req[s][k] = "refused"
                             THEN "stopped" ELSE "post"]
  /\ UNCHANGED <<log, at, req, faults, failed, late>>

\* Mutation: the loop runs once more.
Bug_GoOn(s) ==
  /\ at' = [at EXCEPT ![s] = @ + 1]
  /\ pc' = [pc EXCEPT ![s] = IF at[s] > Len(Plan(s)) THEN "done" ELSE "ask"]

\* The next sample of the script, after the timings of this one were posted.
GoOn(s) ==
  /\ at' = [at EXCEPT ![s] = IF @ < Len(Plan(s)) THEN @ + 1 ELSE @]
  /\ pc' = [pc EXCEPT ![s] = IF at[s] = Len(Plan(s)) THEN "done"
                             ELSE IF Mode[s] = "multiplex" THEN "post" ELSE "ask"]

\* 400 (the id is not valid), 404 (no run matches) and 409 (several do) are answers
\* like any other: submit_timings looks at none of them.
SubmitTimings(s) ==
  LET p == PostOf(s, at[s])
      found == IF p.exp \in ValidIds THEN Matches(table, p) ELSE {}
  IN
  /\ pc[s] = "post"
  /\ \/ Cardinality(found) # 1 /\ UNCHANGED table
     \/ \E k \in found : found = {k} /\ table' = Merged(table, k, p)
  /\ late' = IF req[s][at[s]] = "streamed" THEN late \cup {<<s, at[s]>>} ELSE late
  /\ GoOn(s)
  /\ UNCHANGED <<owner, cold, taken, req, faults, failed>>

\* The log cannot be rewritten: 500, which the script does not look at either.
SubmitFails(s) ==
  /\ pc[s] = "post"
  /\ Fault /\ failed' = failed \cup {<<s, at[s]>>}
  /\ GoOn(s)
  /\ UNCHANGED <<log, req, late>>

\* curl cannot reach the server or loses it: set -e ends the script, the handlers of
\* what it asked go on.
Break(s) ==
  /\ pc[s] \in {"await", "post"} /\ Fault
  /\ pc' = [pc EXCEPT ![s] = "stopped"]
  /\ UNCHANGED <<log, at, req, failed, late>>

Next ==
  \E s \in Scripts :
    \/ Ask(s) \/ Collect(s) \/ CollectAll(s)
    \/ SubmitTimings(s) \/ SubmitFails(s) \/ Break(s)
    \/ \E k \in Requests(s) :
         \/ Record(s, k) \/ RecordFails(s, k) \/ Answer(s, k) \/ Stream(s, k)
         \/ RefuseProbe(s, k) \/ RefuseBlob(s, k)

Spec == Init /\ [][Next]_vars

-----------------------------------------------------------------------------
\* Type invariant; the history has an entry for every run, and the handshake of a
\* connection is given to a run only if there is one.
TypeOK ==
  /\ table \in Seq(Run) /\ Len(owner) = Len(table)
  /\ \A i \in DOMAIN owner : owner[i][1] \in Scripts /\ owner[i][2] \in Requests(owner[i][1])
  /\ cold \subseteq DOMAIN table /\ taken \subseteq Scripts
  /\ pc \in [Scripts -> {"ask", "await", "post", "done", "stopped"}]
  /\ \A s \in Scripts :
       /\ at[s] \in Requests(s)
       /\ req[s] \in [Requests(s) -> {"none", "asked", "recorded", "streamed",
                                      "ok", "refused"}]
  /\ faults \in 0..MaxFaults
  /\ \A f \in failed \cup late : f[1] \in Scripts /\ f[2] \in Requests(f[1])

\* Requests whose timings the script has posted.
Posted(s) == {k \in Requests(s) : k < at[s] \/ pc[s] = "done"}

\* Timings never end up on the run of another sample or another script, whatever was
\* lost, refused or recorded late before they were posted.
OwnTimings ==
  \A i \in DOMAIN table :
    table[i].client # 0 => table[i].client = Timing(owner[i][1], owner[i][2])

\* The runs of a sample that carry its timings.
TimedRuns(s, k) == {i \in DOMAIN table : owner[i] = <<s, k>> /\ table[i].client = Timing(s, k)}

\* Every request that was answered with success, and that the storage did not refuse, has
\* one run with its timings once the script has posted them, unless the post overtook
\* the run; and that happens to downloads only.
SamplesComplete ==
  /\ \A f \in late : Op(f[1], f[2]) = "download"
  /\ \A s \in Scripts : Experiment[s] \in ValidIds =>
       \A k \in Posted(s) :
         (req[s][k] = "ok" /\ <<s, k>> \notin failed \cup late)
           => Cardinality(TimedRuns(s, k)) = 1

(***************************************************************************)
(* What the repository says of a session and the code does not do.         *)
(***************************************************************************)
\* "Expect one sample with TCP/TLS handshake cost; the rest should show Reused"
\* (tls-benchmark-methodology.md:70): a run of a --reuse session that has curl's
\* handshake is not marked reused.
OneColdSample ==
  \A i \in DOMAIN table : table[i].hs > 0 => i \in cold
=============================================================================
