-------------------------- MODULE BenchSessionProofs --------------------------
(***************************************************************************)
(* Proofs about BenchSession for every set of scripts, every mode, and     *)
(* every number of samples, failures and refusals.                         *)
(***************************************************************************)
EXTENDS BenchSession, FiniteSetTheorems, SequenceTheorems, TLAPS

\* A script that has its experiment id for itself: the id is "vm-", the time and the pid
\* of the script unless it is given.
Sole(s) == \A u \in Scripts : Experiment[u] = Experiment[s] => u = s

DistinctIds == \A s \in Scripts : Sole(s)

(***************************************************************************)
(* The log.                                                                *)
(***************************************************************************)
\* A run is what its request asked for, and has no timings or those of its request if
\* no other script posts under its id.
RowOf(r, s, k) ==
  /\ r.op = Op(s, k) /\ r.idx = Plan(s)[k].idx /\ r.exp = DraftOf(s, k).exp
  /\ Sole(s) => r.client \in {0, Timing(s, k)}

Rows ==
  \A i \in DOMAIN table : \E s \in Scripts : \E k \in Requests(s) :
    owner[i] = <<s, k>> /\ RowOf(table[i], s, k) /\ req[s][k] \in {"recorded", "ok"}

\* No request has two runs, and one that was recorded has a run.
OneRun == \A i, j \in DOMAIN table : owner[i] = owner[j] => i = j

Kept ==
  \A s \in Scripts : \A k \in Requests(s) :
    req[s][k] \in {"recorded", "ok"} /\ <<s, k>> \notin failed
      => \E i \in DOMAIN table : owner[i] = <<s, k>>

(***************************************************************************)
(* The scripts.                                                            *)
(***************************************************************************)
\* What a script has not asked for yet.
Ahead(s) ==
  \A k \in Requests(s) :
    IF Mode[s] = "multiplex" THEN pc[s] = "ask" => req[s][k] = "none"
    ELSE k > at[s] \/ (k = at[s] /\ pc[s] = "ask") => req[s][k] = "none"

\* What it has an answer to.
Known(s) ==
  /\ pc[s] = "post" => /\ Answered(s, at[s])
                       /\ Mode[s] = "multiplex" => \A k \in Requests(s) : Answered(s, k)
  /\ \A k \in Posted(s) : Answered(s, k)
  /\ pc[s] = "ask" /\ Mode[s] = "multiplex" => at[s] = 1

\* What became of the timings it has posted.
Timed(s) ==
  \A k \in Posted(s) :
    /\ req[s][k] = "streamed" => <<s, k>> \in failed \cup late
    /\ Sole(s) /\ Experiment[s] \in ValidIds
         /\ req[s][k] = "ok" /\ <<s, k>> \notin failed \cup late
         => \E i \in DOMAIN table : owner[i] = <<s, k>> /\ table[i].client = Timing(s, k)

\* Only a download is answered before it is recorded.
Streams ==
  /\ \A s \in Scripts : \A k \in Requests(s) : req[s][k] = "streamed" => Op(s, k) = "download"
  /\ \A f \in late : Op(f[1], f[2]) = "download"

LogInv     == Rows /\ OneRun /\ Kept
ScriptsInv == (\A s \in Scripts : Ahead(s) /\ Known(s) /\ Timed(s)) /\ Streams

(***************************************************************************)
(* The requests of a script.                                               *)
(***************************************************************************)
LEMMA PlanFacts ==
  ASSUME NEW s \in Scripts
  PROVE  /\ Len(Plan(s)) \in Nat \ {0} /\ Requests(s) = 1..Len(Plan(s))
         /\ \A k \in Requests(s) :
              /\ Op(s, k) \in {"upload", "download", "handshake"}
              /\ Plan(s)[k].idx \in Nat \ {0}
              /\ Mode[s] # "blob" => Op(s, k) = "handshake"
         /\ \A j, k \in Requests(s) :
              Op(s, j) = Op(s, k) /\ Plan(s)[j].idx = Plan(s)[k].idx => j = k
<1> DEFINE n == TotalIters(s)
           samples(op) == [k \in 1..n |-> [op |-> op, idx |-> k]]
<1>1. n \in Nat \ {0}
  BY SessionAssumption DEF TotalIters
<1>2. CASE Mode[s] = "blob"
  <2>1. Plan(s) = Append(samples("upload"), [op |-> "download", idx |-> 1])
    BY <1>2 DEF Plan
  <2> DEFINE q == samples("upload")
             S == [op: {"upload"}, idx: Nat]
  <2>2. q \in Seq(S) /\ Len(q) = n /\ \A k \in 1..n : q[k] = [op |-> "upload", idx |-> k]
    <3>1. q \in [1..n -> S] /\ DOMAIN q = 1..n
      BY <1>1
    <3> HIDE DEF S
    <3>2. \A k \in 1..n : q[k] = [op |-> "upload", idx |-> k]
      OBVIOUS
    <3> HIDE DEF q, n
    <3>3. q \in Seq(S)
      BY <1>1, <3>1, SeqDef
    <3>4. Len(q) = n
      BY <1>1, <3>1, <3>3
    <3> QED
      BY <3>2, <3>3, <3>4
  <2> HIDE DEF q, S
  <2>0. Plan(s) = Append(q, [op |-> "download", idx |-> 1])
    BY <2>1 DEF q
  <2>3. /\ Len(Plan(s)) = n + 1 /\ Requests(s) = 1..(n + 1)
        /\ \A k \in 1..n : Plan(s)[k] = [op |-> "upload", idx |-> k]
        /\ Plan(s)[n + 1] = [op |-> "download", idx |-> 1]
    BY <1>1, <2>0, <2>2 DEF Requests
  <2> HIDE DEF n
  <2>4. ASSUME NEW k \in 1..n
        PROVE  Op(s, k) = "upload" /\ Plan(s)[k].idx = k
    <3>1. Plan(s)[k] = [op |-> "upload", idx |-> k]
      BY <2>3
    <3> QED
      BY <3>1 DEF Op
  <2>5. Op(s, n + 1) = "download" /\ Plan(s)[n + 1].idx = 1
    BY <2>3 DEF Op
  <2> QED
    BY <1>1, <1>2, <2>3, <2>4, <2>5
<1>3. CASE Mode[s] # "blob"
  <2>1. Plan(s) = samples("handshake")
    BY <1>3 DEF Plan
  <2>2. /\ Len(Plan(s)) = n /\ Requests(s) = 1..n
        /\ \A k \in 1..n : Plan(s)[k] = [op |-> "handshake", idx |-> k]
    BY <1>1, <2>1 DEF Requests
  <2> HIDE DEF n
  <2>3. \A k \in 1..n : Op(s, k) = "handshake" /\ Plan(s)[k].idx = k
    BY <2>2 DEF Op
  <2> QED
    BY <1>1, <2>2, <2>3
<1> QED
  BY <1>2, <1>3

\* What a request records, and what is posted for it.
LEMMA DraftFacts ==
  ASSUME NEW s \in Scripts, NEW k \in Requests(s)
  PROVE  /\ DraftOf(s, k) \in Draft /\ PostOf(s, k) \in Post
         /\ DraftOf(s, k).op = Op(s, k) /\ DraftOf(s, k).idx = Plan(s)[k].idx
         /\ DraftOf(s, k).exp = IF Experiment[s] \in ValidIds THEN Experiment[s] ELSE 0
         /\ PostOf(s, k).op = Op(s, k) /\ PostOf(s, k).idx = Plan(s)[k].idx
         /\ PostOf(s, k).exp = Experiment[s] /\ Experiment[s] \in Nat \ {0}
         /\ PostOf(s, k).phases = Timing(s, k)
<1>1. /\ Op(s, k) \in Operation /\ Plan(s)[k].idx \in Nat
      /\ Experiment[s] \in Nat \ {0} /\ s \in Nat /\ k \in Nat
  <2>1. s \in Nat /\ Experiment[s] \in Nat \ {0}
    BY SessionAssumption
  <2>2. Op(s, k) \in Operation /\ Plan(s)[k].idx \in Nat
    BY PlanFacts DEF Operation
  <2>3. k \in Nat
    BY PlanFacts
  <2> QED
    BY <2>1, <2>2, <2>3
<1>2. Timing(s, k) \in Nat /\ Handshake(s, k) \in Nat
  BY <1>1 DEF Timing, Handshake
<1>3. probeName(Experiment[s], Plan(s)[k].idx) \in Nat /\ BlobName \in Nat
  BY <1>1 DEF probeName, BlobName
<1>4. DraftOf(s, k) \in Draft
  BY <1>1, <1>3 DEF DraftOf, Draft
<1>5. PostOf(s, k) \in Post
  BY <1>1, <1>2, <1>3 DEF PostOf, Post
<1> QED
  BY <1>1, <1>4, <1>5 DEF DraftOf, PostOf

LEMMA StampFacts ==
  ASSUME NEW d \in Draft, NEW i \in Nat
  PROVE  /\ Stamp(d, i) \in Run /\ Stamp(d, i).op = d.op /\ Stamp(d, i).exp = d.exp
         /\ Stamp(d, i).idx = d.idx /\ Stamp(d, i).client = 0
  BY DEF Draft, Run, Stamp

LEMMA TimingsFacts ==
  ASSUME NEW r \in Run, NEW p \in Post
  PROVE  /\ WithTimings(r, p) \in Run /\ WithTimings(r, p).op = r.op
         /\ WithTimings(r, p).client = p.phases
         /\ WithTimings(r, p).exp \in {r.exp, p.exp} /\ WithTimings(r, p).idx \in {r.idx, p.idx}
  BY DEF Run, Post, WithTimings

(***************************************************************************)
(* Types.                                                                  *)
(***************************************************************************)
ReqStates == {"none", "asked", "recorded", "streamed", "ok", "refused"}

Layout ==
  /\ owner \in Seq(Scripts \X Nat) /\ DOMAIN req = Scripts /\ DOMAIN at = Scripts

TypeInv == TypeOK /\ Layout

LEMMA SetReqFacts ==
  ASSUME TypeInv, NEW s \in Scripts, NEW k \in Requests(s), NEW st \in ReqStates,
         SetReq(s, k, st)
  PROVE  /\ DOMAIN req' = Scripts
         /\ \A u \in Scripts : req'[u] \in [Requests(u) -> ReqStates]
         /\ \A u \in Scripts : \A j \in Requests(u) :
              req'[u][j] = IF u = s /\ j = k THEN st ELSE req[u][j]
<1>1. DOMAIN req = Scripts /\ \A u \in Scripts : req[u] \in [Requests(u) -> ReqStates]
  BY DEF TypeInv, TypeOK, Layout, ReqStates
<1>2. req' = [req EXCEPT ![s] = [req[s] EXCEPT ![k] = st]]
  BY DEF SetReq
<1>3. /\ DOMAIN req' = Scripts /\ req'[s] = [req[s] EXCEPT ![k] = st]
      /\ \A u \in Scripts : u # s => req'[u] = req[u]
  BY <1>1, <1>2
<1>4. [req[s] EXCEPT ![k] = st] \in [Requests(s) -> ReqStates]
  BY <1>1
<1> QED
  BY <1>1, <1>3, <1>4

\* Requests and scripts as the type invariant has them.
ReqsOK ==
  /\ DOMAIN req = Scripts
  /\ \A s \in Scripts : req[s] \in [Requests(s) -> ReqStates]

LogOK ==
  /\ table \in Seq(Run) /\ owner \in Seq(Scripts \X Nat) /\ Len(owner) = Len(table)
  /\ \A i \in DOMAIN owner : owner[i][1] \in Scripts /\ owner[i][2] \in Requests(owner[i][1])
  /\ cold \subseteq DOMAIN table /\ taken \subseteq Scripts

PlacesOK ==
  /\ pc \in [Scripts -> {"ask", "await", "post", "done", "stopped"}]
  /\ DOMAIN at = Scripts /\ \A s \in Scripts : at[s] \in Requests(s)

CountsOK ==
  /\ faults \in 0..MaxFaults
  /\ \A f \in failed \cup late : f[1] \in Scripts /\ f[2] \in Requests(f[1])

LEMMA TypeParts == TypeInv <=> ReqsOK /\ LogOK /\ PlacesOK /\ CountsOK
  BY DEF TypeInv, TypeOK, Layout, ReqsOK, LogOK, PlacesOK, CountsOK, ReqStates

LEMMA RecordedType ==
  ASSUME LogOK, NEW s \in Scripts, NEW k \in Requests(s), Recorded(s, k), Takes(s)
  PROVE  /\ LogOK'
         /\ Len(table') = Len(table) + 1 /\ Len(table) \in Nat
         /\ table'[Len(table) + 1] = Stamp(DraftOf(s, k), Len(table) + 1)
         /\ owner'[Len(table) + 1] = <<s, k>>
         /\ \A i \in DOMAIN table : table'[i] = table[i] /\ owner'[i] = owner[i]
         /\ DOMAIN table = 1..Len(table) /\ DOMAIN table' = 1..(Len(table) + 1)
         /\ DOMAIN owner = DOMAIN table
<1> DEFINE n == Len(table)
           r == Stamp(DraftOf(s, k), n + 1)
<1>1. n \in Nat /\ r \in Run /\ k \in Nat
  BY DraftFacts, StampFacts, PlanFacts DEF LogOK
<1>2. table' = Append(table, r) /\ owner' = Append(owner, <<s, k>>)
  BY DEF Recorded
<1>3. cold' \subseteq cold \cup {n + 1} /\ taken' \subseteq taken \cup {s}
  BY DEF Recorded, Takes
<1> HIDE DEF r
<1>4. /\ table' \in Seq(Run) /\ Len(table') = n + 1 /\ table'[n + 1] = r
      /\ \A i \in 1..n : table'[i] = table[i]
      /\ DOMAIN table = 1..n /\ DOMAIN table' = 1..(n + 1)
  BY <1>1, <1>2 DEF LogOK
<1>5. /\ owner' \in Seq(Scripts \X Nat) /\ Len(owner') = n + 1 /\ owner'[n + 1] = <<s, k>>
      /\ \A i \in 1..n : owner'[i] = owner[i]
      /\ DOMAIN owner = 1..n /\ DOMAIN owner' = 1..(n + 1)
  BY <1>1, <1>2 DEF LogOK
<1>6. \A i \in DOMAIN owner' : owner'[i][1] \in Scripts /\ owner'[i][2] \in Requests(owner'[i][1])
  <2>1. \A i \in 1..n : owner[i][1] \in Scripts /\ owner[i][2] \in Requests(owner[i][1])
    BY <1>5 DEF LogOK
  <2>2. owner'[n + 1][1] \in Scripts /\ owner'[n + 1][2] \in Requests(owner'[n + 1][1])
    BY <1>5
  <2>3. \A i \in 1..(n + 1) : i = n + 1 \/ i \in 1..n
    BY <1>1
  <2> QED
    BY <1>5, <2>1, <2>2, <2>3
<1>7. cold' \subseteq DOMAIN table' /\ taken' \subseteq Scripts
  BY <1>1, <1>3, <1>4 DEF LogOK
<1> QED
  BY <1>1, <1>4, <1>5, <1>6, <1>7 DEF LogOK, r

LEMMA HandlerType ==
  ASSUME TypeInv, NEW s \in Scripts, NEW k \in Requests(s),
         \/ Record(s, k) \/ RecordFails(s, k) \/ Answer(s, k) \/ Stream(s, k)
         \/ RefuseProbe(s, k) \/ RefuseBlob(s, k)
  PROVE  TypeInv'
<1>1. ReqsOK /\ LogOK /\ PlacesOK /\ CountsOK
  BY TypeParts
<1>2. ReqsOK'
  <2>1. \E st \in ReqStates : SetReq(s, k, st)
    BY DEF Record, RecordFails, Answer, Stream, RefuseProbe, RefuseBlob, AfterRecord, ReqStates
  <2> QED
    BY <2>1, SetReqFacts DEF ReqsOK
<1>3. LogOK'
  <2>1. CASE Record(s, k)
    BY <1>1, <2>1, RecordedType DEF Record
  <2>2. CASE RecordFails(s, k)
    BY <1>1, <2>2 DEF RecordFails, Takes, LogOK
  <2>3. CASE UNCHANGED log
    BY <1>1, <2>3 DEF log, LogOK
  <2> QED
    BY <2>1, <2>2, <2>3 DEF Answer, Stream, RefuseProbe, RefuseBlob
<1>4. PlacesOK'
  BY <1>1 DEF PlacesOK, Record, RecordFails, Answer, Stream, RefuseProbe, RefuseBlob
<1>5. CountsOK'
  <2>1. faults' \in 0..MaxFaults
    BY <1>1, SessionAssumption DEF CountsOK, Record, RecordFails, Answer, Stream,
      RefuseProbe, RefuseBlob, Fault
  <2>2. failed' \subseteq failed \cup {<<s, k>>} /\ late' = late
    BY DEF Record, RecordFails, Answer, Stream, RefuseProbe, RefuseBlob
  <2> QED
    BY <1>1, <2>1, <2>2 DEF CountsOK
<1> QED
  BY <1>2, <1>3, <1>4, <1>5 DEF TypeInv, TypeOK, Layout, ReqsOK, LogOK, PlacesOK,
        CountsOK, ReqStates

LEMMA GoOnFacts ==
  ASSUME TypeInv, NEW s \in Scripts, GoOn(s)
  PROVE  /\ PlacesOK' /\ Len(Plan(s)) \in Nat /\ at[s] \in 1..Len(Plan(s))
         /\ \A u \in Scripts : u # s => pc'[u] = pc[u] /\ at'[u] = at[u]
         /\ at[s] = Len(Plan(s)) => pc'[s] = "done" /\ at'[s] = at[s]
         /\ at[s] < Len(Plan(s)) =>
              /\ at'[s] = at[s] + 1
              /\ pc'[s] = IF Mode[s] = "multiplex" THEN "post" ELSE "ask"
<1>1. PlacesOK
  BY TypeParts
<1>2. Len(Plan(s)) \in Nat \ {0} /\ Requests(s) = 1..Len(Plan(s)) /\ at[s] \in 1..Len(Plan(s))
  BY <1>1, PlanFacts DEF PlacesOK
<1>3. /\ at' = [at EXCEPT ![s] = IF at[s] < Len(Plan(s)) THEN at[s] + 1 ELSE at[s]]
      /\ pc' = [pc EXCEPT ![s] = IF at[s] = Len(Plan(s)) THEN "done"
                                 ELSE IF Mode[s] = "multiplex" THEN "post" ELSE "ask"]
  BY DEF GoOn
<1>4. /\ DOMAIN at' = Scripts /\ \A u \in Scripts : u # s => at'[u] = at[u]
      /\ at'[s] = IF at[s] < Len(Plan(s)) THEN at[s] + 1 ELSE at[s]
  BY <1>1, <1>3 DEF PlacesOK
<1>5. /\ pc' \in [Scripts -> {"ask", "await", "post", "done", "stopped"}]
      /\ \A u \in Scripts : u # s => pc'[u] = pc[u]
      /\ pc'[s] = IF at[s] = Len(Plan(s)) THEN "done"
                  ELSE IF Mode[s] = "multiplex" THEN "post" ELSE "ask"
  BY <1>1, <1>3 DEF PlacesOK
<1>6. \A u \in Scripts : at'[u] \in Requests(u)
  <2>1. at'[s] \in 1..Len(Plan(s))
    BY <1>2, <1>4
  <2> QED
    BY <1>1, <1>2, <1>4, <2>1 DEF PlacesOK
<1> QED
  BY <1>2, <1>4, <1>5, <1>6 DEF PlacesOK

\* A post leaves the log as it is, or merges into the one run that it matches.
LEMMA SubmitFacts ==
  ASSUME TypeInv, NEW s \in Scripts, SubmitTimings(s)
  PROVE  LET p == PostOf(s, at[s])
             found == IF p.exp \in ValidIds THEN Matches(table, p) ELSE {}
         IN  /\ \/ table' = table /\ ~\E k \in found : found = {k}
                \/ \E k \in found :
                     /\ found = {k} /\ k \in DOMAIN table
                     /\ table'[k] = WithTimings(table[k], p)
                     /\ \A i \in DOMAIN table : i # k => table'[i] = table[i]
             /\ table' \in Seq(Run) /\ Len(table') = Len(table) /\ DOMAIN table' = DOMAIN table
<1> DEFINE p == PostOf(s, at[s])
           found == IF p.exp \in ValidIds THEN Matches(table, p) ELSE {}
<1>1. p \in Post /\ table \in Seq(Run)
  BY DraftFacts DEF TypeInv, TypeOK
<1>2. found \subseteq DOMAIN table
  BY DEF Matches
<1>3. CASE Cardinality(found) # 1 /\ UNCHANGED table
  <2>1. ~\E k \in found : found = {k}
    BY <1>3, FS_Singleton
  <2> QED
    BY <1>1, <1>3, <2>1
<1>4. CASE \E k \in found : found = {k} /\ table' = Merged(table, k, p)
  <2>1. PICK k \in found : found = {k} /\ table' = Merged(table, k, p)
    BY <1>4
  <2>2. k \in DOMAIN table /\ table[k] \in Run
    BY <1>1, <1>2, <2>1
  <2>3. table' = [table EXCEPT ![k] = WithTimings(table[k], p)]
    BY <2>1 DEF Merged
  <2>4. WithTimings(table[k], p) \in Run
    BY <1>1, <2>2, TimingsFacts
  <2> HIDE DEF p, found
  <2>5. table' \in Seq(Run) /\ Len(table') = Len(table) /\ DOMAIN table' = DOMAIN table
    BY <1>1, <2>2, <2>3, <2>4
  <2>6. /\ table'[k] = WithTimings(table[k], p)
        /\ \A i \in DOMAIN table : i # k => table'[i] = table[i]
    BY <2>2, <2>3
  <2> QED
    BY <2>1, <2>2, <2>5, <2>6 DEF p, found
<1>5. \/ Cardinality(found) # 1 /\ UNCHANGED table
      \/ \E k \in found : found = {k} /\ table' = Merged(table, k, p)
  BY DEF SubmitTimings
<1> QED
  BY <1>3, <1>4, <1>5

LEMMA ScriptType ==
  ASSUME TypeInv, NEW s \in Scripts,
         \/ Ask(s) \/ Collect(s) \/ CollectAll(s)
         \/ SubmitTimings(s) \/ SubmitFails(s) \/ Break(s)
  PROVE  TypeInv'
<1>1. ReqsOK /\ LogOK /\ PlacesOK /\ CountsOK
  BY TypeParts
<1>2. CASE Ask(s)
  <2>1. req' = [req EXCEPT ![s] = [k \in Requests(s) |->
               IF Mode[s] = "multiplex" \/ k = at[s] THEN "asked" ELSE req[s][k]]]
    BY <1>2 DEF Ask
  <2>2. [k \in Requests(s) |-> IF Mode[s] = "multiplex" \/ k = at[s] THEN "asked"
                               ELSE req[s][k]] \in [Requests(s) -> ReqStates]
    BY <1>1 DEF ReqsOK, ReqStates
  <2>3. ReqsOK'
    BY <1>1, <2>1, <2>2 DEF ReqsOK
  <2>4. LogOK' /\ PlacesOK' /\ CountsOK'
    BY <1>1, <1>2 DEF Ask, log, LogOK, PlacesOK, CountsOK
  <2> QED
    BY <2>3, <2>4 DEF TypeInv, TypeOK, Layout, ReqsOK, LogOK, PlacesOK,
        CountsOK, ReqStates
<1>3. CASE Collect(s) \/ CollectAll(s) \/ Break(s)
  <2>1. ReqsOK' /\ LogOK'
    BY <1>1, <1>3 DEF Collect, CollectAll, Break, ReqsOK, LogOK, log
  <2>2. PlacesOK'
    BY <1>1, <1>3 DEF Collect, CollectAll, Break, PlacesOK
  <2>3. CountsOK'
    BY <1>1, <1>3, SessionAssumption DEF Collect, CollectAll, Break, CountsOK, Fault
  <2> QED
    BY <2>1, <2>2, <2>3 DEF TypeInv, TypeOK, Layout, ReqsOK, LogOK, PlacesOK,
        CountsOK, ReqStates
<1>4. CASE SubmitTimings(s)
  <2>1. ReqsOK' /\ PlacesOK'
    BY <1>1, <1>4, GoOnFacts DEF SubmitTimings, ReqsOK
  <2>2. LogOK'
    <3>1. table' \in Seq(Run) /\ Len(table') = Len(table) /\ DOMAIN table' = DOMAIN table
      BY <1>4, SubmitFacts
    <3>2. owner' = owner /\ cold' = cold /\ taken' = taken
      BY <1>4 DEF SubmitTimings
    <3> QED
      BY <1>1, <3>1, <3>2 DEF LogOK
  <2>3. CountsOK'
    <3>1. late' \subseteq late \cup {<<s, at[s]>>} /\ failed' = failed /\ faults' = faults
      BY <1>4 DEF SubmitTimings
    <3> QED
      BY <1>1, <3>1 DEF CountsOK, PlacesOK
  <2> QED
    BY <2>1, <2>2, <2>3 DEF TypeInv, TypeOK, Layout, ReqsOK, LogOK, PlacesOK,
        CountsOK, ReqStates
<1>5. CASE SubmitFails(s)
  <2>1. ReqsOK' /\ LogOK' /\ PlacesOK'
    BY <1>1, <1>5, GoOnFacts DEF SubmitFails, ReqsOK, LogOK, log
  <2>2. CountsOK'
    <3>1. late' = late /\ failed' = failed \cup {<<s, at[s]>>} /\ faults' \in 0..MaxFaults
      BY <1>1, <1>5, SessionAssumption DEF SubmitFails, Fault, CountsOK
    <3> QED
      BY <1>1, <3>1 DEF CountsOK, PlacesOK
  <2> QED
    BY <2>1, <2>2 DEF TypeInv, TypeOK, Layout, ReqsOK, LogOK, PlacesOK,
        CountsOK, ReqStates
<1> QED
  BY <1>2, <1>3, <1>4, <1>5

LEMMA TypeStep == TypeInv /\ [Next]_vars => TypeInv'
<1> SUFFICES ASSUME TypeInv, [Next]_vars
             PROVE  TypeInv'
  OBVIOUS
<1>1. CASE Next
  BY <1>1, HandlerType, ScriptType DEF Next
<1>2. CASE UNCHANGED vars
  BY <1>2 DEF vars, TypeInv, TypeOK, Layout, Requests
<1> QED
  BY <1>1, <1>2

LEMMA TypeInit == Init => TypeInv
<1> SUFFICES ASSUME Init
             PROVE  TypeInv
  OBVIOUS
<1>1. ReqsOK
  BY DEF Init, ReqsOK, ReqStates
<1>2. LogOK
  BY DEF Init, LogOK
<1>3. PlacesOK
  BY PlanFacts DEF Init, PlacesOK
<1>4. CountsOK
  BY SessionAssumption DEF Init, CountsOK
<1> QED
  BY <1>1, <1>2, <1>3, <1>4, TypeParts

\* The types, with the domains that the type invariant leaves open, hold in every state.
THEOREM TypeInvariant == Spec => []TypeInv
  BY TypeInit, TypeStep, PTL DEF Spec

\* Every run of the log has a request that recorded it, and only a run gets a handshake.
THEOREM TypeCorrect == Spec => []TypeOK
<1>1. TypeInv => TypeOK
  BY DEF TypeInv
<1> QED
  BY <1>1, TypeInvariant, PTL

(***************************************************************************)
(* Requests: what a handler does, seen from the log and from the scripts.  *)
(***************************************************************************)
Handles(s, k) ==
  \/ Record(s, k) \/ RecordFails(s, k) \/ Answer(s, k) \/ Stream(s, k)
  \/ RefuseProbe(s, k) \/ RefuseBlob(s, k)

\* A handler takes its own request on, and no other.
LEMMA HandlerMoves ==
  ASSUME TypeInv, NEW s \in Scripts, NEW k \in Requests(s), Handles(s, k)
  PROVE  /\ \A u \in Scripts : \A j \in Requests(u) :
              u # s \/ j # k => req'[u][j] = req[u][j]
         /\ \/ req[s][k] = "asked" /\ req'[s][k] \in {"recorded", "streamed", "refused"}
            \/ req[s][k] \in {"recorded", "streamed"} /\ req'[s][k] = "ok"
         /\ req'[s][k] = "streamed" => Op(s, k) = "download"
         /\ pc' = pc /\ at' = at /\ late' = late /\ failed \subseteq failed'
<1>1. \E st \in ReqStates :
        /\ SetReq(s, k, st) /\ (st = "streamed" => Op(s, k) = "download")
        /\ \/ req[s][k] = "asked" /\ st \in {"recorded", "streamed", "refused"}
           \/ req[s][k] \in {"recorded", "streamed"} /\ st = "ok"
  BY DEF Handles, Record, RecordFails, Answer, Stream, RefuseProbe, RefuseBlob, AfterRecord,
    ReqStates
<1>2. pc' = pc /\ at' = at /\ late' = late /\ failed \subseteq failed'
  BY DEF Handles, Record, RecordFails, Answer, Stream, RefuseProbe, RefuseBlob
<1> QED
  BY <1>1, <1>2, SetReqFacts

\* Either it records a run, of a request that has none, or it leaves the log alone.
LEMMA HandlerLogs ==
  ASSUME TypeInv, NEW s \in Scripts, NEW k \in Requests(s), Handles(s, k)
  PROVE  \/ /\ req[s][k] \in {"asked", "streamed"} /\ req'[s][k] \in {"recorded", "ok"}
            /\ Recorded(s, k) /\ Takes(s) /\ failed' = failed
         \/ /\ req[s][k] \in {"asked", "streamed"}
            /\ table' = table /\ owner' = owner /\ failed' = failed \cup {<<s, k>>}
         \/ /\ table' = table /\ owner' = owner /\ failed' = failed
            /\ \/ req[s][k] = "recorded"
               \/ req[s][k] = "asked" /\ req'[s][k] \in {"streamed", "refused"}
<1> USE SetReqFacts
<1>1. CASE Record(s, k)
  <2>1. \/ req[s][k] = "asked" /\ SetReq(s, k, "recorded")
        \/ req[s][k] = "streamed" /\ SetReq(s, k, "ok")
    BY <1>1 DEF Record, AfterRecord
  <2>2. req'[s][k] \in {"recorded", "ok"}
    BY <2>1 DEF ReqStates
  <2> QED
    BY <1>1, <2>1, <2>2 DEF Record
<1>2. CASE RecordFails(s, k)
  BY <1>2 DEF RecordFails, AfterRecord
<1>3. CASE Answer(s, k)
  BY <1>3 DEF Answer, log
<1>4. CASE Stream(s, k) \/ RefuseProbe(s, k) \/ RefuseBlob(s, k)
  <2>1. req[s][k] = "asked" /\ \E st \in {"streamed", "refused"} : SetReq(s, k, st)
    BY <1>4 DEF Stream, RefuseProbe, RefuseBlob
  <2>2. req'[s][k] \in {"streamed", "refused"}
    BY <2>1 DEF ReqStates
  <2> QED
    BY <1>4, <2>1, <2>2 DEF Stream, RefuseProbe, RefuseBlob, log
<1> QED
  BY <1>1, <1>2, <1>3, <1>4 DEF Handles

LEMMA HandlerLogInv ==
  ASSUME TypeInv, LogInv, NEW s \in Scripts, NEW k \in Requests(s), Handles(s, k)
  PROVE  LogInv'
<1>0. LogOK /\ Rows /\ OneRun /\ Kept
  BY TypeParts DEF LogInv
<1>d. DOMAIN table = DOMAIN owner /\ DOMAIN owner = 1..Len(table)
  BY <1>0 DEF LogOK
<1>m. /\ \A u \in Scripts : \A j \in Requests(u) :
           <<u, j>> # <<s, k>> => req'[u][j] = req[u][j]
      /\ \/ req[s][k] = "asked" /\ req'[s][k] \in {"recorded", "streamed", "refused"}
         \/ req[s][k] \in {"recorded", "streamed"} /\ req'[s][k] = "ok"
      /\ failed \subseteq failed'
  BY HandlerMoves
<1>n. req[s][k] \in {"asked", "streamed"} => \A i \in DOMAIN table : owner[i] # <<s, k>>
  BY <1>0 DEF Rows
<1>1. CASE /\ req[s][k] \in {"asked", "streamed"} /\ req'[s][k] \in {"recorded", "ok"}
           /\ Recorded(s, k) /\ Takes(s) /\ failed' = failed
  <2> DEFINE n == Len(table)
  <2>1. /\ n \in Nat /\ DOMAIN table = 1..n /\ DOMAIN table' = 1..(n + 1)
        /\ table'[n + 1] = Stamp(DraftOf(s, k), n + 1) /\ owner'[n + 1] = <<s, k>>
        /\ \A i \in 1..n : table'[i] = table[i] /\ owner'[i] = owner[i]
    BY <1>0, <1>1, RecordedType
  <2> HIDE DEF n
  <2>2. RowOf(table'[n + 1], s, k)
    BY <2>1, DraftFacts, StampFacts DEF RowOf
  <2>3. \A i \in 1..(n + 1) : i = n + 1 \/ i \in 1..n
    BY <2>1
  <2>4. Rows'
    <3> SUFFICES ASSUME NEW i \in 1..(n + 1)
                 PROVE  \E u \in Scripts : \E j \in Requests(u) :
                          /\ owner'[i] = <<u, j>> /\ RowOf(table'[i], u, j)
                          /\ req'[u][j] \in {"recorded", "ok"}
      BY <2>1 DEF Rows, RowOf, Sole, Requests
    <3>1. CASE i = n + 1
      BY <1>1, <2>1, <2>2, <3>1
    <3>2. CASE i \in 1..n
      <4>1. PICK u \in Scripts : \E j \in Requests(u) :
              owner[i] = <<u, j>> /\ RowOf(table[i], u, j) /\ req[u][j] \in {"recorded", "ok"}
        BY <1>0, <2>1, <3>2 DEF Rows
      <4>2. PICK j \in Requests(u) :
              owner[i] = <<u, j>> /\ RowOf(table[i], u, j) /\ req[u][j] \in {"recorded", "ok"}
        BY <4>1
      <4>3. req'[u][j] \in {"recorded", "ok"}
        BY <1>m, <1>1, <4>2
      <4> QED
        BY <2>1, <3>2, <4>2, <4>3
    <3> QED
      BY <2>3, <3>1, <3>2
  <2>5. OneRun'
    BY <1>0, <1>1, <1>n, <2>1, <2>3 DEF OneRun
  <2>6. Kept'
    <3> SUFFICES ASSUME NEW u \in Scripts, NEW j \in Requests(u),
                        req'[u][j] \in {"recorded", "ok"}, <<u, j>> \notin failed'
                 PROVE  \E i \in 1..(n + 1) : owner'[i] = <<u, j>>
      BY <2>1 DEF Kept, Requests
    <3>1. CASE <<u, j>> = <<s, k>>
      BY <2>1, <2>3, <3>1
    <3>2. CASE <<u, j>> # <<s, k>>
      <4>1. \E i \in 1..n : owner[i] = <<u, j>>
        BY <1>0, <1>m, <1>1, <2>1, <3>2 DEF Kept
      <4> QED
        BY <2>1, <4>1
    <3> QED
      BY <3>1, <3>2
  <2> QED
    BY <2>4, <2>5, <2>6 DEF LogInv
<1>2. CASE table' = table /\ owner' = owner
  <2>1. OneRun'
    BY <1>0, <1>2 DEF OneRun
  <2>2. Rows'
    <3> SUFFICES ASSUME NEW i \in DOMAIN table
                 PROVE  \E u \in Scripts : \E j \in Requests(u) :
                          /\ owner[i] = <<u, j>> /\ RowOf(table[i], u, j)
                          /\ req'[u][j] \in {"recorded", "ok"}
      BY <1>2 DEF Rows, RowOf, Sole, Requests
    <3>1. PICK u \in Scripts : \E j \in Requests(u) :
            owner[i] = <<u, j>> /\ RowOf(table[i], u, j) /\ req[u][j] \in {"recorded", "ok"}
      BY <1>0 DEF Rows
    <3>2. PICK j \in Requests(u) :
            owner[i] = <<u, j>> /\ RowOf(table[i], u, j) /\ req[u][j] \in {"recorded", "ok"}
      BY <3>1
    <3>3. req'[u][j] \in {"recorded", "ok"}
      BY <1>m, <3>2
    <3> QED
      BY <3>2, <3>3
  <2>3. Kept'
    <3> SUFFICES ASSUME NEW u \in Scripts, NEW j \in Requests(u),
                        req'[u][j] \in {"recorded", "ok"}, <<u, j>> \notin failed'
                 PROVE  \E i \in DOMAIN table : owner[i] = <<u, j>>
      BY <1>2 DEF Kept, Requests
    <3>1. <<u, j>> \notin failed
      BY <1>m
    <3>2. req[u][j] \in {"recorded", "ok"}
      <4>1. CASE <<u, j>> # <<s, k>>
        BY <1>m, <4>1
      <4>2. CASE <<u, j>> = <<s, k>>
        <5>1. u = s /\ j = k
          BY <4>2
        <5>2. \/ req[s][k] = "recorded"
              \/ req'[s][k] \in {"streamed", "refused"}
              \/ <<s, k>> \in failed'
              \/ Len(table') = Len(table) + 1 /\ Len(table) \in Nat
          BY <1>0, HandlerLogs, RecordedType
        <5> QED
          BY <1>2, <5>1, <5>2
      <4> QED
        BY <4>1, <4>2
    <3> QED
      BY <1>0, <3>1, <3>2 DEF Kept
  <2> QED
    BY <2>1, <2>2, <2>3 DEF LogInv
<1> QED
  BY <1>1, <1>2, HandlerLogs

\* Runs stay what and where they are when a handler records.
LEMMA RunsStay ==
  ASSUME TypeInv, NEW s \in Scripts, NEW k \in Requests(s), Handles(s, k),
         NEW i \in DOMAIN table
  PROVE  i \in DOMAIN table' /\ table'[i] = table[i] /\ owner'[i] = owner[i]
<1>1. LogOK
  BY TypeParts
<1>2. CASE Recorded(s, k) /\ Takes(s)
  BY <1>1, <1>2, RecordedType
<1>3. CASE table' = table /\ owner' = owner
  BY <1>3
<1> QED
  BY <1>2, <1>3, HandlerLogs

LEMMA HandlerScriptsInv ==
  ASSUME TypeInv, ScriptsInv, NEW s \in Scripts, NEW k \in Requests(s), Handles(s, k)
  PROVE  ScriptsInv'
<1>m. /\ \A u \in Scripts : \A j \in Requests(u) :
           u # s \/ j # k => req'[u][j] = req[u][j]
      /\ \/ req[s][k] = "asked" /\ req'[s][k] \in {"recorded", "streamed", "refused"}
         \/ req[s][k] \in {"recorded", "streamed"} /\ req'[s][k] = "ok"
      /\ req'[s][k] = "streamed" => Op(s, k) = "download"
      /\ pc' = pc /\ at' = at /\ late' = late /\ failed \subseteq failed'
  BY HandlerMoves
<1>a. \A u \in Scripts : \A j \in Requests(u) :
        /\ req[u][j] = "none" => req'[u][j] = "none"
        /\ Answered(u, j) => Answered(u, j)'
  BY <1>m DEF Answered
<1>p. \A u \in Scripts : at[u] \in Requests(u) /\ Posted(u)' = Posted(u) /\ Posted(u) \subseteq Requests(u)
  BY <1>m DEF TypeInv, TypeOK, Posted, Requests
<1>1. ASSUME NEW u \in Scripts PROVE Ahead(u)'
  <2>1. Ahead(u)
    BY DEF ScriptsInv
  <2> QED
    BY <1>m, <1>a, <2>1 DEF Ahead, Requests
<1>2. ASSUME NEW u \in Scripts PROVE Known(u)'
  <2>1. Known(u)
    BY DEF ScriptsInv
  <2> QED
    BY <1>m, <1>a, <1>p, <2>1 DEF Known, Requests
<1>3. ASSUME NEW u \in Scripts PROVE Timed(u)'
  <2> SUFFICES ASSUME NEW j \in Posted(u)
               PROVE  /\ req'[u][j] = "streamed" => <<u, j>> \in failed' \cup late'
                      /\ Sole(u) /\ Experiment[u] \in ValidIds /\ req'[u][j] = "ok"
                           /\ <<u, j>> \notin failed' \cup late'
                           => \E i \in DOMAIN table' :
                                owner'[i] = <<u, j>> /\ table'[i].client = Timing(u, j)
    BY <1>p DEF Timed, Sole
  <2>1. j \in Requests(u) /\ Answered(u, j)
    BY <1>p DEF ScriptsInv, Known
  <2>2. /\ req[u][j] = "streamed" => <<u, j>> \in failed \cup late
        /\ Sole(u) /\ Experiment[u] \in ValidIds
             /\ req[u][j] = "ok" /\ <<u, j>> \notin failed \cup late
             => \E i \in DOMAIN table : owner[i] = <<u, j>> /\ table[i].client = Timing(u, j)
    BY DEF ScriptsInv, Timed
  <2>3. req'[u][j] = req[u][j] \/ (req[u][j] = "streamed" /\ req'[u][j] = "ok")
    BY <1>m, <2>1 DEF Answered
  <2> QED
    BY <1>m, <2>2, <2>3, RunsStay
<1>4. Streams'
  BY <1>m DEF ScriptsInv, Streams, Requests
<1> QED
  BY <1>1, <1>2, <1>3, <1>4 DEF ScriptsInv

(***************************************************************************)
(* Posts.                                                                  *)
(***************************************************************************)
\* A script with an id of its own matches no run but that of the request it posts for.
LEMMA MatchesOwn ==
  ASSUME TypeInv, Rows, NEW s \in Scripts, Sole(s), NEW k \in Requests(s),
         Experiment[s] \in ValidIds, NEW i \in DOMAIN table
  PROVE  i \in Matches(table, PostOf(s, k)) <=> owner[i] = <<s, k>>
<1> DEFINE p == PostOf(s, k)
<1>1. /\ p.op = Op(s, k) /\ p.idx = Plan(s)[k].idx /\ p.exp = Experiment[s] /\ p.exp # 0
  BY DraftFacts
<1> HIDE DEF p
<1>2. i \in Matches(table, p) <=>
        table[i].op = p.op /\ table[i].exp = p.exp /\ table[i].idx = p.idx
  BY <1>1 DEF Matches
<1>3. PICK u \in Scripts : \E j \in Requests(u) : owner[i] = <<u, j>> /\ RowOf(table[i], u, j)
  BY DEF Rows
<1>4. PICK j \in Requests(u) : owner[i] = <<u, j>> /\ RowOf(table[i], u, j)
  BY <1>3
<1>5. /\ table[i].op = Op(u, j) /\ table[i].idx = Plan(u)[j].idx
      /\ table[i].exp = IF Experiment[u] \in ValidIds THEN Experiment[u] ELSE 0
  BY <1>4, DraftFacts DEF RowOf
<1>6. ASSUME i \in Matches(table, p) PROVE u = s /\ j = k
  <2>1. u = s
    BY <1>1, <1>2, <1>5, <1>6 DEF Sole
  <2> QED
    BY <1>1, <1>2, <1>4, <1>5, <1>6, <2>1, PlanFacts
<1>7. ASSUME u = s, j = k PROVE i \in Matches(table, p)
  BY <1>1, <1>2, <1>5, <1>7
<1>8. owner[i] = <<s, k>> <=> u = s /\ j = k
  BY <1>4
<1> QED
  BY <1>6, <1>7, <1>8 DEF p

\* What a post does to the runs: it gives its timings to one of its id, and to no other.
LEMMA SubmitOne ==
  ASSUME TypeInv, LogInv, NEW s \in Scripts, SubmitTimings(s), NEW i \in DOMAIN table
  PROVE  /\ i \in DOMAIN table'
         /\ \/ table'[i] = table[i]
            \/ /\ table[i].exp = Experiment[s] /\ Experiment[s] # 0
               /\ table'[i].client = Timing(s, at[s])
               /\ table'[i].op = table[i].op /\ table'[i].exp = table[i].exp
               /\ table'[i].idx = table[i].idx
<1> DEFINE p == PostOf(s, at[s])
           found == IF p.exp \in ValidIds THEN Matches(table, p) ELSE {}
<1>1. /\ at[s] \in Requests(s) /\ p \in Post /\ p.exp = Experiment[s] /\ p.exp # 0
      /\ p.phases = Timing(s, at[s])
  BY DraftFacts DEF TypeInv, TypeOK
<1>2. /\ \/ table' = table
         \/ \E k \in found :
              /\ k \in DOMAIN table /\ table'[k] = WithTimings(table[k], p)
              /\ \A j \in DOMAIN table : j # k => table'[j] = table[j]
      /\ DOMAIN table' = DOMAIN table
  BY SubmitFacts
<1>3. \A k \in found : table[k].exp = p.exp /\ table[k].idx = p.idx
  BY <1>1 DEF Matches
<1>4. table \in Seq(Run)
  BY DEF TypeInv, TypeOK
<1> HIDE DEF found, p
<1>5. ASSUME NEW k \in found, k \in DOMAIN table, table'[k] = WithTimings(table[k], p)
      PROVE  /\ table'[k].client = Timing(s, at[s]) /\ table[k].exp = Experiment[s]
             /\ table'[k].op = table[k].op /\ table'[k].exp = table[k].exp
             /\ table'[k].idx = table[k].idx
  <2>1. table[k] \in Run
    BY <1>4, <1>5
  <2> QED
    BY <1>1, <1>3, <1>5, <2>1, TimingsFacts
<1> QED
  BY <1>1, <1>2, <1>5

\* If no other script has that id, the one is the run of its own request, if there is one.
LEMMA SubmitOwn ==
  ASSUME TypeInv, LogInv, NEW s \in Scripts, Sole(s), SubmitTimings(s)
  PROVE  /\ DOMAIN table' = DOMAIN table
         /\ \A i \in DOMAIN table :
              \/ table'[i] = table[i]
              \/ owner[i] = <<s, at[s]>> /\ table'[i].client = Timing(s, at[s])
         /\ Experiment[s] \in ValidIds =>
              \A i \in DOMAIN table :
                owner[i] = <<s, at[s]>> => table'[i].client = Timing(s, at[s])
<1> DEFINE p == PostOf(s, at[s])
           found == IF p.exp \in ValidIds THEN Matches(table, p) ELSE {}
<1>1. /\ at[s] \in Requests(s) /\ p \in Post /\ p.exp = Experiment[s] /\ p.exp # 0
      /\ p.phases = Timing(s, at[s]) /\ p.idx = Plan(s)[at[s]].idx
  BY DraftFacts DEF TypeInv, TypeOK
<1>2. /\ \/ table' = table /\ ~\E k \in found : found = {k}
         \/ \E k \in found :
              /\ found = {k} /\ k \in DOMAIN table
              /\ table'[k] = WithTimings(table[k], p)
              /\ \A i \in DOMAIN table : i # k => table'[i] = table[i]
      /\ DOMAIN table' = DOMAIN table
  BY SubmitFacts
<1>3. found \subseteq DOMAIN table /\ table \in Seq(Run)
  BY DEF Matches, TypeInv, TypeOK
<1>4. Experiment[s] \in ValidIds =>
        \A i \in DOMAIN table : i \in found <=> owner[i] = <<s, at[s]>>
  BY <1>1, MatchesOwn DEF LogInv
<1>5. found # {} => Experiment[s] \in ValidIds
  BY <1>1
<1>m. \A k \in found : table[k].exp = p.exp /\ table[k].idx = p.idx
  BY <1>1 DEF Matches
<1> HIDE DEF found, p
<1>6. CASE table' = table /\ ~\E k \in found : found = {k}
  <2>1. ASSUME Experiment[s] \in ValidIds, NEW i \in DOMAIN table, owner[i] = <<s, at[s]>>
        PROVE  FALSE
    <3>1. i \in found
      BY <1>4, <2>1
    <3>2. \A k \in found : k = i
      BY <1>3, <1>4, <2>1 DEF LogInv, OneRun
    <3> QED
      BY <1>6, <3>1, <3>2
  <2> QED
    BY <1>2, <1>6, <2>1
<1>7. CASE \E k \in found :
              /\ found = {k} /\ k \in DOMAIN table
              /\ table'[k] = WithTimings(table[k], p)
              /\ \A i \in DOMAIN table : i # k => table'[i] = table[i]
  <2>1. PICK k \in found :
              /\ found = {k} /\ k \in DOMAIN table
              /\ table'[k] = WithTimings(table[k], p)
              /\ \A i \in DOMAIN table : i # k => table'[i] = table[i]
    BY <1>7
  <2>2. owner[k] = <<s, at[s]>> /\ \A i \in DOMAIN table : owner[i] = <<s, at[s]>> => i = k
    BY <1>4, <1>5, <2>1
  <2>3. table[k] \in Run
    BY <1>3, <2>1
  <2>4. table'[k].client = Timing(s, at[s])
    BY <1>1, <1>m, <2>1, <2>3, TimingsFacts
  <2> QED
    BY <1>2, <2>1, <2>2, <2>4
<1> QED
  BY <1>2, <1>6, <1>7

LEMMA SubmitLogInv ==
  ASSUME TypeInv, LogInv, NEW s \in Scripts, SubmitTimings(s)
  PROVE  LogInv'
<1>1. owner' = owner /\ req' = req /\ failed' = failed
  BY DEF SubmitTimings
<1>2. /\ DOMAIN table' = DOMAIN table
      /\ \A i \in DOMAIN table :
           \/ table'[i] = table[i]
           \/ /\ table[i].exp = Experiment[s] /\ Experiment[s] # 0
              /\ table'[i].client = Timing(s, at[s])
              /\ table'[i].op = table[i].op /\ table'[i].exp = table[i].exp
              /\ table'[i].idx = table[i].idx
  BY SubmitOne, SubmitFacts
<1>3. OneRun' /\ Kept'
  BY <1>1, <1>2 DEF LogInv, OneRun, Kept, Requests
<1>4. Rows'
  <2> SUFFICES ASSUME NEW i \in DOMAIN table
               PROVE  \E u \in Scripts : \E j \in Requests(u) :
                        /\ owner[i] = <<u, j>> /\ RowOf(table'[i], u, j)
                        /\ req[u][j] \in {"recorded", "ok"}
    BY <1>1, <1>2 DEF Rows, RowOf, Sole, Requests
  <2>1. PICK u \in Scripts : \E j \in Requests(u) :
          owner[i] = <<u, j>> /\ RowOf(table[i], u, j) /\ req[u][j] \in {"recorded", "ok"}
    BY DEF LogInv, Rows
  <2>2. PICK j \in Requests(u) :
          owner[i] = <<u, j>> /\ RowOf(table[i], u, j) /\ req[u][j] \in {"recorded", "ok"}
    BY <2>1
  <2>3. RowOf(table'[i], u, j)
    <3>1. CASE table'[i] = table[i]
      BY <2>2, <3>1
    <3>2. CASE table'[i] # table[i]
      <4>1. Sole(u) => u = s
        <5>1. table[i].exp = Experiment[s] /\ Experiment[s] # 0
          BY <1>2, <3>2
        <5>2. table[i].exp = IF Experiment[u] \in ValidIds THEN Experiment[u] ELSE 0
          BY <2>2, DraftFacts DEF RowOf
        <5> QED
          BY <5>1, <5>2 DEF Sole
      <4>2. ASSUME Sole(u) PROVE table'[i].client = Timing(u, j)
        <5>1. owner[i] = <<s, at[s]>> /\ table'[i].client = Timing(s, at[s])
          BY <3>2, <4>1, <4>2, SubmitOwn
        <5>2. u = s /\ j = at[s]
          BY <2>2, <5>1
        <5> QED
          BY <5>1, <5>2
      <4> QED
        BY <1>2, <2>2, <3>2, <4>2 DEF RowOf
    <3> QED
      BY <3>1, <3>2
  <2> QED
    BY <2>2, <2>3
<1> QED
  BY <1>3, <1>4 DEF LogInv

(***************************************************************************)
(* Scripts.                                                                *)
(***************************************************************************)
LEMMA AskInv ==
  ASSUME TypeInv, LogInv, ScriptsInv, NEW s \in Scripts, Ask(s)
  PROVE  LogInv' /\ ScriptsInv'
<1>1. /\ pc[s] = "ask" /\ pc' = [pc EXCEPT ![s] = "await"]
      /\ table' = table /\ owner' = owner /\ at' = at /\ failed' = failed /\ late' = late
  BY DEF Ask, log
<1>2. /\ \A u \in Scripts : u # s => req'[u] = req[u]
      /\ \A k \in Requests(s) :
           req'[s][k] = IF Mode[s] = "multiplex" \/ k = at[s] THEN "asked" ELSE req[s][k]
  BY DEF Ask, TypeInv, Layout
<1>3. Ahead(s) /\ Known(s) /\ Timed(s) /\ at[s] \in Requests(s)
  BY DEF ScriptsInv, TypeInv, TypeOK
<1>4. \A u \in Scripts : \A k \in Requests(u) :
        \/ req'[u][k] = req[u][k]
        \/ req[u][k] = "none" /\ req'[u][k] = "asked"
  BY <1>1, <1>2, <1>3 DEF Ahead
<1>5. /\ pc'[s] = "await" /\ \A u \in Scripts : u # s => pc'[u] = pc[u]
  BY <1>1 DEF TypeInv, TypeOK
<1>6. LogInv'
  <2>1. OneRun' /\ Rows'
    BY <1>1, <1>4 DEF LogInv, OneRun, Rows, RowOf, Sole, Requests
  <2>2. Kept'
    BY <1>1, <1>4 DEF LogInv, Kept, Requests
  <2> QED
    BY <2>1, <2>2 DEF LogInv
<1>7. \A u \in Scripts : Posted(u)' = Posted(u) /\ Posted(u) \subseteq Requests(u)
  BY <1>1, <1>5 DEF Posted, Requests
<1>8. ASSUME NEW u \in Scripts
      PROVE  Ahead(u)' /\ Known(u)' /\ Timed(u)'
  <2>0. Ahead(u) /\ Known(u) /\ Timed(u)
    BY DEF ScriptsInv
  <2>1. Ahead(u)'
    <3>1. CASE u = s
      <4>1. at[s] \in Nat /\ \A k \in Requests(s) : k \in Nat
        BY <1>3, PlanFacts
      <4> QED
        BY <1>1, <1>2, <1>3, <1>5, <3>1, <4>1 DEF Ahead, Requests
    <3>2. CASE u # s
      BY <1>1, <1>2, <1>5, <2>0, <3>2 DEF Ahead, Requests
    <3> QED
      BY <3>1, <3>2
  <2>2. \A k \in Posted(u) : req'[u][k] = req[u][k]
    BY <1>4, <1>7, <2>0 DEF Known, Answered
  <2>3. Known(u)'
    <3>1. \A k \in Posted(u) : Answered(u, k)'
      BY <2>0, <2>2 DEF Known, Answered
    <3>2. CASE u = s
      BY <1>5, <1>7, <3>1, <3>2 DEF Known
    <3>3. CASE u # s
      BY <1>1, <1>2, <1>5, <1>7, <2>0, <3>1, <3>3 DEF Known, Answered, Requests
    <3> QED
      BY <3>2, <3>3
  <2>4. Timed(u)'
    BY <1>1, <1>7, <2>0, <2>2 DEF Timed, Sole
  <2> QED
    BY <2>1, <2>3, <2>4
<1>9. Streams'
  BY <1>1, <1>4 DEF ScriptsInv, Streams, Requests
<1> QED
  BY <1>6, <1>8, <1>9 DEF ScriptsInv

LEMMA CollectInv ==
  ASSUME TypeInv, LogInv, ScriptsInv, NEW s \in Scripts,
         Collect(s) \/ CollectAll(s) \/ Break(s)
  PROVE  LogInv' /\ ScriptsInv'
<1>1. /\ table' = table /\ owner' = owner /\ at' = at /\ failed' = failed /\ late' = late
      /\ req' = req /\ pc[s] \in {"await", "post"}
  BY DEF Collect, CollectAll, Break, log
<1>2. PICK l \in {"post", "stopped"} :
        /\ pc' = [pc EXCEPT ![s] = l]
        /\ l = "post" => /\ Answered(s, at[s])
                         /\ Mode[s] = "multiplex" => \A k \in Requests(s) : Answered(s, k)
  <2>1. CASE Collect(s) \/ Break(s)
    BY <2>1 DEF Collect, Break
  <2>2. CASE CollectAll(s)
    BY <2>2 DEF CollectAll, TypeInv, TypeOK
  <2> QED
    BY <2>1, <2>2
<1>3. /\ pc'[s] = l /\ \A u \in Scripts : u # s => pc'[u] = pc[u]
  BY <1>2 DEF TypeInv, TypeOK
<1>4. LogInv'
  BY <1>1 DEF LogInv, Rows, RowOf, Sole, OneRun, Kept, Requests
<1>5. \A u \in Scripts : Posted(u)' = Posted(u)
  BY <1>1, <1>3 DEF Posted, Requests
<1>6. ASSUME NEW u \in Scripts
      PROVE  Ahead(u)' /\ Known(u)' /\ Timed(u)'
  <2>0. Ahead(u) /\ Known(u) /\ Timed(u)
    BY DEF ScriptsInv
  <2>1. Ahead(u)'
    BY <1>1, <1>3, <2>0 DEF Ahead, Requests
  <2>2. Known(u)'
    BY <1>1, <1>2, <1>3, <1>5, <2>0 DEF Known, Answered, Requests
  <2>3. Timed(u)'
    BY <1>1, <1>5, <2>0 DEF Timed, Sole
  <2> QED
    BY <2>1, <2>2, <2>3
<1>7. Streams'
  BY <1>1 DEF ScriptsInv, Streams, Requests
<1> QED
  BY <1>4, <1>6, <1>7 DEF ScriptsInv

\* The timings of a request are posted, and the script goes on.
LEMMA PostInv ==
  ASSUME TypeInv, LogInv, ScriptsInv, NEW s \in Scripts,
         SubmitTimings(s) \/ SubmitFails(s)
  PROVE  LogInv' /\ ScriptsInv'
<1>1. pc[s] = "post" /\ GoOn(s) /\ req' = req /\ owner' = owner
  BY DEF SubmitTimings, SubmitFails, log
<1>2. /\ failed \subseteq failed' /\ late \subseteq late'
      /\ SubmitFails(s) => <<s, at[s]>> \in failed' /\ table' = table /\ late' = late
                           /\ failed' = failed \cup {<<s, at[s]>>}
      /\ SubmitTimings(s) =>
           /\ failed' = failed /\ late' \subseteq late \cup {<<s, at[s]>>}
           /\ req[s][at[s]] = "streamed" => <<s, at[s]>> \in late'
           /\ <<s, at[s]>> \in late' \ late => req[s][at[s]] = "streamed"
  BY DEF SubmitTimings, SubmitFails, log
<1>3. LogInv'
  <2>1. CASE SubmitTimings(s)
    BY <2>1, SubmitLogInv
  <2>2. CASE SubmitFails(s)
    BY <1>1, <1>2, <2>2 DEF LogInv, Rows, RowOf, Sole, OneRun, Kept, Requests
  <2> QED
    BY <2>1, <2>2
<1>4. /\ Len(Plan(s)) \in Nat /\ at[s] \in 1..Len(Plan(s))
      /\ \A u \in Scripts : u # s => pc'[u] = pc[u] /\ at'[u] = at[u]
      /\ at[s] = Len(Plan(s)) => pc'[s] = "done" /\ at'[s] = at[s]
      /\ at[s] < Len(Plan(s)) =>
           /\ at'[s] = at[s] + 1
           /\ pc'[s] = IF Mode[s] = "multiplex" THEN "post" ELSE "ask"
  BY <1>1, GoOnFacts
<1>5. /\ Requests(s) = 1..Len(Plan(s)) /\ at[s] \in Requests(s)
      /\ Ahead(s) /\ Known(s) /\ Timed(s)
  BY <1>4, PlanFacts DEF ScriptsInv
<1>6. Posted(s)' = Posted(s) \cup {at[s]} /\ Posted(s) \subseteq Requests(s)
  BY <1>1, <1>4, <1>5 DEF Posted
<1>7. \A u \in Scripts : u # s => Posted(u)' = Posted(u)
  BY <1>4 DEF Posted, Requests
<1>8. ASSUME NEW u \in Scripts
      PROVE  Ahead(u)' /\ Known(u)'
  <2>0. Ahead(u) /\ Known(u)
    BY DEF ScriptsInv
  <2>1. CASE u # s
    BY <1>1, <1>4, <1>7, <2>0, <2>1 DEF Ahead, Known, Answered, Requests
  <2>2. CASE u = s
    <3>1. Ahead(s)'
      BY <1>1, <1>4, <1>5 DEF Ahead, Requests
    <3>2. \A k \in Posted(s) \cup {at[s]} : Answered(s, k)'
      BY <1>1, <1>5 DEF Known, Answered
    <3>3. pc'[s] = "post" => /\ Answered(s, at[s])' 
                             /\ Mode[s] = "multiplex" => \A k \in Requests(s) : Answered(s, k)'
      BY <1>1, <1>4, <1>5 DEF Known, Answered
    <3>4. ~(pc'[s] = "ask" /\ Mode[s] = "multiplex")
      BY <1>4
    <3> QED
      BY <1>6, <2>2, <3>1, <3>2, <3>3, <3>4 DEF Known, Requests
  <2> QED
    BY <2>1, <2>2
<1>9. ASSUME NEW u \in Scripts
      PROVE  Timed(u)'
  <2> SUFFICES ASSUME NEW k \in Posted(u)'
               PROVE  /\ req'[u][k] = "streamed" => <<u, k>> \in failed' \cup late'
                      /\ Sole(u) /\ Experiment[u] \in ValidIds /\ req'[u][k] = "ok"
                           /\ <<u, k>> \notin failed' \cup late'
                           => \E i \in DOMAIN table' :
                                owner'[i] = <<u, k>> /\ table'[i].client = Timing(u, k)
    BY DEF Timed, Sole
  <2>1. CASE k \in Posted(u)
    <3>1. /\ req[u][k] = "streamed" => <<u, k>> \in failed \cup late
          /\ Sole(u) /\ Experiment[u] \in ValidIds
               /\ req[u][k] = "ok" /\ <<u, k>> \notin failed \cup late
               => \E i \in DOMAIN table : owner[i] = <<u, k>> /\ table[i].client = Timing(u, k)
      BY <2>1 DEF ScriptsInv, Timed
    <3>2. CASE SubmitFails(s)
      BY <1>1, <1>2, <3>1, <3>2
    <3>3. CASE SubmitTimings(s)
      <4>1. ASSUME Sole(u), NEW i \in DOMAIN table, owner[i] = <<u, k>>,
                   table[i].client = Timing(u, k)
            PROVE  i \in DOMAIN table' /\ table'[i].client = Timing(u, k)
        <5>1. /\ i \in DOMAIN table'
              /\ table'[i] = table[i] \/ (table[i].exp = Experiment[s] /\ Experiment[s] # 0)
          BY <3>3, SubmitOne
        <5>2. table[i].exp = IF Experiment[u] \in ValidIds THEN Experiment[u] ELSE 0
          <6>1. PICK v \in Scripts : \E j \in Requests(v) :
                  owner[i] = <<v, j>> /\ RowOf(table[i], v, j)
            BY DEF LogInv, Rows
          <6>2. PICK j \in Requests(v) : owner[i] = <<v, j>> /\ RowOf(table[i], v, j)
            BY <6>1
          <6>3. v = u
            BY <4>1, <6>2
          <6> QED
            BY <6>2, <6>3, DraftFacts DEF RowOf
        <5>3. CASE table'[i] # table[i]
          <6>1. u = s
            BY <4>1, <5>1, <5>2, <5>3 DEF Sole
          <6>2. owner[i] = <<s, at[s]>> /\ table'[i].client = Timing(s, at[s])
            BY <3>3, <4>1, <5>3, <6>1, SubmitOwn
          <6> QED
            BY <4>1, <5>1, <6>1, <6>2
        <5> QED
          BY <4>1, <5>1, <5>3
      <4> QED
        BY <1>1, <1>2, <3>1, <4>1
    <3> QED
      BY <3>2, <3>3
  <2>2. CASE k \notin Posted(u)
    <3>1. u = s /\ k = at[s]
      BY <1>6, <1>7, <2>2
    <3>2. CASE SubmitFails(s)
      BY <1>2, <3>1, <3>2
    <3>3. CASE SubmitTimings(s)
      <4>1. req'[u][k] = "streamed" => <<u, k>> \in late'
        BY <1>1, <1>2, <3>1, <3>3
      <4>2. ASSUME Sole(s), Experiment[s] \in ValidIds, req[s][k] = "ok", <<s, k>> \notin failed
            PROVE  \E i \in DOMAIN table' :
                     owner'[i] = <<s, k>> /\ table'[i].client = Timing(s, k)
        <5>1. PICK i \in DOMAIN table : owner[i] = <<s, k>>
          BY <1>5, <3>1, <4>2 DEF LogInv, Kept
        <5>2. i \in DOMAIN table' /\ table'[i].client = Timing(s, k)
          BY <3>1, <3>3, <4>2, <5>1, SubmitOwn
        <5> QED
          BY <1>1, <5>1, <5>2
      <4> QED
        BY <1>1, <1>2, <3>1, <4>1, <4>2
    <3> QED
      BY <3>2, <3>3
  <2> QED
    BY <2>1, <2>2
<1>10. Streams'
  <2>1. \A u \in Scripts : \A k \in Requests(u) : req'[u][k] = "streamed" => Op(u, k) = "download"
    BY <1>1 DEF ScriptsInv, Streams
  <2>2. ASSUME NEW f \in late'
        PROVE  Op(f[1], f[2]) = "download"
    <3>1. CASE f \in late
      BY <3>1 DEF ScriptsInv, Streams
    <3>2. CASE f \notin late
      <4>1. f = <<s, at[s]>> /\ req[s][at[s]] = "streamed"
        BY <1>2, <3>2
      <4>2. f[1] = s /\ f[2] = at[s]
        BY <4>1
      <4> QED
        BY <1>5, <4>1, <4>2 DEF ScriptsInv, Streams
    <3> QED
      BY <3>1, <3>2
  <2> QED
    BY <2>1, <2>2 DEF Streams, Requests
<1> QED
  BY <1>3, <1>8, <1>9, <1>10 DEF ScriptsInv

(***************************************************************************)
(* Every step, and what follows.                                           *)
(***************************************************************************)
SessionInv == LogInv /\ ScriptsInv

LEMMA SessionStep == TypeInv /\ SessionInv /\ [Next]_vars => SessionInv'
<1> SUFFICES ASSUME TypeInv, SessionInv, [Next]_vars
             PROVE  SessionInv'
  OBVIOUS
<1> LogInv /\ ScriptsInv
  BY DEF SessionInv
<1>1. ASSUME NEW s \in Scripts, NEW k \in Requests(s), Handles(s, k)
      PROVE  SessionInv'
  BY <1>1, HandlerLogInv, HandlerScriptsInv DEF SessionInv
<1>2. ASSUME NEW s \in Scripts, Ask(s)
      PROVE  SessionInv'
  BY <1>2, AskInv DEF SessionInv
<1>3. ASSUME NEW s \in Scripts, Collect(s) \/ CollectAll(s) \/ Break(s)
      PROVE  SessionInv'
  BY <1>3, CollectInv DEF SessionInv
<1>4. ASSUME NEW s \in Scripts, SubmitTimings(s) \/ SubmitFails(s)
      PROVE  SessionInv'
  BY <1>4, PostInv DEF SessionInv
<1>5. CASE UNCHANGED vars
  BY <1>5 DEF vars, SessionInv, LogInv, Rows, RowOf, Sole, OneRun, Kept, ScriptsInv, Ahead,
    Known, Timed, Posted, Streams, Answered, Requests
<1> QED
  BY <1>1, <1>2, <1>3, <1>4, <1>5 DEF Next, Handles

LEMMA SessionInit == Init => SessionInv
<1> SUFFICES ASSUME Init
             PROVE  SessionInv
  OBVIOUS
<1>1. /\ table = <<>> /\ failed = {} /\ late = {}
      /\ \A s \in Scripts : pc[s] = "ask" /\ at[s] = 1 /\ Posted(s) = {}
           /\ \A k \in Requests(s) : req[s][k] = "none"
  <2>1. table = <<>> /\ failed = {} /\ late = {}
    BY DEF Init
  <2>2. ASSUME NEW s \in Scripts
        PROVE  pc[s] = "ask" /\ at[s] = 1 /\ \A k \in Requests(s) : req[s][k] = "none"
    BY DEF Init
  <2>3. ASSUME NEW s \in Scripts
        PROVE  Posted(s) = {}
    <3>1. Len(Plan(s)) \in Nat /\ Requests(s) = 1..Len(Plan(s))
      BY PlanFacts
    <3> QED
      BY <2>2, <3>1 DEF Posted
  <2> QED
    BY <2>1, <2>2, <2>3
<1>2. LogInv
  BY <1>1 DEF LogInv, Rows, OneRun, Kept
<1>3. ScriptsInv
  BY <1>1 DEF ScriptsInv, Ahead, Known, Timed, Streams
<1> QED
  BY <1>2, <1>3 DEF SessionInv

\* No request has two runs, every run is what its request asked for, and of every post of
\* a script with an id of its own it is known what became of it.
THEOREM SessionInvariant == Spec => []SessionInv
<1>1. TypeInv /\ SessionInv /\ [Next]_vars => SessionInv'
  BY SessionStep
<1> QED
  BY <1>1, TypeInvariant, SessionInit, PTL DEF Spec

\* If the scripts have ids of their own, no timings end up on the run of another sample or
\* another script, whatever was lost, refused or recorded late before.
THEOREM TimingsAreOwn == ASSUME DistinctIds PROVE Spec => []OwnTimings
<1>1. TypeInv /\ SessionInv => OwnTimings
  <2> SUFFICES ASSUME TypeInv, SessionInv, NEW i \in DOMAIN table, table[i].client # 0
               PROVE  table[i].client = Timing(owner[i][1], owner[i][2])
    BY DEF OwnTimings
  <2>1. PICK s \in Scripts : \E k \in Requests(s) : owner[i] = <<s, k>> /\ RowOf(table[i], s, k)
    BY DEF SessionInv, LogInv, Rows
  <2> QED
    BY <2>1 DEF RowOf, DistinctIds
<1> QED
  BY <1>1, TypeInvariant, SessionInvariant, PTL

\* And every request that was answered with success, that the storage did not refuse and
\* whose post did not overtake its run, has one run with its timings after the post.
THEOREM SamplesAreComplete == ASSUME DistinctIds PROVE Spec => []SamplesComplete
<1>1. TypeInv /\ SessionInv => SamplesComplete
  <2> SUFFICES ASSUME TypeInv, SessionInv
               PROVE  SamplesComplete
    OBVIOUS
  <2>1. ASSUME NEW s \in Scripts, Experiment[s] \in ValidIds, NEW k \in Posted(s),
               req[s][k] = "ok", <<s, k>> \notin failed \cup late
        PROVE  Cardinality(TimedRuns(s, k)) = 1
    <3>1. PICK i \in DOMAIN table : owner[i] = <<s, k>> /\ table[i].client = Timing(s, k)
      BY <2>1 DEF SessionInv, ScriptsInv, Timed, DistinctIds
    <3>2. TimedRuns(s, k) = {i}
      BY <3>1 DEF TimedRuns, SessionInv, LogInv, OneRun
    <3> QED
      BY <3>2, FS_Singleton
  <2> QED
    BY <2>1 DEF SamplesComplete, SessionInv, ScriptsInv, Streams
<1> QED
  BY <1>1, TypeInvariant, SessionInvariant, PTL
=============================================================================
