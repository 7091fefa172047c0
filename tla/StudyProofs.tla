------------------------------ MODULE StudyProofs ------------------------------
(***************************************************************************)
(* Proofs about a study, for every set of command lines, every report of   *)
(* curl, every page limit and every number of refreshes under way.  The    *)
(* script and the dashboard run beside each other on the log: their types, *)
(* that no filter the user chose is lost, and that the page goes back to   *)
(* an older state of the log only where refreshes overlap.  Then what they *)
(* report: the arrays of the script hold what curl said of each request    *)
(* and the runs of the study what was posted of it, so that the summary    *)
(* the script prints, and the one the dashboard shows, are percentiles of  *)
(* the measured requests and of them alone (TimingProofs has what the      *)
(* percentiles of a sequence are).                                         *)
(***************************************************************************)
EXTENDS Study, TimingProofs, FiniteSetTheorems, SequenceTheorems, TLAPS

-----------------------------------------------------------------------------
(***************************************************************************)
(* Pages of the log.                                                       *)
(***************************************************************************)
\* A page has at most Limit runs, and tells when there are more.
Pages ==
  {p \in [runs: Seq(Run), total: Nat, truncated: BOOLEAN] :
     Len(p.runs) <= Limit /\ (p.truncated <=> p.total > Len(p.runs))}

\* The place of the oldest run of a page, and the places of the timed runs of one.
First(t) == IF Len(t) > Limit THEN Len(t) - Limit + 1 ELSE 1
Timed(t) == {k \in First(t)..Len(t) : t[k].client # 0}

\* The runs of a page, the newest first.
LEMMA PageRuns ==
  ASSUME NEW t \in Seq(Run)
  PROVE  /\ First(t) \in 1..(Len(t) + 1) /\ Len(t) - First(t) + 1 <= Limit
         /\ Page(t).runs \in Seq(Run)
         /\ Len(Page(t).runs) = Len(t) - First(t) + 1
         /\ \A i \in 1..(Len(t) - First(t) + 1) : Page(t).runs[i] = t[Len(t) - i + 1]
         /\ Page(t).total = Len(t)
         /\ Page(t).truncated = (Len(t) > Len(Page(t).runs))
<1> DEFINE n == Len(t) - First(t) + 1
           s == SubSeq(t, First(t), Len(t))
<1>1. Len(t) \in Nat /\ Limit \in Nat /\ Limit >= 1
  BY DashboardAssumption
<1>2. /\ First(t) \in 1..(Len(t) + 1) /\ n <= Limit /\ n \in Nat
      /\ n = Len(t) - First(t) + 1
  BY <1>1 DEF First
<1>3. /\ s \in Seq(Run) /\ Len(s) = n
      /\ \A i \in 1..n : s[i] = t[First(t) + i - 1] /\ s[i] \in Run
  <2>1. \A i \in 1..n : First(t) + i - 1 \in DOMAIN t
    BY <1>1, <1>2
  <2> QED
    BY <1>1, <1>2, <2>1
<1> HIDE DEF n, s
<1>4. /\ Reverse(s) \in Seq(Run) /\ Len(Reverse(s)) = n
      /\ \A i \in 1..n : Reverse(s)[i] = t[Len(t) - i + 1]
  <2>1. Reverse(s) = [i \in 1..n |-> s[n - i + 1]]
    BY <1>3 DEF Reverse
  <2>2. \A i \in 1..n : n - i + 1 \in 1..n /\ First(t) + (n - i + 1) - 1 = Len(t) - i + 1
    BY <1>1, <1>2
  <2>3. \A i \in 1..n : s[n - i + 1] \in Run /\ s[n - i + 1] = t[Len(t) - i + 1]
    BY <1>3, <2>2
  <2>4. Reverse(s) \in [1..n -> Run]
    BY <2>1, <2>3
  <2>5. Reverse(s) \in Seq(Run)
    BY <1>2, <2>4, SeqDef
  <2> QED
    BY <1>2, <2>1, <2>3, <2>4, <2>5
<1>5. /\ Page(t).runs = Reverse(s) /\ Page(t).total = Len(t)
      /\ Page(t).truncated = (Len(t) > Len(Page(t).runs))
  BY DEF Page, First, s
<1> QED
  BY <1>2, <1>4, <1>5 DEF n

\* What the server answers is a page.
LEMMA PageIsPage ==
  ASSUME NEW t \in Seq(Run)
  PROVE  Page(t) \in Pages
<1>1. /\ Page(t).runs \in Seq(Run) /\ Page(t).total = Len(t)
      /\ Len(Page(t).runs) <= Limit
      /\ Page(t).truncated = (Len(t) > Len(Page(t).runs))
  BY PageRuns
<1>2. Len(t) \in Nat /\ Len(Page(t).runs) \in Nat
  BY <1>1
<1>3. Page(t) = [runs |-> Page(t).runs, total |-> Page(t).total,
                 truncated |-> Page(t).truncated]
  BY DEF Page
<1>4. Page(t).truncated \in BOOLEAN
  BY <1>1
<1>5. Page(t) \in [runs: Seq(Run), total: Nat, truncated: BOOLEAN]
  BY <1>1, <1>2, <1>3, <1>4
<1>6. Page(t).truncated <=> Page(t).total > Len(Page(t).runs)
  BY <1>1, Zenon
<1> QED
  BY <1>1, <1>5, <1>6, Zenon DEF Pages

\* The age of a page counts the runs of the log and the timed runs of the page.
LEMMA PageAge ==
  ASSUME NEW t \in Seq(Run)
  PROVE  /\ IsFiniteSet(Timed(t)) /\ Cardinality(Timed(t)) \in Nat
         /\ Age(Page(t)) = Len(t) + Cardinality(Timed(t))
<1> DEFINE n == Len(t) - First(t) + 1
           p == Page(t)
           S == {i \in DOMAIN p.runs : p.runs[i].client # 0}
           f == [i \in S |-> Len(t) - i + 1]
<1>1. /\ Len(t) \in Nat /\ First(t) \in 1..(Len(t) + 1) /\ n \in Nat
      /\ n = Len(t) - First(t) + 1 /\ DOMAIN p.runs = 1..n /\ p.total = Len(t)
      /\ \A i \in 1..n : p.runs[i] = t[Len(t) - i + 1]
  BY PageRuns
<1>7. Age(p) = Len(t) + Cardinality(S)
  BY <1>1 DEF Age
<1> HIDE DEF p, n
<1>2. \A i : i \in S <=> i \in 1..n /\ t[Len(t) - i + 1].client # 0
  BY <1>1
<1> HIDE DEF S
<1>3. IsFiniteSet(S)
  <2>1. IsFiniteSet(1..n)
    BY <1>1, FS_Interval
  <2>2. S \in SUBSET (1..n)
    BY <1>2
  <2> QED
    BY <2>1, <2>2, FS_Subset
<1>4. f \in Bijection(S, Timed(t))
  <2>1. \A i \in S : Len(t) - i + 1 \in Timed(t)
    BY <1>1, <1>2 DEF Timed
  <2>2. \A i, j \in S : Len(t) - i + 1 = Len(t) - j + 1 => i = j
    BY <1>1, <1>2
  <2>3. ASSUME NEW k \in Timed(t)
        PROVE  \E i \in S : Len(t) - i + 1 = k
    <3>1. k \in First(t)..Len(t) /\ t[k].client # 0
      BY DEF Timed
    <3>2. Len(t) - k + 1 \in 1..n /\ Len(t) - (Len(t) - k + 1) + 1 = k
      BY <1>1, <3>1
    <3> QED
      BY <1>2, <3>1, <3>2
  <2>4. f \in [S -> Timed(t)] /\ \A i \in S : f[i] = Len(t) - i + 1
    BY <2>1
  <2> HIDE DEF f
  <2> QED
    BY <2>2, <2>3, <2>4 DEF Bijection, Injection, Surjection, IsInjective
<1>5. IsFiniteSet(Timed(t)) /\ Cardinality(Timed(t)) = Cardinality(S)
  <2>1. ExistsBijection(S, Timed(t))
    BY <1>4 DEF ExistsBijection
  <2> QED
    BY <1>3, <2>1, FS_Bijection
<1>6. Cardinality(Timed(t)) \in Nat
  BY <1>5, FS_CardinalityType
<1> QED
  BY <1>5, <1>6, <1>7 DEF p

\* A log that went on: nothing was taken from it, and no run lost its timings.
Later(t, u) ==
  /\ Len(t) <= Len(u)
  /\ \A k \in DOMAIN t : t[k].client # 0 => u[k].client # 0

\* Its page is not older, though the timed runs may have left it: of a run that leaves
\* the page another one has entered the log.
LEMMA AgeGrows ==
  ASSUME NEW t \in Seq(Run), NEW u \in Seq(Run), Later(t, u)
  PROVE  Age(Page(t)) <= Age(Page(u))
<1> DEFINE Left == First(t)..(First(u) - 1)
<1>1. /\ Len(t) \in Nat /\ Len(u) \in Nat /\ Len(t) <= Len(u)
      /\ DOMAIN t = 1..Len(t)
      /\ Limit \in Nat /\ Limit >= 1
  BY DashboardAssumption DEF Later
<1>2. /\ First(t) \in 1..(Len(t) + 1) /\ First(u) \in 1..(Len(u) + 1)
      /\ First(t) <= First(u) /\ First(u) - First(t) <= Len(u) - Len(t)
  BY <1>1 DEF First
<1>3. Timed(t) \subseteq Timed(u) \cup Left
  <2> SUFFICES ASSUME NEW k \in Timed(t), k \notin Left
               PROVE  k \in Timed(u)
    OBVIOUS
  <2>1. k \in First(t)..Len(t) /\ t[k].client # 0
    BY DEF Timed
  <2>2. k \in DOMAIN t /\ k \in First(u)..Len(u)
    BY <1>1, <1>2, <2>1
  <2> QED
    BY <2>1, <2>2 DEF Timed, Later
<1>4. IsFiniteSet(Left) /\ Cardinality(Left) = First(u) - First(t)
  <2>1. First(t) \in Int /\ First(u) - 1 \in Int
    BY <1>1, <1>2
  <2>2. /\ IsFiniteSet(First(t)..(First(u) - 1))
        /\ Cardinality(First(t)..(First(u) - 1)) =
             IF First(t) > First(u) - 1 THEN 0 ELSE First(u) - 1 - First(t) + 1
    BY <2>1, FS_Interval
  <2> QED
    BY <1>1, <1>2, <2>2
<1>5. /\ IsFiniteSet(Timed(t)) /\ Cardinality(Timed(t)) \in Nat
      /\ IsFiniteSet(Timed(u)) /\ Cardinality(Timed(u)) \in Nat
      /\ Age(Page(t)) = Len(t) + Cardinality(Timed(t))
      /\ Age(Page(u)) = Len(u) + Cardinality(Timed(u))
  BY PageAge
<1> HIDE DEF Left
<1>6. /\ IsFiniteSet(Timed(u) \cup Left)
      /\ Cardinality(Timed(u) \cup Left) =
           Cardinality(Timed(u)) + Cardinality(Left) - Cardinality(Timed(u) \cap Left)
  BY <1>4, <1>5, FS_Union
<1>7. Cardinality(Timed(u) \cap Left) \in Nat
  <2>1. IsFiniteSet(Timed(u) \cap Left)
    BY <1>5, FS_Intersection
  <2> QED
    BY <2>1, FS_CardinalityType
<1>8. Cardinality(Timed(t)) <= Cardinality(Timed(u) \cup Left)
  BY <1>3, <1>6, FS_Subset
<1>9. Cardinality(Timed(t)) <= Cardinality(Timed(u)) + (First(u) - First(t))
  BY <1>2, <1>4, <1>5, <1>6, <1>7, <1>8
<1> QED
  BY <1>1, <1>2, <1>5, <1>9

-----------------------------------------------------------------------------
(***************************************************************************)
(* The script.                                                             *)
(***************************************************************************)
\* Where a command line can be: a refused one asks for nothing, the download behind the
\* samples is one of uploads, and a single upload has no summary.
OnItsWay ==
  /\ pc = "start" => at = 1
  /\ pc \notin {"start", "refused"} => ~Refused(opt)
  /\ opt.only /\ pc \in {"ask", "post"} => at <= TOTAL_ITERS
  /\ pc = "print" => ~Single(opt)

ScriptInvariant == ScriptTypeOK /\ OnItsWay

TableOK == table \in Seq(Run) /\ \A i \in DOMAIN table : table[i].id = i

\* What the command lines of a study may be.
LEMMA Options ==
  ASSUME ScriptTypeOK
  PROVE  /\ opt \in CommandLine /\ series \in DOMAIN Curl
         /\ Repeat(opt) \in Nat \ {0} /\ Warmup(opt) \in Nat
         /\ TOTAL_ITERS \in Nat \ {0}
         /\ \A k \in 1..(TOTAL_ITERS + 1) : k \in DOMAIN Curl[series]
<1>1. [opt |-> opt, series |-> series] \in Setups
  BY DEF ScriptTypeOK
<1>2. opt \in CommandLine /\ series \in DOMAIN Curl
  BY <1>1, VMBenchAssumption
<1>3. opt.only \in BOOLEAN /\ opt.reuse \in BOOLEAN /\ opt.repeat \in Nat /\ opt.warmup \in Nat
  BY <1>2 DEF CommandLine
<1>4. Repeat(opt) \in Nat \ {0}
  BY <1>3, VMBenchAssumption DEF Repeat
<1>5. Warmup(opt) \in Nat
  BY <1>3, VMBenchAssumption DEF Warmup
<1>6. TOTAL_ITERS \in Nat \ {0}
  BY <1>4, <1>5 DEF TOTAL_ITERS
<1>7. 1..(Warmup(opt) + Repeat(opt) + 1) \subseteq DOMAIN Curl[series]
  BY <1>1, CurlAssumption
<1> QED
  BY <1>2, <1>4, <1>5, <1>6, <1>7 DEF TOTAL_ITERS

\* The runs and the timings of the script's requests.
LEMMA Requests ==
  ASSUME ScriptTypeOK, NEW k \in 1..(TOTAL_ITERS + 1)
  PROVE  DraftOf(k) \in Draft /\ PostOf(k) \in Post /\ PostOf(k).phases = k
<1>1. /\ opt \in CommandLine /\ series \in DOMAIN Curl /\ TOTAL_ITERS \in Nat
      /\ k \in DOMAIN Curl[series] /\ k \in Nat
  BY Options
<1>2. Curl[series][k] \in CurlTimes
  BY <1>1, VMBenchAssumption
<1>3. TimesOf(k) \in CurlTimes
  BY <1>2 DEF TimesOf, CurlTimes
<1>4. PhasesFromCurl(TimesOf(k)).tls \in Nat
  BY <1>3 DEF PhasesFromCurl, CurlTimes, secondsToMs, delta, tlsDelta
<1>5. Op(k) \in Operation
  BY DEF Op, Operation
<1>6. Idx(k) \in Nat /\ probeName(k) \in Nat /\ probeName(Idx(k)) \in Nat
  BY <1>1 DEF Idx, probeName, Experiment
<1> HIDE DEF probeName
<1>7. DraftOf(k) \in Draft
  BY <1>5, <1>6 DEF DraftOf, Draft, BlobName, Experiment
<1>8. PostOf(k) \in Post /\ PostOf(k).phases = k
  BY <1>1, <1>4, <1>5, <1>6 DEF PostOf, Post, Experiment
<1> QED
  BY <1>7, <1>8

LEMMA StampIsRun ==
  ASSUME NEW d \in Draft, NEW i \in Nat
  PROVE  Stamp(d, i) \in Run /\ Stamp(d, i).id = i
BY DEF Stamp, Draft, Run

\* A merge keeps the runs in their places, and no run loses its timings.
LEMMA MergeGoesOn ==
  ASSUME TableOK, NEW k \in DOMAIN table, NEW p \in Post, p.phases # 0
  PROVE  LET t == Merged(table, k, p)
         IN  /\ t \in Seq(Run) /\ \A i \in DOMAIN t : t[i].id = i
             /\ Later(table, t)
<1> DEFINE r == WithTimings(table[k], p)
           t == Merged(table, k, p)
<1>1. table[k] \in Run /\ table[k].id = k /\ k \in 1..Len(table)
  BY DEF TableOK
<1>2. r \in Run /\ r.id = k /\ r.client # 0
  BY <1>1 DEF WithTimings, Run, Post
<1>3. t = [table EXCEPT ![k] = r]
  BY DEF Merged
<1> HIDE DEF r, t
<1>4. /\ t \in Seq(Run) /\ Len(t) = Len(table) /\ DOMAIN t = DOMAIN table
      /\ \A j \in 1..Len(table) : t[j] = IF j = k THEN r ELSE table[j]
  BY <1>1, <1>2, <1>3 DEF TableOK
<1>5. DOMAIN table = 1..Len(table) /\ Len(table) \in Nat
  BY DEF TableOK
<1>6. \A i \in DOMAIN t : t[i].id = i
  BY <1>2, <1>4, <1>5 DEF TableOK
<1>7. Later(table, t)
  BY <1>2, <1>4, <1>5 DEF Later
<1> QED
  BY <1>4, <1>6, <1>7 DEF t

\* More runs behind those of the log, stamped with their places.
LEMMA RunsGoOn ==
  ASSUME TableOK, NEW u \in Seq(Run), \A i \in DOMAIN u : u[i].id = Len(table) + i
  PROVE  LET t == table \o u
         IN  /\ t \in Seq(Run) /\ \A i \in DOMAIN t : t[i].id = i
             /\ Later(table, t)
<1> DEFINE t == table \o u
<1>1. table \in Seq(Run) /\ Len(table) \in Nat /\ Len(u) \in Nat
      /\ DOMAIN table = 1..Len(table) /\ DOMAIN u = 1..Len(u)
  BY DEF TableOK
<1>2. /\ t \in Seq(Run) /\ Len(t) = Len(table) + Len(u) /\ DOMAIN t = 1..Len(t)
      /\ \A i \in 1..(Len(table) + Len(u)) :
           t[i] = IF i <= Len(table) THEN table[i] ELSE u[i - Len(table)]
  BY <1>1
<1> HIDE DEF t
<1>3. ASSUME NEW i \in DOMAIN t
      PROVE  t[i].id = i
  <2>1. CASE i <= Len(table)
    BY <1>1, <1>2, <2>1 DEF TableOK
  <2>2. CASE i > Len(table)
    <3>1. i - Len(table) \in DOMAIN u /\ t[i] = u[i - Len(table)]
      BY <1>1, <1>2, <2>2
    <3>2. u[i - Len(table)].id = Len(table) + (i - Len(table))
      BY <3>1
    <3> QED
      BY <1>1, <1>2, <3>1, <3>2
  <2> QED
    BY <1>1, <1>2, <2>1, <2>2
<1>4. Later(table, t)
  BY <1>1, <1>2 DEF Later
<1> QED
  BY <1>2, <1>3, <1>4 DEF t

\* The arrays hold requests of samples, in particular after a sample more.
LEMMA SampleRecorded ==
  ASSUME ScriptTypeOK, OnItsWay, pc = "post", record_sample(at)
  PROVE  /\ TLS_HS_SAMPLES' \in Seq(1..TOTAL_ITERS)
         /\ TCP_SAMPLES' \in Seq(1..TOTAL_ITERS)
         /\ TOTAL_SAMPLES' \in Seq(1..TOTAL_ITERS)
<1>1. /\ TOTAL_ITERS \in Nat /\ at \in 1..(TOTAL_ITERS + 1)
      /\ TLS_HS_SAMPLES \in Seq(1..TOTAL_ITERS) /\ TCP_SAMPLES \in Seq(1..TOTAL_ITERS)
      /\ TOTAL_SAMPLES \in Seq(1..TOTAL_ITERS)
  BY Options DEF ScriptTypeOK
<1>2. opt.only => at <= TOTAL_ITERS
  BY DEF OnItsWay
<1>3. Op(at) # "download" => at \in 1..TOTAL_ITERS
  BY <1>1, <1>2 DEF Op
<1> DEFINE p == curl_phases_ms(TimesOf(at))
           Add(array, v) == IF v # 0 /\ Op(at) # "download" /\ ~Single(opt)
                            THEN Append(array, at) ELSE array
<1>4. ASSUME NEW array \in Seq(1..TOTAL_ITERS), NEW v
      PROVE  Add(array, v) \in Seq(1..TOTAL_ITERS)
  <2>1. CASE Op(at) # "download"
    <3>1. Append(array, at) \in Seq(1..TOTAL_ITERS)
      BY <1>3, <2>1, AppendProperties
    <3> QED
      BY <3>1
  <2>2. CASE Op(at) = "download"
    BY <2>2
  <2> QED
    BY <2>1, <2>2
<1>5. /\ TLS_HS_SAMPLES' = Add(TLS_HS_SAMPLES, p.tls)
      /\ TCP_SAMPLES' = Add(TCP_SAMPLES, p.tcp)
      /\ TOTAL_SAMPLES' = Add(TOTAL_SAMPLES, p.total)
  BY DEF record_sample
<1> HIDE DEF p, Add
<1> QED
  BY <1>1, <1>4, <1>5

\* A step of the script within its types; the log goes on.
LEMMA ScriptStep ==
  ASSUME ScriptInvariant, TableOK, ScriptNext
  PROVE  ScriptInvariant' /\ TableOK' /\ Later(table, table')
<1> USE DEF ScriptInvariant
<1>1. /\ Repeat(opt) \in Nat \ {0} /\ Warmup(opt) \in Nat /\ TOTAL_ITERS \in Nat \ {0}
      /\ at \in 1..(TOTAL_ITERS + 1) /\ Len(table) \in Nat /\ opt.only \in BOOLEAN
  BY Options DEF ScriptTypeOK, TableOK, CommandLine
<1>2. opt' = opt /\ series' = series /\ TOTAL_ITERS' = TOTAL_ITERS
  BY DEF ScriptNext, Start, Ask, AskAll, PostTimings, PrintSummary, Break, TOTAL_ITERS
<1>3. Later(table, table)
  BY DEF Later, TableOK
<1>4. CASE Start
  <2>1. /\ table' = table /\ opener' = opener /\ at' = at /\ printed' = printed
        /\ TLS_HS_SAMPLES' = TLS_HS_SAMPLES /\ TCP_SAMPLES' = TCP_SAMPLES
        /\ TOTAL_SAMPLES' = TOTAL_SAMPLES
    BY <1>4 DEF Start, arrays
  <2>2. pc' \in {"refused", "ask"} /\ (pc' = "ask" => ~Refused(opt)) /\ at = 1
    BY <1>4 DEF Start, OnItsWay
  <2>3. ScriptTypeOK'
    BY <1>2, <2>1, <2>2 DEF ScriptTypeOK
  <2>4. OnItsWay'
    BY <1>1, <1>2, <2>1, <2>2 DEF OnItsWay
  <2> QED
    BY <1>3, <2>1, <2>3, <2>4 DEF TableOK
<1>5. CASE Ask
  <2>1. /\ opener' = opener /\ at' = at /\ printed' = printed /\ pc = "ask" /\ pc' = "post"
        /\ TLS_HS_SAMPLES' = TLS_HS_SAMPLES /\ TCP_SAMPLES' = TCP_SAMPLES
        /\ TOTAL_SAMPLES' = TOTAL_SAMPLES
    BY <1>5 DEF Ask, arrays
  <2>2. ScriptTypeOK'
    BY <1>2, <2>1 DEF ScriptTypeOK
  <2>3. OnItsWay'
    BY <1>1, <1>2, <2>1 DEF OnItsWay
  <2> DEFINE r == Stamp(DraftOf(at), Len(table) + 1)
  <2>4. r \in Run /\ r.id = Len(table) + 1
    BY <1>1, Requests, StampIsRun
  <2>5. table' = Append(table, r)
    BY <1>5 DEF Ask
  <2> HIDE DEF r
  <2>6. table' = table \o <<r>> /\ <<r>> \in Seq(Run) /\ DOMAIN <<r>> = {1} /\ <<r>>[1] = r
    BY <2>4, <2>5 DEF TableOK
  <2>7. \A i \in DOMAIN <<r>> : <<r>>[i].id = Len(table) + i
    BY <2>4, <2>6
  <2>8. TableOK' /\ Later(table, table')
    BY <2>6, <2>7, RunsGoOn DEF TableOK
  <2> QED
    BY <2>2, <2>3, <2>8
<1>6. CASE AskAll
  <2>1. /\ at' = at /\ printed' = printed /\ pc = "ask" /\ pc' \in {"post", "failed"}
        /\ TLS_HS_SAMPLES' = TLS_HS_SAMPLES /\ TCP_SAMPLES' = TCP_SAMPLES
        /\ TOTAL_SAMPLES' = TOTAL_SAMPLES /\ opener' \subseteq 1..Repeat(opt)
    BY <1>6 DEF AskAll, arrays
  <2>2. ScriptTypeOK'
    BY <1>2, <2>1 DEF ScriptTypeOK
  <2>3. OnItsWay'
    BY <1>1, <1>2, <2>1 DEF OnItsWay
  <2>4. PICK order \in [1..Repeat(opt) -> 1..Repeat(opt)] :
          table' = table \o [i \in DOMAIN order |-> Stamp(DraftOf(order[i]), Len(table) + i)]
    BY <1>6 DEF AskAll
  <2> DEFINE u == [i \in 1..Repeat(opt) |-> Stamp(DraftOf(order[i]), Len(table) + i)]
  <2>5. table' = table \o u
    BY <2>4
  <2>6. ASSUME NEW i \in 1..Repeat(opt)
        PROVE  u[i] \in Run /\ u[i].id = Len(table) + i
    <3>1. order[i] \in 1..(TOTAL_ITERS + 1) /\ Len(table) + i \in Nat
      BY <1>1 DEF TOTAL_ITERS
    <3> QED
      BY <3>1, Requests, StampIsRun
  <2>7. u \in [1..Repeat(opt) -> Run]
    BY <2>6
  <2> HIDE DEF u
  <2>8. u \in Seq(Run) /\ DOMAIN u = 1..Repeat(opt)
    BY <1>1, <2>7, SeqDef
  <2>9. TableOK' /\ Later(table, table')
    BY <2>5, <2>6, <2>8, RunsGoOn DEF TableOK
  <2> QED
    BY <2>2, <2>3, <2>9
<1>7. CASE PostTimings
  <2>1. opener' = opener /\ printed' = printed /\ pc = "post" /\ record_sample(at) /\ GoOn
    BY <1>7 DEF PostTimings
  <2>2. /\ pc' \in {"done", "ask", "post", "print"} /\ at' \in 1..(TOTAL_ITERS + 1)
        /\ pc' = "print" => ~Single(opt)
        /\ opt.only /\ pc' \in {"ask", "post"} => at' <= TOTAL_ITERS
    <3>1. opt.only => ~Single(opt)
      BY DEF Single
    <3>2. CASE at > TOTAL_ITERS
      BY <1>1, <2>1, <3>2 DEF GoOn
    <3>3. CASE at = TOTAL_ITERS
      BY <1>1, <2>1, <3>1, <3>3 DEF GoOn
    <3>4. CASE at < TOTAL_ITERS
      BY <1>1, <2>1, <3>4 DEF GoOn
    <3> QED
      BY <1>1, <3>2, <3>3, <3>4
  <2>3. /\ TLS_HS_SAMPLES' \in Seq(1..TOTAL_ITERS) /\ TCP_SAMPLES' \in Seq(1..TOTAL_ITERS)
        /\ TOTAL_SAMPLES' \in Seq(1..TOTAL_ITERS)
    BY <2>1, SampleRecorded
  <2>4. ScriptTypeOK'
    BY <1>2, <2>1, <2>2, <2>3 DEF ScriptTypeOK
  <2>5. OnItsWay'
    BY <1>2, <2>1, <2>2 DEF OnItsWay
  <2>6. TableOK' /\ Later(table, table')
    <3> DEFINE p == PostOf(at)
               found == Matches(table, p)
    <3>1. p \in Post /\ p.phases # 0
      BY <1>1, Requests
    <3>2. found \subseteq DOMAIN table
      BY DEF Matches
    <3>3. table' = IF Cardinality(found) = 1
                   THEN Merged(table, CHOOSE k \in found : TRUE, p) ELSE table
      BY <1>7 DEF PostTimings
    <3>4. Cardinality(found) = 1 => (CHOOSE k \in found : TRUE) \in found
      <4>1. found = {} => Cardinality(found) = 0
        BY FS_EmptySet
      <4> HIDE DEF found
      <4> QED
        BY <4>1
    <3> HIDE DEF p, found
    <3>5. CASE Cardinality(found) = 1
      <4>1. PICK k \in DOMAIN table : table' = Merged(table, k, p)
        BY <3>2, <3>3, <3>4, <3>5
      <4> QED
        BY <3>1, <4>1, MergeGoesOn DEF TableOK
    <3>6. CASE Cardinality(found) # 1
      BY <1>3, <3>3, <3>6 DEF TableOK
    <3> QED
      BY <3>5, <3>6
  <2> QED
    BY <2>4, <2>5, <2>6
<1>8. CASE PrintSummary
  <2>1. /\ table' = table /\ opener' = opener /\ at' = at /\ pc = "print"
        /\ pc' = (IF opt.only THEN "done" ELSE "ask")
        /\ TLS_HS_SAMPLES' = Measured(TLS_HS_SAMPLES) /\ TCP_SAMPLES' = Measured(TCP_SAMPLES)
        /\ TOTAL_SAMPLES' = Measured(TOTAL_SAMPLES)
    BY <1>8 DEF PrintSummary
  <2>2. Len(printed') = 3
    BY <1>8 DEF PrintSummary
  <2>3. ASSUME NEW array \in Seq(1..TOTAL_ITERS)
        PROVE  Measured(array) \in Seq(1..TOTAL_ITERS)
    <3>1. Len(array) \in Nat /\ \A i \in (Warmup(opt) + 1)..Len(array) : array[i] \in 1..TOTAL_ITERS
      BY <1>1
    <3> QED
      BY <1>1, <3>1, SubSeqProperties DEF Measured
  <2>4. ScriptTypeOK'
    BY <1>2, <2>1, <2>2, <2>3 DEF ScriptTypeOK
  <2>5. OnItsWay'
    BY <1>1, <1>2, <2>1 DEF OnItsWay
  <2> QED
    BY <1>3, <2>1, <2>4, <2>5 DEF TableOK
<1>9. CASE Break
  <2>1. /\ table' = table /\ opener' = opener /\ at' = at /\ printed' = printed
        /\ TLS_HS_SAMPLES' = TLS_HS_SAMPLES /\ TCP_SAMPLES' = TCP_SAMPLES
        /\ TOTAL_SAMPLES' = TOTAL_SAMPLES /\ pc \in {"ask", "post"} /\ pc' = "failed"
    BY <1>9 DEF Break, arrays
  <2>2. ScriptTypeOK'
    BY <1>2, <2>1 DEF ScriptTypeOK
  <2>3. OnItsWay'
    BY <1>2, <2>1 DEF OnItsWay
  <2> QED
    BY <1>3, <2>1, <2>2, <2>3 DEF TableOK
<1> QED
  BY <1>4, <1>5, <1>6, <1>7, <1>8, <1>9 DEF ScriptNext

-----------------------------------------------------------------------------
(***************************************************************************)
(* The dashboard.                                                          *)
(***************************************************************************)
Flights == [answered: BOOLEAN, page: Pages, overtaken: BOOLEAN]

DashInvariant ==
  /\ flight \in Seq(Flights) /\ Len(flight) <= MaxFlight
  /\ view \in [page: Pages, controls: Controls, banner: BOOLEAN]
  /\ controls \in Controls /\ auto \in BOOLEAN /\ fails \in 0..MaxFails

LEMMA InFlight ==
  ASSUME DashInvariant, NEW i \in DOMAIN flight
  PROVE  flight[i] \in Flights /\ flight[i].page \in Pages
<1>1. flight[i] \in Flights
  BY DEF DashInvariant
<1> QED
  BY <1>1 DEF Flights

\* No page is from behind the log; the answer of a refresh that none has overtaken is as
\* new as what the page shows, or newer.
AgesInOrder ==
  /\ Age(view.page) <= Age(Page(table))
  /\ \A i \in DOMAIN flight : flight[i].answered =>
       /\ Age(flight[i].page) <= Age(Page(table))
       /\ ~flight[i].overtaken => Age(view.page) <= Age(flight[i].page)

\* A sequence without one of its members.
LEMMA Removed ==
  ASSUME NEW S, NEW s \in Seq(S), NEW i \in DOMAIN s
  PROVE  /\ RemoveAt(s, i) \in Seq(S) /\ Len(RemoveAt(s, i)) = Len(s) - 1
         /\ \A k \in DOMAIN RemoveAt(s, i) : \E j \in DOMAIN s : RemoveAt(s, i)[k] = s[j]
<1> DEFINE a == SubSeq(s, 1, i - 1)
           b == SubSeq(s, i + 1, Len(s))
<1>1. Len(s) \in Nat /\ DOMAIN s = 1..Len(s) /\ i \in 1..Len(s)
  OBVIOUS
<1>2. /\ a \in Seq(S) /\ Len(a) = i - 1 /\ DOMAIN a = 1..(i - 1)
      /\ \A k \in 1..(i - 1) : a[k] = s[k]
  BY <1>1
<1>3. /\ b \in Seq(S) /\ Len(b) = Len(s) - i /\ DOMAIN b = 1..(Len(s) - i)
      /\ \A k \in 1..(Len(s) - i) : b[k] = s[i + k]
  BY <1>1
<1>4. RemoveAt(s, i) = a \o b
  BY DEF RemoveAt
<1> HIDE DEF a, b
<1> DEFINE r == RemoveAt(s, i)
<1>5. /\ r \in Seq(S) /\ Len(r) = Len(a) + Len(b)
      /\ \A k \in 1..(Len(a) + Len(b)) : r[k] = IF k <= Len(a) THEN a[k] ELSE b[k - Len(a)]
  BY <1>2, <1>3, <1>4, ConcatProperties
<1> HIDE DEF r
<1>6. Len(r) = Len(s) - 1 /\ DOMAIN r = 1..(Len(s) - 1)
  BY <1>1, <1>2, <1>3, <1>5
<1>7. ASSUME NEW k \in 1..(Len(s) - 1)
      PROVE  \E j \in DOMAIN s : r[k] = s[j]
  <2>1. k \in 1..(Len(a) + Len(b)) /\ k \in Int
    BY <1>1, <1>2, <1>3
  <2>2. CASE k <= i - 1
    <3>1. r[k] = a[k]
      BY <1>2, <1>5, <2>1, <2>2
    <3> QED
      BY <1>1, <1>2, <2>1, <2>2, <3>1
  <2>3. CASE k > i - 1
    <3>1. r[k] = b[k - (i - 1)]
      BY <1>1, <1>2, <1>5, <2>1, <2>3
    <3>2. k - (i - 1) \in 1..(Len(s) - i) /\ i + (k - (i - 1)) = k + 1 /\ k + 1 \in DOMAIN s
      BY <1>1, <2>1, <2>3
    <3>3. r[k] = s[k + 1]
      BY <1>3, <3>1, <3>2
    <3> QED
      BY <3>2, <3>3
  <2> QED
    BY <1>1, <2>1, <2>2, <2>3
<1> QED
  BY <1>5, <1>6, <1>7 DEF r

LEMMA AgeIsNat ==
  ASSUME NEW p \in Pages
  PROVE  Age(p) \in Nat
<1> DEFINE S == {i \in DOMAIN p.runs : p.runs[i].client # 0}
<1>1. p.total \in Nat /\ Len(p.runs) \in Nat /\ DOMAIN p.runs = 1..Len(p.runs)
  BY DEF Pages
<1>2. Age(p) = p.total + Cardinality(S)
  BY DEF Age
<1>3. S \in SUBSET (1..Len(p.runs))
  BY <1>1
<1> HIDE DEF S
<1>4. IsFiniteSet(1..Len(p.runs))
  BY <1>1, FS_Interval
<1>5. Cardinality(S) \in Nat
  BY <1>3, <1>4, FS_Subset, FS_CardinalityType
<1> QED
  BY <1>1, <1>2, <1>5

LEMMA EmptyIsPage == Empty \in Pages /\ Age(Empty) = 0
<1>1. Empty \in Pages
  <2>1. /\ Empty.runs = <<>> /\ Len(Empty.runs) = 0 /\ Empty.total = 0 /\ Empty.truncated = FALSE
        /\ Empty \in [runs: Seq(Run), total: Nat, truncated: BOOLEAN]
    BY DEF Empty
  <2>2. 0 <= Limit /\ ~(0 > 0)
    BY DashboardAssumption
  <2> QED
    BY <2>1, <2>2, Zenon DEF Pages
<1>2. Age(Empty) = 0
  <2>1. {i \in DOMAIN Empty.runs : Empty.runs[i].client # 0} = {}
    BY DEF Empty
  <2>2. Age(Empty) = 0 + Cardinality({})
    BY <2>1 DEF Age, Empty
  <2> QED
    BY <2>2, FS_EmptySet
<1> QED
  BY <1>1, <1>2

LEMMA AskedIsFlight == Asked \in Flights /\ ~Asked.answered
BY EmptyIsPage DEF Asked, Flights

\* What a refresh that renders, and one that fails, leaves of the others.
LEMMA Rendered ==
  ASSUME DashInvariant, NEW i \in DOMAIN flight, Render(i)
  PROVE  /\ flight' \in Seq(Flights) /\ Len(flight') = Len(flight) - 1
         /\ \A k \in DOMAIN flight' : \E j \in DOMAIN flight :
              flight'[k] = [flight[j] EXCEPT !.overtaken = TRUE]
<1> DEFINE r == RemoveAt(flight, i)
<1>1. /\ r \in Seq(Flights) /\ Len(r) = Len(flight) - 1
      /\ \A k \in DOMAIN r : \E j \in DOMAIN flight : r[k] = flight[j]
  BY Removed DEF DashInvariant
<1>2. flight' = [k \in DOMAIN r |-> [r[k] EXCEPT !.overtaken = TRUE]]
  BY DEF Render
<1> HIDE DEF r
<1>3. Len(r) \in Nat /\ DOMAIN r = 1..Len(r)
  BY <1>1
<1>4. \A k \in 1..Len(r) : [r[k] EXCEPT !.overtaken = TRUE] \in Flights
  <2>1. \A k \in 1..Len(r) : r[k] \in Flights
    BY <1>1
  <2> QED
    BY <2>1 DEF Flights
<1>5. flight' \in [1..Len(r) -> Flights]
  BY <1>2, <1>3, <1>4
<1>6. flight' \in Seq(Flights) /\ Len(flight') = Len(r) /\ DOMAIN flight' = 1..Len(r)
  BY <1>3, <1>5, SeqDef
<1> QED
  BY <1>1, <1>2, <1>3, <1>6

\* A step of the dashboard within its types.
LEMMA DashStep ==
  ASSUME TableOK, DashInvariant, DashNext
  PROVE  DashInvariant' /\ table' = table
<1> USE DEF DashInvariant
<1>1. MaxFlight \in Nat /\ MaxFails \in Nat /\ Len(flight) \in Nat /\ fails \in Nat
  BY DashboardAssumption
<1>2. /\ view.page \in Pages /\ view.controls \in Controls /\ view.banner \in BOOLEAN
      /\ \A i \in DOMAIN flight : flight[i] \in Flights
  OBVIOUS
<1>3. ASSUME refresh
      PROVE  flight' \in Seq(Flights) /\ Len(flight') <= MaxFlight
  BY <1>1, <1>3, AskedIsFlight, AppendProperties DEF refresh
<1>4. CASE Tick
  BY <1>3, <1>4 DEF Tick
<1>5. CASE ToggleAuto
  BY <1>5 DEF ToggleAuto
<1>6. CASE Rerender
  BY <1>2, <1>6 DEF Rerender
<1>7. CASE \E c \in Controls : Choose(c)
  BY <1>3, <1>7 DEF Choose
<1>8. ASSUME NEW i \in DOMAIN flight, Answer(i)
      PROVE  DashInvariant' /\ table' = table
  <2>1. Page(table) \in Pages
    BY PageIsPage DEF TableOK
  <2> DEFINE r == [flight[i] EXCEPT !.answered = TRUE, !.page = Page(table)]
  <2>2. r \in Flights
    BY <1>2, <2>1 DEF Flights
  <2>3. flight' = [flight EXCEPT ![i] = r]
    BY <1>8 DEF Answer
  <2> HIDE DEF r
  <2>4. flight' \in Seq(Flights) /\ Len(flight') = Len(flight)
    BY <2>2, <2>3
  <2> QED
    BY <1>8, <2>4 DEF Answer
<1>9. ASSUME NEW i \in DOMAIN flight, Render(i)
      PROVE  DashInvariant' /\ table' = table
  <2>1. flight' \in Seq(Flights) /\ Len(flight') <= MaxFlight
    BY <1>1, <1>9, Rendered
  <2>2. flight[i].page \in Pages
    BY <1>2 DEF Flights
  <2> QED
    BY <1>9, <2>1, <2>2 DEF Render
<1>10. ASSUME NEW i \in DOMAIN flight, Fail(i)
       PROVE  DashInvariant' /\ table' = table
  <2>1. flight' \in Seq(Flights) /\ Len(flight') <= MaxFlight
    BY <1>1, <1>10, Removed DEF Fail
  <2>2. fails' \in 0..MaxFails
    BY <1>1, <1>10 DEF Fail
  <2> QED
    BY <1>2, <1>10, <2>1, <2>2 DEF Fail
<1> QED
  BY <1>4, <1>5, <1>6, <1>7, <1>8, <1>9, <1>10 DEF DashNext

\* The ages stay in order while the log goes on.
LEMMA AgesWhileLogGoesOn ==
  ASSUME TableOK, TableOK', DashInvariant, AgesInOrder, Later(table, table'), UNCHANGED page
  PROVE  AgesInOrder'
<1>1. Age(Page(table)) <= Age(Page(table'))
  BY AgeGrows DEF TableOK
<1>2. Age(Page(table)) \in Nat /\ Age(Page(table')) \in Nat /\ Age(view.page) \in Nat
  <2>1. view.page \in Pages /\ Page(table) \in Pages /\ Page(table') \in Pages
    BY PageIsPage DEF DashInvariant, TableOK
  <2> QED
    BY <2>1, AgeIsNat
<1>3. \A i \in DOMAIN flight : Age(flight[i].page) \in Nat
  <2>1. \A i \in DOMAIN flight : flight[i].page \in Pages
    BY InFlight
  <2> QED
    BY <2>1, AgeIsNat
<1>4. view' = view /\ flight' = flight
  BY DEF page
<1> QED
  BY <1>1, <1>2, <1>3, <1>4 DEF AgesInOrder

\* They stay in order when the page asks, is answered, renders and fails.
LEMMA AgesInDashStep ==
  ASSUME TableOK, DashInvariant, AgesInOrder, DashNext
  PROVE  AgesInOrder'
<1>1. flight \in Seq(Flights) /\ DOMAIN flight = 1..Len(flight) /\ Len(flight) \in Nat
  BY DEF DashInvariant
<1>2. Page(table)' = Page(table)
  BY DashStep
<1> DEFINE latest == Age(Page(table))
<1>3. latest' = latest
  BY <1>2
<1>4. Age(view.page) <= latest
  BY DEF AgesInOrder
<1>5. latest \in Nat
  BY PageIsPage, AgeIsNat DEF TableOK
<1> HIDE DEF latest
<1> DEFINE InOrder(f, v) ==
             f.answered => /\ Age(f.page) <= latest
                           /\ ~f.overtaken => Age(v.page) <= Age(f.page)
<1>6. \A i \in DOMAIN flight : InOrder(flight[i], view)
  BY DEF AgesInOrder, latest
<1>7. SUFFICES Age(view'.page) <= latest /\ \A i \in DOMAIN flight' : InOrder(flight'[i], view')
  BY <1>3 DEF AgesInOrder, latest
<1>8. ASSUME refresh, view' = view
      PROVE  Age(view'.page) <= latest /\ \A i \in DOMAIN flight' : InOrder(flight'[i], view')
  <2>1. \A i \in DOMAIN flight' : flight'[i] = Asked \/ (i \in DOMAIN flight /\ flight'[i] = flight[i])
    BY <1>1, <1>8, AskedIsFlight, AppendProperties DEF refresh
  <2>2. InOrder(Asked, view)
    BY AskedIsFlight
  <2> QED
    BY <1>4, <1>6, <1>8, <2>1, <2>2
<1>9. CASE Tick
  BY <1>8, <1>9 DEF Tick
<1>10. CASE ToggleAuto
  BY <1>4, <1>6, <1>10 DEF ToggleAuto
<1>11. CASE Rerender
  <2>1. view'.page = view.page /\ flight' = flight
    BY <1>11 DEF Rerender, DashInvariant
  <2> QED
    BY <1>4, <1>6, <2>1
<1>12. CASE \E c \in Controls : Choose(c)
  BY <1>8, <1>12 DEF Choose
<1>13. ASSUME NEW i \in DOMAIN flight, Answer(i)
       PROVE  Age(view'.page) <= latest /\ \A k \in DOMAIN flight' : InOrder(flight'[k], view')
  <2>1. /\ view' = view
        /\ flight' = [flight EXCEPT ![i].answered = TRUE, ![i].page = Page(table)]
    BY <1>13 DEF Answer
  <2>2. flight'[i].page = Page(table)
    BY <1>1, <2>1 DEF Flights
  <2>3. \A k \in DOMAIN flight : k # i => flight'[k] = flight[k]
    BY <1>1, <2>1
  <2>4. DOMAIN flight' = DOMAIN flight
    BY <1>1, <2>1
  <2>5. InOrder(flight'[i], view)
    BY <1>4, <1>5, <2>2 DEF latest
  <2> QED
    BY <1>4, <1>6, <2>1, <2>3, <2>4, <2>5
<1>14. ASSUME NEW i \in DOMAIN flight, Render(i)
       PROVE  Age(view'.page) <= latest /\ \A k \in DOMAIN flight' : InOrder(flight'[k], view')
  <2>1. flight[i].answered /\ view'.page = flight[i].page
    BY <1>14 DEF Render
  <2>2. ASSUME NEW k \in DOMAIN flight'
        PROVE  InOrder(flight'[k], view')
    <3>1. PICK j \in DOMAIN flight : flight'[k] = [flight[j] EXCEPT !.overtaken = TRUE]
      BY <1>14, Rendered
    <3>2. /\ flight'[k].answered = flight[j].answered /\ flight'[k].page = flight[j].page
          /\ flight'[k].overtaken
      BY <1>1, <3>1 DEF Flights
    <3> QED
      BY <1>6, <3>2
  <2> QED
    BY <1>6, <2>1, <2>2
<1>15. ASSUME NEW i \in DOMAIN flight, Fail(i)
       PROVE  Age(view'.page) <= latest /\ \A k \in DOMAIN flight' : InOrder(flight'[k], view')
  <2>1. view'.page = view.page /\ flight' = RemoveAt(flight, i)
    BY <1>15 DEF Fail, DashInvariant
  <2>2. \A k \in DOMAIN RemoveAt(flight, i) :
          \E j \in DOMAIN flight : RemoveAt(flight, i)[k] = flight[j]
    <3>1. flight \in Seq(Flights)
      BY <1>1
    <3>2. ASSUME NEW S, NEW s \in Seq(S), NEW k \in DOMAIN s
          PROVE  \A m \in DOMAIN RemoveAt(s, k) : \E j \in DOMAIN s : RemoveAt(s, k)[m] = s[j]
      BY ONLY Removed
    <3> QED
      BY ONLY <3>1, <3>2
  <2>3. ASSUME NEW k \in DOMAIN flight'
        PROVE  InOrder(flight'[k], view')
    <3>1. PICK j \in DOMAIN flight : flight'[k] = flight[j]
      BY <2>1, <2>2
    <3>2. InOrder(flight[j], view)
      BY <1>6
    <3> QED
      BY <2>1, <3>1, <3>2
  <2>4. Age(view'.page) <= latest
    BY <1>4, <2>1
  <2> QED
    BY <2>3, <2>4
<1> QED
  BY <1>9, <1>10, <1>11, <1>12, <1>13, <1>14, <1>15 DEF DashNext

-----------------------------------------------------------------------------
(***************************************************************************)
(* The theorems.                                                           *)
(***************************************************************************)
StudyInvariant == ScriptInvariant /\ TableOK /\ DashInvariant /\ AgesInOrder

LEMMA StudyInit == Init => StudyInvariant
<1> SUFFICES ASSUME Init
             PROVE  StudyInvariant
  OBVIOUS
<1>1. TableOK /\ Len(table) \in Nat
  <2>1. PICK n \in 0..MaxEarlier : table = Earlier(n)
    BY DEF Init
  <2> DEFINE d == [op |-> "generate", name |-> 9, exp |-> 0, idx |-> 0]
  <2>2. d \in Draft
    BY DEF Draft, Operation
  <2>3. table = [i \in 1..n |-> Stamp(d, i)] /\ n \in Nat
    BY <2>1 DEF Earlier
  <2> HIDE DEF d
  <2>4. \A i \in 1..n : Stamp(d, i) \in Run /\ Stamp(d, i).id = i
    BY <2>2, <2>3, StampIsRun
  <2>5. table \in [1..n -> Run]
    BY <2>3, <2>4
  <2>6. table \in Seq(Run) /\ DOMAIN table = 1..n
    BY <2>3, <2>5, SeqDef
  <2> QED
    BY <2>3, <2>4, <2>6 DEF TableOK
<1>2. ScriptInvariant
  <2>1. PICK s \in Setups : opt = s.opt /\ series = s.series
    BY DEF Init, ScriptInit
  <2>2. [opt |-> opt, series |-> series] \in Setups
    <3>1. s \in [opt: CommandLine, series: DOMAIN Curl]
      BY VMBenchAssumption
    <3> QED
      BY <2>1, <3>1
  <2>3. /\ opener = {} /\ pc = "start" /\ at = 1 /\ TLS_HS_SAMPLES = <<>>
        /\ TCP_SAMPLES = <<>> /\ TOTAL_SAMPLES = <<>> /\ printed = <<>>
    BY DEF Init, ScriptInit
  <2>4. TOTAL_ITERS \in Nat
    <3>1. opt \in CommandLine
      BY <2>2, VMBenchAssumption
    <3> QED
      BY <3>1, VMBenchAssumption DEF TOTAL_ITERS, Warmup, Repeat, CommandLine
  <2>5. ScriptTypeOK
    BY <2>2, <2>3, <2>4 DEF ScriptTypeOK
  <2>6. OnItsWay
    BY <2>3 DEF OnItsWay
  <2> QED
    BY <2>5, <2>6 DEF ScriptInvariant
<1>3. /\ controls \in Controls /\ view = [page |-> Empty, controls |-> controls, banner |-> FALSE]
      /\ flight = <<Asked>> /\ auto = TRUE /\ fails = 0
  BY DEF Init, DashInit
<1>4. DashInvariant
  <2>1. flight \in Seq(Flights) /\ Len(flight) = 1
    BY <1>3, AskedIsFlight
  <2>2. view \in [page: Pages, controls: Controls, banner: BOOLEAN]
    BY <1>3, EmptyIsPage
  <2> QED
    BY <1>3, <2>1, <2>2, DashboardAssumption DEF DashInvariant
<1>5. AgesInOrder
  <2>1. Age(Page(table)) \in Nat
    BY <1>1, PageIsPage, AgeIsNat DEF TableOK
  <2>2. Age(view.page) = 0
    BY <1>3, EmptyIsPage
  <2>3. \A i \in DOMAIN flight : ~flight[i].answered
    BY <1>3, AskedIsFlight
  <2> QED
    BY <2>1, <2>2, <2>3 DEF AgesInOrder
<1> QED
  BY <1>1, <1>2, <1>4, <1>5 DEF StudyInvariant

LEMMA StudyStep == StudyInvariant /\ [Next]_vars => StudyInvariant'
<1> SUFFICES ASSUME StudyInvariant, [Next]_vars
             PROVE  StudyInvariant'
  OBVIOUS
<1> USE DEF StudyInvariant
<1>1. CASE ScriptNext /\ UNCHANGED page
  <2>1. ScriptInvariant' /\ TableOK' /\ Later(table, table')
    BY <1>1, ScriptStep
  <2>2. DashInvariant'
    BY <1>1 DEF page, DashInvariant
  <2>3. AgesInOrder'
    BY <1>1, <2>1, AgesWhileLogGoesOn
  <2> QED
    BY <2>1, <2>2, <2>3
<1>2. CASE DashNext /\ UNCHANGED script
  <2>1. DashInvariant' /\ table' = table
    BY <1>2, DashStep
  <2>2. AgesInOrder'
    BY <1>2, AgesInDashStep
  <2>3. ScriptInvariant'
    BY <1>2 DEF script, arrays, ScriptInvariant, ScriptTypeOK, OnItsWay, TOTAL_ITERS
  <2>4. TableOK'
    BY <2>1 DEF TableOK
  <2> QED
    BY <2>1, <2>2, <2>3, <2>4
<1>3. CASE UNCHANGED vars
  <2>1. ScriptInvariant'
    BY <1>3 DEF vars, script, arrays, ScriptInvariant, ScriptTypeOK, OnItsWay, TOTAL_ITERS
  <2>2. TableOK' /\ DashInvariant'
    BY <1>3 DEF vars, page, TableOK, DashInvariant
  <2>3. AgesInOrder'
    BY <1>3 DEF vars, page, AgesInOrder
  <2> QED
    BY <2>1, <2>2, <2>3
<1> QED
  BY <1>1, <1>2, <1>3 DEF Next

LEMMA StudyAlways == Spec => []StudyInvariant
BY StudyInit, StudyStep, PTL DEF Spec

\* The types of the study: the script's requests stay within its samples and the one
\* download behind them, its arrays hold samples only, the log is one of runs whose ids
\* are their places, and every page, in flight or shown, is cut to Limit and says so.
THEOREM TypeCorrect == Spec => []TypeOK
<1>1. StudyInvariant => TypeOK
  <2> SUFFICES ASSUME StudyInvariant
               PROVE  TypeOK
    OBVIOUS
  <2>1. ScriptTypeOK /\ table \in Seq(Run) /\ \A i \in DOMAIN table : table[i].id = i
    BY DEF StudyInvariant, ScriptInvariant, TableOK
  <2>2. /\ \A p \in {view.page} \cup {flight[i].page : i \in DOMAIN flight} : p \in Pages
        /\ view.controls \in Controls
    BY InFlight DEF StudyInvariant, DashInvariant
  <2>3. \A p \in Pages : Len(p.runs) <= Limit /\ (p.truncated <=> p.total > Len(p.runs))
    BY DEF Pages
  <2>4. DashTypeOK
    BY <2>2, <2>3, Zenon DEF StudyInvariant, DashInvariant, DashTypeOK
  <2> QED
    BY <2>1, <2>4 DEF TypeOK
<1> QED
  BY <1>1, StudyAlways, PTL

\* A filter the user has chosen is in effect, or a refresh that will apply it is under
\* way, or the page says that one failed: no choice is lost, however refreshes overlap.
THEOREM FilterWillTakeEffect == Spec => []FilterTakesEffect
<1>1. Init => FilterTakesEffect
  BY DEF Init, DashInit, FilterTakesEffect
<1>2. StudyInvariant /\ FilterTakesEffect /\ [Next]_vars => FilterTakesEffect'
  <2> SUFFICES ASSUME StudyInvariant, FilterTakesEffect, [Next]_vars
               PROVE  FilterTakesEffect'
    OBVIOUS
  <2>1. /\ flight \in Seq(Flights)
        /\ view \in [page: Pages, controls: Controls, banner: BOOLEAN]
    BY DEF StudyInvariant, DashInvariant
  <2>2. refresh => flight' # <<>>
    BY <2>1, AskedIsFlight, AppendProperties DEF refresh
  <2>3. CASE UNCHANGED page
    BY <2>3 DEF page, FilterTakesEffect
  <2>4. CASE Tick \/ \E c \in Controls : Choose(c)
    BY <2>2, <2>4 DEF Tick, Choose, FilterTakesEffect
  <2>5. CASE ToggleAuto
    BY <2>5 DEF ToggleAuto, FilterTakesEffect
  <2>6. CASE Rerender
    BY <2>1, <2>6 DEF Rerender, FilterTakesEffect
  <2>7. ASSUME NEW i \in DOMAIN flight, Answer(i)
        PROVE  FilterTakesEffect'
    <3>1. i \in DOMAIN flight' /\ view' = view /\ controls' = controls
      BY <2>1, <2>7 DEF Answer
    <3> QED
      BY <3>1 DEF FilterTakesEffect
  <2>8. ASSUME NEW i \in DOMAIN flight, Render(i)
        PROVE  FilterTakesEffect'
    BY <2>8 DEF Render, FilterTakesEffect
  <2>9. ASSUME NEW i \in DOMAIN flight, Fail(i)
        PROVE  FilterTakesEffect'
    BY <2>1, <2>9 DEF Fail, FilterTakesEffect
  <2> QED
    BY <2>3, <2>4, <2>5, <2>6, <2>7, <2>8, <2>9 DEF Next, DashNext, vars
<1> QED
  BY <1>1, <1>2, StudyAlways, PTL DEF Spec

\* The page goes back to an older state of the log only when a refresh renders that
\* another has overtaken: one refresh at a time, a failing one or a click never take
\* anything back, whatever the script adds meanwhile.
THEOREM NoRegressWithoutOverlap == Spec => RegressOnlyByOverlap
<1>1. ASSUME StudyInvariant, [Next]_vars, view' # view, Age(view'.page) < Age(view.page)
      PROVE  \E i \in DOMAIN flight : flight[i].overtaken /\ view'.page = flight[i].page
  <2>1. /\ flight \in Seq(Flights)
        /\ view \in [page: Pages, controls: Controls, banner: BOOLEAN]
    BY <1>1 DEF StudyInvariant, DashInvariant
  <2>2. Age(view.page) \in Nat
    BY <2>1, AgeIsNat
  <2>3. view'.page # view.page
    BY <1>1, <2>2
  <2>4. PICK i \in DOMAIN flight : Render(i)
    <3>1. ~UNCHANGED page
      BY <1>1 DEF page
    <3>2. DashNext
      BY <1>1, <3>1 DEF Next, vars
    <3>3. ~(Tick \/ ToggleAuto \/ \E c \in Controls : Choose(c))
      BY <2>3 DEF Tick, ToggleAuto, Choose
    <3>4. ~Rerender
      BY <2>1, <2>3 DEF Rerender
    <3>5. \A i \in DOMAIN flight : ~Answer(i) /\ ~Fail(i)
      BY <2>1, <2>3 DEF Answer, Fail
    <3> QED
      BY <3>2, <3>3, <3>4, <3>5 DEF DashNext
  <2>5. flight[i].answered /\ view'.page = flight[i].page /\ flight[i].page \in Pages
    BY <1>1, <2>4, InFlight DEF Render, StudyInvariant
  <2>6. ~flight[i].overtaken => Age(view.page) <= Age(flight[i].page)
    BY <1>1, <2>5 DEF StudyInvariant, AgesInOrder
  <2>7. Age(flight[i].page) \in Nat
    BY <2>5, AgeIsNat
  <2>8. flight[i].overtaken
    BY <1>1, <2>2, <2>5, <2>6, <2>7
  <2> QED
    BY <2>5, <2>8
<1>2. StudyInvariant /\ [Next]_vars
        => [Age(view'.page) < Age(view.page)
              => \E i \in DOMAIN flight : flight[i].overtaken /\ view'.page = flight[i].page]_view
  BY <1>1
<1> QED
  BY <1>2, StudyAlways, PTL DEF Spec, RegressOnlyByOverlap

-----------------------------------------------------------------------------
(***************************************************************************)
(* The arrays of the script.                                               *)
(***************************************************************************)
Metrics == {"tls", "tcp", "total"}

\* What the script reads of a request.
Value(k, m) == curl_phases_ms(TimesOf(k))[m]

LEMMA Readings ==
  ASSUME ScriptTypeOK, NEW k \in 1..(TOTAL_ITERS + 1), NEW m \in Metrics
  PROVE  Value(k, m) \in Nat /\ PhasesFromCurl(TimesOf(k))[m] = Value(k, m)
<1>1. Curl[series][k] \in CurlTimes
  BY Options, VMBenchAssumption
<1>2. TimesOf(k) \in CurlTimes
  BY <1>1 DEF TimesOf, CurlTimes
<1> DEFINE t == TimesOf(k)
<1>3. /\ curl_phases_ms(t).tls = PhasesFromCurl(t).tls
      /\ curl_phases_ms(t).tcp = PhasesFromCurl(t).tcp
      /\ curl_phases_ms(t).total = PhasesFromCurl(t).total
  BY <1>2, ScriptReadsAsServer
<1>4. /\ curl_phases_ms(t).tls \in Nat /\ curl_phases_ms(t).tcp \in Nat
      /\ curl_phases_ms(t).total \in Nat
  <2> HIDE DEF t
  <2> QED
    BY <1>2 DEF t, CurlTimes, curl_phases_ms
<1> HIDE DEF t
<1>5. m = "tls" \/ m = "tcp" \/ m = "total"
  BY DEF Metrics
<1>6. curl_phases_ms(t)[m] \in Nat /\ PhasesFromCurl(t)[m] = curl_phases_ms(t)[m]
  BY <1>3, <1>4, <1>5
<1> QED
  BY <1>6 DEF Value, t

\* The samples after the warmup, as the server reads them.
LEMMA StudySamples ==
  ASSUME ScriptTypeOK, NEW m \in Metrics
  PROVE  /\ StudyValues(m) \in Seq(Nat) /\ Len(StudyValues(m)) = Repeat(opt)
         /\ \A i \in 1..Repeat(opt) : StudyValues(m)[i] = Value(Warmup(opt) + i, m)
         /\ \A i \in 1..Repeat(opt) : StudyValues(m)[i] = PhasesFromCurl(TimesOf(Warmup(opt) + i))[m]
<1>1. Repeat(opt) \in Nat /\ Warmup(opt) \in Nat /\ TOTAL_ITERS = Warmup(opt) + Repeat(opt)
  BY Options DEF TOTAL_ITERS
<1>2. \A i \in 1..Repeat(opt) : Warmup(opt) + i \in 1..(TOTAL_ITERS + 1)
  BY <1>1
<1>3. \A i \in 1..Repeat(opt) : PhasesFromCurl(TimesOf(Warmup(opt) + i))[m] \in Nat
  BY <1>2, Readings
<1>4. StudyValues(m) = [i \in 1..Repeat(opt) |-> PhasesFromCurl(TimesOf(Warmup(opt) + i))[m]]
  BY DEF StudyValues
<1>5. StudyValues(m) \in [1..Repeat(opt) -> Nat]
  BY <1>3, <1>4
<1>6. StudyValues(m) \in Seq(Nat) /\ Len(StudyValues(m)) = Repeat(opt)
  <2> DEFINE v == StudyValues(m)
             n == Repeat(opt)
  <2>1. v \in [1..n -> Nat] /\ n \in Nat
    BY <1>1, <1>5
  <2> HIDE DEF v, n
  <2>2. v \in Seq(Nat)
    BY <2>1, SeqDef
  <2>3. DOMAIN v = 1..n /\ Len(v) \in Nat /\ DOMAIN v = 1..Len(v)
    BY <2>1, <2>2
  <2>4. Len(v) = n
    BY <2>1, <2>3
  <2> QED
    BY <2>2, <2>4 DEF v, n
<1>7. \A i \in 1..Repeat(opt) :
        /\ StudyValues(m)[i] = PhasesFromCurl(TimesOf(Warmup(opt) + i))[m]
        /\ StudyValues(m)[i] = Value(Warmup(opt) + i, m)
  BY <1>2, <1>4, Readings
<1> QED
  BY <1>6, <1>7

\* An array before request n: it holds each earlier request that has a value, once; and
\* where the warmup samples have values, they are its first ones.
Holds(array, m, n) ==
  /\ \A i, j \in DOMAIN array : array[i] = array[j] => i = j
  /\ \A k \in 1..TOTAL_ITERS :
       (\E i \in DOMAIN array : array[i] = k) <=> k < n /\ Value(k, m) > 0
  /\ (\A k \in 1..Warmup(opt) : Value(k, m) > 0) =>
       /\ n <= Warmup(opt) + 1 => Len(array) = n - 1
       /\ \A k \in 1..Warmup(opt) : k < n => k <= Len(array) /\ array[k] = k

\* A sample more.
LEMMA HoldsMore ==
  ASSUME ScriptTypeOK, NEW m \in Metrics, NEW n \in 1..TOTAL_ITERS,
         NEW array \in Seq(1..TOTAL_ITERS), Holds(array, m, n)
  PROVE  Holds(IF Value(n, m) # 0 THEN Append(array, n) ELSE array, m, n + 1)
<1> DEFINE a == IF Value(n, m) # 0 THEN Append(array, n) ELSE array
           W == Warmup(opt)
<1>1. /\ W \in Nat /\ TOTAL_ITERS \in Nat /\ n \in Nat /\ Len(array) \in Nat
      /\ DOMAIN array = 1..Len(array) /\ Value(n, m) \in Nat
      /\ \A i \in 1..Len(array) : array[i] \in 1..TOTAL_ITERS
  BY Options, Readings
<1>2. \A i \in 1..Len(array) : array[i] # n
  BY <1>1 DEF Holds
<1>3. CASE Value(n, m) = 0
  <2>1. a = array
    BY <1>3
  <2>2. \A k \in 1..TOTAL_ITERS : k < n + 1 /\ Value(k, m) > 0 <=> k < n /\ Value(k, m) > 0
    BY <1>1, <1>3
  <2>3. (\A k \in 1..W : Value(k, m) > 0) => n > W
    BY <1>1, <1>3
  <2>4. (\A k \in 1..W : Value(k, m) > 0) =>
          /\ ~(n + 1 <= W + 1)
          /\ \A k \in 1..W : k < n
    BY <1>1, <2>3
  <2>5. \A i, j \in DOMAIN array : array[i] = array[j] => i = j
    BY DEF Holds
  <2>6. \A k \in 1..TOTAL_ITERS :
          (\E i \in DOMAIN array : array[i] = k) <=> k < n + 1 /\ Value(k, m) > 0
    BY <2>2 DEF Holds
  <2>7. (\A k \in 1..W : Value(k, m) > 0) =>
          \A k \in 1..W : k <= Len(array) /\ array[k] = k
    BY <2>4 DEF Holds
  <2> HIDE DEF a
  <2> QED
    BY <2>1, <2>4, <2>5, <2>6, <2>7 DEF Holds, a
<1>4. CASE Value(n, m) # 0
  <2>1. /\ a = Append(array, n) /\ Len(a) = Len(array) + 1 /\ DOMAIN a = 1..(Len(array) + 1)
        /\ \A i \in 1..Len(array) : a[i] = array[i]
        /\ a[Len(array) + 1] = n
    BY <1>1, <1>4, AppendProperties
  <2> HIDE DEF a
  <2>2. \A i, j \in DOMAIN a : a[i] = a[j] => i = j
    <3>1. \A i \in DOMAIN a : i \in 1..Len(array) \/ i = Len(array) + 1
      BY <1>1, <2>1
    <3>2. \A i, j \in 1..Len(array) : array[i] = array[j] => i = j
      BY <1>1 DEF Holds
    <3> QED
      BY <1>2, <2>1, <3>1, <3>2
  <2>3. ASSUME NEW k \in 1..TOTAL_ITERS
        PROVE  (\E i \in DOMAIN a : a[i] = k) <=> k < n + 1 /\ Value(k, m) > 0
    <3>1. (\E i \in 1..Len(array) : array[i] = k) <=> k < n /\ Value(k, m) > 0
      BY <1>1 DEF Holds
    <3>2. (\E i \in DOMAIN a : a[i] = k) <=> (\E i \in 1..Len(array) : array[i] = k) \/ k = n
      <4>1. \A i \in DOMAIN a : i \in 1..Len(array) \/ i = Len(array) + 1
        BY <1>1, <2>1
      <4>2. \A i \in 1..Len(array) : i \in DOMAIN a
        BY <1>1, <2>1
      <4>3. Len(array) + 1 \in DOMAIN a
        BY <1>1, <2>1
      <4> QED
        BY <2>1, <4>1, <4>2, <4>3
    <3>3. k = n => Value(k, m) > 0
      BY <1>1, <1>4
    <3> QED
      BY <1>1, <3>1, <3>2, <3>3
  <2>4. ASSUME \A k \in 1..W : Value(k, m) > 0
        PROVE  /\ n + 1 <= W + 1 => Len(a) = n + 1 - 1
               /\ \A k \in 1..W : k < n + 1 => k <= Len(a) /\ a[k] = k
    <3>1. /\ n <= W + 1 => Len(array) = n - 1
          /\ \A k \in 1..W : k < n => k <= Len(array) /\ array[k] = k
      BY <2>4 DEF Holds
    <3>2. n + 1 <= W + 1 => Len(a) = n + 1 - 1
      BY <1>1, <2>1, <3>1
    <3>3. ASSUME NEW k \in 1..W, k < n + 1
          PROVE  k <= Len(a) /\ a[k] = k
      <4>1. CASE k < n
        <5>1. k <= Len(array) /\ array[k] = k /\ k \in 1..Len(array)
          BY <1>1, <3>1, <4>1
        <5> QED
          BY <1>1, <2>1, <5>1
      <4>2. CASE k = n
        <5>1. Len(array) + 1 = k
          BY <1>1, <3>1, <4>2
        <5> QED
          BY <1>1, <2>1, <4>2, <5>1
      <4> QED
        BY <1>1, <3>3, <4>1, <4>2
    <3> QED
      BY <3>2, <3>3
  <2> QED
    BY <2>2, <2>3, <2>4 DEF Holds, a
<1> QED
  BY <1>3, <1>4

\* Where the warmup samples of a run count.
WarmupCounts(m) ==
  \/ \A k \in 1..Warmup(opt) : Value(k, m) > 0
  \/ \A k \in 1..TOTAL_ITERS : Value(k, m) = 0

\* The samples that the cut leaves are those of the study.
LEMMA CutIsStudy ==
  ASSUME ScriptTypeOK, NEW m \in Metrics, NEW array \in Seq(1..TOTAL_ITERS),
         Holds(array, m, TOTAL_ITERS + 1), WarmupCounts(m)
  PROVE  percentile_summary(Values(Measured(array), m)) = Summarize(StudyValues(m))
<1> DEFINE W == Warmup(opt)
           R == Repeat(opt)
           c == Measured(array)
           x == Values(c, m)
           u == StudyValues(m)
           f == [i \in Positive(x) |-> c[i] - W]
<1>1. /\ W \in Nat /\ R \in Nat /\ TOTAL_ITERS = W + R /\ TOTAL_ITERS \in Nat
      /\ Len(array) \in Nat /\ DOMAIN array = 1..Len(array)
      /\ \A i \in 1..Len(array) : array[i] \in 1..TOTAL_ITERS
  BY Options DEF TOTAL_ITERS
<1>2. \A k \in 1..TOTAL_ITERS : Value(k, m) \in Nat /\ k < TOTAL_ITERS + 1
  <2>1. \A k \in 1..TOTAL_ITERS : k \in 1..(TOTAL_ITERS + 1) /\ k < TOTAL_ITERS + 1
    BY <1>1
  <2> QED
    BY <2>1, Readings
<1>3. /\ u \in Seq(Nat) /\ Len(u) = R /\ DOMAIN u = 1..R
      /\ \A i \in 1..R : u[i] = Value(W + i, m)
  BY StudySamples
<1>4. \A i \in 1..Len(array) : Value(array[i], m) > 0
  BY <1>1, <1>2 DEF Holds
<1>5. \A k \in 1..TOTAL_ITERS : Value(k, m) > 0 => \E i \in 1..Len(array) : array[i] = k
  BY <1>1, <1>2 DEF Holds
<1>6. \A i, j \in 1..Len(array) : array[i] = array[j] => i = j
  BY <1>1 DEF Holds
<1> DEFINE n == IF Len(array) >= W THEN Len(array) - W ELSE 0
<1>7. /\ n \in Nat /\ Len(c) = n /\ DOMAIN c = 1..n
      /\ \A i \in 1..n : W + i \in 1..Len(array) /\ c[i] = array[W + i]
  <2>1. c = SubSeq(array, W + 1, Len(array))
    BY DEF Measured
  <2> HIDE DEF c
  <2>2. CASE Len(array) <= W
    <3>1. n = 0 /\ W + 1 > Len(array)
      BY <1>1, <2>2
    <3>2. c = <<>>
      BY <1>1, <2>1, <3>1, SubSeqEmpty
    <3> QED
      BY <3>1, <3>2
  <2>3. CASE Len(array) > W
    <3>1. n = Len(array) - W /\ n \in Nat
      BY <1>1, <2>3
    <3>2. \A i \in (W + 1)..Len(array) : array[i] \in 1..TOTAL_ITERS
      BY <1>1
    <3>3. /\ Len(c) = n /\ DOMAIN c = 1..n
          /\ \A i \in 1..n : W + i \in 1..Len(array) /\ c[i] = array[W + i]
      <4>1. /\ c \in Seq(1..TOTAL_ITERS)
            /\ Len(c) = IF W + 1 <= Len(array) THEN Len(array) - (W + 1) + 1 ELSE 0
            /\ \A i \in 1..(Len(array) - (W + 1) + 1) : c[i] = array[W + 1 + i - 1]
        <5>1. W + 1 \in Int /\ Len(array) \in Int
          BY <1>1
        <5> QED
          BY <2>1, <3>2, <5>1, SubSeqProperties
      <4>2. /\ Len(array) - (W + 1) + 1 = n /\ W + 1 <= Len(array)
            /\ \A i \in 1..n : W + 1 + i - 1 = W + i /\ W + i \in 1..Len(array)
        <5> HIDE DEF n
        <5> DEFINE l == Len(array)
        <5>1. l \in Nat /\ W \in Nat /\ l > W /\ n = l - W
          BY <1>1, <2>3, <3>1
        <5> HIDE DEF l, W
        <5>2. l - (W + 1) + 1 = n /\ W + 1 <= l
          BY <5>1
        <5>3. \A i \in 1..n : W + 1 + i - 1 = W + i /\ W + i \in 1..l
          BY <5>1
        <5> QED
          BY <5>2, <5>3 DEF l
      <4>3. DOMAIN c = 1..Len(c)
        BY <4>1
      <4> HIDE DEF n
      <4> QED
        BY <4>1, <4>2, <4>3
    <3> QED
      BY <3>1, <3>3
  <2> QED
    BY <1>1, <2>2, <2>3
<1> HIDE DEF u, c, n
<1>8. /\ DOMAIN x = 1..n /\ \A i \in 1..n : x[i] = Value(c[i], m)
      /\ x = [i \in 1..n |-> x[i]]
  BY <1>7 DEF Values, Value
<1> HIDE DEF x
<1>9. \A i \in 1..n : x[i] \in Nat /\ x[i] > 0
  BY <1>1, <1>2, <1>4, <1>7, <1>8
<1>10. x \in Seq(Nat)
  <2>1. x \in [1..n -> Nat]
    BY <1>8, <1>9
  <2> QED
    BY <1>7, <2>1, SeqDef
<1>11. Positive(x) = 1..n
  BY <1>8, <1>9 DEF Positive
<1>12. \A j : j \in Positive(u) <=> j \in 1..R /\ Value(W + j, m) > 0
  BY <1>3 DEF Positive
<1> HIDE DEF f
<1>13. f \in Bijection(Positive(x), Positive(u)) /\ \A i \in Positive(x) : u[f[i]] = x[i]
  <2>1. CASE \A k \in 1..W : Value(k, m) > 0
    <3>1. \A k \in 1..W : k <= Len(array) /\ array[k] = k
      BY <1>1, <2>1 DEF Holds
    <3>2. ASSUME NEW i \in 1..n
          PROVE  /\ c[i] - W \in 1..R /\ W + (c[i] - W) = c[i]
                 /\ Value(c[i], m) > 0
      <4>1. c[i] \in 1..TOTAL_ITERS /\ Value(c[i], m) > 0
        BY <1>1, <1>4, <1>7
      <4>2. c[i] \notin 1..W
        <5> SUFFICES ASSUME c[i] \in 1..W
                     PROVE  FALSE
          OBVIOUS
        <5>1. array[c[i]] = array[W + i] /\ c[i] \in 1..Len(array) /\ W + i \in 1..Len(array)
          BY <1>1, <1>7, <3>1
        <5>2. c[i] = W + i
          BY <1>6, <5>1
        <5> QED
          BY <1>1, <1>7, <5>2
      <4> QED
        BY <1>1, <4>1, <4>2
    <3>3. \A i \in 1..n : f[i] = c[i] - W /\ f[i] \in Positive(u) /\ u[f[i]] = x[i]
      <4>1. \A i \in 1..n : f[i] = c[i] - W
        BY <1>11 DEF f
      <4> QED
        BY <1>3, <1>8, <1>12, <3>2, <4>1
    <3>4. ASSUME NEW i \in 1..n, NEW j \in 1..n, f[i] = f[j]
          PROVE  i = j
      <4>1. c[i] = c[j]
        BY <3>2, <3>3, <3>4
      <4>2. W + i = W + j
        BY <1>6, <1>7, <4>1
      <4> QED
        BY <1>1, <4>2
    <3>5. ASSUME NEW j \in Positive(u)
          PROVE  \E i \in 1..n : f[i] = j
      <4>1. j \in 1..R /\ Value(W + j, m) > 0 /\ W + j \in 1..TOTAL_ITERS
        BY <1>1, <1>12
      <4>2. PICK i \in 1..Len(array) : array[i] = W + j
        BY <1>5, <4>1
      <4>3. i > W
        <5>1. i \in 1..W => array[i] = i
          BY <3>1
        <5> QED
          BY <1>1, <4>1, <4>2, <5>1
      <4>4. i - W \in 1..n /\ W + (i - W) = i
        <5> DEFINE l == Len(array)
        <5>1. l \in Nat /\ W \in Nat /\ i \in 1..l /\ i > W
          BY <1>1, <4>3
        <5> HIDE DEF l, W
        <5>2. l >= W /\ i - W \in 1..(l - W) /\ W + (i - W) = i
          BY <5>1
        <5>3. n = l - W
          BY <5>1, <5>2 DEF l, n
        <5> QED
          BY <5>2, <5>3
      <4>5. c[i - W] = W + j
        BY <1>7, <4>2, <4>4
      <4>6. f[i - W] = j
        <5> DEFINE k == i - W
        <5>1. k \in 1..n
          BY <4>4
        <5> HIDE DEF k
        <5>2. f[k] = c[k] - W
          BY <3>3, <5>1
        <5>3. c[k] = W + j
          BY <4>5 DEF k
        <5>4. f[k] = j
          BY <1>1, <4>1, <5>2, <5>3
        <5> QED
          BY <5>4 DEF k
      <4> QED
        BY <4>4, <4>6
    <3>6. f \in [Positive(x) -> Positive(u)]
      <4>1. f = [i \in 1..n |-> f[i]]
        BY <1>11 DEF f
      <4> QED
        BY <1>11, <3>3, <4>1
    <3>7. f \in Bijection(Positive(x), Positive(u))
      BY <1>11, <3>4, <3>5, <3>6 DEF Bijection, Injection, Surjection, IsInjective
    <3> QED
      BY <1>11, <3>3, <3>7
  <2>2. CASE \A k \in 1..TOTAL_ITERS : Value(k, m) = 0
    <3>1. Positive(x) = {}
      <4>1. \A i \in 1..Len(array) : FALSE
        <5> SUFFICES ASSUME NEW i \in 1..Len(array)
                     PROVE  FALSE
          OBVIOUS
        <5>1. Value(array[i], m) > 0 /\ Value(array[i], m) = 0
          BY <1>1, <1>4, <2>2
        <5> QED
          BY <5>1
      <4>2. \A i \in 1..n : FALSE
        BY <1>7, <4>1
      <4> QED
        BY <1>11, <4>2
    <3>2. Positive(u) = {}
      <4>1. \A j \in 1..R : W + j \in 1..TOTAL_ITERS /\ Value(W + j, m) = 0
        BY <1>1, <2>2
      <4> QED
        BY <1>12, <4>1
    <3>3. f \in [Positive(x) -> Positive(u)]
      BY <3>1 DEF f
    <3> QED
      BY <3>1, <3>2, <3>3 DEF Bijection, Injection, Surjection, IsInjective
  <2> QED
    BY <2>1, <2>2 DEF WarmupCounts
<1>14. positive(x) = positive(u)
  BY <1>3, <1>10, <1>13, SameSamples
<1>15. percentile_summary(x) = Summarize(x)
  BY <1>10, SummaryRight
<1>16. Summarize(x) = Summarize(u)
  BY <1>14 DEF Summarize
<1> QED
  BY <1>15, <1>16 DEF x, c, u

-----------------------------------------------------------------------------
(***************************************************************************)
(* What the script has measured, and what it prints of it.                 *)
(***************************************************************************)
\* Where the summary is printed: after the last sample, once, and after one request for
\* all the streams of --reuse, whose connection was then one, over TLS.
Measuring ==
  /\ pc \in {"start", "refused"} => printed = <<>>
  /\ opt.reuse /\ pc \in {"start", "ask"} => at = 1 /\ printed = <<>>
  /\ pc = "print" => at = TOTAL_ITERS + 1 /\ printed = <<>>
  /\ pc \in {"ask", "post"} /\ printed = <<>> /\ ~Single(opt) => at <= TOTAL_ITERS
  /\ printed # <<>> => at = TOTAL_ITERS + 1 /\ ~Single(opt) /\ pc \in {"ask", "post", "done", "failed"}
  /\ printed # <<>> /\ opt.reuse => pc = "done"
  /\ opt.reuse /\ Repeat(opt) > 1 /\ pc \in {"post", "print", "done"} =>
       Cardinality(opener) = 1 /\ \A k \in opener : Curl[series][k].appconnect > 0

\* Until then the arrays hold the samples,
ArraysHold ==
  printed = <<>> /\ ~Single(opt) =>
    /\ Holds(TLS_HS_SAMPLES, "tls", at)
    /\ Holds(TCP_SAMPLES, "tcp", at)
    /\ Holds(TOTAL_SAMPLES, "total", at)

\* and from then on the summaries are those of the study.
SummariesHold ==
  printed # <<>> =>
    /\ WarmupCounts("tls") => printed[1] = Summarize(StudyValues("tls"))
    /\ WarmupCounts("tcp") => printed[2] = Summarize(StudyValues("tcp"))
    /\ WarmupCounts("total") => printed[3] = Summarize(StudyValues("total"))

Measures == Measuring /\ ArraysHold /\ SummariesHold

\* A step that leaves what was measured alone.
LEMMA MeasuresKept ==
  ASSUME UNCHANGED <<opt, series, opener, at, arrays, printed>>
  PROVE  (ArraysHold => ArraysHold') /\ (SummariesHold => SummariesHold')
<1> USE DEF arrays
<1>1. ArraysHold => ArraysHold'
  <2>1. Holds(TLS_HS_SAMPLES, "tls", at) => Holds(TLS_HS_SAMPLES, "tls", at)'
    BY DEF Holds, Value, TimesOf, TOTAL_ITERS
  <2>2. Holds(TCP_SAMPLES, "tcp", at) => Holds(TCP_SAMPLES, "tcp", at)'
    BY DEF Holds, Value, TimesOf, TOTAL_ITERS
  <2>3. Holds(TOTAL_SAMPLES, "total", at) => Holds(TOTAL_SAMPLES, "total", at)'
    BY DEF Holds, Value, TimesOf, TOTAL_ITERS
  <2> QED
    BY <2>1, <2>2, <2>3 DEF ArraysHold
<1>2. SummariesHold => SummariesHold'
  BY DEF SummariesHold, WarmupCounts, StudyValues, Value, TimesOf, TOTAL_ITERS
<1> QED
  BY <1>1, <1>2

\* Before the first sample an array holds nothing.
LEMMA NothingHeld ==
  ASSUME ScriptTypeOK, NEW m \in Metrics, NEW array \in Seq(1..TOTAL_ITERS), Holds(array, m, 1)
  PROVE  array = <<>>
<1>1. TOTAL_ITERS \in Nat
  BY Options
<1>2. /\ DOMAIN array = 1..Len(array) /\ Len(array) \in Nat
      /\ \A i \in 1..Len(array) : array[i] \in 1..TOTAL_ITERS
  BY <1>1
<1>3. \A i \in DOMAIN array : FALSE
  <2>1. \A k \in 1..TOTAL_ITERS : ~(k < 1)
    BY <1>1
  <2> QED
    BY <1>2, <2>1 DEF Holds
<1> QED
  BY <1>2, <1>3

LEMMA MeasuresMore ==
  ASSUME ScriptInvariant, Measures, PostTimings
  PROVE  Measures'
<1> USE DEF ScriptInvariant, Measures
<1>1. /\ Repeat(opt) \in Nat \ {0} /\ Warmup(opt) \in Nat /\ TOTAL_ITERS \in Nat \ {0}
      /\ at \in 1..(TOTAL_ITERS + 1) /\ opt.only \in BOOLEAN /\ opt.reuse \in BOOLEAN
  BY Options DEF ScriptTypeOK, CommandLine
<1>2. /\ opt' = opt /\ series' = series /\ opener' = opener /\ printed' = printed
      /\ pc = "post" /\ record_sample(at) /\ GoOn /\ TOTAL_ITERS' = TOTAL_ITERS
  BY DEF PostTimings, TOTAL_ITERS
<1>3. CASE printed # <<>>
  <2>1. at = TOTAL_ITERS + 1 /\ ~opt.reuse
    BY <1>1, <1>2, <1>3 DEF Measuring
  <2>2. pc' = "done" /\ at' = at
    BY <1>1, <1>2, <2>1 DEF GoOn
  <2>3. Measuring'
    BY <1>2, <1>3, <2>1, <2>2 DEF Measuring
  <2>4. ArraysHold'
    BY <1>2, <1>3 DEF ArraysHold
  <2>5. SummariesHold'
    BY <1>2 DEF SummariesHold, WarmupCounts, StudyValues, Value, TimesOf, TOTAL_ITERS
  <2> QED
    BY <2>3, <2>4, <2>5
<1>4. CASE printed = <<>> /\ Single(opt)
  <2>1. Measuring'
    <3>1. ~opt.only /\ ~opt.reuse
      BY <1>1, <1>2, <1>4 DEF Single, OnItsWay, Refused
    <3>2. pc' \in {"done", "ask"}
      <4>1. CASE at > TOTAL_ITERS
        BY <1>1, <1>2, <4>1 DEF GoOn
      <4>2. CASE at = TOTAL_ITERS
        BY <1>1, <1>2, <1>4, <4>2 DEF GoOn
      <4>3. CASE at < TOTAL_ITERS
        BY <1>1, <1>2, <3>1, <4>3 DEF GoOn
      <4> QED
        BY <1>1, <4>1, <4>2, <4>3
    <3> QED
      BY <1>2, <1>4, <3>1, <3>2 DEF Measuring
  <2>2. ArraysHold' /\ SummariesHold'
    BY <1>2, <1>4 DEF ArraysHold, SummariesHold
  <2> QED
    BY <2>1, <2>2
<1>5. CASE printed = <<>> /\ ~Single(opt)
  <2>1. at \in 1..TOTAL_ITERS /\ Op(at) # "download"
    BY <1>1, <1>2, <1>5 DEF Measuring, Op
  <2>2. /\ at' = at + 1
        /\ pc' = IF at = TOTAL_ITERS THEN "print" ELSE IF opt.reuse THEN "post" ELSE "ask"
    <3>1. CASE at = TOTAL_ITERS
      BY <1>1, <1>2, <1>5, <3>1 DEF GoOn
    <3>2. CASE at < TOTAL_ITERS
      BY <1>1, <1>2, <3>2 DEF GoOn
    <3> QED
      BY <1>1, <2>1, <3>1, <3>2
  <2>3. Measuring'
    <3>1. pc' \in {"print", "post", "ask"} /\ (opt.reuse => pc' # "ask")
      BY <2>2
    <3>2. pc' = "print" => at' = TOTAL_ITERS + 1
      BY <1>1, <2>2
    <3>3. pc' \in {"ask", "post"} => at' <= TOTAL_ITERS
      BY <1>1, <2>1, <2>2
    <3> QED
      BY <1>2, <1>5, <3>1, <3>2, <3>3 DEF Measuring
  <2> DEFINE p == curl_phases_ms(TimesOf(at))
             Add(array, v) == IF v # 0 THEN Append(array, at) ELSE array
  <2>4. /\ TLS_HS_SAMPLES' = Add(TLS_HS_SAMPLES, Value(at, "tls"))
        /\ TCP_SAMPLES' = Add(TCP_SAMPLES, Value(at, "tcp"))
        /\ TOTAL_SAMPLES' = Add(TOTAL_SAMPLES, Value(at, "total"))
    BY <1>2, <1>5, <2>1 DEF record_sample, Value
  <2>5. /\ TLS_HS_SAMPLES \in Seq(1..TOTAL_ITERS) /\ TCP_SAMPLES \in Seq(1..TOTAL_ITERS)
        /\ TOTAL_SAMPLES \in Seq(1..TOTAL_ITERS)
    BY DEF ScriptTypeOK
  <2>6. /\ Holds(TLS_HS_SAMPLES', "tls", at + 1)
        /\ Holds(TCP_SAMPLES', "tcp", at + 1)
        /\ Holds(TOTAL_SAMPLES', "total", at + 1)
    <3>1. "tls" \in Metrics /\ "tcp" \in Metrics /\ "total" \in Metrics
      BY DEF Metrics
    <3>2. /\ Holds(Add(TLS_HS_SAMPLES, Value(at, "tls")), "tls", at + 1)
          /\ Holds(Add(TCP_SAMPLES, Value(at, "tcp")), "tcp", at + 1)
          /\ Holds(Add(TOTAL_SAMPLES, Value(at, "total")), "total", at + 1)
      BY <1>5, <2>1, <2>5, <3>1, HoldsMore DEF ArraysHold
    <3> HIDE DEF Add
    <3> QED
      BY <2>4, <3>2
  <2>7. ArraysHold'
    <3>1. Holds(TLS_HS_SAMPLES', "tls", at + 1) => Holds(TLS_HS_SAMPLES, "tls", at)'
      BY <1>2, <2>2 DEF Holds, Value, TimesOf, TOTAL_ITERS
    <3>2. Holds(TCP_SAMPLES', "tcp", at + 1) => Holds(TCP_SAMPLES, "tcp", at)'
      BY <1>2, <2>2 DEF Holds, Value, TimesOf, TOTAL_ITERS
    <3>3. Holds(TOTAL_SAMPLES', "total", at + 1) => Holds(TOTAL_SAMPLES, "total", at)'
      BY <1>2, <2>2 DEF Holds, Value, TimesOf, TOTAL_ITERS
    <3> QED
      BY <2>6, <3>1, <3>2, <3>3 DEF ArraysHold
  <2>8. SummariesHold'
    BY <1>2, <1>5 DEF SummariesHold
  <2> QED
    BY <2>3, <2>7, <2>8
<1> QED
  BY <1>3, <1>4, <1>5

LEMMA MeasuresPrinted ==
  ASSUME ScriptInvariant, Measures, PrintSummary
  PROVE  Measures'
<1> USE DEF ScriptInvariant, Measures
<1>1. /\ opt' = opt /\ series' = series /\ opener' = opener /\ at' = at /\ pc = "print"
      /\ pc' = (IF opt.only THEN "done" ELSE "ask") /\ TOTAL_ITERS' = TOTAL_ITERS
  BY DEF PrintSummary, TOTAL_ITERS
<1>2. printed = <<>> /\ at = TOTAL_ITERS + 1 /\ ~Single(opt) /\ ~Refused(opt)
  BY <1>1 DEF Measuring, OnItsWay
<1>3. printed' = <<percentile_summary(Values(Measured(TLS_HS_SAMPLES), "tls")),
                   percentile_summary(Values(Measured(TCP_SAMPLES), "tcp")),
                   percentile_summary(Values(Measured(TOTAL_SAMPLES), "total"))>>
  BY DEF PrintSummary
<1>4. /\ WarmupCounts("tls") =>
           percentile_summary(Values(Measured(TLS_HS_SAMPLES), "tls")) = Summarize(StudyValues("tls"))
      /\ WarmupCounts("tcp") =>
           percentile_summary(Values(Measured(TCP_SAMPLES), "tcp")) = Summarize(StudyValues("tcp"))
      /\ WarmupCounts("total") =>
           percentile_summary(Values(Measured(TOTAL_SAMPLES), "total")) = Summarize(StudyValues("total"))
  <2>1. /\ TLS_HS_SAMPLES \in Seq(1..TOTAL_ITERS) /\ TCP_SAMPLES \in Seq(1..TOTAL_ITERS)
        /\ TOTAL_SAMPLES \in Seq(1..TOTAL_ITERS)
    BY DEF ScriptTypeOK
  <2>2. /\ Holds(TLS_HS_SAMPLES, "tls", TOTAL_ITERS + 1)
        /\ Holds(TCP_SAMPLES, "tcp", TOTAL_ITERS + 1)
        /\ Holds(TOTAL_SAMPLES, "total", TOTAL_ITERS + 1)
    BY <1>2 DEF ArraysHold
  <2>3. "tls" \in Metrics /\ "tcp" \in Metrics /\ "total" \in Metrics
    BY DEF Metrics
  <2> QED
    BY <2>1, <2>2, <2>3, CutIsStudy
<1>5. opt.reuse => opt.only
  BY <1>2 DEF Refused
<1>6. Measuring'
  <2>1. printed' # <<>> /\ pc' \in {"done", "ask"} /\ (opt.reuse => pc' = "done")
    BY <1>1, <1>3, <1>5
  <2> QED
    BY <1>1, <1>2, <2>1 DEF Measuring
<1>7. ArraysHold'
  BY <1>3 DEF ArraysHold
<1>8. /\ WarmupCounts("tls") => printed'[1] = Summarize(StudyValues("tls"))
      /\ WarmupCounts("tcp") => printed'[2] = Summarize(StudyValues("tcp"))
      /\ WarmupCounts("total") => printed'[3] = Summarize(StudyValues("total"))
  BY <1>3, <1>4
<1>9. SummariesHold'
  BY <1>1, <1>8 DEF SummariesHold, WarmupCounts, StudyValues, Value, TimesOf, TOTAL_ITERS
<1> QED
  BY <1>6, <1>7, <1>9

LEMMA MeasuresStep ==
  ASSUME ScriptInvariant, Measures, ScriptNext
  PROVE  Measures'
<1> USE DEF ScriptInvariant, Measures
<1>1. /\ Repeat(opt) \in Nat \ {0} /\ TOTAL_ITERS \in Nat \ {0}
      /\ at \in 1..(TOTAL_ITERS + 1) /\ opt.only \in BOOLEAN /\ opt.reuse \in BOOLEAN
  BY Options DEF ScriptTypeOK, CommandLine
<1>2. opt' = opt /\ series' = series /\ TOTAL_ITERS' = TOTAL_ITERS
  BY DEF ScriptNext, Start, Ask, AskAll, PostTimings, PrintSummary, Break, TOTAL_ITERS
<1>3. CASE Start
  <2>1. UNCHANGED <<opt, series, opener, at, arrays, printed>>
    BY <1>3 DEF Start
  <2>2. pc = "start" /\ pc' \in {"refused", "ask"} /\ at = 1 /\ printed = <<>>
        /\ 1 <= TOTAL_ITERS
    BY <1>1, <1>3 DEF Start, OnItsWay, Measuring
  <2>3. Measuring'
    BY <1>2, <2>1, <2>2 DEF Measuring
  <2> QED
    BY <2>1, <2>3, MeasuresKept
<1>4. CASE Ask
  <2>1. UNCHANGED <<opt, series, opener, at, arrays, printed>>
    BY <1>4 DEF Ask
  <2>2. pc = "ask" /\ pc' = "post" /\ ~opt.reuse
    BY <1>4 DEF Ask
  <2>3. Measuring'
    BY <1>2, <2>1, <2>2 DEF Measuring
  <2> QED
    BY <2>1, <2>3, MeasuresKept
<1>5. CASE AskAll
  <2>1. /\ pc = "ask" /\ opt.reuse /\ at' = at /\ printed' = printed
        /\ TLS_HS_SAMPLES' = TLS_HS_SAMPLES /\ TCP_SAMPLES' = TCP_SAMPLES
        /\ TOTAL_SAMPLES' = TOTAL_SAMPLES
    BY <1>5 DEF AskAll, arrays
  <2>2. at = 1 /\ printed = <<>>
    BY <2>1 DEF Measuring
  <2>3. /\ pc' \in {"post", "failed"}
        /\ pc' = "post" /\ Repeat(opt) > 1 =>
             Cardinality(opener') = 1 /\ \A k \in opener' : Curl[series][k].appconnect > 0
    BY <1>5 DEF AskAll, multiplex_timing_rows
  <2>4. Measuring'
    BY <1>1, <1>2, <2>1, <2>2, <2>3 DEF Measuring
  <2>5. ArraysHold'
    <3> SUFFICES ASSUME ~Single(opt)
                 PROVE  ArraysHold'
      BY <1>2 DEF ArraysHold
    <3>1. TLS_HS_SAMPLES = <<>> /\ TCP_SAMPLES = <<>> /\ TOTAL_SAMPLES = <<>>
      <4>1. "tls" \in Metrics /\ "tcp" \in Metrics /\ "total" \in Metrics
        BY DEF Metrics
      <4>2. /\ TLS_HS_SAMPLES \in Seq(1..TOTAL_ITERS) /\ TCP_SAMPLES \in Seq(1..TOTAL_ITERS)
            /\ TOTAL_SAMPLES \in Seq(1..TOTAL_ITERS)
        BY DEF ScriptTypeOK
      <4> QED
        BY <2>2, <4>1, <4>2, NothingHeld DEF ArraysHold
    <3> DEFINE W == Warmup(opt)
    <3>2. /\ Len(<<>>) = 1 - 1 /\ DOMAIN <<>> = {}
          /\ \A k \in 1..TOTAL_ITERS : ~(k < 1)
          /\ \A k \in 1..W : ~(k < 1)
      BY Options
    <3> HIDE DEF W
    <3>3. Holds(TLS_HS_SAMPLES, "tls", at)'
      BY <1>2, <2>1, <2>2, <3>1, <3>2 DEF Holds, W
    <3>4. Holds(TCP_SAMPLES, "tcp", at)'
      BY <1>2, <2>1, <2>2, <3>1, <3>2 DEF Holds, W
    <3>5. Holds(TOTAL_SAMPLES, "total", at)'
      BY <1>2, <2>1, <2>2, <3>1, <3>2 DEF Holds, W
    <3> QED
      BY <3>3, <3>4, <3>5 DEF ArraysHold
  <2>6. SummariesHold'
    BY <2>1, <2>2 DEF SummariesHold
  <2> QED
    BY <2>4, <2>5, <2>6
<1>6. CASE PostTimings
  BY <1>6, MeasuresMore
<1>7. CASE PrintSummary
  BY <1>7, MeasuresPrinted
<1>8. CASE Break
  <2>1. UNCHANGED <<opt, series, opener, at, arrays, printed>>
    BY <1>8 DEF Break
  <2>2. pc \in {"ask", "post"} /\ pc' = "failed"
    BY <1>8 DEF Break
  <2>3. Measuring'
    BY <1>2, <2>1, <2>2 DEF Measuring
  <2> QED
    BY <2>1, <2>3, MeasuresKept
<1> QED
  BY <1>3, <1>4, <1>5, <1>6, <1>7, <1>8 DEF ScriptNext

-----------------------------------------------------------------------------
(***************************************************************************)
(* The samples in the log.                                                 *)
(***************************************************************************)
\* The runs of the study.
Samples == {i \in DOMAIN table : table[i].exp = Experiment /\ table[i].op = Op(1)}

Recorded(k) == \E i \in Samples : table[i].idx = k

\* What the script posts of a handshake.
PostedHandshake == [k \in 1..TOTAL_ITERS |-> PhasesFromCurl(TimesOf(k)).tls]

\* Each is of a request of its own, with what was posted of it.
SamplesRight ==
  ~Single(opt) =>
    /\ \A i \in Samples : table[i].idx \in 1..TOTAL_ITERS
    /\ \A i, j \in Samples : table[i].idx = table[j].idx => i = j
    /\ \A i \in Samples :
         table[i].hs = IF table[i].idx < at THEN PostedHandshake[table[i].idx] ELSE 0

\* The log has those of the requests that were made.
SamplesThere ==
  ~Single(opt) =>
    /\ pc = "start" => Samples = {}
    /\ pc = "ask" /\ printed = <<>> => \A k \in 1..TOTAL_ITERS : Recorded(k) <=> k < at
    /\ pc = "post" /\ printed = <<>> =>
         \A k \in 1..TOTAL_ITERS : Recorded(k) <=> opt.reuse \/ k <= at
    /\ pc = "print" \/ printed # <<>> => \A k \in 1..TOTAL_ITERS : Recorded(k)

Sampled == SamplesRight /\ SamplesThere

\* A step that leaves the runs of the study alone.
LEMMA SamplesKept ==
  ASSUME SamplesRight, UNCHANGED <<opt, series, opener, at>>, Samples' = Samples,
         \A i \in Samples : table'[i].idx = table[i].idx /\ table'[i].hs = table[i].hs
  PROVE  SamplesRight' /\ \A k : Recorded(k)' <=> Recorded(k)
<1>1. \A k : Recorded(k)' <=> Recorded(k)
  BY DEF Recorded
<1>2. TOTAL_ITERS' = TOTAL_ITERS /\ PostedHandshake' = PostedHandshake
  BY DEF TOTAL_ITERS, PostedHandshake, TimesOf
<1>3. ASSUME ~Single(opt)
      PROVE  /\ \A i \in Samples' : table'[i].idx \in 1..TOTAL_ITERS'
             /\ \A i, j \in Samples' : table'[i].idx = table'[j].idx => i = j
             /\ \A i \in Samples' :
                  table'[i].hs = IF table'[i].idx < at' THEN PostedHandshake'[table'[i].idx] ELSE 0
  BY <1>2, <1>3 DEF SamplesRight
<1>4. SamplesRight'
  BY <1>2, <1>3 DEF SamplesRight
<1> QED
  BY <1>1, <1>4

\* A request is of the study, or it is the download behind it.
LEMMA Sample ==
  ASSUME ScriptTypeOK, NEW k \in 1..TOTAL_ITERS
  PROVE  Op(k) = Op(1) /\ Idx(k) = k /\ Op(1) # "download"
<1>1. TOTAL_ITERS \in Nat \ {0}
  BY Options
<1> QED
  BY <1>1 DEF Op, Idx

LEMMA SampledAsk ==
  ASSUME ScriptInvariant, Measures, TableOK, Sampled, Ask
  PROVE  Sampled'
<1> USE DEF ScriptInvariant, Measures
<1>1. /\ TOTAL_ITERS \in Nat \ {0} /\ at \in 1..(TOTAL_ITERS + 1) /\ opt.only \in BOOLEAN
      /\ opt \in CommandLine
  BY Options DEF ScriptTypeOK, CommandLine
<1>2. /\ UNCHANGED <<opt, series, opener, at, printed>> /\ pc = "ask" /\ pc' = "post" /\ ~opt.reuse
      /\ TOTAL_ITERS' = TOTAL_ITERS /\ Op(1)' = Op(1)
  BY DEF Ask, TOTAL_ITERS, Op
<1> DEFINE r == Stamp(DraftOf(at), Len(table) + 1)
           z == Len(table) + 1
<1>3. r.exp = Experiment /\ r.op = Op(at) /\ r.idx = Idx(at) /\ r.hs = 0
  BY DEF Stamp, DraftOf
<1>4. table' = Append(table, r)
  BY DEF Ask
<1> HIDE DEF r
<1>5. /\ DOMAIN table = 1..Len(table) /\ Len(table) \in Nat /\ z \notin DOMAIN table
      /\ DOMAIN table' = DOMAIN table \cup {z}
      /\ \A i \in DOMAIN table : table'[i] = table[i]
      /\ table'[z] = r
  BY <1>4, AppendProperties DEF TableOK
<1> HIDE DEF z
<1>6. SUFFICES ASSUME ~Single(opt)
               PROVE  Sampled'
  BY <1>2 DEF Sampled, SamplesRight, SamplesThere
<1>7. CASE printed = <<>>
  <2>1. at \in 1..TOTAL_ITERS
    BY <1>1, <1>2, <1>6, <1>7 DEF Measuring
  <2>2. r.op = Op(1) /\ r.idx = at
    BY <1>3, <2>1, Sample
  <2>3. Samples' = Samples \cup {z}
    BY <1>2, <1>3, <1>5, <2>2 DEF Samples, Experiment
  <2>4. \A k \in 1..TOTAL_ITERS : Recorded(k) <=> k < at
    BY <1>2, <1>6, <1>7 DEF Sampled, SamplesThere
  <2>5. \A i \in Samples : /\ table'[i] = table[i] /\ table[i].idx \in 1..TOTAL_ITERS
                           /\ table[i].idx < at /\ i # z
    BY <1>5, <1>6, <2>4 DEF Sampled, SamplesRight, Recorded, Samples
  <2>6. \A k \in 1..TOTAL_ITERS : Recorded(k)' <=> k < at \/ k = at
    BY <1>5, <2>2, <2>3, <2>4, <2>5 DEF Recorded
  <2>7. \A k \in 1..TOTAL_ITERS : k < at \/ k = at <=> k <= at
    BY <1>1
  <2>8. SamplesThere'
    BY <1>2, <1>7, <2>6, <2>7 DEF SamplesThere
  <2>9. \A i \in Samples' : table'[i].idx \in 1..TOTAL_ITERS
    BY <1>5, <2>1, <2>2, <2>3, <2>5
  <2>10. ASSUME NEW i \in Samples', NEW j \in Samples', table'[i].idx = table'[j].idx
         PROVE  i = j
    <3>1. \A a, b \in Samples : table[a].idx = table[b].idx => a = b
      BY <1>6 DEF Sampled, SamplesRight
    <3>2. \A a \in Samples : table[a].idx # at
      BY <1>1, <2>5
    <3> QED
      BY <1>5, <2>2, <2>3, <2>5, <2>10, <3>1, <3>2
  <2>11. ASSUME NEW i \in Samples'
         PROVE  table'[i].hs = IF table'[i].idx < at' THEN PostedHandshake'[table'[i].idx] ELSE 0
    <3>1. PostedHandshake' = PostedHandshake
      BY <1>2 DEF PostedHandshake, TimesOf
    <3>2. CASE i \in Samples
      <4>1. table[i].hs = IF table[i].idx < at THEN PostedHandshake[table[i].idx] ELSE 0
        BY <1>6, <3>2 DEF Sampled, SamplesRight
      <4> QED
        BY <1>2, <2>5, <3>1, <3>2, <4>1
    <3>3. CASE i = z
      BY <1>1, <1>2, <1>3, <1>5, <2>2, <3>3
    <3> QED
      BY <2>3, <3>2, <3>3
  <2>12. SamplesRight'
    BY <1>2, <2>9, <2>10, <2>11 DEF SamplesRight
  <2> QED
    BY <2>8, <2>12 DEF Sampled
<1>8. CASE printed # <<>>
  <2>1. at = TOTAL_ITERS + 1
    BY <1>8 DEF Measuring
  <2>2. ~opt.only
    BY <1>1, <1>2, <2>1 DEF OnItsWay
  <2>3. r.op # Op(1)
    BY <1>1, <1>3, <2>1, <2>2 DEF Op
  <2>4. Samples' = Samples
    BY <1>2, <1>5, <2>3 DEF Samples, Experiment
  <2>5. \A i \in Samples : table'[i] = table[i]
    BY <1>5 DEF Samples
  <2>6. SamplesRight' /\ \A k : Recorded(k)' <=> Recorded(k)
    BY <1>2, <2>4, <2>5, SamplesKept DEF Sampled
  <2>7. SamplesThere'
    BY <1>2, <1>6, <1>8, <2>6 DEF Sampled, SamplesThere
  <2> QED
    BY <2>6, <2>7 DEF Sampled
<1> QED
  BY <1>7, <1>8

LEMMA SampledAskAll ==
  ASSUME ScriptInvariant, Measures, TableOK, Sampled, AskAll
  PROVE  Sampled'
<1> USE DEF ScriptInvariant, Measures
<1>1. /\ TOTAL_ITERS \in Nat \ {0} /\ at \in 1..(TOTAL_ITERS + 1) /\ opt.only \in BOOLEAN
      /\ opt.reuse \in BOOLEAN /\ Repeat(opt) \in Nat /\ Repeat(opt) <= TOTAL_ITERS
  <2>1. /\ Repeat(opt) \in Nat /\ Warmup(opt) \in Nat /\ TOTAL_ITERS \in Nat \ {0}
        /\ opt.only \in BOOLEAN /\ opt.reuse \in BOOLEAN
    BY Options DEF CommandLine
  <2> QED
    BY <2>1 DEF ScriptTypeOK, TOTAL_ITERS
<1>2. /\ UNCHANGED <<opt, series, at, printed>> /\ pc = "ask" /\ opt.reuse
      /\ pc' \in {"post", "failed"} /\ TOTAL_ITERS' = TOTAL_ITERS /\ Op(1)' = Op(1)
  BY DEF AskAll, TOTAL_ITERS, Op
<1>3. at = 1 /\ printed = <<>>
  BY <1>2 DEF Measuring
<1>4. opt.only /\ TOTAL_ITERS = Repeat(opt)
  <2>1. opt.only
    BY <1>1, <1>2 DEF OnItsWay, Refused
  <2>2. Warmup(opt) = 0
    BY <1>2, <2>1 DEF Warmup
  <2> QED
    BY <1>1, <2>1, <2>2 DEF TOTAL_ITERS
<1>5. PICK order \in [1..Repeat(opt) -> 1..Repeat(opt)] :
        /\ \A i, j \in DOMAIN order : order[i] = order[j] => i = j
        /\ table' = table \o [i \in DOMAIN order |-> Stamp(DraftOf(order[i]), Len(table) + i)]
  BY DEF AskAll
<1> DEFINE R == Repeat(opt)
           n == Len(table)
           u == [i \in 1..R |-> Stamp(DraftOf(order[i]), n + i)]
<1>6. /\ \A i \in 1..R : order[i] \in 1..R
      /\ \A i, j \in 1..R : order[i] = order[j] => i = j
      /\ \A k \in 1..R : \E i \in 1..R : order[i] = k
  <2>1. order \in Injection(1..R, 1..R)
    BY <1>5 DEF Injection, IsInjective
  <2>2. IsFiniteSet(1..R) /\ Cardinality(1..R) = R
    BY <1>1, FS_Interval
  <2>3. order \in Surjection(1..R, 1..R)
    BY <2>1, <2>2, FS_Injection
  <2> QED
    BY <1>5, <2>3 DEF Surjection
<1>7. table' = table \o u
  BY <1>5
<1>8. \A i \in 1..R : /\ u[i].exp = Experiment /\ u[i].op = Op(1) /\ u[i].idx = order[i]
                      /\ u[i].hs = 0
  <2> SUFFICES ASSUME NEW i \in 1..R
               PROVE  /\ u[i].exp = Experiment /\ u[i].op = Op(1) /\ u[i].idx = order[i]
                      /\ u[i].hs = 0
    OBVIOUS
  <2>1. order[i] \in 1..TOTAL_ITERS
    BY <1>4, <1>6
  <2>2. Op(order[i]) = Op(1) /\ Idx(order[i]) = order[i]
    BY <2>1, Sample
  <2>3. u[i] = Stamp(DraftOf(order[i]), n + i)
    OBVIOUS
  <2> QED
    BY <2>2, <2>3 DEF Stamp, DraftOf
<1>9. u \in Seq(Run) /\ Len(u) = R
  <2>1. \A i \in 1..R : u[i] \in Run
    <3> SUFFICES ASSUME NEW i \in 1..R
                 PROVE  u[i] \in Run
      OBVIOUS
    <3>1. order[i] \in 1..(TOTAL_ITERS + 1)
      BY <1>1, <1>4, <1>6
    <3>2. n + i \in Nat
      BY <1>1 DEF TableOK
    <3>3. DraftOf(order[i]) \in Draft
      BY <3>1, Requests
    <3> QED
      BY <3>2, <3>3, StampIsRun
  <2>2. u \in [1..R -> Run]
    BY <2>1
  <2> HIDE DEF u
  <2> QED
    BY <1>1, <2>2, SeqDef
<1> HIDE DEF u, R
<1>10. /\ n \in Nat /\ R \in Nat /\ DOMAIN table = 1..n /\ DOMAIN table' = 1..(n + R)
       /\ \A i \in 1..n : table'[i] = table[i]
       /\ \A i \in 1..R : table'[n + i] = u[i] /\ n + i \in 1..(n + R) /\ n + i \notin 1..n
       /\ \A j \in 1..(n + R) : j \in 1..n \/ (j - n \in 1..R /\ n + (j - n) = j)
  <2>1. n \in Nat /\ R \in Nat /\ DOMAIN table = 1..n /\ table \in Seq(Run)
    BY <1>1 DEF TableOK, R
  <2>2. /\ Len(table') = n + R /\ DOMAIN table' = 1..(n + R)
        /\ \A i \in 1..(n + R) : table'[i] = IF i <= n THEN table[i] ELSE u[i - n]
    <3>1. \A s, v \in Seq(Run) :
            /\ Len(s \o v) = Len(s) + Len(v) /\ DOMAIN (s \o v) = 1..(Len(s) + Len(v))
            /\ \A i \in 1..(Len(s) + Len(v)) : (s \o v)[i] = IF i <= Len(s) THEN s[i] ELSE v[i - Len(s)]
      OBVIOUS
    <3> QED
      BY <1>7, <1>9, <2>1, <3>1 DEF n
  <2> HIDE DEF n
  <2>3. \A i \in 1..n : i \in 1..(n + R) /\ i <= n
    BY <2>1
  <2>4. \A i \in 1..R : n + i \in 1..(n + R) /\ ~(n + i <= n) /\ n + i \notin 1..n /\ n + i - n = i
    BY <2>1
  <2>5. \A j \in 1..(n + R) : j \in 1..n \/ (j - n \in 1..R /\ n + (j - n) = j)
    BY <2>1
  <2> QED
    BY <2>1, <2>2, <2>3, <2>4, <2>5
<1> HIDE DEF n
<1>11. SUFFICES ASSUME ~Single(opt)
                PROVE  Sampled'
  BY <1>2 DEF Sampled, SamplesRight, SamplesThere
<1>12. Samples = {}
  <2>1. \A k \in 1..TOTAL_ITERS : ~Recorded(k)
    <3>1. \A k \in 1..TOTAL_ITERS : Recorded(k) <=> k < 1
      BY <1>2, <1>3, <1>11 DEF Sampled, SamplesThere
    <3> QED
      BY <1>1, <3>1
  <2>2. \A i \in Samples : table[i].idx \in 1..TOTAL_ITERS
    BY <1>11 DEF Sampled, SamplesRight
  <2> QED
    BY <2>1, <2>2 DEF Recorded
<1>13. \A j : j \in Samples' <=> j \in 1..(n + R) /\ j - n \in 1..R
  <2>1. \A i \in 1..n : ~(table[i].exp = Experiment /\ table[i].op = Op(1))
    BY <1>10, <1>12 DEF Samples
  <2>2. \A j : j \in Samples' <=> j \in 1..(n + R) /\ table'[j].exp = Experiment /\ table'[j].op = Op(1)
    BY <1>2, <1>10 DEF Samples, Experiment
  <2>3. \A j \in 1..(n + R) : j - n \in 1..R => table'[j] = u[j - n]
    BY <1>10
  <2>4. \A j \in 1..n : j \in 1..(n + R) /\ j - n \notin 1..R
    BY <1>10
  <2> QED
    BY <1>8, <1>10, <2>1, <2>2, <2>3, <2>4
<1>14. \A j \in Samples' : /\ j - n \in 1..R /\ table'[j].idx = order[j - n] /\ table'[j].hs = 0
                           /\ n + (j - n) = j /\ j \in Int
  BY <1>8, <1>10, <1>13
<1>15. \A k \in 1..TOTAL_ITERS : Recorded(k)'
  <2> SUFFICES ASSUME NEW k \in 1..R
               PROVE  \E j \in Samples' : table'[j].idx = k
    BY <1>4 DEF Recorded, R
  <2>1. PICK i \in 1..R : order[i] = k
    BY <1>6 DEF R
  <2> DEFINE j == n + i
  <2>2. j - n = i /\ j \in 1..(n + R)
    BY <1>10
  <2> HIDE DEF j
  <2>3. j \in Samples'
    BY <1>13, <2>2
  <2> QED
    BY <1>14, <2>1, <2>2, <2>3
<1>16. SamplesThere'
  BY <1>2, <1>3, <1>15 DEF SamplesThere
<1>17. SamplesRight'
  <2>1. \A j \in Samples' : table'[j].idx \in 1..TOTAL_ITERS
    BY <1>4, <1>6, <1>14 DEF R
  <2>2. ASSUME NEW i \in Samples', NEW j \in Samples', table'[i].idx = table'[j].idx
        PROVE  i = j
    <3>1. i - n = j - n
      BY <1>6, <1>14, <2>2 DEF R
    <3> QED
      BY <1>10, <1>14, <3>1
  <2>3. \A j \in Samples' : table'[j].hs = 0 /\ ~(table'[j].idx < at')
    BY <1>1, <1>2, <1>3, <1>14, <2>1
  <2> QED
    BY <1>2, <2>1, <2>2, <2>3 DEF SamplesRight
<1> QED
  BY <1>16, <1>17 DEF Sampled

\* The timings of a sample are merged into its run, and those of the download into none
\* of the samples.
LEMMA SampledPost ==
  ASSUME ScriptInvariant, Measures, TableOK, Sampled, PostTimings
  PROVE  Sampled'
<1> USE DEF ScriptInvariant, Measures
<1>1. /\ TOTAL_ITERS \in Nat \ {0} /\ at \in 1..(TOTAL_ITERS + 1) /\ opt.only \in BOOLEAN
      /\ opt.reuse \in BOOLEAN
  BY Options DEF ScriptTypeOK, CommandLine
<1>2. /\ UNCHANGED <<opt, series, opener, printed>> /\ pc = "post" /\ GoOn
      /\ TOTAL_ITERS' = TOTAL_ITERS /\ Op(1)' = Op(1)
  BY DEF PostTimings, TOTAL_ITERS, Op
<1> DEFINE p == PostOf(at)
           found == Matches(table, p)
<1>3. table' = IF Cardinality(found) = 1
               THEN Merged(table, CHOOSE k \in found : TRUE, p) ELSE table
  BY DEF PostTimings
<1>4. /\ p.op = Op(at) /\ p.exp = Experiment /\ p.exp # 0 /\ p.idx = Idx(at)
      /\ p.hs = PhasesFromCurl(TimesOf(at)).tls
  BY DEF PostOf, Experiment
<1>5. found = {k \in DOMAIN table : table[k].op = Op(at) /\ table[k].exp = Experiment
                                    /\ table[k].idx = Idx(at)}
  BY <1>4 DEF Matches
<1>6. DOMAIN table = 1..Len(table) /\ \A i \in DOMAIN table : table[i] \in Run
  BY DEF TableOK
<1>7. Samples \subseteq DOMAIN table
  BY DEF Samples
<1> HIDE DEF p, found
<1>8. ASSUME NEW k \in DOMAIN table
      PROVE  LET t == Merged(table, k, p) IN
             /\ DOMAIN t = DOMAIN table /\ \A i \in DOMAIN table \ {k} : t[i] = table[i]
             /\ t[k].op = table[k].op /\ t[k].exp = Experiment
             /\ t[k].idx = IF p.idx > 0 THEN p.idx ELSE table[k].idx
             /\ t[k].hs = IF p.hs > 0 THEN p.hs ELSE table[k].hs
  <2> DEFINE r == WithTimings(table[k], p)
  <2>1. /\ r.op = table[k].op /\ r.exp = Experiment
        /\ r.idx = IF p.idx > 0 THEN p.idx ELSE table[k].idx
        /\ r.hs = IF p.hs > 0 THEN p.hs ELSE table[k].hs
    BY <1>4, <1>6, <1>8 DEF WithTimings, Run
  <2>2. Merged(table, k, p) = [table EXCEPT ![k] = r]
    BY DEF Merged
  <2> HIDE DEF r
  <2> QED
    BY <1>8, <2>1, <2>2
<1>9. SUFFICES ASSUME ~Single(opt)
               PROVE  Sampled'
  BY <1>2 DEF Sampled, SamplesRight, SamplesThere
<1>10. /\ \A i \in Samples : table[i].idx \in 1..TOTAL_ITERS
       /\ \A i, j \in Samples : table[i].idx = table[j].idx => i = j
       /\ \A i \in Samples :
            table[i].hs = IF table[i].idx < at THEN PostedHandshake[table[i].idx] ELSE 0
  BY <1>9 DEF Sampled, SamplesRight
<1>11. CASE printed = <<>>
  <2>1. at \in 1..TOTAL_ITERS
    BY <1>1, <1>2, <1>9, <1>11 DEF Measuring
  <2>2. Op(at) = Op(1) /\ Idx(at) = at
    BY <2>1, Sample
  <2>3. \A k \in 1..TOTAL_ITERS : Recorded(k) <=> opt.reuse \/ k <= at
    BY <1>2, <1>9, <1>11 DEF Sampled, SamplesThere
  <2>4. PICK z \in Samples : table[z].idx = at
    <3>1. at <= at
      BY <1>1
    <3> QED
      BY <2>1, <2>3, <3>1 DEF Recorded
  <2>5. found = {z}
    <3>1. found = {k \in Samples : table[k].idx = at}
      BY <1>5, <2>2 DEF Samples
    <3> QED
      BY <1>10, <2>4, <3>1
  <2>6. table' = Merged(table, z, p)
    <3>1. Cardinality(found) = 1 /\ (CHOOSE k \in found : TRUE) = z
      BY <2>5, FS_Singleton
    <3> QED
      BY <1>3, <3>1
  <2>7. p.hs \in Nat /\ p.hs = PostedHandshake[at]
    <3>1. at \in 1..(TOTAL_ITERS + 1)
      BY <1>1
    <3>2. p \in Post
      BY <3>1, Requests DEF p
    <3> QED
      BY <1>4, <2>1, <3>2 DEF Post, PostedHandshake
  <2>8. /\ DOMAIN table' = DOMAIN table /\ \A i \in Samples \ {z} : table'[i] = table[i]
        /\ \A i \in DOMAIN table : table'[i].op = table[i].op /\ (i \in Samples => table'[i].exp = Experiment)
        /\ \A i \in DOMAIN table \ Samples : table'[i] = table[i]
        /\ table'[z].idx = at /\ table'[z].hs = PostedHandshake[at]
    <3>1. table[z].hs = 0
      BY <1>1, <1>10, <2>4
    <3>2. p.idx = at /\ at > 0 /\ z \in DOMAIN table
      BY <1>1, <1>4, <1>7, <2>2
    <3>3. /\ DOMAIN table' = DOMAIN table /\ \A i \in DOMAIN table \ {z} : table'[i] = table[i]
          /\ table'[z].op = table[z].op /\ table'[z].exp = Experiment
          /\ table'[z].idx = at
          /\ table'[z].hs = IF p.hs > 0 THEN p.hs ELSE table[z].hs
      BY <1>8, <2>6, <3>2
    <3>4. table'[z].hs = PostedHandshake[at]
      BY <2>7, <3>1, <3>3
    <3> QED
      BY <1>7, <3>3, <3>4 DEF Samples
  <2>9. Samples' = Samples
    <3>1. Experiment' = Experiment
      BY DEF Experiment
    <3>2. \A i \in DOMAIN table : table'[i].exp = Experiment /\ table'[i].op = Op(1)
                                    <=> table[i].exp = Experiment /\ table[i].op = Op(1)
      BY <2>8 DEF Samples
    <3> QED
      BY <1>2, <2>8, <3>1, <3>2 DEF Samples
  <2>10. \A i \in Samples : table'[i].idx = table[i].idx
    BY <2>4, <2>8
  <2>11. /\ at' = at + 1
         /\ pc' = IF at = TOTAL_ITERS THEN "print" ELSE IF opt.reuse THEN "post" ELSE "ask"
    <3>1. CASE at = TOTAL_ITERS
      BY <1>1, <1>2, <1>9, <3>1 DEF GoOn
    <3>2. CASE at < TOTAL_ITERS
      BY <1>1, <1>2, <3>2 DEF GoOn
    <3> QED
      BY <1>1, <2>1, <3>1, <3>2
  <2>12. PostedHandshake' = PostedHandshake
    BY <1>2 DEF PostedHandshake, TimesOf
  <2>13. ASSUME NEW i \in Samples
         PROVE  table'[i].hs = IF table'[i].idx < at' THEN PostedHandshake'[table'[i].idx] ELSE 0
    <3>1. CASE i = z
      BY <1>1, <2>8, <2>11, <2>12, <3>1
    <3>2. CASE i # z
      <4>1. table[i].idx # at /\ table[i].idx \in Int
        BY <1>10, <2>4, <3>2
      <4>2. table[i].idx < at + 1 <=> table[i].idx < at
        BY <1>1, <4>1
      <4>3. table'[i] = table[i]
        BY <2>8, <3>2
      <4> QED
        BY <1>10, <2>11, <2>12, <4>2, <4>3
    <3> QED
      BY <3>1, <3>2
  <2>14. SamplesRight'
    BY <1>2, <1>10, <2>9, <2>10, <2>13 DEF SamplesRight
  <2>15. \A k : Recorded(k)' <=> Recorded(k)
    BY <2>9, <2>10 DEF Recorded
  <2>16. SamplesThere'
    <3>1. \A k \in 1..TOTAL_ITERS : k < at + 1 <=> k <= at
      BY <1>1
    <3>2. pc' = "print" => \A k \in 1..TOTAL_ITERS : k <= at
      BY <1>1, <2>11
    <3>3. pc' = "ask" => ~opt.reuse
      BY <2>11
    <3>4. pc' = "post" => opt.reuse
      BY <2>11
    <3>5. pc' \in {"print", "post", "ask"}
      BY <2>11
    <3> QED
      BY <1>2, <1>11, <2>3, <2>11, <2>15, <3>1, <3>2, <3>3, <3>4, <3>5 DEF SamplesThere
  <2> QED
    BY <2>14, <2>16 DEF Sampled
<1>12. CASE printed # <<>>
  <2>1. at = TOTAL_ITERS + 1 /\ ~opt.reuse
    BY <1>2, <1>12 DEF Measuring
  <2>2. pc' = "done" /\ at' = at
    BY <1>1, <1>2, <2>1 DEF GoOn
  <2>3. ~opt.only
    BY <1>1, <1>2, <2>1 DEF OnItsWay
  <2>4. Op(at) # Op(1)
    BY <1>1, <2>1, <2>3 DEF Op
  <2>5. /\ DOMAIN table' = DOMAIN table
        /\ \A i \in DOMAIN table : \/ table'[i] = table[i]
                                   \/ table'[i].op = Op(at) /\ table[i].op = Op(at)
    <3>1. CASE Cardinality(found) = 1
      <4>1. (CHOOSE k \in found : TRUE) \in found
        <5>1. found # {}
          BY <3>1, FS_EmptySet
        <5> QED
          BY <5>1
      <4>2. PICK k \in found : table' = Merged(table, k, p)
        BY <1>3, <3>1, <4>1
      <4>3. k \in DOMAIN table /\ table[k].op = Op(at)
        BY <1>5
      <4>4. /\ DOMAIN table' = DOMAIN table /\ \A i \in DOMAIN table \ {k} : table'[i] = table[i]
            /\ table'[k].op = table[k].op
        BY <1>8, <4>2, <4>3
      <4> QED
        BY <4>3, <4>4
    <3>2. CASE Cardinality(found) # 1
      BY <1>3, <3>2
    <3> QED
      BY <3>1, <3>2
  <2>6. Samples' = Samples /\ \A i \in Samples : table'[i] = table[i]
    <3>1. Experiment' = Experiment
      BY DEF Experiment
    <3> QED
      BY <1>2, <2>4, <2>5, <3>1 DEF Samples
  <2>7. SamplesRight' /\ \A k : Recorded(k)' <=> Recorded(k)
    BY <1>2, <2>2, <2>6, SamplesKept DEF Sampled
  <2>8. SamplesThere'
    BY <1>2, <1>9, <1>12, <2>2, <2>7 DEF Sampled, SamplesThere
  <2> QED
    BY <2>7, <2>8 DEF Sampled
<1> QED
  BY <1>11, <1>12

LEMMA SampledStep ==
  ASSUME ScriptInvariant, Measures, TableOK, Sampled, ScriptNext
  PROVE  Sampled'
<1>1. ASSUME UNCHANGED <<table, opt, series, opener, at>>
      PROVE  /\ SamplesRight' /\ (Samples' = Samples) /\ \A k : Recorded(k)' <=> Recorded(k)
             /\ TOTAL_ITERS' = TOTAL_ITERS
  <2>1. Samples' = Samples
    BY <1>1 DEF Samples, Op, TOTAL_ITERS, Experiment
  <2> QED
    BY <1>1, <2>1, SamplesKept DEF Sampled, TOTAL_ITERS
<1>2. CASE Start
  <2>1. UNCHANGED <<table, opt, series, opener, at, printed>> /\ pc = "start" /\ at = 1
        /\ pc' \in {"refused", "ask"} /\ printed = <<>>
    BY <1>2 DEF Start, ScriptInvariant, OnItsWay, Measures, Measuring
  <2>2. \A k \in 1..TOTAL_ITERS : ~(k < 1)
    BY Options DEF ScriptInvariant
  <2>3. ~Single(opt) => \A k \in 1..TOTAL_ITERS : ~Recorded(k)
    BY <2>1 DEF Sampled, SamplesThere, Recorded
  <2>4. SamplesThere'
    BY <1>1, <2>1, <2>2, <2>3 DEF SamplesThere
  <2> QED
    BY <1>1, <2>1, <2>4 DEF Sampled
<1>3. CASE Ask
  BY <1>3, SampledAsk
<1>4. CASE AskAll
  BY <1>4, SampledAskAll
<1>5. CASE PostTimings
  BY <1>5, SampledPost
<1>6. CASE PrintSummary
  <2>1. UNCHANGED <<table, opt, series, opener, at>> /\ pc = "print" /\ pc' \in {"done", "ask"}
        /\ printed' # <<>>
    BY <1>6 DEF PrintSummary
  <2>2. SamplesThere'
    BY <1>1, <2>1 DEF Sampled, SamplesThere
  <2> QED
    BY <1>1, <2>1, <2>2 DEF Sampled
<1>7. CASE Break
  <2>1. UNCHANGED <<table, opt, series, opener, at, printed>> /\ pc' = "failed"
    BY <1>7 DEF Break
  <2>2. SamplesThere'
    BY <1>1, <2>1 DEF Sampled, SamplesThere
  <2> QED
    BY <1>1, <2>1, <2>2 DEF Sampled
<1> QED
  BY <1>2, <1>3, <1>4, <1>5, <1>6, <1>7 DEF ScriptNext

\* What the dashboard does leaves the script and its runs alone.
LEMMA StudyUnmoved ==
  ASSUME Measures, Sampled, UNCHANGED <<table, script>>
  PROVE  Measures' /\ Sampled'
<1>1. UNCHANGED <<table, opt, series, opener, pc, at, arrays, printed>>
  BY DEF script
<1>2. Measures'
  <2>1. Measuring'
    BY <1>1 DEF Measures, Measuring, TOTAL_ITERS
  <2> QED
    BY <1>1, <2>1, MeasuresKept DEF Measures
<1>3. Samples' = Samples /\ TOTAL_ITERS' = TOTAL_ITERS
  BY <1>1 DEF Samples, Op, TOTAL_ITERS, Experiment
<1>4. SamplesRight' /\ \A k : Recorded(k)' <=> Recorded(k)
  BY <1>1, <1>3, SamplesKept DEF Sampled
<1>5. SamplesThere'
  BY <1>1, <1>3, <1>4 DEF Sampled, SamplesThere
<1> QED
  BY <1>2, <1>4, <1>5 DEF Sampled

-----------------------------------------------------------------------------
(***************************************************************************)
(* The two invariants in every state, and what the script prints.          *)
(***************************************************************************)
LEMMA MeasuresInit ==
  ASSUME Init, ScriptInvariant
  PROVE  Measures /\ Sampled
<1>1. /\ pc = "start" /\ at = 1 /\ printed = <<>>
      /\ TLS_HS_SAMPLES = <<>> /\ TCP_SAMPLES = <<>> /\ TOTAL_SAMPLES = <<>>
  BY DEF Init, ScriptInit
<1>2. TOTAL_ITERS \in Nat /\ Warmup(opt) \in Nat
  BY Options DEF ScriptInvariant
<1>3. Measuring
  BY <1>1 DEF Measuring
<1>4. \A m : Holds(<<>>, m, 1)
  <2>1. Len(<<>>) = 1 - 1 /\ DOMAIN <<>> = {}
    OBVIOUS
  <2>2. (\A k \in 1..TOTAL_ITERS : ~(k < 1)) /\ \A k \in 1..Warmup(opt) : ~(k < 1)
    BY <1>2
  <2> QED
    BY <2>1, <2>2 DEF Holds
<1>5. ArraysHold /\ SummariesHold
  BY <1>1, <1>4 DEF ArraysHold, SummariesHold
<1>6. Samples = {}
  <2>1. PICK n \in 0..MaxEarlier : table = Earlier(n)
    BY DEF Init
  <2>2. \A i \in DOMAIN table : table[i].exp = 0
    BY <2>1 DEF Earlier, Stamp
  <2> QED
    BY <2>2 DEF Samples, Experiment
<1>7. Sampled
  BY <1>1, <1>6 DEF Sampled, SamplesRight, SamplesThere
<1> QED
  BY <1>3, <1>5, <1>7 DEF Measures

LEMMA MeasuresAlways == Spec => [](StudyInvariant /\ Measures /\ Sampled)
<1>1. Init => StudyInvariant /\ Measures /\ Sampled
  BY StudyInit, MeasuresInit DEF StudyInvariant
<1>2. StudyInvariant /\ Measures /\ Sampled /\ [Next]_vars => (Measures /\ Sampled)'
  <2> SUFFICES ASSUME StudyInvariant, Measures, Sampled, [Next]_vars
               PROVE  Measures' /\ Sampled'
    OBVIOUS
  <2>1. CASE ScriptNext /\ UNCHANGED page
    BY <2>1, MeasuresStep, SampledStep DEF StudyInvariant
  <2>2. CASE DashNext /\ UNCHANGED script
    BY <2>2, DashStep, StudyUnmoved DEF StudyInvariant
  <2>3. CASE UNCHANGED vars
    BY <2>3, StudyUnmoved DEF vars
  <2> QED
    BY <2>1, <2>2, <2>3 DEF Next
<1> QED
  BY <1>1, <1>2, StudyStep, PTL DEF Spec

\* The hypothesis about the reports, for the run that is under way.
LEMMA TheWarmupCounts ==
  ASSUME WarmupsCount, ScriptInvariant, pc \notin {"start", "refused"}, NEW m \in Metrics
  PROVE  WarmupCounts(m)
<1> USE DEF ScriptInvariant
<1>1. /\ [opt |-> opt, series |-> series] \in Setups
      /\ TOTAL_ITERS = Warmup(opt) + Repeat(opt)
      /\ opt.only \in BOOLEAN /\ opt.reuse \in BOOLEAN
  BY Options DEF ScriptTypeOK, TOTAL_ITERS, CommandLine
<1>2. CASE opt.reuse
  <2>1. opt.only
    BY <1>1, <1>2 DEF OnItsWay, Refused
  <2>2. Warmup(opt) = 0
    BY <1>2, <2>1 DEF Warmup
  <2> QED
    BY <2>2 DEF WarmupCounts
<1>3. CASE ~opt.reuse
  <2>1. \A k : Value(k, m) = curl_phases_ms(Curl[series][k])[m]
    BY <1>3 DEF Value, TimesOf
  <2>2. \/ \A k \in 1..Warmup(opt) : curl_phases_ms(Curl[series][k])[m] > 0
        \/ \A k \in 1..(Warmup(opt) + Repeat(opt)) : curl_phases_ms(Curl[series][k])[m] = 0
    BY <1>1 DEF WarmupsCount, Metrics
  <2> QED
    BY <1>1, <2>1, <2>2 DEF WarmupCounts
<1> QED
  BY <1>2, <1>3

\* The summaries that vm-bench.sh prints are those of the samples after the warmup, by a
\* definition of percentiles that sorts nothing, and what the server's Summarize gives of
\* them: for every command line, every series of reports and every order of the streams,
\* if all warmup samples have a value or no sample has.
THEOREM SummariesOfTheStudy ==
  ASSUME WarmupsCount
  PROVE  Spec => []SummaryIsStudy
<1>1. StudyInvariant /\ Measures /\ Sampled => SummaryIsStudy
  <2> SUFFICES ASSUME StudyInvariant, Measures, printed # <<>>
               PROVE  \A m \in {<<1, "tls">>, <<2, "tcp">>, <<3, "total">>} :
                        /\ IsSummary(printed[m[1]], StudyValues(m[2]))
                        /\ printed[m[1]] = Summarize(StudyValues(m[2]))
    BY DEF SummaryIsStudy
  <2>1. ScriptInvariant /\ ScriptTypeOK /\ pc \notin {"start", "refused"}
    BY DEF StudyInvariant, ScriptInvariant, Measures, Measuring
  <2>2. "tls" \in Metrics /\ "tcp" \in Metrics /\ "total" \in Metrics
    BY DEF Metrics
  <2>3. WarmupCounts("tls") /\ WarmupCounts("tcp") /\ WarmupCounts("total")
    BY <2>1, <2>2, TheWarmupCounts
  <2>4. /\ printed[1] = Summarize(StudyValues("tls")) /\ printed[2] = Summarize(StudyValues("tcp"))
        /\ printed[3] = Summarize(StudyValues("total"))
    BY <2>3 DEF Measures, SummariesHold
  <2>5. \A m \in Metrics : IsSummary(Summarize(StudyValues(m)), StudyValues(m))
    BY <2>1, StudySamples, SummaryRight
  <2> QED
    BY <2>2, <2>4, <2>5
<1> QED
  BY <1>1, MeasuresAlways, PTL

\* A --reuse run of several streams that prints a summary has measured one handshake and
\* one connect: however many connections curl opened, over HTTP/2 or not, those of the
\* stream that opened the only one.
THEOREM ReuseMeasuresOne ==
  ASSUME ConnectsTakeTime
  PROVE  Spec => []ReusePrintsOneHandshake
<1>1. StudyInvariant /\ Measures /\ Sampled => ReusePrintsOneHandshake
  <2> SUFFICES ASSUME StudyInvariant, Measures, opt.reuse, Repeat(opt) > 1, printed # <<>>
               PROVE  printed[1].count = 1 /\ printed[2].count = 1
    BY DEF ReusePrintsOneHandshake
  <2>1. /\ ScriptInvariant /\ ScriptTypeOK /\ pc = "done" /\ Cardinality(opener) = 1
        /\ \A k \in opener : Curl[series][k].appconnect > 0
    BY DEF StudyInvariant, ScriptInvariant, Measures, Measuring
  <2>2. "tls" \in Metrics /\ "tcp" \in Metrics
    BY DEF Metrics
  <2>3. Warmup(opt) = 0 /\ Repeat(opt) \in Nat /\ TOTAL_ITERS = Repeat(opt)
    <3>1. opt.only \in BOOLEAN /\ Repeat(opt) \in Nat
      BY <2>1, Options DEF CommandLine
    <3>2. opt.only
      BY <2>1, <3>1 DEF ScriptInvariant, OnItsWay, Refused
    <3>3. Warmup(opt) = 0
      BY <3>2 DEF Warmup
    <3> QED
      BY <3>1, <3>3 DEF TOTAL_ITERS
  <2>4. PICK k \in 1..Repeat(opt) : opener = {k}
    <3>1. opener \subseteq 1..Repeat(opt)
      BY <2>1 DEF ScriptTypeOK
    <3>2. IsFiniteSet(opener)
      <4>1. IsFiniteSet(1..Repeat(opt))
        BY <2>3, FS_Interval
      <4> QED
        BY <3>1, <4>1, FS_Subset
    <3>3. \E k : opener = {k}
      BY <2>1, <3>2, FS_Singleton
    <3> QED
      BY <3>1, <3>3
  <2>5. ASSUME NEW m \in {"tls", "tcp"}
        PROVE  Summarize(StudyValues(m)).count = 1
    <3> DEFINE u == StudyValues(m)
    <3>1. /\ u \in Seq(Nat) /\ DOMAIN u = 1..Repeat(opt)
          /\ \A i \in 1..Repeat(opt) : u[i] = Value(i, m)
      <4>1. m \in Metrics
        BY <2>2
      <4>2. \A i \in 1..Repeat(opt) : Warmup(opt) + i = i
        BY <2>3
      <4> QED
        BY <2>1, <2>3, <4>1, <4>2, StudySamples
    <3>2. \A i \in 1..Repeat(opt) : Value(i, m) > 0 <=> i = k
      <4> SUFFICES ASSUME NEW i \in 1..Repeat(opt)
                   PROVE  Value(i, m) > 0 <=> i = k
        OBVIOUS
      <4> DEFINE t == Curl[series][i]
      <4>1. i \in DOMAIN Curl[series] /\ series \in DOMAIN Curl
            /\ [opt |-> opt, series |-> series] \in Setups
        BY <2>1, <2>3, Options DEF ScriptTypeOK
      <4>2. t \in CurlTimes /\ t.lookup < t.connect /\ (t.appconnect > 0 => t.connect < t.appconnect)
        BY <4>1, VMBenchAssumption DEF ConnectsTakeTime
      <4>3. CASE i = k
        <5>1. TimesOf(i) = t /\ t.appconnect > 0
          BY <2>1, <2>4, <4>3 DEF TimesOf
        <5> HIDE DEF t
        <5>2. curl_phases_ms(t).tls > 0 /\ curl_phases_ms(t).tcp > 0
          BY <4>2, <5>1 DEF CurlTimes, curl_phases_ms
        <5> QED
          BY <4>3, <5>1, <5>2 DEF Value
      <4>4. CASE i # k
        <5>1. TimesOf(i) = [t EXCEPT !.connect = t.lookup, !.appconnect = 0]
          BY <2>4, <4>4 DEF TimesOf
        <5> HIDE DEF t
        <5>2. /\ TimesOf(i).appconnect = 0 /\ TimesOf(i).connect = t.lookup
              /\ TimesOf(i).lookup = t.lookup /\ t.lookup \in Nat
          BY <4>2, <5>1 DEF CurlTimes
        <5>3. curl_phases_ms(TimesOf(i)).tls = 0 /\ curl_phases_ms(TimesOf(i)).tcp = 0
          BY <5>2 DEF curl_phases_ms
        <5> QED
          BY <4>4, <5>3 DEF Value
      <4> QED
        BY <4>3, <4>4
    <3>3. Positive(u) = {k}
      BY <3>1, <3>2 DEF Positive
    <3> HIDE DEF u
    <3>4. Cardinality(Positive(u)) = 1
      BY <3>3, FS_Singleton
    <3>5. IsSummary(Summarize(u), u)
      BY <3>1, SummaryRight
    <3> QED
      BY <3>4, <3>5 DEF IsSummary, u
  <2>6. WarmupCounts("tls") /\ WarmupCounts("tcp")
    BY <2>3 DEF WarmupCounts
  <2>7. printed[1] = Summarize(StudyValues("tls")) /\ printed[2] = Summarize(StudyValues("tcp"))
    BY <2>6 DEF Measures, SummariesHold
  <2> QED
    BY <2>5, <2>7
<1> QED
  BY <1>1, MeasuresAlways, PTL

-----------------------------------------------------------------------------
(***************************************************************************)
(* What the dashboard shows of a study.                                    *)
(***************************************************************************)
\* The page of a study that is shown has all the runs, and the summary row those of the
\* study, each sample once.
Row(k) == Len(table) + 1 - k

Rows == {i \in Filtered : experimentKey(view.page.runs[i]) = StudyKey}

LEMMA ShownRows ==
  ASSUME StudyInvariant, Measures, Sampled, StudyShown
  PROVE  /\ Rows \in SUBSET (1..Len(table))
         /\ \A i \in Rows : view.page.runs[i] = table[Row(i)] /\ Row(i) \in Samples
         /\ \A j \in Samples : Row(j) \in Rows /\ Row(Row(j)) = j
<1> DEFINE n == Len(table)
           rows == view.page.runs
<1>1. ScriptInvariant /\ TableOK /\ DashInvariant /\ ScriptTypeOK
  BY DEF StudyInvariant, ScriptInvariant
<1>2. /\ view.page = Page(table) /\ ~view.page.truncated /\ StudyKey \in SummaryRows
  BY DEF StudyShown, Newest
<1>3. n \in Nat /\ DOMAIN table = 1..n
  BY <1>1 DEF TableOK
<1>4. Len(rows) = n /\ DOMAIN rows = 1..n /\ \A i \in 1..n : rows[i] = table[Row(i)]
  <2>1. /\ First(table) \in 1..(n + 1) /\ Page(table).runs \in Seq(Run)
        /\ Len(Page(table).runs) = n - First(table) + 1
        /\ \A i \in 1..(n - First(table) + 1) : Page(table).runs[i] = table[n - i + 1]
        /\ Page(table).truncated = (n > Len(Page(table).runs))
    BY <1>1, PageRuns DEF TableOK
  <2> HIDE DEF n
  <2>2. ~(n > Len(rows)) /\ Len(rows) = n - First(table) + 1
    BY <1>2, <2>1
  <2>3. First(table) = 1
    BY <1>3, <2>1, <2>2
  <2>4. n - First(table) + 1 = n
    BY <1>3, <2>3
  <2>5. \A i \in 1..n : n - i + 1 = n + 1 - i
    BY <1>3
  <2>6. rows \in Seq(Run) /\ Len(rows) = n /\ \A i \in 1..n : rows[i] = table[n - i + 1]
    BY <1>2, <2>1, <2>4
  <2>7. \A i \in 1..n : Row(i) = n - i + 1
    BY <2>5 DEF Row, n
  <2> QED
    BY <2>6, <2>7
<1>5. StudyKey = <<Experiment, Op(1)>> /\ Experiment # 0
  BY DEF StudyKey, experimentKey, DraftOf, Experiment
<1>6. \A r : experimentKey(r) = StudyKey <=> r.exp = Experiment /\ r.op = Op(1)
  BY <1>5 DEF experimentKey, Experiment
<1>7. view.controls.op \in {"", Op(1)}
  <2>1. PICK i \in Filtered : experimentKey(rows[i]) = StudyKey
    <3>1. StudyKey \in {experimentKey(rows[i]) : i \in Filtered}
      BY <1>2 DEF SummaryRows
    <3> QED
      BY <3>1
  <2>2. rows[i].op = Op(1) /\ view.controls.op \in {"", rows[i].op}
    BY <1>6, <2>1 DEF Filtered
  <2> QED
    BY <2>2
<1>8. \A i : i \in Rows <=> i \in 1..n /\ Row(i) \in Samples
  <2>1. \A i : i \in Rows <=> i \in 1..n /\ rows[i].exp = Experiment /\ rows[i].op = Op(1)
    BY <1>4, <1>6, <1>7 DEF Rows, Filtered
  <2>2. \A i \in 1..n : Row(i) \in 1..n
    BY <1>3 DEF Row
  <2>3. \A i \in 1..n : Row(i) \in Samples <=> rows[i].exp = Experiment /\ rows[i].op = Op(1)
    BY <1>3, <1>4, <2>2 DEF Samples
  <2> QED
    BY <2>1, <2>3
<1>9. \A j \in Samples : Row(j) \in 1..n /\ Row(Row(j)) = j
  <2>1. \A j \in 1..n : Row(j) \in 1..n /\ Row(Row(j)) = j
    BY <1>3 DEF Row
  <2>2. Samples \subseteq 1..n
    BY <1>3 DEF Samples
  <2> QED
    BY <2>1, <2>2
<1>10. Rows \in SUBSET (1..n)
  BY <1>8
<1>11. \A i \in Rows : rows[i] = table[Row(i)] /\ Row(i) \in Samples
  BY <1>4, <1>8
<1>12. \A j \in Samples : Row(j) \in Rows
  BY <1>8, <1>9
<1> QED
  BY <1>9, <1>10, <1>11, <1>12

\* The row lists the samples from the last to the first, with what was posted of them.
LEMMA ShownSamples ==
  ASSUME StudyInvariant, Measures, Sampled, StudyShown
  PROVE  LET samples == Group(StudyKey) IN
         /\ DOMAIN samples = 1..TOTAL_ITERS /\ Len(samples) = TOTAL_ITERS
         /\ samples \in Seq(Run)
         /\ \A k \in 1..TOTAL_ITERS : /\ samples[k].idx = TOTAL_ITERS - k + 1
                                      /\ samples[k].hs = PostedHandshake[TOTAL_ITERS - k + 1]
<1> DEFINE T == TOTAL_ITERS
           rows == view.page.runs
           ix == [i \in Rows |-> rows[i].idx]
           key == [i \in Rows |-> -rows[i].idx]
           order == Ordered(Rows, key)
           samples == Group(StudyKey)
<1>1. ScriptInvariant /\ TableOK /\ DashInvariant /\ ScriptTypeOK /\ T \in Nat \ {0}
  BY Options DEF StudyInvariant, ScriptInvariant
<1>2. printed # <<>> /\ at = T + 1 /\ ~Single(opt)
  BY DEF StudyShown, Measures, Measuring
<1>3. /\ Rows \in SUBSET (1..Len(table)) /\ Len(table) \in Nat
      /\ \A i \in Rows : rows[i] = table[Row(i)] /\ Row(i) \in Samples
      /\ \A j \in Samples : Row(j) \in Rows /\ Row(Row(j)) = j
  BY <1>1, ShownRows DEF TableOK
<1>4. Rows \in SUBSET Int /\ IsFiniteSet(Rows)
  <2>1. IsFiniteSet(1..Len(table)) /\ 1..Len(table) \in SUBSET Int
    BY <1>3, FS_Interval
  <2> QED
    BY <1>3, <2>1, FS_Subset
<1>5. /\ \A j \in Samples : table[j].idx \in 1..T /\ table[j].hs = PostedHandshake[table[j].idx]
      /\ \A i, j \in Samples : table[i].idx = table[j].idx => i = j
      /\ \A k \in 1..T : \E j \in Samples : table[j].idx = k
  <2>1. /\ \A j \in Samples : table[j].idx \in 1..T
        /\ \A i, j \in Samples : table[i].idx = table[j].idx => i = j
        /\ \A j \in Samples :
             table[j].hs = IF table[j].idx < at THEN PostedHandshake[table[j].idx] ELSE 0
    BY <1>2 DEF Sampled, SamplesRight
  <2>2. \A k \in 1..T : k < at
    BY <1>1, <1>2
  <2>3. \A k \in 1..T : Recorded(k)
    BY <1>2 DEF Sampled, SamplesThere
  <2> QED
    BY <2>1, <2>2, <2>3 DEF Recorded
<1>6. \A i \in Rows : rows[i] \in Run /\ rows[i].idx \in 1..T /\ rows[i].hs = PostedHandshake[rows[i].idx]
  <2>1. \A j \in Samples : table[j] \in Run
    BY <1>1 DEF TableOK, Samples
  <2> QED
    BY <1>3, <1>5, <2>1
<1> HIDE DEF T, rows
<1>7. ix \in Bijection(Rows, 1..T)
  <2>1. ix \in [Rows -> 1..T]
    BY <1>6
  <2>2. ASSUME NEW i \in Rows, NEW j \in Rows, ix[i] = ix[j]
        PROVE  i = j
    <3>1. table[Row(i)].idx = table[Row(j)].idx
      BY <1>3, <2>2
    <3>2. Row(i) = Row(j)
      BY <1>3, <1>5, <3>1
    <3> QED
      BY <1>3, <3>2 DEF Row
  <2>3. ASSUME NEW k \in 1..T
        PROVE  \E i \in Rows : ix[i] = k
    <3>1. PICK j \in Samples : table[j].idx = k
      BY <1>5
    <3>2. Row(j) \in Rows /\ rows[Row(j)] = table[j]
      BY <1>3
    <3> QED
      BY <3>1, <3>2
  <2> HIDE DEF ix
  <2> QED
    BY <2>1, <2>2, <2>3 DEF Bijection, Injection, Surjection, IsInjective
<1>8. /\ \A i \in Rows : ix[i] = rows[i].idx /\ key[i] = -ix[i] /\ ix[i] \in 1..T
      /\ \A i, j \in Rows : ix[i] = ix[j] => i = j
  BY <1>6, <1>7 DEF Bijection, Injection, IsInjective
<1> HIDE DEF ix, key
<1>9. Cardinality(Rows) = T
  <2>1. IsFiniteSet(1..T) /\ Cardinality(1..T) = T
    BY <1>1, FS_Interval DEF T
  <2>2. ExistsBijection(Rows, 1..T)
    BY <1>7 DEF ExistsBijection
  <2>3. Cardinality(Rows) = Cardinality(1..T)
    BY <1>4, <2>2, FS_Bijection
  <2> QED
    BY <2>1, <2>3
<1>10. \A i \in Rows : Rank(Rows, key, i) = T - ix[i]
  <2> SUFFICES ASSUME NEW i \in Rows
               PROVE  Rank(Rows, key, i) = T - ix[i]
    OBVIOUS
  <2> DEFINE A == {j \in Rows : Precedes(key, j, i)}
             B == (ix[i] + 1)..T
  <2>1. \A j \in Rows : Precedes(key, j, i) <=> ix[j] \in B
    <3> SUFFICES ASSUME NEW j \in Rows
                 PROVE  Precedes(key, j, i) <=> ix[j] \in B
      OBVIOUS
    <3>1. key[i] = -ix[i] /\ key[j] = -ix[j] /\ ix[i] \in 1..T /\ ix[j] \in 1..T /\ T \in Nat
      BY <1>1, <1>8 DEF T
    <3>2. key[j] < key[i] <=> ix[j] \in B
      BY <3>1
    <3>3. ~(key[j] = key[i] /\ j < i)
      <4>1. key[j] = key[i] => ix[j] = ix[i]
        BY <3>1
      <4>2. ~(i < i)
        BY <1>4
      <4> QED
        BY <1>8, <4>1, <4>2
    <3> QED
      BY <3>2, <3>3 DEF Precedes
  <2>2. A \in SUBSET Rows /\ B \in SUBSET (1..T) /\ \A j \in Rows : j \in A <=> ix[j] \in B
    <3>1. ix[i] \in 1..T /\ T \in Nat
      BY <1>1, <1>8 DEF T
    <3>2. B \in SUBSET (1..T)
      BY <3>1
    <3> QED
      BY <2>1, <3>2
  <2>3. IsFiniteSet(B) /\ Cardinality(B) = T - ix[i]
    <3>1. ix[i] + 1 \in Int /\ T \in Int /\ ix[i] <= T
      BY <1>1, <1>8 DEF T
    <3>2. /\ IsFiniteSet(B)
          /\ Cardinality(B) = IF ix[i] + 1 > T THEN 0 ELSE T - (ix[i] + 1) + 1
      BY <3>1, FS_Interval
    <3>3. ix[i] \in Int
      BY <1>8
    <3> HIDE DEF B
    <3> QED
      BY <3>1, <3>2, <3>3
  <2>4. Rank(Rows, key, i) = Cardinality(A)
    BY DEF Rank
  <2> HIDE DEF A, B
  <2>5. IsFiniteSet(A)
    BY <1>4, <2>2, FS_Subset
  <2>6. Cardinality(A) = Cardinality(B)
    <3> DEFINE places == 1..T
    <3>1. A \in SUBSET Rows /\ B \in SUBSET places /\ ix \in Bijection(Rows, places)
      BY <1>7, <2>2
    <3>2. \A j \in Rows : j \in A <=> ix[j] \in B
      BY <2>2
    <3> HIDE DEF places
    <3> QED
      BY <2>5, <3>1, <3>2, SameSize
  <2> QED
    BY <2>3, <2>4, <2>6
<1>11. /\ order \in [1..T -> Rows]
       /\ \A k \in 1..T : Rank(Rows, key, order[k]) = k - 1
  <2>1. \A i \in Rows : key[i] \in Int
    BY <1>8
  <2> QED
    BY <1>4, <1>9, <2>1, OrderedByRank
<1>12. samples = [k \in 1..T |-> rows[order[k]]]
  <2>1. Group(StudyKey) = [k \in DOMAIN order |-> rows[order[k]]]
    BY DEF Group, Rows, rows, key
  <2>2. DOMAIN order = 1..T
    BY <1>11
  <2> QED
    BY <2>1, <2>2
<1> HIDE DEF order, samples
<1>13. ASSUME NEW k \in 1..T
       PROVE  /\ samples[k] \in Run /\ samples[k].idx = T - k + 1
              /\ samples[k].hs = PostedHandshake[T - k + 1]
  <2>1. order[k] \in Rows /\ samples[k] = rows[order[k]]
    BY <1>11, <1>12
  <2>2. T - ix[order[k]] = k - 1 /\ ix[order[k]] \in 1..T
    BY <1>8, <1>10, <1>11, <2>1
  <2>3. ix[order[k]] = T - k + 1
    BY <1>1, <2>2 DEF T
  <2>4. rows[order[k]].idx = T - k + 1
    BY <1>8, <2>1, <2>3
  <2> QED
    BY <1>6, <2>1, <2>4
<1>14. samples \in Seq(Run) /\ Len(samples) = T /\ DOMAIN samples = 1..T
  <2>1. T \in Nat
    BY <1>1 DEF T
  <2>2. samples \in [1..T -> Run]
    BY <1>12, <1>13
  <2> QED
    BY <2>1, <2>2, SeqDef
<1> QED
  BY <1>13, <1>14 DEF samples, T

\* When the page shows a study that has ended, its row has the samples of the study, each
\* once and the last one first, and the handshake percentiles of all of them, the warmup
\* included; without a warmup they are the ones the script printed: whatever the order in
\* which the handlers recorded them, whatever the dashboard did meanwhile, and for every
\* page limit that the runs do not exceed.
THEOREM RowOfStudy == Spec => []RowIsStudy
<1>1. StudyInvariant /\ Measures /\ Sampled => RowIsStudy
  <2> DEFINE samples == Group(StudyKey)
             T == TOTAL_ITERS
             u == PostedHandshake
             x == [i \in DOMAIN samples |-> samples[i].hs]
             f == [i \in Positive(x) |-> T + 1 - i]
  <2> SUFFICES ASSUME StudyInvariant, Measures, Sampled, StudyShown
               PROVE  /\ [i \in DOMAIN samples |-> samples[i].idx] = Reverse([i \in 1..T |-> i])
                      /\ HandshakeCell(samples) = Cell(Summarize(u))
                      /\ Warmup(opt) = 0 => HandshakeCell(samples) = Cell(printed[1])
    BY DEF RowIsStudy, PostedHandshake
  <2>1. ScriptInvariant /\ ScriptTypeOK /\ printed # <<>>
    BY DEF StudyInvariant, ScriptInvariant, StudyShown
  <2>2. /\ Repeat(opt) \in Nat \ {0} /\ Warmup(opt) \in Nat
        /\ T = Warmup(opt) + Repeat(opt) /\ T \in Nat
    BY <2>1, Options DEF TOTAL_ITERS
  <2>3. /\ DOMAIN samples = 1..T /\ samples \in Seq(Run)
        /\ \A k \in 1..T : samples[k].idx = T - k + 1 /\ samples[k].hs = u[T - k + 1]
    BY ShownSamples
  <2>4. u \in Seq(Nat) /\ DOMAIN u = 1..T /\ \A i \in 1..T : u[i] \in Nat
    <3>1. \A k \in 1..T : k \in 1..(T + 1)
      BY <2>2
    <3>2. \A k \in 1..T : PhasesFromCurl(TimesOf(k))["tls"] \in Nat
      BY <2>1, <3>1, Readings DEF Metrics
    <3>3. u \in [1..T -> Nat]
      BY <3>2 DEF PostedHandshake
    <3> HIDE DEF u, T
    <3> QED
      BY <2>2, <3>3, SeqDef
  <2>5. Warmup(opt) = 0 => u = StudyValues("tls")
    <3> SUFFICES ASSUME Warmup(opt) = 0
                 PROVE  u = StudyValues("tls")
      OBVIOUS
    <3>1. T = Repeat(opt) /\ \A i \in 1..T : Warmup(opt) + i = i
      BY <2>2
    <3> HIDE DEF T
    <3>2. StudyValues("tls") = [i \in 1..T |-> PhasesFromCurl(TimesOf(Warmup(opt) + i)).tls]
      BY <3>1 DEF StudyValues
    <3>3. u = [i \in 1..T |-> PhasesFromCurl(TimesOf(i)).tls]
      BY DEF PostedHandshake, T
    <3> HIDE DEF u
    <3> QED
      BY <3>1, <3>2, <3>3
  <2>6. Warmup(opt) = 0 => printed[1] = Summarize(StudyValues("tls"))
    <3>1. Warmup(opt) = 0 => WarmupCounts("tls")
      BY DEF WarmupCounts
    <3> QED
      BY <2>1, <3>1 DEF Measures, SummariesHold
  <2> HIDE DEF samples, T, u
  <2>7. [i \in DOMAIN samples |-> samples[i].idx] = Reverse([i \in 1..T |-> i])
    <3> DEFINE up == [i \in 1..T |-> i]
    <3>1. Len(up) = T /\ \A k \in 1..T : up[k] = k
      <4>1. up \in [1..T -> Nat]
        BY <2>2
      <4> QED
        BY <2>2, <4>1, SeqDef
    <3> HIDE DEF up
    <3>2. Reverse(up) = [k \in 1..T |-> up[T - k + 1]]
      BY <3>1 DEF Reverse
    <3>3. \A k \in 1..T : T - k + 1 \in 1..T
      BY <2>2
    <3>4. Reverse(up) = [k \in 1..T |-> T - k + 1]
      BY <3>1, <3>2, <3>3
    <3> QED
      BY <2>3, <3>4 DEF up
  <2>8. /\ DOMAIN x = 1..T
        /\ \A i \in 1..T : T + 1 - i \in 1..T /\ x[i] = u[T + 1 - i]
    <3> SUFFICES ASSUME NEW i \in 1..T
                 PROVE  T + 1 - i \in 1..T /\ samples[i].hs = u[T + 1 - i]
      BY <2>3
    <3>1. T + 1 - i \in 1..T /\ T + 1 - i = T - i + 1
      BY <2>2
    <3> QED
      BY <2>3, <3>1
  <2>9. x \in Seq(Nat)
    <3>1. x = [i \in 1..T |-> x[i]]
      BY <2>3
    <3> HIDE DEF x
    <3>2. x \in [1..T -> Nat]
      BY <2>4, <2>8, <3>1
    <3> QED
      BY <2>2, <3>2, SeqDef
  <2> HIDE DEF x
  <2>10. f \in Bijection(Positive(x), Positive(u)) /\ \A i \in Positive(x) : u[f[i]] = x[i]
    <3>1. \A i : i \in Positive(x) <=> i \in 1..T /\ u[T + 1 - i] > 0
      BY <2>8 DEF Positive
    <3>2. \A i : i \in Positive(u) <=> i \in 1..T /\ u[i] > 0
      BY <2>4 DEF Positive
    <3>3. \A i \in Positive(x) : f[i] = T + 1 - i /\ T + 1 - i \in Positive(u)
      BY <2>8, <3>1, <3>2
    <3>4. f \in [Positive(x) -> Positive(u)]
      BY <3>3
    <3> HIDE DEF f
    <3>5. \A i, j \in Positive(x) : f[i] = f[j] => i = j
      BY <2>2, <3>1, <3>3
    <3>6. ASSUME NEW j \in Positive(u)
          PROVE  \E i \in Positive(x) : f[i] = j
      <4>1. T + 1 - j \in 1..T /\ T + 1 - (T + 1 - j) = j
        BY <2>2, <3>2
      <4>2. T + 1 - j \in Positive(x)
        BY <3>1, <3>2, <4>1
      <4> QED
        BY <3>3, <4>1, <4>2
    <3>7. \A i \in Positive(x) : u[f[i]] = x[i]
      BY <2>8, <3>1, <3>3
    <3> QED
      BY <3>4, <3>5, <3>6, <3>7 DEF Bijection, Injection, Surjection, IsInjective
  <2> HIDE DEF f
  <2>11. Summarize(x) = Summarize(u)
    <3>1. positive(x) = positive(u)
      BY <2>4, <2>9, <2>10, SameSamples
    <3> QED
      BY <3>1 DEF Summarize
  <2>12. HandshakeCell(samples) = Cell(Summarize(u))
    <3>1. HandshakeCell(samples) = summarize(x)
      BY DEF HandshakeCell, x
    <3>2. summarize(x) = [count |-> Summarize(x).count, p50 |-> Summarize(x).p50,
                          p99 |-> Summarize(x).p99]
      BY <2>9, SummaryRight
    <3> QED
      BY <2>11, <3>1, <3>2 DEF Cell
  <2> QED
    BY <2>5, <2>6, <2>7, <2>12 DEF samples, u, T
<1> QED
  BY <1>1, MeasuresAlways, PTL
=============================================================================
