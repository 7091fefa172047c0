--------------------------- MODULE ResultsLogProofs ---------------------------
(***************************************************************************)
(* Proofs about ResultsLog for every number of goroutines, runs, posts and *)
(* crashes: its type invariant with the lock discipline; that a run whose  *)
(* Append returned nil is lost only behind an unterminated line; that no   *)
(* run appears twice and a page is complete or says that it is not; and    *)
(* that the log implements the table of runs (RunTable), whose readers     *)
(* know of no file, mutex or restart.                                      *)
(***************************************************************************)
EXTENDS ResultsLog, TLAPS

(***************************************************************************)
(* Facts about the data of the model.                                      *)
(***************************************************************************)
\* A stamped draft is a run.
LEMMA StampType == \A d \in Drafts, i \in Nat : Stamp(d, i) \in Run
  BY DraftsAssumption DEF Stamp, Draft, Run

\* Attaching timings to a run gives a run with the same id.
LEMMA WithTimingsType ==
  ASSUME NEW r \in Run, NEW p \in Post
  PROVE  WithTimings(r, p) \in Run /\ WithTimings(r, p).id = r.id
  BY DEF WithTimings, Run, Post

\* A merge changes one run of the sequence and no id.
LEMMA MergedType ==
  ASSUME NEW s \in Seq(Run), NEW k \in DOMAIN s, NEW p \in Post
  PROVE  Merged(s, k, p) \in Seq(Run) /\ Ids(Merged(s, k, p)) = Ids(s)
<1>1. s[k] \in Run
  OBVIOUS
<1>2. WithTimings(s[k], p) \in Run /\ WithTimings(s[k], p).id = s[k].id
  BY <1>1, WithTimingsType
<1>3. Merged(s, k, p) = [s EXCEPT ![k] = WithTimings(s[k], p)]
  BY DEF Merged
<1>4. Merged(s, k, p) \in Seq(Run) /\ DOMAIN Merged(s, k, p) = DOMAIN s
  BY <1>2, <1>3
<1>5. \A j \in DOMAIN s : Merged(s, k, p)[j].id = s[j].id
  BY <1>2, <1>3
<1> QED
  BY <1>4, <1>5 DEF Ids

\* The runs kept are the runs there were, but for a last one without its newline.
LEMMA KeptType ==
  ASSUME NEW c \in Content
  PROVE  /\ Kept(c) \in Seq(Run)
         /\ Ids(Kept(c)) \subseteq Ids(c.rows)
         /\ c.tail # "whole" => Kept(c) = c.rows
         /\ c.tail = "whole" /\ c.rows # <<>> =>
              Ids(c.rows) \subseteq Ids(Kept(c)) \cup {c.rows[Len(c.rows)].id}
<1>1. c.rows \in Seq(Run)
  BY DEF Content
<1>2. CASE c.tail # "whole"
  BY <1>1, <1>2 DEF Kept
<1>3. CASE c.tail = "whole"
  <2>1. Kept(c) = SubSeq(c.rows, 1, Len(c.rows) - 1)
    BY <1>3 DEF Kept
  <2>2. Kept(c) \in Seq(Run) /\ DOMAIN Kept(c) = 1..(Len(c.rows) - 1)
    BY <1>1, <2>1
  <2>3. \A j \in 1..(Len(c.rows) - 1) : Kept(c)[j] = c.rows[j]
    BY <1>1, <2>1
  <2>4. Ids(Kept(c)) \subseteq Ids(c.rows)
    BY <1>1, <2>2, <2>3 DEF Ids
  <2>5. ASSUME c.rows # <<>>
        PROVE  Ids(c.rows) \subseteq Ids(Kept(c)) \cup {c.rows[Len(c.rows)].id}
    <3>1. Len(c.rows) \in Nat /\ DOMAIN c.rows = 1..Len(c.rows)
      BY <1>1
    <3>2. DOMAIN c.rows = (DOMAIN Kept(c)) \cup {Len(c.rows)}
      <4>1. Len(c.rows) > 0
        BY <1>1, <2>5
      <4> QED
        BY <3>1, <4>1, <2>2
    <3>3. \A j \in DOMAIN Kept(c) : c.rows[j].id = Kept(c)[j].id
      BY <2>2, <2>3
    <3> QED
      BY <3>2, <3>3 DEF Ids
  <2> QED
    BY <1>3, <2>2, <2>4, <2>5
<1> QED
  BY <1>2, <1>3

\* A run behind the others adds its id and no other.
LEMMA AppendIds ==
  ASSUME NEW s \in Seq(Run), NEW r \in Run
  PROVE  /\ Append(s, r) \in Seq(Run)
         /\ Append(s, r) # <<>>
         /\ Append(s, r)[Len(Append(s, r))] = r
         /\ Ids(Append(s, r)) = Ids(s) \cup {r.id}
<1>1. /\ Append(s, r) \in Seq(Run)
      /\ Append(s, r) # <<>>
      /\ Len(Append(s, r)) = Len(s) + 1
      /\ Append(s, r)[Len(s) + 1] = r
      /\ \A j \in 1..Len(s) : Append(s, r)[j] = s[j]
  OBVIOUS
<1> QED
  BY <1>1 DEF Ids

\* A whole line leaves contents that end with a newline and lose at most a last
\* run that had none.
LEMMA AppendLineType ==
  ASSUME NEW c \in Content, NEW r \in Run
  PROVE  /\ AppendLine(c, r) \in Content
         /\ AppendLine(c, r).tail = "clean"
         /\ Ids(Kept(c)) \subseteq Ids(AppendLine(c, r).rows)
         /\ c.tail = "clean" => r.id \in Ids(AppendLine(c, r).rows)
<1>1. c.rows \in Seq(Run) /\ c.tail \in {"clean", "whole", "fragment"}
  BY DEF Content
<1>2. CASE c.tail = "clean"
  <2>1. AppendLine(c, r) = [rows |-> Append(c.rows, r), tail |-> "clean"]
    BY <1>2 DEF AppendLine
  <2> QED
    BY <1>1, <1>2, <2>1, AppendIds, KeptType DEF Content
<1>3. CASE c.tail # "clean"
  BY <1>1, <1>3, KeptType DEF AppendLine, Content
<1> QED
  BY <1>2, <1>3

\* What a torn write can leave: nothing acknowledged goes, and a whole last line
\* without its newline is either the one there was or the new run.
LEMMA TornType ==
  ASSUME NEW c \in Content, NEW r \in Run, NEW d \in TornWrites(c, r)
  PROVE  /\ d \in Content
         /\ Ids(Kept(c)) \subseteq Ids(d.rows)
         /\ d.tail = "whole" =>
              (d = c \/ (d.rows # <<>> /\ d.rows[Len(d.rows)] = r))
<1>1. c.rows \in Seq(Run) /\ c.tail \in {"clean", "whole", "fragment"}
  BY DEF Content
<1>2. CASE d = c
  BY <1>2, KeptType
<1>3. CASE d = [rows |-> Kept(c), tail |-> "fragment"]
  BY <1>3, KeptType DEF Content
<1>4. CASE c.tail = "clean" /\ d = [rows |-> Append(c.rows, r), tail |-> "whole"]
  BY <1>1, <1>4, AppendIds, KeptType DEF Content
<1> QED
  BY <1>2, <1>3, <1>4 DEF TornWrites

\* A page is a sequence of runs.
LEMMA PageType ==
  ASSUME NEW s \in Seq(Run), NEW limit \in Limits
  PROVE  PageOf(s, limit) \in Seq(Run)
<1>1. limit \in Nat
  BY LimitsAssumption
<1>2. Reverse(s) \in Seq(Run) /\ Len(Reverse(s)) = Len(s)
  <2>1. Reverse(s) \in [1..Len(s) -> Run]
    BY DEF Reverse
  <2> QED
    BY <2>1
<1> QED
  BY <1>1, <1>2 DEF PageOf

-----------------------------------------------------------------------------
(***************************************************************************)
(* The strengthening of AckedLostOnlyByGlue.                               *)
(***************************************************************************)
Appending == {"append", "write", "sync"}
Rewriting == {"rewrite", "syncTmp", "rename"}

\* What the program sees is one of the things a crash can leave.
DataSurvives == log.data \in log.survive

\* A last run without its newline is not acknowledged: the next line may take it.
LastUnacked ==
  \A c \in log.survive :
    c.tail = "whole" => /\ c.rows # <<>>
                        /\ c.rows[Len(c.rows)].id \notin acked

\* Timestamps are given once.
FreshIds ==
  /\ \A i \in acked : i < next
  /\ \A t \in Threads :
       pc[t] \in Appending => run[t].id < next /\ run[t].id \notin acked
  /\ \A t, u \in Threads :
       pc[t] \in Appending /\ pc[u] \in Appending /\ t # u => run[t].id # run[u].id

\* What is about to be synced is in the file, or behind an unterminated line.
Written ==
  \A t \in Threads :
    pc[t] = "sync" => /\ log.data.tail = "clean"
                      /\ run[t].id \in Ids(log.data.rows) \cup glued

\* What a merge will put in the place of the file.
MergeKeeps ==
  \A t \in Threads :
    /\ pc[t] \in Rewriting => acked \ glued \subseteq Ids(mem[t])
    /\ pc[t] \in {"syncTmp", "rename"} =>
         tmp.data = [rows |-> mem[t], tail |-> "clean"]
    /\ pc[t] = "rename" => tmp.survive = {tmp.data}

Strengthening == DataSurvives /\ LastUnacked /\ FreshIds /\ Written /\ MergeKeeps

-----------------------------------------------------------------------------
(***************************************************************************)
(* Type correctness and the lock discipline.                               *)
(***************************************************************************)
\* The values a thread or the file starts with, and every status, have their types.
LEMMA ConstantTypes ==
  /\ Blank \in File /\ NoRun \in Run /\ NoPost \in Post /\ NoAnswer \in Answer
  /\ \A s \in Statuses : Status(s) \in Answer
<1>1. <<>> \in Seq(Run)
  OBVIOUS
<1>2. Empty \in Content
  BY <1>1 DEF Empty, Content
<1>3. Blank \in File
  BY <1>2 DEF Blank, File
<1>4. NoRun \in Run /\ NoPost \in Post
  BY DEF NoRun, Run, NoPost, Post, Operation
<1>5. \A s \in Statuses : Status(s) \in Answer
  BY <1>1 DEF Status, Answer
<1>6. NoAnswer \in Answer
  BY <1>1 DEF NoAnswer, Answer, Statuses
<1> QED
  BY <1>3, <1>4, <1>5, <1>6

\* A server that starts with no file has its types and nobody holds the mutex.
LEMMA TypeInit == Init => TypeOK
  BY ConstantTypes DEF Init, TypeOK, MutexHeld, PC, Critical

\* What moving to another program point does to pc, mu and the lock discipline.
LEMMA GotoType ==
  ASSUME TypeOK, NEW t \in Threads, NEW l \in PC, Goto(t, l), mu' = mu,
         l \in Critical => mu = t
  PROVE  pc' \in [Threads -> PC] /\ MutexHeld'
  BY DEF TypeOK, MutexHeld, Goto

\* What unlocking and returning does to pc, mu, answer and the lock discipline.
LEMMA ReturnType ==
  ASSUME TypeOK, NEW t \in Threads, NEW a \in Answer, pc[t] \in Critical,
         Unlock, Return(t, a)
  PROVE  /\ mu' \in Threads \cup {Free} /\ pc' \in [Threads -> PC]
         /\ answer' \in [Threads -> Answer] /\ MutexHeld'
  BY DEF TypeOK, MutexHeld, Unlock, Return, PC, Critical

\* Every step of a goroutine and every crash keeps the types and the lock discipline.
LEMMA TypeStep == TypeOK /\ [Next]_vars => TypeOK'
<1> SUFFICES ASSUME TypeOK, [Next]_vars PROVE TypeOK'
  OBVIOUS
<1> USE DEF local, history
<1>0. Status("error") \in Answer /\ Status("ok") \in Answer
      /\ Status("no match") \in Answer /\ Status("ambiguous") \in Answer
  BY ConstantTypes DEF Statuses
<1>1. ASSUME NEW t \in Threads, Call(t) PROVE TypeOK'
  <2>1. CASE CallAppend(t)
    <3>1. PICK d \in Drafts : run' = [run EXCEPT ![t] = Stamp(d, next)]
      BY <2>1 DEF CallAppend
    <3>2. Stamp(d, next) \in Run
      BY StampType DEF TypeOK
    <3>3. pc' \in [Threads -> PC] /\ MutexHeld'
      BY <2>1, GotoType DEF CallAppend, PC, Critical
    <3>4. run' \in [Threads -> Run]
      BY <3>1, <3>2 DEF TypeOK
    <3>5. next' \in Nat
      BY <2>1 DEF TypeOK, CallAppend
    <3> QED
      BY <2>1, <3>3, <3>4, <3>5 DEF TypeOK, CallAppend
  <2>2. CASE CallMerge(t)
    <3>1. pc' \in [Threads -> PC] /\ MutexHeld'
      BY <2>2, GotoType DEF CallMerge, PC, Critical
    <3> QED
      BY <2>2, <3>1, PostsAssumption DEF TypeOK, CallMerge
  <2>3. CASE CallRead(t)
    <3>1. pc' \in [Threads -> PC] /\ MutexHeld'
      BY <2>3, GotoType DEF CallRead, PC, Critical
    <3> QED
      BY <2>3, <3>1 DEF TypeOK, CallRead
  <2> QED
    BY <1>1, <2>1, <2>2, <2>3 DEF Call
<1>2. ASSUME NEW t \in Threads, TakeMutex(t) PROVE TypeOK'
  <2>1. ASSUME NEW from \in PC, NEW to \in PC, Lock(t, from, to) PROVE TypeOK'
    <3>1. pc' \in [Threads -> PC] /\ MutexHeld'
      BY <2>1, ThreadsAssumption DEF TypeOK, MutexHeld, Lock, Goto
    <3> QED
      BY <2>1, <3>1 DEF TypeOK, Lock
  <2> QED
    BY <1>2, <2>1 DEF TakeMutex, AppendLock, MergeLock, ReadLock, PC
<1>3. ASSUME NEW t \in Threads, Step(t) PROVE TypeOK'
  <2>1. CASE AppendOpenFails(t)
    BY <2>1, <1>0, ReturnType DEF TypeOK, AppendOpenFails, Critical
  <2>2. CASE AppendWrite(t)
    <3>1. pc' \in [Threads -> PC] /\ MutexHeld'
      BY <2>2, GotoType DEF TypeOK, MutexHeld, AppendWrite, PC, Critical
    <3>2. log.data \in Content /\ log.survive \subseteq Content /\ run[t] \in Run
      BY DEF TypeOK, File
    <3>3. log' \in File
      BY <2>2, <3>2, AppendLineType, TornType DEF AppendWrite, File
    <3> QED
      BY <2>2, <3>1, <3>2, <3>3 DEF TypeOK, AppendWrite, Run
  <2>3. CASE AppendShort(t)
    <3>1. log.data \in Content /\ log.survive \subseteq Content /\ run[t] \in Run
      BY DEF TypeOK, File
    <3>2. log' \in File
      BY <2>3, <3>1, TornType DEF AppendShort, File
    <3> QED
      BY <2>3, <3>2, <1>0, ReturnType DEF TypeOK, AppendShort, Critical
  <2>4. CASE AppendSync(t)
    <3>1. run[t].id \in Nat /\ log' \in File
      BY <2>4 DEF TypeOK, AppendSync, Fsync, File, Run
    <3> QED
      BY <2>4, <3>1, <1>0, ReturnType DEF TypeOK, AppendSync, Critical
  <2>5. CASE AppendSyncFails(t)
    BY <2>5, <1>0, ReturnType DEF TypeOK, AppendSyncFails, Critical
  <2>6. CASE MergeReadFails(t)
    BY <2>6, <1>0, ReturnType DEF TypeOK, MergeReadFails, Critical
  <2>7. CASE MergeRefuse(t)
    BY <2>7, <1>0, ReturnType DEF TypeOK, MergeRefuse, Critical
  <2>8. CASE MergeRead(t)
    <3>1. pc' \in [Threads -> PC] /\ MutexHeld'
      BY <2>8, GotoType DEF TypeOK, MutexHeld, MergeRead, PC, Critical
    <3>2. mem' \in [Threads -> Seq(Run)]
      BY <2>8, MergedType DEF TypeOK, MergeRead, File, Content
    <3> QED
      BY <2>8, <3>1, <3>2 DEF TypeOK, MergeRead
  <2>9. CASE MergeRewrite(t)
    <3>1. pc' \in [Threads -> PC] /\ MutexHeld'
      BY <2>9, GotoType DEF TypeOK, MutexHeld, MergeRewrite, PC, Critical
    <3>2. tmp' \in File
      BY <2>9, ConstantTypes DEF TypeOK, MergeRewrite, File, Content, Blank
    <3> QED
      BY <2>9, <3>1, <3>2 DEF TypeOK, MergeRewrite
  <2>10. CASE MergeSync(t)
    <3>1. pc' \in [Threads -> PC] /\ MutexHeld'
      BY <2>10, GotoType DEF TypeOK, MutexHeld, MergeSync, PC, Critical
    <3> QED
      BY <2>10, <3>1 DEF TypeOK, MergeSync, Fsync, File
  <2>11. CASE MergeRename(t)
    <3>1. log' \in File /\ tmp' \in File
      BY <2>11, ConstantTypes DEF TypeOK, MergeRename, Rename, File
    <3> QED
      BY <2>11, <3>1, <1>0, ReturnType DEF TypeOK, MergeRename, Critical
  <2>12. CASE MergeWriteFails(t)
    BY <2>12, <1>0, ConstantTypes, ReturnType DEF TypeOK, MergeWriteFails, Critical
  <2>13. CASE ReadFails(t)
    BY <2>13, <1>0, ReturnType DEF TypeOK, ReadFails, Critical
  <2>14. CASE ReadPage(t)
    <3>1. log.data.rows \in Seq(Run)
      BY DEF TypeOK, File, Content
    <3>2. PICK limit \in Limits :
            Return(t, [status |-> "page",
                       rows   |-> PageOf(log.data.rows, limit),
                       total  |-> Len(log.data.rows)])
      BY <2>14 DEF ReadPage
    <3>3. [status |-> "page", rows |-> PageOf(log.data.rows, limit),
           total |-> Len(log.data.rows)] \in Answer
      <4>1. PageOf(log.data.rows, limit) \in Seq(Run) /\ Len(log.data.rows) \in Nat
        BY <3>1, PageType
      <4> QED
        BY <4>1 DEF Answer, Statuses
    <3> QED
      BY <2>14, <3>2, <3>3, ReturnType DEF TypeOK, ReadPage, Critical
  <2>15. CASE Reply(t)
    <3>1. pc' \in [Threads -> PC] /\ MutexHeld'
      BY <2>15, GotoType DEF Reply, PC, Critical
    <3>2. /\ run' \in [Threads -> Run] /\ post' \in [Threads -> Post]
          /\ answer' \in [Threads -> Answer]
      BY <2>15, ConstantTypes DEF TypeOK, Reply
    <3>3. mem' \in [Threads -> Seq(Run)] /\ due' \in [Threads -> SUBSET Nat]
      <4>1. <<>> \in Seq(Run)
        OBVIOUS
      <4> QED
        BY <2>15, <4>1 DEF TypeOK, Reply
    <3> QED
      BY <2>15, <3>1, <3>2, <3>3 DEF TypeOK, Reply
  <2> QED
    BY <1>3, <2>1, <2>2, <2>3, <2>4, <2>5, <2>6, <2>7, <2>8, <2>9, <2>10,
       <2>11, <2>12, <2>13, <2>14, <2>15 DEF Step
<1>4. CASE Crash
  <2>1. log' \in File
    BY <1>4 DEF TypeOK, Crash, File
  <2> QED
    BY <1>4, <2>1, ConstantTypes DEF TypeOK, MutexHeld, Crash, PC, Critical
<1>5. CASE UNCHANGED vars
  BY <1>5 DEF TypeOK, MutexHeld, vars
<1> QED
  BY <1>1, <1>2, <1>3, <1>4, <1>5 DEF Next

\* In every state the variables have their types, and a goroutine that is reading
\* or writing the file is the one that holds Logger.mu.
THEOREM TypeCorrect == Spec => []TypeOK
  BY TypeInit, TypeStep, PTL DEF Spec

-----------------------------------------------------------------------------
(***************************************************************************)
(* Acknowledged runs.                                                      *)
(***************************************************************************)
SafetyInv == AckedLostOnlyByGlue /\ Strengthening

USE DEF Appending, Rewriting

\* The new, empty log satisfies the inductive invariant.
LEMMA SafetyInit == Init => SafetyInv
  BY DEF Init, SafetyInv, AckedLostOnlyByGlue, Strengthening, DataSurvives,
         LastUnacked, FreshIds, Written, MergeKeeps, Blank, Empty

\* A step of t that leaves the file and the history alone, and does not bring t to
\* where something is to be synced or renamed, preserves the invariant.
LEMMA Untouched ==
  ASSUME TypeOK, SafetyInv, NEW t \in Threads,
         UNCHANGED <<log, next, acked, glued>>,
         tmp' = tmp \/ mu = t,
         \A u \in Threads \ {t} :
           pc'[u] = pc[u] /\ run'[u] = run[u] /\ mem'[u] = mem[u],
         pc'[t] \notin Rewriting \cup {"sync"},
         pc'[t] \in Appending => pc[t] \in Appending /\ run'[t] = run[t]
  PROVE  SafetyInv'
<1>1. AckedLostOnlyByGlue' /\ DataSurvives' /\ LastUnacked'
  BY DEF SafetyInv, Strengthening, AckedLostOnlyByGlue, DataSurvives, LastUnacked
<1>2. FreshIds'
  BY DEF SafetyInv, Strengthening, FreshIds
<1>3. Written'
  BY DEF SafetyInv, Strengthening, Written
<1>4. MergeKeeps'
  <2> SUFFICES ASSUME NEW u \in Threads PROVE MergeKeeps!(u)'
    BY DEF MergeKeeps
  <2>1. CASE u = t
    BY <2>1
  <2>2. CASE u # t
    <3>1. pc[u] \in Rewriting => tmp' = tmp
      BY <2>2 DEF TypeOK, MutexHeld, Critical
    <3> QED
      BY <2>2, <3>1 DEF SafetyInv, Strengthening, MergeKeeps
  <2> QED
    BY <2>1, <2>2
<1> QED
  BY <1>1, <1>2, <1>3, <1>4 DEF SafetyInv, Strengthening

\* What is acknowledged is among the runs that stay readable whatever follows.
LEMMA AckedKept ==
  ASSUME TypeOK, SafetyInv
  PROVE  acked \ glued \subseteq Ids(Kept(log.data))
<1>1. log.data \in Content /\ log.data \in log.survive
  BY DEF TypeOK, File, SafetyInv, Strengthening, DataSurvives
<1>2. acked \ glued \subseteq Ids(log.data.rows)
  BY <1>1 DEF SafetyInv, AckedLostOnlyByGlue
<1>3. log.data.tail = "whole" =>
        log.data.rows # <<>> /\ log.data.rows[Len(log.data.rows)].id \notin acked
  BY <1>1 DEF SafetyInv, Strengthening, LastUnacked
<1> QED
  BY <1>1, <1>2, <1>3, KeptType

\* A write of t, whole or torn, loses nothing acknowledged.
LEMMA TornKeeps ==
  ASSUME TypeOK, SafetyInv, NEW t \in Threads, pc[t] = "write",
         NEW c \in TornWrites(log.data, run[t])
  PROVE  /\ acked \ glued \subseteq Ids(c.rows)
         /\ c.tail = "whole" => c.rows # <<>> /\ c.rows[Len(c.rows)].id \notin acked
<1>1. log.data \in Content /\ log.data \in log.survive /\ run[t] \in Run
  BY DEF TypeOK, File, SafetyInv, Strengthening, DataSurvives
<1>2. run[t].id \notin acked
  BY DEF SafetyInv, Strengthening, FreshIds
<1>3. log.data.tail = "whole" =>
        log.data.rows # <<>> /\ log.data.rows[Len(log.data.rows)].id \notin acked
  BY <1>1 DEF SafetyInv, Strengthening, LastUnacked
<1> QED
  BY <1>1, <1>2, <1>3, TornType, AckedKept

\* Every step keeps the inductive invariant, given the types and the lock discipline.
LEMMA SafetyStep == TypeOK /\ SafetyInv /\ [Next]_vars => SafetyInv'
<1> SUFFICES ASSUME TypeOK, SafetyInv, [Next]_vars PROVE SafetyInv'
  OBVIOUS
<1> USE DEF local, history, Goto, Unlock, Return
<1>0. \A t, u \in Threads : pc[t] \in Critical /\ pc[u] \in Critical => t = u
  BY DEF TypeOK, MutexHeld
<1>1. ASSUME NEW t \in Threads, CallAppend(t) PROVE SafetyInv'
  <2>1. PICK d \in Drafts : run' = [run EXCEPT ![t] = Stamp(d, next)]
    BY <1>1 DEF CallAppend
  <2>2. /\ run'[t].id = next /\ next' = next + 1 /\ next \in Nat
        /\ pc'[t] = "append" /\ UNCHANGED <<log, tmp, mem, acked, glued>>
        /\ \A u \in Threads \ {t} : pc'[u] = pc[u] /\ run'[u] = run[u]
        /\ \A u \in Threads : run[u].id \in Nat
        /\ acked \subseteq Nat
    BY <1>1, <2>1 DEF TypeOK, CallAppend, Stamp, Run
  <2>3. AckedLostOnlyByGlue' /\ DataSurvives' /\ LastUnacked'
    BY <2>2 DEF SafetyInv, Strengthening, AckedLostOnlyByGlue, DataSurvives, LastUnacked
  <2>4. FreshIds'
    <3>1. /\ \A i \in acked : i < next
          /\ \A u \in Threads :
               pc[u] \in Appending => run[u].id < next /\ run[u].id \notin acked
          /\ \A u, v \in Threads :
               pc[u] \in Appending /\ pc[v] \in Appending /\ u # v
                 => run[u].id # run[v].id
      BY DEF SafetyInv, Strengthening, FreshIds
    <3>2. \A i \in acked' : i < next'
      BY <2>2, <3>1
    <3>3. \A u \in Threads :
            pc'[u] \in Appending => run'[u].id < next' /\ run'[u].id \notin acked'
      BY <2>2, <3>1
    <3>4. \A u, v \in Threads :
            pc'[u] \in Appending /\ pc'[v] \in Appending /\ u # v
              => run'[u].id # run'[v].id
      BY <2>2, <3>1
    <3> QED
      BY <3>2, <3>3, <3>4 DEF FreshIds
  <2>5. Written' /\ MergeKeeps'
    BY <2>2 DEF SafetyInv, Strengthening, Written, MergeKeeps
  <2> QED
    BY <2>3, <2>4, <2>5 DEF SafetyInv, Strengthening
<1>2. ASSUME NEW t \in Threads, AppendWrite(t) PROVE SafetyInv'
  <2> DEFINE new == AppendLine(log.data, run[t])
  <2>1. /\ pc[t] = "write" /\ pc'[t] = "sync"
        /\ log'.data = new
        /\ log'.survive = log.survive \cup TornWrites(log.data, run[t]) \cup {new}
        /\ glued \subseteq glued'
        /\ log.data.tail # "clean" => run[t].id \in glued'
        /\ UNCHANGED <<tmp, run, mem, next, acked>>
        /\ \A u \in Threads \ {t} : pc'[u] = pc[u]
    BY <1>2 DEF TypeOK, AppendWrite
  <2>2. log.data \in Content /\ run[t] \in Run
    BY DEF TypeOK, File
  <2>3. /\ new.tail = "clean" /\ acked \ glued \subseteq Ids(new.rows)
        /\ log.data.tail = "clean" => run[t].id \in Ids(new.rows)
    BY <2>2, AppendLineType, AckedKept
  <2> HIDE DEF new
  <2>4. AckedLostOnlyByGlue'
    BY <2>1, <2>3, TornKeeps DEF SafetyInv, AckedLostOnlyByGlue
  <2>5. DataSurvives'
    BY <2>1 DEF DataSurvives
  <2>6. LastUnacked'
    BY <2>1, <2>3, TornKeeps DEF SafetyInv, Strengthening, LastUnacked
  <2>7. FreshIds'
    BY <2>1 DEF SafetyInv, Strengthening, FreshIds
  <2>8. \A u \in Threads \ {t} : pc'[u] \notin Critical
    BY <1>0, <2>1 DEF Critical
  <2>9. Written'
    BY <2>1, <2>3, <2>8 DEF Written, Critical
  <2>10. MergeKeeps'
    BY <2>1, <2>8 DEF MergeKeeps, Critical
  <2> QED
    BY <2>4, <2>5, <2>6, <2>7, <2>9, <2>10 DEF SafetyInv, Strengthening
<1>3. ASSUME NEW t \in Threads, AppendShort(t) PROVE SafetyInv'
  <2>1. PICK c \in TornWrites(log.data, run[t]) :
          log' = [data |-> c, survive |-> log.survive \cup TornWrites(log.data, run[t])]
    BY <1>3 DEF AppendShort
  <2>2. /\ pc[t] = "write" /\ pc'[t] = "reply"
        /\ UNCHANGED <<tmp, run, mem, next, acked, glued>>
        /\ \A u \in Threads \ {t} : pc'[u] = pc[u]
    BY <1>3 DEF TypeOK, AppendShort
  <2>3. AckedLostOnlyByGlue'
    BY <2>1, <2>2, TornKeeps DEF SafetyInv, AckedLostOnlyByGlue
  <2>4. DataSurvives'
    BY <2>1 DEF DataSurvives
  <2>5. LastUnacked'
    BY <2>1, <2>2, TornKeeps DEF SafetyInv, Strengthening, LastUnacked
  <2>6. FreshIds'
    BY <2>2 DEF SafetyInv, Strengthening, FreshIds
  <2>7. \A u \in Threads \ {t} : pc'[u] \notin Critical
    BY <1>0, <2>2 DEF Critical
  <2>8. Written' /\ MergeKeeps'
    BY <2>2, <2>7 DEF Written, MergeKeeps, Critical
  <2> QED
    BY <2>3, <2>4, <2>5, <2>6, <2>8 DEF SafetyInv, Strengthening
<1>4. ASSUME NEW t \in Threads, AppendSync(t) PROVE SafetyInv'
  <2>1. /\ pc[t] = "sync" /\ pc'[t] = "reply"
        /\ log'.data = log.data /\ log'.survive = {log.data}
        /\ acked' = acked \cup {run[t].id}
        /\ UNCHANGED <<tmp, run, mem, next, glued>>
        /\ \A u \in Threads \ {t} : pc'[u] = pc[u]
    BY <1>4 DEF TypeOK, AppendSync, Fsync
  <2>2. log.data.tail = "clean" /\ run[t].id \in Ids(log.data.rows) \cup glued
    BY <2>1 DEF SafetyInv, Strengthening, Written
  <2>3. AckedLostOnlyByGlue'
    BY <2>1, <2>2 DEF SafetyInv, AckedLostOnlyByGlue
  <2>4. DataSurvives' /\ LastUnacked'
    BY <2>1, <2>2 DEF DataSurvives, LastUnacked
  <2>5. FreshIds'
    BY <2>1 DEF SafetyInv, Strengthening, FreshIds
  <2>6. \A u \in Threads \ {t} : pc'[u] \notin Critical
    BY <1>0, <2>1 DEF Critical
  <2>7. Written' /\ MergeKeeps'
    BY <2>1, <2>6 DEF Written, MergeKeeps, Critical
  <2> QED
    BY <2>3, <2>4, <2>5, <2>7 DEF SafetyInv, Strengthening
<1>5. ASSUME NEW t \in Threads, MergeRead(t) PROVE SafetyInv'
  <2>1. PICK k \in DOMAIN log.data.rows :
          mem' = [mem EXCEPT ![t] = Merged(log.data.rows, k, post[t])]
    BY <1>5 DEF MergeRead
  <2>2. /\ pc[t] = "read" /\ pc'[t] = "rewrite"
        /\ UNCHANGED <<log, tmp, run, next, acked, glued>>
        /\ \A u \in Threads \ {t} : pc'[u] = pc[u]
    BY <1>5 DEF TypeOK, MergeRead
  <2>3. Ids(mem'[t]) = Ids(log.data.rows)
    BY <2>1, MergedType DEF TypeOK, File, Content
  <2>4. acked \ glued \subseteq Ids(mem'[t])
    BY <2>3 DEF SafetyInv, AckedLostOnlyByGlue
  <2>5. \A u \in Threads \ {t} : pc'[u] \notin Critical
    BY <1>0, <2>2 DEF Critical
  <2>6. MergeKeeps'
    BY <2>2, <2>4, <2>5 DEF MergeKeeps, Critical
  <2>7. AckedLostOnlyByGlue' /\ DataSurvives' /\ LastUnacked'
    BY <2>2 DEF SafetyInv, Strengthening, AckedLostOnlyByGlue, DataSurvives, LastUnacked
  <2>8. FreshIds' /\ Written'
    BY <2>2 DEF SafetyInv, Strengthening, FreshIds, Written
  <2> QED
    BY <2>6, <2>7, <2>8 DEF SafetyInv, Strengthening
<1>6. ASSUME NEW t \in Threads, MergeRewrite(t) \/ MergeSync(t) PROVE SafetyInv'
  <2>1. /\ pc[t] \in {"rewrite", "syncTmp"} /\ pc'[t] \in {"syncTmp", "rename"}
        /\ tmp'.data = [rows |-> mem[t], tail |-> "clean"]
        /\ pc'[t] = "rename" => tmp'.survive = {tmp'.data}
        /\ UNCHANGED <<log, run, mem, next, acked, glued>>
        /\ \A u \in Threads \ {t} : pc'[u] = pc[u]
    BY <1>6 DEF TypeOK, MergeRewrite, MergeSync, Fsync, SafetyInv, Strengthening, MergeKeeps
  <2>2. \A u \in Threads \ {t} : pc'[u] \notin Critical
    BY <1>0, <2>1 DEF Critical
  <2>3. MergeKeeps'
    <3>1. acked \ glued \subseteq Ids(mem[t])
      BY <2>1 DEF SafetyInv, Strengthening, MergeKeeps
    <3> QED
      BY <2>1, <2>2, <3>1 DEF MergeKeeps, Critical
  <2>4. AckedLostOnlyByGlue' /\ DataSurvives' /\ LastUnacked'
    BY <2>1 DEF SafetyInv, Strengthening, AckedLostOnlyByGlue, DataSurvives, LastUnacked
  <2>5. FreshIds' /\ Written'
    BY <2>1 DEF SafetyInv, Strengthening, FreshIds, Written
  <2> QED
    BY <2>3, <2>4, <2>5 DEF SafetyInv, Strengthening
<1>7. ASSUME NEW t \in Threads, MergeRename(t) PROVE SafetyInv'
  <2>1. /\ pc[t] = "rename" /\ pc'[t] = "reply"
        /\ log'.data = tmp.data /\ log'.survive = tmp.survive \cup log.survive
        /\ UNCHANGED <<run, mem, next, acked, glued>>
        /\ \A u \in Threads \ {t} : pc'[u] = pc[u]
    BY <1>7 DEF TypeOK, MergeRename, Rename
  <2>2. /\ tmp.survive = {tmp.data} /\ tmp.data = [rows |-> mem[t], tail |-> "clean"]
        /\ acked \ glued \subseteq Ids(mem[t])
    BY <2>1 DEF SafetyInv, Strengthening, MergeKeeps
  <2>3. AckedLostOnlyByGlue' /\ DataSurvives' /\ LastUnacked'
    BY <2>1, <2>2 DEF SafetyInv, Strengthening, AckedLostOnlyByGlue, DataSurvives, LastUnacked
  <2>4. FreshIds'
    BY <2>1 DEF SafetyInv, Strengthening, FreshIds
  <2>5. \A u \in Threads \ {t} : pc'[u] \notin Critical
    BY <1>0, <2>1 DEF Critical
  <2>6. Written' /\ MergeKeeps'
    BY <2>1, <2>5 DEF Written, MergeKeeps, Critical
  <2> QED
    BY <2>3, <2>4, <2>6 DEF SafetyInv, Strengthening
<1>8. CASE Crash
  <2>1. PICK c \in log.survive : log' = [data |-> c, survive |-> {c}]
    BY <1>8 DEF Crash
  <2>2. (\A t \in Threads : pc'[t] = "idle") /\ UNCHANGED <<next, acked, glued>>
    BY <1>8 DEF Crash
  <2>3. AckedLostOnlyByGlue' /\ DataSurvives' /\ LastUnacked'
    BY <2>1, <2>2 DEF SafetyInv, Strengthening, AckedLostOnlyByGlue, DataSurvives, LastUnacked
  <2>4. FreshIds' /\ Written' /\ MergeKeeps'
    BY <2>2 DEF SafetyInv, Strengthening, FreshIds, Written, MergeKeeps
  <2> QED
    BY <2>3, <2>4 DEF SafetyInv, Strengthening
<1>9. ASSUME NEW t \in Threads, CallMerge(t) \/ CallRead(t) \/ TakeMutex(t) PROVE SafetyInv'
  BY <1>9, Untouched DEF TypeOK, CallMerge, CallRead, TakeMutex, AppendLock,
       MergeLock, ReadLock, Lock
<1>10. ASSUME NEW t \in Threads,
              \/ AppendOpenFails(t) \/ AppendSyncFails(t) \/ MergeReadFails(t)
              \/ MergeRefuse(t) \/ ReadFails(t) \/ ReadPage(t)
       PROVE  SafetyInv'
  BY <1>10, Untouched DEF TypeOK, AppendOpenFails, AppendSyncFails, MergeReadFails,
       MergeRefuse, ReadFails, ReadPage
<1>11. ASSUME NEW t \in Threads, MergeWriteFails(t) PROVE SafetyInv'
  BY <1>11, Untouched DEF TypeOK, MergeWriteFails, MutexHeld, Critical
<1>12. ASSUME NEW t \in Threads, Reply(t) PROVE SafetyInv'
  BY <1>12, Untouched DEF TypeOK, Reply
<1>13. CASE UNCHANGED vars
  BY <1>13 DEF vars, SafetyInv, Strengthening, AckedLostOnlyByGlue, DataSurvives,
       LastUnacked, FreshIds, Written, MergeKeeps
<1> QED
  BY <1>1, <1>2, <1>3, <1>4, <1>5, <1>6, <1>7, <1>8, <1>9, <1>10, <1>11, <1>12,
     <1>13 DEF Next, Call, Step

\* A run whose Append returned nil is in the file, and in all a crash can leave of
\* it, unless its line was written behind an unterminated one.
THEOREM AckedRunsStay == Spec => []AckedLostOnlyByGlue
<1>1. Init => TypeOK /\ SafetyInv
  BY TypeInit, SafetyInit
<1>2. TypeOK /\ SafetyInv /\ [Next]_vars => (TypeOK /\ SafetyInv)'
  BY TypeStep, SafetyStep
<1>3. SafetyInv => AckedLostOnlyByGlue
  BY DEF SafetyInv
<1> QED
  BY <1>1, <1>2, <1>3, PTL DEF Spec

-----------------------------------------------------------------------------
USE DEF Appending, Rewriting

(***************************************************************************)
(* Two sequences of runs, of which one may be read in the place of the     *)
(* other after a restart.                                                  *)
(***************************************************************************)
\* A run of both is the same operation on the same blob, and the runs of both are in
\* the same order in both.
Alike(s, u) ==
  \A j \in DOMAIN s, k \in DOMAIN u :
    s[j].id = u[k].id =>
      /\ s[j].op = u[k].op /\ s[j].name = u[k].name
      /\ \A m \in 1..(j - 1), n \in k..Len(u) : s[m].id # u[n].id

\* A sequence that is like itself has no run twice.
LEMMA AlikeDistinct ==
  ASSUME NEW s \in Seq(Run), Alike(s, s), NEW j \in DOMAIN s, NEW k \in DOMAIN s,
         s[j].id = s[k].id
  PROVE  j = k
<1>1. DOMAIN s = 1..Len(s) /\ Len(s) \in Nat /\ j \in Int /\ k \in Int
  OBVIOUS
<1>2. ASSUME NEW a \in DOMAIN s, NEW b \in DOMAIN s, a < b, s[a].id = s[b].id
      PROVE  FALSE
  <2>1. a \in 1..(b - 1) /\ b \in b..Len(s)
    BY <1>1, <1>2
  <2> QED
    BY <1>2, <2>1 DEF Alike
<1>3. ~(j < k) /\ ~(k < j)
  BY <1>2
<1> QED
  BY <1>1, <1>3

\* What is like a sequence is like its beginning.
LEMMA AlikePrefix ==
  ASSUME NEW s \in Seq(Run), NEW u \in Seq(Run), NEW p \in Seq(Run),
         Len(p) <= Len(s), \A i \in DOMAIN p : p[i] = s[i]
  PROVE  /\ Alike(s, u) => Alike(p, u)
         /\ Alike(u, s) => Alike(u, p)
         /\ Alike(s, s) => Alike(p, p)
<1>1. /\ DOMAIN p = 1..Len(p) /\ DOMAIN s = 1..Len(s) /\ DOMAIN u = 1..Len(u)
      /\ Len(p) \in Nat /\ Len(s) \in Nat /\ Len(u) \in Nat
  OBVIOUS
<1>2. ASSUME NEW v \in Seq(Run), Alike(s, v)
      PROVE  Alike(p, v)
  <2> SUFFICES ASSUME NEW j \in DOMAIN p, NEW k \in DOMAIN v, p[j].id = v[k].id
               PROVE  /\ p[j].op = v[k].op /\ p[j].name = v[k].name
                      /\ \A m \in 1..(j - 1), n \in k..Len(v) : p[m].id # v[n].id
    BY DEF Alike
  <2>1. /\ j \in DOMAIN s /\ p[j] = s[j]
        /\ \A m \in 1..(j - 1) : p[m] = s[m]
    BY <1>1
  <2>2. /\ s[j].op = v[k].op /\ s[j].name = v[k].name
        /\ \A m \in 1..(j - 1), n \in k..Len(v) : s[m].id # v[n].id
    BY <1>2, <2>1 DEF Alike
  <2> QED
    BY <2>1, <2>2
<1>3. ASSUME NEW v \in Seq(Run), Alike(v, s)
      PROVE  Alike(v, p)
  <2> SUFFICES ASSUME NEW j \in DOMAIN v, NEW k \in DOMAIN p, v[j].id = p[k].id
               PROVE  /\ v[j].op = p[k].op /\ v[j].name = p[k].name
                      /\ \A m \in 1..(j - 1), n \in k..Len(p) : v[m].id # p[n].id
    BY DEF Alike
  <2>1. /\ k \in DOMAIN s /\ p[k] = s[k]
        /\ \A n \in k..Len(p) : n \in k..Len(s) /\ n \in DOMAIN p /\ p[n] = s[n]
    BY <1>1
  <2> QED
    BY <1>3, <2>1 DEF Alike
<1> QED
  BY <1>2, <1>3

\* A run of neither, behind the others, leaves them alike.
LEMMA AlikeAppend ==
  ASSUME NEW s \in Seq(Run), NEW u \in Seq(Run), NEW r \in Run,
         r.id \notin Ids(s), r.id \notin Ids(u)
  PROVE  /\ Alike(s, u) => Alike(Append(s, r), u)
         /\ Alike(u, s) => Alike(u, Append(s, r))
         /\ Alike(s, s) => Alike(Append(s, r), Append(s, r))
<1> DEFINE a == Append(s, r)
<1>1. /\ DOMAIN s = 1..Len(s) /\ DOMAIN u = 1..Len(u) /\ DOMAIN a = 1..Len(a)
      /\ Len(s) \in Nat /\ Len(u) \in Nat /\ Len(a) = Len(s) + 1
      /\ a[Len(s) + 1] = r /\ \A i \in 1..Len(s) : a[i] = s[i]
  OBVIOUS
<1>2. (\A i \in DOMAIN s : s[i].id # r.id) /\ (\A i \in DOMAIN u : u[i].id # r.id)
  BY DEF Ids
<1> HIDE DEF a
<1>3. ASSUME NEW v \in Seq(Run), Alike(s, v), \A i \in DOMAIN v : v[i].id # r.id
      PROVE  Alike(a, v)
  <2> SUFFICES ASSUME NEW j \in DOMAIN a, NEW k \in DOMAIN v, a[j].id = v[k].id
               PROVE  /\ a[j].op = v[k].op /\ a[j].name = v[k].name
                      /\ \A m \in 1..(j - 1), n \in k..Len(v) : a[m].id # v[n].id
    BY DEF Alike
  <2>1. /\ j \in DOMAIN s /\ a[j] = s[j]
        /\ \A m \in 1..(j - 1) : a[m] = s[m]
    BY <1>1, <1>3
  <2>2. /\ s[j].op = v[k].op /\ s[j].name = v[k].name
        /\ \A m \in 1..(j - 1), n \in k..Len(v) : s[m].id # v[n].id
    BY <1>3, <2>1 DEF Alike
  <2> QED
    BY <2>1, <2>2
<1>4. ASSUME NEW v \in Seq(Run), Alike(v, s), \A i \in DOMAIN v : v[i].id # r.id
      PROVE  Alike(v, a)
  <2> SUFFICES ASSUME NEW j \in DOMAIN v, NEW k \in DOMAIN a, v[j].id = a[k].id
               PROVE  /\ v[j].op = a[k].op /\ v[j].name = a[k].name
                      /\ \A m \in 1..(j - 1), n \in k..Len(a) : v[m].id # a[n].id
    BY DEF Alike
  <2>1. k \in DOMAIN s /\ a[k] = s[k] /\ j \in 1..Len(v)
    BY <1>1, <1>4
  <2>2. ASSUME NEW m \in 1..(j - 1), NEW n \in k..Len(a)
        PROVE  v[m].id # a[n].id
    <3>1. m \in DOMAIN v
      BY <2>1
    <3>2. CASE n = Len(s) + 1
      BY <1>1, <1>4, <3>1, <3>2
    <3>3. CASE n # Len(s) + 1
      <4>1. n \in k..Len(s) /\ a[n] = s[n]
        BY <1>1, <2>1, <3>3
      <4>2. v[m].id # s[n].id
        BY <1>4, <2>1, <4>1 DEF Alike
      <4> QED
        BY <4>1, <4>2
    <3> QED
      BY <3>2, <3>3
  <2> QED
    BY <1>4, <2>1, <2>2 DEF Alike
<1>5. ASSUME Alike(s, s)
      PROVE  Alike(a, a)
  <2> SUFFICES ASSUME NEW j \in DOMAIN a, NEW k \in DOMAIN a, a[j].id = a[k].id
               PROVE  /\ a[j].op = a[k].op /\ a[j].name = a[k].name
                      /\ \A m \in 1..(j - 1), n \in k..Len(a) : a[m].id # a[n].id
    BY DEF Alike
  <2>1. \A x, y \in DOMAIN a : a[x].id = a[y].id => x = y
    <3>1. SUFFICES ASSUME NEW x \in DOMAIN a, NEW y \in DOMAIN a, a[x].id = a[y].id
                   PROVE  x = y
      OBVIOUS
    <3>2. CASE x \in DOMAIN s /\ y \in DOMAIN s
      BY <1>1, <1>5, <3>1, <3>2, AlikeDistinct
    <3>3. CASE x \notin DOMAIN s \/ y \notin DOMAIN s
      BY <1>1, <1>2, <3>1, <3>3
    <3> QED
      BY <3>2, <3>3
  <2>2. j = k
    BY <2>1
  <2>3. \A m \in 1..(j - 1), n \in k..Len(a) : m \in DOMAIN a /\ n \in DOMAIN a /\ m # n
    BY <1>1, <2>2
  <2> QED
    BY <2>1, <2>2, <2>3
<1> QED
  BY <1>2, <1>3, <1>4, <1>5 DEF a

\* Attaching timings changes nothing by which runs are told apart.
LEMMA AlikeMerged ==
  ASSUME NEW s \in Seq(Run), NEW u \in Seq(Run), NEW k \in DOMAIN s, NEW p \in Post
  PROVE  /\ Merged(s, k, p) \in Seq(Run)
         /\ Alike(s, u) => Alike(Merged(s, k, p), u)
         /\ Alike(u, s) => Alike(u, Merged(s, k, p))
         /\ Alike(s, s) => Alike(Merged(s, k, p), Merged(s, k, p))
<1> DEFINE w == Merged(s, k, p)
<1>1. s[k] \in Run
  OBVIOUS
<1>2. /\ WithTimings(s[k], p) \in Run /\ WithTimings(s[k], p).id = s[k].id
      /\ WithTimings(s[k], p).op = s[k].op /\ WithTimings(s[k], p).name = s[k].name
  BY <1>1 DEF WithTimings, Run, Post
<1>3. w = [s EXCEPT ![k] = WithTimings(s[k], p)]
  BY DEF Merged
<1>4. w \in Seq(Run) /\ DOMAIN w = DOMAIN s /\ Len(w) = Len(s) /\ DOMAIN s = 1..Len(s)
      /\ Len(s) \in Nat /\ Len(u) \in Nat /\ DOMAIN u = 1..Len(u)
  BY <1>2, <1>3
<1>5. \A j \in DOMAIN s : w[j].id = s[j].id /\ w[j].op = s[j].op /\ w[j].name = s[j].name
  BY <1>2, <1>3
<1> HIDE DEF w
<1>6. ASSUME NEW v \in Seq(Run), Alike(s, v)
      PROVE  Alike(w, v)
  <2>1. \A j \in DOMAIN w : \A m \in 1..(j - 1) : m \in DOMAIN s
    BY <1>4
  <2> QED
    BY <1>4, <1>5, <1>6, <2>1 DEF Alike
<1>7. ASSUME NEW v \in Seq(Run), Alike(v, s)
      PROVE  Alike(v, w)
  <2> SUFFICES ASSUME NEW j \in DOMAIN v, NEW i \in DOMAIN w, v[j].id = w[i].id
               PROVE  /\ v[j].op = w[i].op /\ v[j].name = w[i].name
                      /\ \A m \in 1..(j - 1), n \in i..Len(w) : v[m].id # w[n].id
    BY DEF Alike
  <2>1. i \in DOMAIN s /\ v[j].id = s[i].id
    BY <1>4, <1>5
  <2>2. /\ v[j].op = s[i].op /\ v[j].name = s[i].name
        /\ \A m \in 1..(j - 1), n \in i..Len(s) : v[m].id # s[n].id
    BY <1>7, <2>1 DEF Alike
  <2>3. \A n \in i..Len(w) : n \in DOMAIN s /\ n \in i..Len(s)
    BY <1>4
  <2> QED
    BY <1>5, <2>1, <2>2, <2>3
<1> QED
  BY <1>4, <1>6, <1>7 DEF w

(***************************************************************************)
(* The inductive invariant.                                                *)
(***************************************************************************)
Stamped == {"append", "write"}

\* Whatever a crash leaves of the file can be read in the place of the rest.
SurvivorsAlike == \A c, d \in log.survive : Alike(c.rows, d.rows)

\* The runs in the file have been stamped, and what was written behind an unterminated
\* line is not among them.
RunsWritten ==
  /\ \A i \in glued : i < next
  /\ \A c \in log.survive :
       (\A i \in Ids(c.rows) : i < next) /\ Ids(c.rows) \cap glued = {}

\* An append works on a draft with a timestamp within the bound, which is in no file
\* until it is written.
RunsStamped ==
  /\ next >= 1
  /\ \A t \in Threads :
       /\ pc[t] \in Appending => run[t].id \in 1..MaxRuns
       /\ pc[t] \in Stamped => /\ \E d \in Drafts : run[t] = Stamp(d, run[t].id)
                               /\ run[t].id \notin glued
                               /\ \A c \in log.survive : run[t].id \notin Ids(c.rows)

\* A rewrite has attached the timings of its post to the one run of the file it matches.
RewriteMerges ==
  \A t \in Threads :
    /\ pc[t] \in {"merge", "read"} \cup Rewriting => post[t] \in Posts
    /\ pc[t] \in Rewriting =>
         \E k \in DOMAIN log.data.rows :
           /\ Matches(log.data.rows, post[t]) = {k}
           /\ mem[t] = Merged(log.data.rows, k, post[t])

TableInv == SurvivorsAlike /\ RunsWritten /\ RunsStamped /\ RewriteMerges

LEMMA TableInvInit == Init => TableInv
<1>1. Empty.rows = <<>> /\ Ids(<<>>) = {} /\ Alike(<<>>, <<>>)
  BY DEF Empty, Ids, Alike
<1> SUFFICES ASSUME Init PROVE TableInv
  OBVIOUS
<1>2. log.survive = {Empty} /\ next = 1 /\ glued = {} /\ \A t \in Threads : pc[t] = "idle"
  BY DEF Init, Blank
<1> QED
  BY <1>1, <1>2 DEF TableInv, SurvivorsAlike, RunsWritten, RunsStamped, Stamped, RewriteMerges

\* A step of t that leaves the file alone, and does not bring t to a write or a rewrite it
\* was not at, preserves the invariant.
LEMMA Aside ==
  ASSUME TypeOK, TableInv, NEW t \in Threads, UNCHANGED <<log, next, glued>>,
         \A u \in Threads \ {t} :
           /\ pc'[u] = pc[u] /\ run'[u] = run[u]
           /\ post'[u] = post[u] /\ mem'[u] = mem[u],
         pc'[t] \in Appending => pc[t] \in Appending /\ run'[t] = run[t],
         pc'[t] \in Stamped => pc[t] \in Stamped,
         pc'[t] \in {"merge", "read"} \cup Rewriting => post'[t] \in Posts,
         pc'[t] \in Rewriting => pc[t] \in Rewriting /\ mem'[t] = mem[t] /\ post'[t] = post[t]
  PROVE  TableInv'
<1>1. SurvivorsAlike' /\ RunsWritten'
  BY DEF TableInv, SurvivorsAlike, RunsWritten
<1>2. RunsStamped'
  BY DEF TableInv, RunsStamped, Stamped
<1>3. RewriteMerges'
  BY DEF TableInv, RewriteMerges
<1> QED
  BY <1>1, <1>2, <1>3 DEF TableInv

\* What stays readable is a beginning of what was there.
LEMMA KeptPrefix ==
  ASSUME NEW c \in Content
  PROVE  /\ Kept(c) \in Seq(Run) /\ Len(Kept(c)) <= Len(c.rows)
         /\ \A i \in DOMAIN Kept(c) : Kept(c)[i] = c.rows[i]
<1>1. c.rows \in Seq(Run)
  BY DEF Content
<1>2. CASE c.tail = "whole" /\ c.rows # <<>>
  <2>1. Kept(c) = SubSeq(c.rows, 1, Len(c.rows) - 1) /\ Len(c.rows) > 0
    BY <1>1, <1>2 DEF Kept
  <2> QED
    BY <1>1, <2>1
<1>3. CASE c.tail = "whole" /\ c.rows = <<>>
  <2>1. Kept(c) = SubSeq(<<>>, 1, 0 - 1)
    BY <1>3 DEF Kept
  <2>2. Kept(c) = <<>>
    BY <2>1
  <2> QED
    BY <1>3, <2>2
<1>4. CASE c.tail # "whole"
  BY <1>1, <1>4 DEF Kept
<1> QED
  BY <1>2, <1>3, <1>4

\* The contents a write can leave, whole or torn: what was there, but for a last run
\* without its newline, and the new run behind it only if there was none such.
Outcomes(c, r) == TornWrites(c, r) \cup {AppendLine(c, r)}

LEMMA OutcomeRows ==
  ASSUME NEW c, NEW r, NEW d \in Outcomes(c, r)
  PROVE  \/ d.rows = c.rows
         \/ d.rows = Kept(c)
         \/ c.tail = "clean" /\ d.rows = Append(c.rows, r)
  BY DEF Outcomes, TornWrites, AppendLine

LEMMA WriteAlike ==
  ASSUME TypeOK, SafetyInv, TableInv, NEW t \in Threads, pc[t] = "write",
         NEW d \in Outcomes(log.data, run[t])
  PROVE  /\ \A c \in log.survive : Alike(d.rows, c.rows) /\ Alike(c.rows, d.rows)
         /\ \A e \in Outcomes(log.data, run[t]) : Alike(d.rows, e.rows)
         /\ Ids(d.rows) \subseteq Ids(log.data.rows) \cup {run[t].id}
         /\ log.data.tail # "clean" => Ids(d.rows) \subseteq Ids(log.data.rows)
<1> DEFINE a == log.data.rows
           k == Kept(log.data)
           r == run[t]
           b == Append(a, r)
<1>1. log.data \in Content /\ log.data \in log.survive /\ r \in Run /\ a \in Seq(Run)
      /\ \A c \in log.survive : c.rows \in Seq(Run)
  BY DEF TypeOK, File, Content, SafetyInv, Strengthening, DataSurvives
<1>2. \A c \in log.survive : r.id \notin Ids(c.rows)
  BY DEF TableInv, RunsStamped, Stamped
<1>3. \A c \in log.survive : Alike(a, c.rows) /\ Alike(c.rows, a)
  BY <1>1 DEF TableInv, SurvivorsAlike
<1>4. /\ k \in Seq(Run) /\ Len(k) <= Len(a) /\ \A i \in DOMAIN k : k[i] = a[i]
      /\ Ids(k) \subseteq Ids(a) /\ b \in Seq(Run) /\ Ids(b) = Ids(a) \cup {r.id}
      /\ log.data.tail = "clean" => k = a
  BY <1>1, KeptPrefix, KeptType, AppendIds DEF Kept
<1>5. \A e \in Outcomes(log.data, r) :
        e.rows = a \/ e.rows = k \/ (log.data.tail = "clean" /\ e.rows = b)
  BY OutcomeRows
<1> HIDE DEF a, k, b, r
<1>6. ASSUME NEW c \in log.survive
      PROVE  /\ Alike(a, c.rows) /\ Alike(k, c.rows) /\ Alike(b, c.rows)
             /\ Alike(c.rows, a) /\ Alike(c.rows, k) /\ Alike(c.rows, b)
  <2>1. Alike(k, c.rows) /\ Alike(c.rows, k)
    BY <1>1, <1>3, <1>4, AlikePrefix
  <2>2. Alike(b, c.rows) /\ Alike(c.rows, b)
    BY <1>1, <1>2, <1>3, AlikeAppend DEF a, b
  <2> QED
    BY <1>3, <2>1, <2>2
<1>7. /\ Alike(a, a) /\ Alike(a, k) /\ Alike(k, a) /\ Alike(k, k)
      /\ Alike(a, b) /\ Alike(b, a) /\ Alike(b, b)
  <2>1. Alike(a, a) /\ Alike(a, k) /\ Alike(k, a) /\ Alike(a, b) /\ Alike(b, a)
    BY <1>1, <1>6 DEF a
  <2>2. Alike(k, k)
    BY <1>1, <1>4, <2>1, AlikePrefix
  <2>3. Alike(b, b)
    BY <1>1, <1>2, <2>1, AlikeAppend DEF a, b
  <2> QED
    BY <2>1, <2>2, <2>3
<1>8. \A c \in log.survive : Alike(d.rows, c.rows) /\ Alike(c.rows, d.rows)
  BY <1>5, <1>6 DEF r
<1>9. \A e \in Outcomes(log.data, r) : Alike(d.rows, e.rows)
  BY <1>4, <1>5, <1>7 DEF r
<1>10. Ids(d.rows) \subseteq Ids(a) \cup {r.id}
       /\ (log.data.tail # "clean" => Ids(d.rows) \subseteq Ids(a))
  BY <1>4, <1>5 DEF r
<1> QED
  BY <1>8, <1>9, <1>10 DEF a, r

\* A write of t, whole or torn, keeps the invariant.
LEMMA WriteTable ==
  ASSUME TypeOK, SafetyInv, TableInv, NEW t \in Threads, pc[t] = "write",
         log'.data \in Outcomes(log.data, run[t]),
         log'.survive \subseteq log.survive \cup Outcomes(log.data, run[t]),
         glued' = glued \/ (log.data.tail # "clean" /\ glued' = glued \cup {run[t].id}),
         UNCHANGED <<run, post, mem, next>>,
         \A u \in Threads \ {t} : pc'[u] = pc[u],
         pc'[t] \in {"sync", "reply"}
  PROVE  TableInv'
<1>1. SurvivorsAlike'
  BY WriteAlike DEF TableInv, SurvivorsAlike
<1>2. run[t].id < next /\ run[t].id \notin glued /\ log.data \in log.survive
      /\ \A c \in log.survive : run[t].id \notin Ids(c.rows)
  BY DEF SafetyInv, Strengthening, FreshIds, DataSurvives, TableInv, RunsStamped, Stamped
<1>3. RunsWritten'
  <2>1. \A i \in glued' : i < next'
    BY <1>2 DEF TableInv, RunsWritten
  <2>2. ASSUME NEW c \in log'.survive
        PROVE  (\A i \in Ids(c.rows) : i < next) /\ Ids(c.rows) \cap glued' = {}
    <3>1. CASE c \in log.survive
      BY <1>2, <3>1 DEF TableInv, RunsWritten
    <3>2. CASE c \in Outcomes(log.data, run[t])
      BY <1>2, <3>2, WriteAlike DEF TableInv, RunsWritten
    <3> QED
      BY <3>1, <3>2
  <2> QED
    BY <2>1, <2>2 DEF RunsWritten
<1>4. RunsStamped'
  <2>1. ASSUME NEW u \in Threads, pc'[u] \in Stamped
        PROVE  run[u].id \notin glued' /\ \A c \in log'.survive : run[u].id \notin Ids(c.rows)
    <3>1. u # t /\ pc[u] \in Stamped /\ run[u].id # run[t].id
      BY <2>1 DEF Stamped, SafetyInv, Strengthening, FreshIds
    <3>2. run[u].id \notin glued /\ \A c \in log.survive : run[u].id \notin Ids(c.rows)
      BY <3>1 DEF TableInv, RunsStamped
    <3>3. \A c \in Outcomes(log.data, run[t]) : run[u].id \notin Ids(c.rows)
      BY <1>2, <3>1, <3>2, WriteAlike
    <3> QED
      BY <3>1, <3>2, <3>3
  <2>2. \A u \in Threads : /\ pc'[u] \in Appending => pc[u] \in Appending
                           /\ pc'[u] \in Stamped => pc[u] \in Stamped
    BY DEF Stamped
  <2> QED
    BY <2>1, <2>2 DEF TableInv, RunsStamped
<1>5. RewriteMerges'
  <2>1. \A u \in Threads : pc'[u] \notin Rewriting
    BY DEF TypeOK, MutexHeld, Critical
  <2> QED
    BY <2>1 DEF TableInv, RewriteMerges
<1> QED
  BY <1>1, <1>3, <1>4, <1>5 DEF TableInv

\* Every step keeps the invariant.
LEMMA TableStep == TypeOK /\ SafetyInv /\ TableInv /\ [Next]_vars => TableInv'
<1> SUFFICES ASSUME TypeOK, SafetyInv, TableInv, [Next]_vars PROVE TableInv'
  OBVIOUS
<1> USE DEF local, history, Goto, Unlock, Return, Stamped
<1>0. \A t, u \in Threads : pc[t] \in Critical /\ pc[u] \in Critical => t = u
  BY DEF TypeOK, MutexHeld
<1>1. ASSUME NEW t \in Threads, CallAppend(t) PROVE TableInv'
  <2>1. PICK d \in Drafts : run' = [run EXCEPT ![t] = Stamp(d, next)]
    BY <1>1 DEF CallAppend
  <2>2. /\ run'[t] = Stamp(d, next) /\ run'[t].id = next
        /\ next' = next + 1 /\ next \in Nat /\ next <= MaxRuns
        /\ pc'[t] = "append" /\ UNCHANGED <<log, post, mem, glued>>
        /\ \A u \in Threads \ {t} : pc'[u] = pc[u] /\ run'[u] = run[u]
    BY <1>1, <2>1 DEF TypeOK, CallAppend, Stamp
  <2>3. SurvivorsAlike'
    BY <2>2 DEF TableInv, SurvivorsAlike
  <2>4. glued \subseteq Nat /\ \A c \in log.survive : Ids(c.rows) \subseteq Nat
    <3>1. \A c \in log.survive : c.rows \in Seq(Run)
      BY DEF TypeOK, File, Content
    <3>2. ASSUME NEW c \in log.survive, NEW i \in DOMAIN c.rows
          PROVE  c.rows[i].id \in Nat
      <4>1. c.rows[i] \in Run
        BY <3>1
      <4> QED
        BY <4>1 DEF Run
    <3> QED
      BY <3>2 DEF TypeOK, Ids
  <2>5. RunsWritten'
    BY <2>2, <2>4 DEF TableInv, RunsWritten
  <2>6. next \notin glued /\ \A c \in log.survive : next \notin Ids(c.rows)
    BY <2>2, <2>4 DEF TableInv, RunsWritten
  <2>7. next \in 1..MaxRuns /\ next' >= 1
    BY <2>2, BoundsAssumption DEF TableInv, RunsStamped
  <2>8. RunsStamped'
    BY <2>2, <2>6, <2>7 DEF TableInv, RunsStamped
  <2>9. RewriteMerges'
    BY <2>2 DEF TableInv, RewriteMerges
  <2> QED
    BY <2>3, <2>5, <2>8, <2>9 DEF TableInv
<1>2. ASSUME NEW t \in Threads, AppendWrite(t) PROVE TableInv'
  <2>1. /\ pc[t] = "write" /\ pc'[t] = "sync"
        /\ log'.data = AppendLine(log.data, run[t])
        /\ log'.survive = log.survive \cup TornWrites(log.data, run[t])
                            \cup {AppendLine(log.data, run[t])}
        /\ glued' = IF log.data.tail = "clean" THEN glued ELSE glued \cup {run[t].id}
        /\ UNCHANGED <<run, post, mem, next>>
        /\ \A u \in Threads \ {t} : pc'[u] = pc[u]
    BY <1>2 DEF TypeOK, AppendWrite
  <2> QED
    BY <2>1, WriteTable DEF Outcomes
<1>3. ASSUME NEW t \in Threads, AppendShort(t) PROVE TableInv'
  <2>1. /\ pc[t] = "write" /\ pc'[t] = "reply"
        /\ log'.data \in TornWrites(log.data, run[t])
        /\ log'.survive = log.survive \cup TornWrites(log.data, run[t])
        /\ UNCHANGED <<run, post, mem, next, glued>>
        /\ \A u \in Threads \ {t} : pc'[u] = pc[u]
    BY <1>3 DEF TypeOK, AppendShort
  <2> QED
    BY <2>1, WriteTable DEF Outcomes
<1>4. ASSUME NEW t \in Threads, AppendSync(t) PROVE TableInv'
  <2>1. /\ pc[t] = "sync" /\ pc'[t] = "reply"
        /\ log'.data = log.data /\ log'.survive = {log.data} /\ log.data \in log.survive
        /\ UNCHANGED <<run, post, mem, next, glued>>
        /\ \A u \in Threads \ {t} : pc'[u] = pc[u]
    BY <1>4 DEF TypeOK, AppendSync, Fsync, SafetyInv, Strengthening, DataSurvives
  <2>2. SurvivorsAlike' /\ RunsWritten'
    BY <2>1 DEF TableInv, SurvivorsAlike, RunsWritten
  <2>3. RunsStamped'
    BY <2>1 DEF TableInv, RunsStamped
  <2>4. RewriteMerges'
    BY <2>1 DEF TableInv, RewriteMerges
  <2> QED
    BY <2>2, <2>3, <2>4 DEF TableInv
<1>5. ASSUME NEW t \in Threads, MergeRead(t) PROVE TableInv'
  <2>1. PICK k \in DOMAIN log.data.rows :
          /\ Matches(log.data.rows, post[t]) = {k}
          /\ mem' = [mem EXCEPT ![t] = Merged(log.data.rows, k, post[t])]
    BY <1>5 DEF MergeRead
  <2>2. /\ pc[t] = "read" /\ pc'[t] = "rewrite"
        /\ mem'[t] = Merged(log.data.rows, k, post[t])
        /\ UNCHANGED <<log, run, post, next, glued>>
        /\ \A u \in Threads \ {t} : pc'[u] = pc[u] /\ mem'[u] = mem[u]
    BY <1>5, <2>1 DEF TypeOK, MergeRead
  <2>3. SurvivorsAlike' /\ RunsWritten'
    BY <2>2 DEF TableInv, SurvivorsAlike, RunsWritten
  <2>4. RunsStamped'
    BY <2>2 DEF TableInv, RunsStamped
  <2>5. RewriteMerges'
    BY <2>1, <2>2 DEF TableInv, RewriteMerges
  <2> QED
    BY <2>3, <2>4, <2>5 DEF TableInv
<1>6. ASSUME NEW t \in Threads, MergeRename(t) PROVE TableInv'
  <2>1. /\ pc[t] = "rename" /\ pc'[t] = "reply"
        /\ log'.data = tmp.data /\ log'.survive = tmp.survive \cup log.survive
        /\ UNCHANGED <<run, post, mem, next, glued>>
        /\ \A u \in Threads \ {t} : pc'[u] = pc[u]
    BY <1>6 DEF TypeOK, MergeRename, Rename
  <2>2. tmp.survive = {tmp.data} /\ tmp.data.rows = mem[t]
    <3>1. tmp.survive = {tmp.data} /\ tmp.data = [rows |-> mem[t], tail |-> "clean"]
      BY <2>1 DEF SafetyInv, Strengthening, MergeKeeps
    <3> QED
      BY <3>1
  <2>3. PICK k \in DOMAIN log.data.rows : mem[t] = Merged(log.data.rows, k, post[t])
    BY <2>1 DEF TableInv, RewriteMerges
  <2>4. /\ log.data \in log.survive /\ post[t] \in Post /\ log.data.rows \in Seq(Run)
        /\ \A c \in log.survive : c.rows \in Seq(Run)
    BY DEF TypeOK, File, Content, SafetyInv, Strengthening, DataSurvives
  <2>5. \A c \in log.survive : Alike(log.data.rows, c.rows) /\ Alike(c.rows, log.data.rows)
    BY <2>4 DEF TableInv, SurvivorsAlike
  <2>6. /\ \A c \in log.survive : Alike(mem[t], c.rows) /\ Alike(c.rows, mem[t])
        /\ Alike(mem[t], mem[t])
    BY <2>3, <2>4, <2>5, AlikeMerged
  <2>7. Ids(mem[t]) = Ids(log.data.rows)
    BY <2>3, <2>4, MergedType
  <2>8. SurvivorsAlike'
    BY <2>1, <2>2, <2>6 DEF TableInv, SurvivorsAlike
  <2>9. RunsWritten'
    BY <2>1, <2>2, <2>4, <2>7 DEF TableInv, RunsWritten
  <2>10. RunsStamped'
    BY <2>1, <2>2, <2>4, <2>7 DEF TableInv, RunsStamped
  <2>11. \A u \in Threads \ {t} : pc'[u] \notin Critical
    BY <1>0, <2>1 DEF Critical
  <2>12. RewriteMerges'
    BY <2>1, <2>11 DEF TableInv, RewriteMerges, Critical
  <2> QED
    BY <2>8, <2>9, <2>10, <2>12 DEF TableInv
<1>7. CASE Crash
  <2>1. PICK c \in log.survive : log' = [data |-> c, survive |-> {c}]
    BY <1>7 DEF Crash
  <2>2. (\A t \in Threads : pc'[t] = "idle") /\ UNCHANGED <<next, glued>>
    BY <1>7 DEF Crash
  <2>3. SurvivorsAlike' /\ RunsWritten'
    BY <2>1, <2>2 DEF TableInv, SurvivorsAlike, RunsWritten
  <2>4. RunsStamped' /\ RewriteMerges'
    BY <2>2 DEF TableInv, RunsStamped, RewriteMerges
  <2> QED
    BY <2>3, <2>4 DEF TableInv
<1>8. ASSUME NEW t \in Threads, CallMerge(t) \/ CallRead(t) PROVE TableInv'
  <2>1. /\ UNCHANGED <<log, next, glued, run, mem>>
        /\ \A u \in Threads \ {t} : pc'[u] = pc[u] /\ post'[u] = post[u]
        /\ pc'[t] \in {"merge", "list"} /\ (pc'[t] = "merge" => post'[t] \in Posts)
    <3>1. CASE CallMerge(t)
      BY <3>1 DEF TypeOK, CallMerge, Goto
    <3>2. CASE CallRead(t)
      BY <3>2 DEF TypeOK, CallRead, Goto, local
    <3> QED
      BY <1>8, <3>1, <3>2
  <2>2. pc'[t] \notin Appending /\ pc'[t] \notin Stamped /\ pc'[t] \notin Rewriting
    BY <2>1 DEF Stamped
  <2>3. pc'[t] = "read" => FALSE
    BY <2>1
  <2> QED
    BY <2>1, <2>2, <2>3, Aside
<1>9. ASSUME NEW t \in Threads, TakeMutex(t) PROVE TableInv'
  <2>1. CASE AppendLock(t) \/ ReadLock(t)
    BY <2>1, Aside DEF TypeOK, AppendLock, ReadLock, Lock
  <2>2. CASE MergeLock(t)
    <3>1. pc[t] = "merge" /\ post[t] \in Posts
      BY <2>2 DEF MergeLock, Lock, TableInv, RewriteMerges
    <3> QED
      BY <2>2, <3>1, Aside DEF TypeOK, MergeLock, Lock
  <2> QED
    BY <1>9, <2>1, <2>2 DEF TakeMutex
<1>10. ASSUME NEW t \in Threads,
              \/ AppendOpenFails(t) \/ AppendSyncFails(t) \/ MergeReadFails(t)
              \/ MergeRefuse(t) \/ ReadFails(t) \/ ReadPage(t)
       PROVE  TableInv'
  BY <1>10, Aside DEF TypeOK, AppendOpenFails, AppendSyncFails, MergeReadFails,
       MergeRefuse, ReadFails, ReadPage
<1>11. ASSUME NEW t \in Threads, MergeWriteFails(t) \/ Reply(t) PROVE TableInv'
  BY <1>11, Aside DEF TypeOK, MergeWriteFails, Reply
<1>12. ASSUME NEW t \in Threads, MergeRewrite(t) \/ MergeSync(t) PROVE TableInv'
  <2>1. pc[t] \in Rewriting /\ post[t] \in Posts
    BY <1>12 DEF MergeRewrite, MergeSync, TableInv, RewriteMerges
  <2> QED
    BY <1>12, <2>1, Aside DEF TypeOK, MergeRewrite, MergeSync
<1>13. CASE UNCHANGED vars
  BY <1>13 DEF vars, TableInv, SurvivorsAlike, RunsWritten, RunsStamped, RewriteMerges
<1> QED
  BY <1>1, <1>2, <1>3, <1>4, <1>5, <1>6, <1>7, <1>8, <1>9, <1>10, <1>11, <1>12,
     <1>13 DEF Next, Call, Step

\* Whatever a crash leaves of the log can be read in the place of the rest, a draft is in
\* no file before it is written, and a rewrite has merged into the one run its post matches.
THEOREM TableInvariant == Spec => [](TypeOK /\ SafetyInv /\ TableInv)
<1>1. Init => TypeOK /\ SafetyInv /\ TableInv
  BY TypeInit, SafetyInit, TableInvInit
<1>2. TypeOK /\ SafetyInv /\ TableInv /\ [Next]_vars => (TypeOK /\ SafetyInv /\ TableInv)'
  BY TypeStep, SafetyStep, TableStep
<1> QED
  BY <1>1, <1>2, PTL DEF Spec

\* Whatever merges, failed writes and restarts did, no run is in the file twice, nor in
\* anything that a crash can leave of it.
THEOREM NoDuplicates == Spec => []NoDuplicateRuns
<1>1. TypeOK /\ SafetyInv /\ TableInv => NoDuplicateRuns
  <2> SUFFICES ASSUME TypeOK, SafetyInv, TableInv, NEW c \in log.survive \cup {log.data},
                      NEW j \in DOMAIN c.rows, NEW k \in DOMAIN c.rows,
                      c.rows[j].id = c.rows[k].id
               PROVE  j = k
    BY DEF NoDuplicateRuns
  <2>1. c \in log.survive /\ c.rows \in Seq(Run)
    BY DEF SafetyInv, Strengthening, DataSurvives, TypeOK, File, Content
  <2>2. Alike(c.rows, c.rows)
    BY <2>1 DEF TableInv, SurvivorsAlike
  <2> QED
    BY <2>1, <2>2, AlikeDistinct
<1> QED
  BY <1>1, TableInvariant, PTL

(***************************************************************************)
(* Pages.                                                                  *)
(***************************************************************************)
\* A page has at most the runs there are, and one that is as long has them all.
LEMMA PageIds ==
  ASSUME NEW s \in Seq(Run), NEW limit \in Limits
  PROVE  /\ Len(PageOf(s, limit)) <= Len(s)
         /\ Len(PageOf(s, limit)) = Len(s) => Ids(PageOf(s, limit)) = Ids(s)
<1> DEFINE v == Reverse(s)
           n == IF limit < Len(s) THEN limit ELSE Len(s)
<1>1. limit \in Nat /\ Len(s) \in Nat /\ DOMAIN s = 1..Len(s)
  BY LimitsAssumption
<1>2. /\ v \in Seq(Run) /\ Len(v) = Len(s) /\ DOMAIN v = 1..Len(s)
      /\ \A i \in 1..Len(s) : v[i] = s[(Len(s) - i) + 1]
  <2>1. v \in [1..Len(s) -> Run]
    BY <1>1 DEF Reverse
  <2>2. v \in Seq(Run) /\ Len(v) = Len(s) /\ DOMAIN v = 1..Len(s)
    BY <1>1, <2>1
  <2> QED
    BY <1>1, <2>2 DEF Reverse
<1>3. PageOf(s, limit) = SubSeq(v, 1, n)
  BY DEF PageOf
<1>4. n \in Nat /\ n <= Len(s)
  BY <1>1
<1> HIDE DEF v, n
<1>5. Len(SubSeq(v, 1, n)) = n
  BY <1>2, <1>4
<1>6. ASSUME n = Len(s)
      PROVE  Ids(SubSeq(v, 1, n)) = Ids(s)
  <2>1. SubSeq(v, 1, n) = v
    BY <1>2, <1>4, <1>6
  <2>2. \A i \in DOMAIN v : (Len(s) - i) + 1 \in DOMAIN s /\ v[i].id = s[(Len(s) - i) + 1].id
    BY <1>1, <1>2
  <2>3. \A i \in DOMAIN s : (Len(s) - i) + 1 \in DOMAIN v /\ s[i].id = v[(Len(s) - i) + 1].id
    <3> SUFFICES ASSUME NEW i \in DOMAIN s
                 PROVE  (Len(s) - i) + 1 \in DOMAIN v /\ s[i].id = v[(Len(s) - i) + 1].id
      OBVIOUS
    <3>1. (Len(s) - i) + 1 \in 1..Len(s) /\ (Len(s) - ((Len(s) - i) + 1)) + 1 = i
      BY <1>1
    <3> QED
      BY <1>2, <3>1
  <2>4. Ids(v) \subseteq Ids(s)
    BY <2>2 DEF Ids
  <2>5. Ids(s) \subseteq Ids(v)
    BY <2>3 DEF Ids
  <2> QED
    BY <2>1, <2>4, <2>5
<1> QED
  BY <1>3, <1>4, <1>5, <1>6

\* What a reader is owed is acknowledged, and a page that says it is complete has it.
PageInv ==
  \A t \in Threads :
    /\ pc[t] \in {"list", "page"} => due[t] \subseteq acked
    /\ pc[t] = "reply" /\ answer[t].status = "page" =>
         /\ answer[t].total >= Len(answer[t].rows)
         /\ answer[t].total = Len(answer[t].rows) => due[t] \ glued \subseteq Ids(answer[t].rows)

\* A step of t towards anything but a read or a page.
LEMMA OffPage ==
  ASSUME PageInv, NEW t \in Threads, acked \subseteq acked', glued \subseteq glued',
         \A u \in Threads \ {t} : pc'[u] = pc[u] /\ answer'[u] = answer[u] /\ due'[u] = due[u],
         pc'[t] \notin {"list", "page"},
         pc'[t] = "reply" => answer'[t].status # "page"
  PROVE  PageInv'
  BY DEF PageInv

LEMMA PageStep ==
  TypeOK /\ SafetyInv /\ PageInv /\ [Next]_vars => PageInv'
<1> SUFFICES ASSUME TypeOK, SafetyInv, PageInv, [Next]_vars PROVE PageInv'
  OBVIOUS
<1> USE DEF local, history, Goto, Unlock, Return
<1>0. \A s \in {"ok", "error", "no match", "ambiguous"} : Status(s).status # "page"
  BY DEF Status
<1>1. ASSUME NEW t \in Threads,
             \/ CallAppend(t) \/ CallMerge(t) \/ AppendLock(t) \/ MergeLock(t)
             \/ AppendWrite(t) \/ MergeRead(t) \/ MergeRewrite(t) \/ MergeSync(t) \/ Reply(t)
      PROVE  PageInv'
  BY <1>1, OffPage DEF TypeOK, CallAppend, CallMerge, AppendLock, MergeLock, Lock, AppendWrite,
       MergeRead, MergeRewrite, MergeSync, Reply
<1>2. ASSUME NEW t \in Threads,
             \/ AppendOpenFails(t) \/ AppendShort(t) \/ AppendSync(t) \/ AppendSyncFails(t)
             \/ MergeReadFails(t) \/ MergeRefuse(t) \/ MergeRename(t) \/ MergeWriteFails(t)
             \/ ReadFails(t)
      PROVE  PageInv'
  <2>1. pc'[t] = "reply" /\ answer'[t].status # "page"
    BY <1>0, <1>2 DEF TypeOK, AppendOpenFails, AppendShort, AppendSync, AppendSyncFails,
         MergeReadFails, MergeRefuse, MergeRename, MergeWriteFails, ReadFails
  <2>2. /\ acked \subseteq acked' /\ UNCHANGED <<glued, due>>
        /\ \A u \in Threads \ {t} : pc'[u] = pc[u] /\ answer'[u] = answer[u]
    BY <1>2 DEF TypeOK, AppendOpenFails, AppendShort, AppendSync, AppendSyncFails,
         MergeReadFails, MergeRefuse, MergeRename, MergeWriteFails, ReadFails
  <2> QED
    BY <2>1, <2>2, OffPage
<1>3. ASSUME NEW t \in Threads, CallRead(t) \/ ReadLock(t)
      PROVE  PageInv'
  BY <1>3 DEF TypeOK, PageInv, CallRead, ReadLock, Lock
<1>4. ASSUME NEW t \in Threads, ReadPage(t)
      PROVE  PageInv'
  <2>1. PICK limit \in Limits :
          Return(t, [status |-> "page", rows |-> PageOf(log.data.rows, limit),
                     total |-> Len(log.data.rows)])
    BY <1>4 DEF ReadPage
  <2>2. /\ pc[t] = "page" /\ pc'[t] = "reply"
        /\ answer'[t].rows = PageOf(log.data.rows, limit)
        /\ answer'[t].total = Len(log.data.rows)
        /\ UNCHANGED <<acked, glued, due>>
        /\ \A u \in Threads \ {t} : pc'[u] = pc[u] /\ answer'[u] = answer[u]
    BY <1>4, <2>1 DEF TypeOK, ReadPage
  <2>3. log.data.rows \in Seq(Run) /\ log.data \in log.survive
    BY DEF TypeOK, File, Content, SafetyInv, Strengthening, DataSurvives
  <2>4. acked \ glued \subseteq Ids(log.data.rows) /\ due[t] \subseteq acked
    BY <2>2 DEF SafetyInv, AckedLostOnlyByGlue, PageInv
  <2>5. Len(log.data.rows) \in Nat /\ Len(PageOf(log.data.rows, limit)) \in Nat
    BY <2>3, PageType
  <2> QED
    BY <2>2, <2>3, <2>4, <2>5, PageIds DEF PageInv
<1>5. CASE Crash
  BY <1>5 DEF Crash, PageInv
<1>6. CASE UNCHANGED vars
  BY <1>6 DEF vars, PageInv
<1> QED
  BY <1>1, <1>2, <1>3, <1>4, <1>5, <1>6 DEF Next, Call, TakeMutex, Step

\* However appends, merges and restarts fall around a read, a page that does not say it
\* is truncated has every run acknowledged before the read was called, but for the runs
\* that an unterminated line took.
THEOREM PagesComplete == Spec => []PageComplete
<1>1. Init => PageInv
  BY DEF Init, PageInv
<1>2. PageInv => PageComplete
  BY DEF PageInv, PageComplete
<1> QED
  BY <1>1, <1>2, PageStep, TableInvariant, PTL DEF Spec

(***************************************************************************)
(* The log implements the table of runs.                                   *)
(***************************************************************************)
\* A restart reads one of the survivors in the place of the file.
LEMMA CrashRestarts ==
  ASSUME TypeOK, SafetyInv, TableInv, Crash
  PROVE  Table!Restart
<1>1. PICK c \in log.survive : log' = [data |-> c, survive |-> {c}]
  BY DEF Crash
<1>2. log.data \in log.survive
  BY DEF SafetyInv, Strengthening, DataSurvives
<1>3. Alike(log.data.rows, c.rows)
  BY <1>2 DEF TableInv, SurvivorsAlike
<1>4. acked \cap Ids(log.data.rows) \subseteq Ids(c.rows)
  <2>1. acked \ glued \subseteq Ids(c.rows)
    BY DEF SafetyInv, AckedLostOnlyByGlue
  <2>2. Ids(log.data.rows) \cap glued = {}
    BY <1>2 DEF TableInv, RunsWritten
  <2> QED
    BY <2>1, <2>2
<1>5. log'.data.rows = c.rows /\ crashes' = crashes + 1 /\ acked' = acked
  BY <1>1 DEF Crash
<1> QED
  BY <1>3, <1>4, <1>5 DEF Table!Restart, Alike, Table!Ids, Ids

\* A write, whole or torn, adds the run, drops an unacknowledged last run that had no
\* newline, or changes no run.
LEMMA WriteAddsOrDrops ==
  ASSUME TypeOK, SafetyInv, TableInv, NEW t \in Threads, pc[t] = "write",
         log'.data \in Outcomes(log.data, run[t]), acked' = acked
  PROVE  Table!Add \/ Table!Drop \/ log'.data.rows = log.data.rows
<1>1. log.data \in log.survive /\ log.data.rows \in Seq(Run)
  BY DEF SafetyInv, Strengthening, DataSurvives, TypeOK, File, Content
<1>2. CASE log.data.tail = "clean" /\ log'.data.rows = Append(log.data.rows, run[t])
  <2>1. PICK d \in Drafts : run[t] = Stamp(d, run[t].id)
    BY DEF TableInv, RunsStamped, Stamped
  <2>2. run[t].id \in 1..MaxRuns /\ run[t].id \notin Ids(log.data.rows) \cup acked
    BY <1>1 DEF TableInv, RunsStamped, Stamped, SafetyInv, Strengthening, FreshIds
  <2> QED
    BY <1>2, <2>1, <2>2 DEF Table!Add, Table!Ids, Ids, Table!Stamp, Stamp
<1>3. CASE log'.data.rows = Kept(log.data) /\ log.data.tail = "whole"
  <2>1. log.data.rows # <<>> /\ log.data.rows[Len(log.data.rows)].id \notin acked
    BY <1>1, <1>3 DEF SafetyInv, Strengthening, LastUnacked
  <2> QED
    BY <1>3, <2>1 DEF Table!Drop, Kept
<1>4. CASE log'.data.rows = Kept(log.data) /\ log.data.tail # "whole"
  BY <1>4 DEF Kept
<1>5. CASE log'.data.rows = log.data.rows
  BY <1>5
<1> QED
  BY <1>2, <1>3, <1>4, <1>5, OutcomeRows

\* The rename of a rewrite attaches the timings of its post to the run it addresses.
LEMMA RenameAttaches ==
  ASSUME TypeOK, SafetyInv, TableInv, NEW t \in Threads, MergeRename(t)
  PROVE  \E p \in Posts : Table!Attach(p)
<1> DEFINE s == log.data.rows
           p == post[t]
<1>1. pc[t] = "rename" /\ log'.data = tmp.data /\ acked' = acked
  BY DEF MergeRename, Rename, history
<1>2. tmp.data = [rows |-> mem[t], tail |-> "clean"]
  BY <1>1 DEF SafetyInv, Strengthening, MergeKeeps
<1>3. log'.data.rows = mem[t]
  BY <1>1, <1>2
<1>4. p \in Posts /\ p \in Post
  BY <1>1, PostsAssumption DEF TableInv, RewriteMerges
<1>5. PICK k \in DOMAIN s : Matches(s, p) = {k} /\ mem[t] = Merged(s, k, p)
  BY <1>1 DEF TableInv, RewriteMerges
<1>6. s \in Seq(Run) /\ s[k] \in Run
  BY <1>5 DEF TypeOK, File, Content
<1>7. mem[t] = [s EXCEPT ![k] = WithTimings(s[k], p)]
  BY <1>5 DEF Merged
<1>8. \A j \in DOMAIN s : Table!Addresses(p, s[j]) <=> j = k
  BY <1>5 DEF Table!Addresses, Matches
<1>9. Table!Attached(s[k], WithTimings(s[k], p), p)
  <2>1. p.exp # 0 => s[k].exp = p.exp /\ s[k].idx = p.idx
    BY <1>5 DEF Matches
  <2> QED
    BY <1>4, <1>6, <2>1 DEF Table!Attached, WithTimings, Run, Post
<1> HIDE DEF s, p
<1>10. /\ mem[t][k] = WithTimings(s[k], p) /\ DOMAIN mem[t] = DOMAIN s
       /\ \A j \in DOMAIN s \ {k} : mem[t][j] = s[j]
  BY <1>6, <1>7
<1>11. Table!Attach(p)
  BY <1>1, <1>3, <1>5, <1>8, <1>9, <1>10 DEF Table!Attach, s
<1> QED
  BY <1>4, <1>11

\* The other steps leave the runs of the file as they are, and acknowledge one at most.
LEMMA StepImplements ==
  ASSUME TypeOK, SafetyInv, TableInv, [Next]_vars
  PROVE  [Table!TableNext]_<<log.data.rows, acked, crashes>>
<1> USE DEF local, history
<1>1. CASE Crash
  BY <1>1, CrashRestarts DEF Table!TableNext
<1>2. ASSUME NEW t \in Threads, AppendWrite(t) \/ AppendShort(t)
      PROVE  [Table!TableNext]_<<log.data.rows, acked, crashes>>
  <2>1. /\ pc[t] = "write" /\ acked' = acked /\ crashes' = crashes
        /\ log'.data \in Outcomes(log.data, run[t])
    BY <1>2 DEF AppendWrite, AppendShort, Outcomes
  <2> QED
    BY <2>1, WriteAddsOrDrops DEF Table!TableNext
<1>3. ASSUME NEW t \in Threads, AppendSync(t)
      PROVE  [Table!TableNext]_<<log.data.rows, acked, crashes>>
  <2>1. /\ pc[t] = "sync" /\ acked' = acked \cup {run[t].id} /\ crashes' = crashes
        /\ log'.data.rows = log.data.rows
    BY <1>3 DEF AppendSync, Fsync
  <2>2. run[t].id \in 1..MaxRuns
    BY <2>1 DEF TableInv, RunsStamped
  <2> QED
    BY <2>1, <2>2 DEF Table!TableNext, Table!Acknowledge
<1>4. ASSUME NEW t \in Threads, MergeRename(t)
      PROVE  [Table!TableNext]_<<log.data.rows, acked, crashes>>
  <2>1. crashes' = crashes
    BY <1>4 DEF MergeRename
  <2> QED
    BY <1>4, <2>1, RenameAttaches DEF Table!TableNext
<1>5. ASSUME NEW t \in Threads, Call(t) \/ TakeMutex(t)
      PROVE  UNCHANGED <<log.data.rows, acked, crashes>>
  BY <1>5 DEF Call, CallAppend, CallMerge, CallRead, TakeMutex, AppendLock, MergeLock,
       ReadLock, Lock
<1>6. ASSUME NEW t \in Threads,
             \/ AppendOpenFails(t) \/ AppendSyncFails(t) \/ MergeReadFails(t)
             \/ MergeRefuse(t) \/ MergeRead(t) \/ MergeRewrite(t) \/ MergeSync(t)
             \/ MergeWriteFails(t) \/ ReadFails(t) \/ ReadPage(t) \/ Reply(t)
      PROVE  UNCHANGED <<log.data.rows, acked, crashes>>
  BY <1>6 DEF AppendOpenFails, AppendSyncFails, MergeReadFails, MergeRefuse, MergeRead,
       MergeRewrite, MergeSync, MergeWriteFails, ReadFails, ReadPage, Reply
<1>7. CASE UNCHANGED vars
  BY <1>7 DEF vars
<1> QED
  BY <1>1, <1>2, <1>3, <1>4, <1>5, <1>6, <1>7 DEF Next, Step

\* What the log does, seen through the runs that its file holds, is what the table of runs
\* promises: each write, rename and restart is one of its steps, and no other step shows.
THEOREM LogImplementsTable == Spec => ImplementsRunTable
<1>1. Init => Table!TableInit
  BY DEF Init, Blank, Empty, Table!TableInit
<1>2. TypeOK /\ SafetyInv /\ TableInv /\ [Next]_vars
        => [Table!TableNext]_<<log.data.rows, acked, crashes>>
  BY StepImplements
<1> QED
  BY <1>1, <1>2, TableInvariant, PTL DEF Spec, ImplementsRunTable, Table!Spec
=============================================================================
