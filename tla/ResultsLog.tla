------------------------------- MODULE ResultsLog -------------------------------
(***************************************************************************)
(* The results log (internal/results/log.go): one JSON-lines file on the   *)
(* data volume, shared by every request goroutine.                         *)
(*                                                                         *)
(*   Append             stamps a run, takes the mutex, writes one line at  *)
(*                      the end of the file and fsyncs it;                 *)
(*   MergeClientTimings reads the whole file, attaches curl timings to the *)
(*                      one matching run and replaces the file (temporary  *)
(*                      file, fsync, rename);                              *)
(*   ReadNewestPage     reads the whole file and returns the newest runs.  *)
(*                                                                         *)
(* A write can stop short (a full volume), a system call can fail, and the *)
(* node can stop at any step.  Each state change of the file is a step of  *)
(* its own; the mutex is the variable mu.                                  *)
(***************************************************************************)
EXTENDS Runs, FiniteSets, SequencesExt

CONSTANTS
  Threads,     \* request goroutines
  Drafts,      \* the runs the handlers record
  Posts,       \* the client timings the handlers accept
  Limits,      \* page sizes a reader asks for
  MaxRuns,     \* bound on the calls of Append
  MaxCrashes,  \* bound on the crashes of the node
  Free         \* the mutex has no holder

ASSUME DraftsAssumption  == Drafts \subseteq Draft
ASSUME PostsAssumption   == Posts \subseteq Post
ASSUME LimitsAssumption  == Limits \subseteq Nat \ {0}
ASSUME BoundsAssumption  == MaxRuns \in Nat /\ MaxCrashes \in Nat
ASSUME ThreadsAssumption == Free \notin Threads

(***************************************************************************)
(* The bytes of a log file.  rows are the runs a reader finds; tail says   *)
(* how the file ends: "clean" after a newline, "whole" after a complete    *)
(* last run that lacks its newline, "fragment" after a part of a line.     *)
(* Terminated lines that do not parse are skipped by every reader and are  *)
(* left out.                                                               *)
(***************************************************************************)
Content == [rows: Seq(Run), tail: {"clean", "whole", "fragment"}]
Empty   == [rows |-> <<>>, tail |-> "clean"]

\* The runs that stay readable once more bytes follow the last one: two runs on
\* one line do not parse.
Kept(c) == IF c.tail = "whole" THEN SubSeq(c.rows, 1, Len(c.rows) - 1)
                               ELSE c.rows

\* A whole line written at the end: it is a line of its own only behind a newline.
AppendLine(c, r) ==
  [rows |-> IF c.tail = "clean" THEN Append(c.rows, r) ELSE Kept(c),
   tail |-> "clean"]

\* What a write of r that stopped short can leave.
TornWrites(c, r) ==
  {c, [rows |-> Kept(c), tail |-> "fragment"]}
    \cup (IF c.tail = "clean"
          THEN {[rows |-> Append(c.rows, r), tail |-> "whole"]}
          ELSE {})

(***************************************************************************)
(* A file is the contents the program sees and the contents a crash can    *)
(* leave in their place: until an fsync returns, any part of what was      *)
(* written since the last one.  An fsync of a renamed file also makes the  *)
(* rename durable.                                                         *)
(***************************************************************************)
File == [data: Content, survive: SUBSET Content]

Blank       == [data |-> Empty, survive |-> {Empty}]
Fsync(f)    == [data |-> f.data, survive |-> {f.data}]
Rename(f, old) == [data |-> f.data, survive |-> f.survive \cup old.survive]

\* reverse, then runs[:limit]
PageOf(s, limit) == SubSeq(Reverse(s), 1, IF limit < Len(s) THEN limit ELSE Len(s))

-----------------------------------------------------------------------------
VARIABLES
  log,      \* the results file
  tmp,      \* the temporary file of a rewrite
  mu,       \* holder of Logger.mu
  pc,       \* where each goroutine is
  run,      \* its argument of Append
  post,     \* its argument of MergeClientTimings
  mem,      \* the runs a merge has read and changed
  answer,   \* what its call returns
  next,     \* the clock: the next timestamp
  crashes,  \* crashes so far
  acked,    \* history: ids of the runs whose Append returned without an error
  glued,    \* history: ids of the runs written behind an unterminated line
  due       \* history: what was acked when the goroutine's read began

vars == <<log, tmp, mu, pc, run, post, mem, answer, next, crashes,
          acked, glued, due>>

local   == <<run, post, mem>>
history == <<acked, glued, due>>

PC == {"idle", "append", "write", "sync",
       "merge", "read", "rewrite", "syncTmp", "rename",
       "list", "page", "reply"}

\* The program points at which a goroutine holds the mutex.
Critical == {"write", "sync", "read", "rewrite", "syncTmp", "rename", "page"}

NoRun    == [id |-> 0, op |-> "", name |-> 0, exp |-> 0, idx |-> 0,
             client |-> 0, hs |-> 0]
NoPost   == [op |-> "", name |-> 0, exp |-> 0, idx |-> 0,
             phases |-> 0, hs |-> 0]
Statuses == {"none", "ok", "error", "no match", "ambiguous", "page"}
Answer   == [status: Statuses, rows: Seq(Run), total: Nat]
NoAnswer == [status |-> "none", rows |-> <<>>, total |-> 0]
Status(s) == [status |-> s, rows |-> <<>>, total |-> 0]

Init ==
  /\ log = Blank /\ tmp = Blank
  /\ mu = Free
  /\ pc = [t \in Threads |-> "idle"]
  /\ run = [t \in Threads |-> NoRun]
  /\ post = [t \in Threads |-> NoPost]
  /\ mem = [t \in Threads |-> <<>>]
  /\ answer = [t \in Threads |-> NoAnswer]
  /\ next = 1 /\ crashes = 0
  /\ acked = {} /\ glued = {}
  /\ due = [t \in Threads |-> {}]

-----------------------------------------------------------------------------
Return(t, a) == /\ pc' = [pc EXCEPT ![t] = "reply"]
                /\ answer' = [answer EXCEPT ![t] = a]
Unlock       == mu' = Free
Goto(t, l)   == pc' = [pc EXCEPT ![t] = l]

\* Mutation: the mutex does not exclude.
Bug_Lock(t, from, to) ==
  /\ pc[t] = from /\ mu' = t /\ Goto(t, to)
  /\ UNCHANGED <<log, tmp, local, answer, next, crashes, history>>

\* mu.Lock(): every operation takes the mutex before it touches the file.
Lock(t, from, to) ==
  /\ pc[t] = from
  /\ mu = Free /\ mu' = t
  /\ Goto(t, to)
  /\ UNCHANGED <<log, tmp, local, answer, next, crashes, history>>

(***************************************************************************)
(* Append: the timestamp is taken before the lock.                         *)
(***************************************************************************)
CallAppend(t) ==
  /\ pc[t] = "idle" /\ next <= MaxRuns
  /\ \E d \in Drafts : run' = [run EXCEPT ![t] = Stamp(d, next)]
  /\ next' = next + 1
  /\ Goto(t, "append")
  /\ UNCHANGED <<log, tmp, mu, post, mem, answer, crashes, history>>

AppendLock(t) == Lock(t, "append", "write")

AppendOpenFails(t) ==
  /\ pc[t] = "write"
  /\ Unlock /\ Return(t, Status("error"))
  /\ UNCHANGED <<log, tmp, local, next, crashes, history>>

\* file.Write wrote the whole line.
AppendWrite(t) ==
  /\ pc[t] = "write"
  /\ LET new == AppendLine(log.data, run[t]) IN
       log' = [data |-> new,
               survive |-> log.survive \cup TornWrites(log.data, run[t]) \cup {new}]
  /\ glued' = IF log.data.tail = "clean" THEN glued ELSE glued \cup {run[t].id}
  /\ Goto(t, "sync")
  /\ UNCHANGED <<tmp, mu, local, answer, next, crashes, acked, due>>

\* file.Write stopped short and returned an error: what it wrote stays.
AppendShort(t) ==
  /\ pc[t] = "write"
  /\ \E c \in TornWrites(log.data, run[t]) :
       log' = [data |-> c,
               survive |-> log.survive \cup TornWrites(log.data, run[t])]
  /\ Unlock /\ Return(t, Status("error"))
  /\ UNCHANGED <<tmp, local, next, crashes, history>>

AppendSync(t) ==
  /\ pc[t] = "sync"
  /\ log' = Fsync(log)
  /\ acked' = acked \cup {run[t].id}
  /\ Unlock /\ Return(t, Status("ok"))
  /\ UNCHANGED <<tmp, local, next, crashes, glued, due>>

\* Mutation: a failed fsync is retried from the write.
Bug_AppendSyncFails(t) ==
  /\ pc[t] = "sync" /\ Goto(t, "write")
  /\ UNCHANGED <<log, tmp, mu, local, answer, next, crashes, history>>

AppendSyncFails(t) ==
  /\ pc[t] = "sync"
  /\ Unlock /\ Return(t, Status("error"))
  /\ UNCHANGED <<log, tmp, local, next, crashes, history>>

(***************************************************************************)
(* MergeClientTimings.                                                     *)
(***************************************************************************)
CallMerge(t) ==
  /\ pc[t] = "idle"
  /\ \E p \in Posts : post' = [post EXCEPT ![t] = p]
  /\ Goto(t, "merge")
  /\ UNCHANGED <<log, tmp, mu, run, mem, answer, next, crashes, history>>

MergeLock(t) == Lock(t, "merge", "read")

MergeReadFails(t) ==
  /\ pc[t] = "read"
  /\ Unlock /\ Return(t, Status("error"))
  /\ UNCHANGED <<log, tmp, local, next, crashes, history>>

\* Mutation: the refusal returns with the mutex held.
Bug_MergeRefuse(t) ==
  LET found == Matches(log.data.rows, post[t]) IN
  /\ pc[t] = "read" /\ Cardinality(found) # 1
  /\ Return(t, Status(IF found = {} THEN "no match" ELSE "ambiguous"))
  /\ UNCHANGED <<log, tmp, mu, local, next, crashes, history>>

\* No run matches, or more than one does: nothing is written.
MergeRefuse(t) ==
  LET found == Matches(log.data.rows, post[t]) IN
  /\ pc[t] = "read"
  /\ Cardinality(found) # 1
  /\ Unlock
  /\ Return(t, Status(IF found = {} THEN "no match" ELSE "ambiguous"))
  /\ UNCHANGED <<log, tmp, local, next, crashes, history>>

MergeRead(t) ==
  /\ pc[t] = "read"
  /\ \E k \in DOMAIN log.data.rows :
       /\ Matches(log.data.rows, post[t]) = {k}
       /\ mem' = [mem EXCEPT ![t] = Merged(log.data.rows, k, post[t])]
  /\ Goto(t, "rewrite")
  /\ UNCHANGED <<log, tmp, mu, run, post, answer, next, crashes, history>>

\* O_TRUNC and the lines: all of it written, none of it durable.
MergeRewrite(t) ==
  /\ pc[t] = "rewrite"
  /\ tmp' = LET new == [rows |-> mem[t], tail |-> "clean"]
            IN  [data |-> new, survive |-> {Empty, new}]
  /\ Goto(t, "syncTmp")
  /\ UNCHANGED <<log, mu, local, answer, next, crashes, history>>

\* Mutation: the temporary file is not synced before it replaces the log.
Bug_MergeSync(t) ==
  /\ pc[t] = "syncTmp" /\ Goto(t, "rename")
  /\ UNCHANGED <<log, tmp, mu, local, answer, next, crashes, history>>

MergeSync(t) ==
  /\ pc[t] = "syncTmp"
  /\ tmp' = Fsync(tmp)
  /\ Goto(t, "rename")
  /\ UNCHANGED <<log, mu, local, answer, next, crashes, history>>

MergeRename(t) ==
  /\ pc[t] = "rename"
  /\ log' = Rename(tmp, log)
  /\ tmp' = Blank
  /\ Unlock /\ Return(t, Status("ok"))
  /\ UNCHANGED <<local, next, crashes, history>>

\* Any step of the rewrite can fail; the temporary file is removed, or, where that
\* fails too, left for the next rewrite to truncate.
MergeWriteFails(t) ==
  /\ pc[t] \in {"rewrite", "syncTmp", "rename"}
  /\ tmp' \in {Blank, tmp}
  /\ Unlock /\ Return(t, Status("error"))
  /\ UNCHANGED <<log, local, next, crashes, history>>

(***************************************************************************)
(* ReadNewestPage.                                                         *)
(***************************************************************************)
CallRead(t) ==
  /\ pc[t] = "idle"
  /\ due' = [due EXCEPT ![t] = acked]
  /\ Goto(t, "list")
  /\ UNCHANGED <<log, tmp, mu, local, answer, next, crashes, acked, glued>>

ReadLock(t) == Lock(t, "list", "page")

ReadFails(t) ==
  /\ pc[t] = "page"
  /\ Unlock /\ Return(t, Status("error"))
  /\ UNCHANGED <<log, tmp, local, next, crashes, history>>

\* Mutation: the total is taken after the page is cut.
Bug_ReadPage(t) ==
  /\ pc[t] = "page"
  /\ \E limit \in Limits :
       LET page == PageOf(log.data.rows, limit) IN
       Return(t, [status |-> "page", rows |-> page, total |-> Len(page)])
  /\ Unlock
  /\ UNCHANGED <<log, tmp, local, next, crashes, history>>

ReadPage(t) ==
  /\ pc[t] = "page"
  /\ \E limit \in Limits :
       Return(t, [status |-> "page",
                  rows   |-> PageOf(log.data.rows, limit),
                  total  |-> Len(log.data.rows)])
  /\ Unlock
  /\ UNCHANGED <<log, tmp, local, next, crashes, history>>

\* The call returns to its handler.
Reply(t) ==
  /\ pc[t] = "reply"
  /\ Goto(t, "idle")
  /\ run' = [run EXCEPT ![t] = NoRun]
  /\ post' = [post EXCEPT ![t] = NoPost]
  /\ mem' = [mem EXCEPT ![t] = <<>>]
  /\ answer' = [answer EXCEPT ![t] = NoAnswer]
  /\ due' = [due EXCEPT ![t] = {}]
  /\ UNCHANGED <<log, tmp, mu, next, crashes, acked, glued>>

(***************************************************************************)
(* The node stops and the server starts again on what the volume kept.     *)
(***************************************************************************)
Crash ==
  /\ crashes < MaxCrashes /\ crashes' = crashes + 1
  /\ \E c \in log.survive : log' = [data |-> c, survive |-> {c}]
  /\ tmp' = Blank
  /\ mu' = Free
  /\ pc' = [t \in Threads |-> "idle"]
  /\ run' = [t \in Threads |-> NoRun]
  /\ post' = [t \in Threads |-> NoPost]
  /\ mem' = [t \in Threads |-> <<>>]
  /\ answer' = [t \in Threads |-> NoAnswer]
  /\ due' = [t \in Threads |-> {}]
  /\ UNCHANGED <<next, acked, glued>>

\* The steps of a call once it has been made, apart from taking the mutex.
Step(t) ==
  \/ AppendOpenFails(t) \/ AppendWrite(t) \/ AppendShort(t)
  \/ AppendSync(t) \/ AppendSyncFails(t)
  \/ MergeReadFails(t) \/ MergeRefuse(t) \/ MergeRead(t)
  \/ MergeRewrite(t) \/ MergeSync(t) \/ MergeRename(t) \/ MergeWriteFails(t)
  \/ ReadFails(t) \/ ReadPage(t)
  \/ Reply(t)

TakeMutex(t) == AppendLock(t) \/ MergeLock(t) \/ ReadLock(t)

Call(t) == CallAppend(t) \/ CallMerge(t) \/ CallRead(t)

Next == Crash \/ \E t \in Threads : Call(t) \/ TakeMutex(t) \/ Step(t)

Spec == Init /\ [][Next]_vars

(***************************************************************************)
(* A goroutine that can run does run, and sync.Mutex hands the lock to a   *)
(* goroutine that has waited long enough (its starvation mode): a call     *)
(* that keeps finding the mutex free in turn obtains it.  Nobody is        *)
(* obliged to make a call, and nothing obliges the node to crash.          *)
(***************************************************************************)
FairSpec == Spec /\ \A t \in Threads : WF_vars(Step(t)) /\ SF_vars(TakeMutex(t))

-----------------------------------------------------------------------------
MutexHeld == \A t \in Threads : pc[t] \in Critical => mu = t

\* Type invariant, with the lock discipline of the Logger: a goroutine that is
\* between reading or writing the file and returning is the holder of the mutex.
TypeOK ==
  /\ log \in File /\ tmp \in File
  /\ mu \in Threads \cup {Free}
  /\ pc \in [Threads -> PC]
  /\ run \in [Threads -> Run]
  /\ post \in [Threads -> Post]
  /\ mem \in [Threads -> Seq(Run)]
  /\ answer \in [Threads -> Answer]
  /\ next \in Nat /\ crashes \in Nat
  /\ acked \subseteq Nat /\ glued \subseteq Nat
  /\ due \in [Threads -> SUBSET Nat]
  /\ MutexHeld

\* A run whose Append returned nil is in the file, and in whatever a crash can
\* leave of it, through concurrent merges, failed writes and restarts: it can be
\* missing only when its line was written behind an unterminated one.
AckedLostOnlyByGlue ==
  \A c \in log.survive \cup {log.data} : acked \ glued \subseteq Ids(c.rows)

\* No run appears twice, whatever merges, failed writes and restarts did (a rewrite that
\* raced an append, or an Append that wrote its line again, would show one twice).  A
\* caller that repeats a failed Append adds another run, with a timestamp of its own.
NoDuplicateRuns ==
  \A c \in log.survive \cup {log.data} :
    \A j, k \in DOMAIN c.rows : c.rows[j].id = c.rows[k].id => j = k

\* A page that is not truncated has every run acknowledged before the read was
\* called, and a truncated page says so: it leaves out no run without total showing.
PageComplete ==
  \A t \in Threads :
    (pc[t] = "reply" /\ answer[t].status = "page") =>
      LET page == answer[t].rows IN
      /\ answer[t].total >= Len(page)
      /\ answer[t].total = Len(page) => due[t] \ glued \subseteq Ids(page)

(***************************************************************************)
(* What the repository says of the log and the code does not do.           *)
(***************************************************************************)
\* "returns up to limit runs, newest first" (log.go:115), by the runs' timestamps.
PageNewestFirst ==
  \A t \in Threads :
    \A j, k \in DOMAIN answer[t].rows :
      j < k => answer[t].rows[j].id > answer[t].rows[k].id

\* What the log promises (RunTable): between restarts its runs change by one run
\* more at the end, by timings attached to the one run a post addresses, or by the
\* loss of an unacknowledged last run, and a restart keeps what was acknowledged.
Table == INSTANCE RunTable WITH table <- log.data.rows, restarts <- crashes
ImplementsRunTable == Table!Spec

\* Every call returns: no error path keeps the mutex, nobody waits for ever.
EveryCallReturns == \A t \in Threads : pc[t] # "idle" ~> pc[t] = "idle"
=============================================================================
