---------------------------- MODULE BlobStoreProofs ----------------------------
(***************************************************************************)
(* Proofs about BlobStore for every set of goroutines, names and bodies,   *)
(* every limit, and every number of writes, failures and crashes.          *)
(***************************************************************************)
EXTENDS BlobStore, TLAPS

(***************************************************************************)
(* Types.                                                                  *)
(***************************************************************************)
Results == {"none", "error", "too large", "size mismatch", "length mismatch",
            "deleted", "not found"}
Places  == Writing \cup {"idle", "hash", "hashing", "wrote", "unlink", "unhash", "open",
                         "stat", "sidecar", "list", "reply"}
Blob    == Names \cup {Idle.name}
Calls   == [name: Blob, body: Body, id: 0..MaxWrites, result: Results]
Answers == [status: Results \cup {"ok", "open", "list"}, file: File, bytes: Nat,
            sha: Int, listed: SUBSET Paths]

\* The places where a goroutine is at work on the blob that its call names.
AtBlob == Places \ {"idle", "list", "reply"}

\* Every write has a number of its own, and a temporary file with that number.
Layout ==
  /\ pc \in [Workers -> Places] /\ call \in [Workers -> Calls]
  /\ seen \in [Workers -> SUBSET Paths] /\ answer \in [Workers -> Answers]
  /\ writes \in 0..MaxWrites /\ faults \in Nat /\ crashes \in Nat
  /\ \A w \in Workers :
       /\ pc[w] \in AtBlob => call[w].name \in Names
       /\ pc[w] \in Writing => call[w].id # 0
       /\ call[w].id <= writes
  /\ \A w, u \in Workers : w # u /\ call[w].id = call[u].id => call[w].id = 0

TypeInv == TypeOK /\ Layout

(***************************************************************************)
(* Temporary files.                                                        *)
(***************************************************************************)
Fits(w)  == TakenFrom(call[w].body) <= MaxBytes
Whole(w) == Data(call[w].id, TakenFrom(call[w].body))

\* What a goroutine has in its temporary file: nothing before it has created it, all it
\* took from the body after it has copied it, and that durably before it renames it.
TempFile(w) ==
  LET t == Temp(call[w].id) IN
  /\ pc[w] = "create" => survive[t] = {Absent}
  /\ pc[w] \in {"check", "sync"} => dir[t] = Whole(w)
  /\ pc[w] = "rename" => survive[t] = {Whole(w)}
  /\ pc[w] \in {"sync", "rename", "hash", "hashing", "wrote"} => Fits(w)

\* The writes to come have no temporary file.
Fresh == \A i \in 1..MaxWrites : i > writes => survive[Temp(i)] = {Absent}

\* Results of writes that never came to their blob's name.
Refused == {"too large", "size mismatch"}

\* The blob under a name is that of a write that was not refused and is not going to be.
Granted ==
  \A n \in Names : \A f \in survive[n] : f.kind = "data" =>
    /\ f.id <= writes
    /\ \A w \in Workers :
         (pc[w] \in Writing \/ (pc[w] = "reply" /\ answer[w].status \in Refused))
           => call[w].id # f.id

\* A goroutine past the rename has nothing of that kind to refuse.
PastRename ==
  \A w \in Workers : pc[w] \in {"unlink", "unhash"} => call[w].result \notin Refused

\* Whether blob n is what this goroutine's call has written.
Wrote(w, n) == dir[n].kind = "data" /\ dir[n].id = call[w].id

\* A goroutine that has renamed its body, and one that has removed one of the wrong length.
Renamed(w) ==
  \/ pc[w] \in {"hash", "hashing", "wrote"}
  \/ pc[w] = "unlink" /\ call[w].result = "length mismatch"
Removed(w) ==
  \/ pc[w] = "unhash" /\ call[w].result = "length mismatch"
  \/ pc[w] = "reply" /\ answer[w].status = "length mismatch"

\* What a goroutine has renamed is under the name of its call and under no other; a body
\* of the wrong length is under none from its removal on.
Placed(w) ==
  /\ Renamed(w) => \A n \in Names : Wrote(w, n) => n = call[w].name
  /\ Removed(w) => \A n \in Names : ~Wrote(w, n)
  /\ pc[w] = "untemp" => call[w].result # "length mismatch"

TempInv ==
  /\ \A w \in Workers : TempFile(w) /\ Placed(w)
  /\ Fresh /\ Granted /\ PastRename

(***************************************************************************)
(* Names and their .sha256.                                                *)
(***************************************************************************)
\* A name that no .sha256 of a blob has, and one whose own .sha256 is no blob either.
Clear(n) == \A m \in Names : hashPath(m) # n
Alone(n) == Clear(n) /\ hashPath(n) \notin Names

\* No client uses a name and, with ".sha256" behind it, another one.
Apart == \A n \in Names : Alone(n)

\* What is under a name, now or after a crash, is nothing or a whole blob that fits.
GoodBlob(f) == f = Absent \/ (f.kind = "data" /\ f.bytes <= MaxBytes)
GoodBlobs   == \A n \in Names : Clear(n) => \A f \in survive[n] : GoodBlob(f)

\* The one goroutine that is between a blob and its .sha256 finds what it left there, and
\* writes to the file that has the path; while nobody is, blob and .sha256 agree.
Paired(n) ==
  /\ \A w \in Between(n) :
       /\ Between(n) = {w}
       /\ pc[w] \in {"hash", "hashing"} => dir[n].kind = "data" /\ dir[n].id = call[w].id
       /\ w \notin lost
       /\ pc[w] = "unhash" => dir[n] = Absent
  /\ Between(n) = {} =>
       \/ dir[n] = Absent /\ dir[hashPath(n)] = Absent
       \/ dir[n].kind = "data" /\ dir[hashPath(n)] = Hash(dir[n].id)

Pairs == \A n \in Names \ mixed : Alone(n) => Paired(n)

\* What Open has found out so far of the file it has opened.
Found(w) ==
  /\ pc[w] \in {"stat", "sidecar"} \/ answer[w].status = "open"
       => (Clear(call[w].name) => answer[w].file.kind = "data")
  /\ pc[w] = "sidecar" \/ answer[w].status = "open" => answer[w].bytes = answer[w].file.bytes
  /\ answer[w].status = "open" => pc[w] = "reply" /\ call[w].name \in Names

Opened == \A w \in Workers : Found(w)

PairInv == GoodBlobs /\ Pairs /\ Opened

(***************************************************************************)
(* Paths and files.                                                        *)
(***************************************************************************)
LEMMA TempsApart ==
  /\ \A i, n : n \in Name => Temp(i) # n
  /\ \A i, j : Temp(i) = Temp(j) => i = j
<1>1. ASSUME NEW i, NEW n \in Name PROVE Temp(i) # n
  <2>1. DOMAIN Temp(i) = {"temp"}
    BY DEF Temp
  <2>2. DOMAIN n = {"base", "sha"}
    BY DEF Name
  <2> QED
    BY <2>1, <2>2
<1>2. ASSUME NEW i, NEW j, Temp(i) = Temp(j) PROVE i = j
  BY <1>2 DEF Temp
<1> QED
  BY <1>1, <1>2

LEMMA HashPathName ==
  ASSUME NEW n \in Name
  PROVE  hashPath(n) \in Name /\ hashPath(n).base = n.base /\ hashPath(n).sha = n.sha + 1
  BY DEF Name, hashPath

\* A blob, the .sha256 files and the temporary files are paths of their own.
LEMMA PathsApart ==
  /\ \A n \in Names : n \in Paths /\ hashPath(n) \in Paths
  /\ \A i \in 1..MaxWrites : Temp(i) \in Paths
  /\ \A i, j : Temp(i) = Temp(j) => i = j
  /\ \A i, n : n \in Names => Temp(i) # n /\ Temp(i) # hashPath(n)
  /\ \A n, m \in Names : hashPath(n) = hashPath(m) => n = m
<1>1. \A i, n : n \in Names => Temp(i) # n /\ Temp(i) # hashPath(n)
  BY TempsApart, HashPathName, NamesAssumption
<1>2. ASSUME NEW n \in Names, NEW m \in Names, hashPath(n) = hashPath(m)
      PROVE  n = m
  <2>1. n \in Name /\ m \in Name
    BY NamesAssumption
  <2>2. n.base = m.base /\ n.sha = m.sha
    BY <1>2, <2>1, HashPathName DEF Name
  <2> QED
    BY <2>1, <2>2 DEF Name
<1> QED
  BY <1>1, <1>2, TempsApart DEF Paths

LEMMA FileTypes ==
  /\ Absent \in File /\ EmptyFile \in File
  /\ \A i \in Nat : Part(i) \in File /\ Hash(i) \in File
  /\ \A i, b \in Nat : Data(i, b) \in File
  BY DEF File, Absent, EmptyFile, Part, Hash, Data

LEMMA FileKinds ==
  /\ Absent.kind = "absent" /\ EmptyFile.kind = "empty"
  /\ \A i : Part(i).kind = "part" /\ Hash(i).kind = "hash" /\ Hash(i).id = i
  /\ \A i, b : Data(i, b).kind = "data" /\ Data(i, b).id = i /\ Data(i, b).bytes = b
  BY DEF Absent, EmptyFile, Part, Hash, Data

LEMMA TakenType == \A b \in Body : TakenFrom(b) \in Nat
  BY BlobBounds DEF Body, TakenFrom

LEMMA SidecarType == \A f \in File : ReadSidecar(f) \in Int
  BY DEF File, ReadSidecar

(***************************************************************************)
(* What each step does to the goroutine that takes it.                     *)
(***************************************************************************)
Moves(w, l, c, a) ==
  /\ pc' = [pc EXCEPT ![w] = l] /\ call' = [call EXCEPT ![w] = c]
  /\ answer' = [answer EXCEPT ![w] = a]
  /\ pc'[w] = l /\ call'[w] = c /\ answer'[w] = a

With(w, r) == [call[w] EXCEPT !.result = r]
Ends(w, s) == [answer[w] EXCEPT !.status = s]

NewCall(n, b) == [name |-> n, body |-> b, id |-> writes + 1, result |-> "none"]

LEMMA WriteEffects ==
  ASSUME TypeInv, NEW w \in Workers
  PROVE  /\ CallWrite(w) => \E n \in Names, b \in Bodies :
              \/ Moves(w, "create", NewCall(n, b), answer[w])
              \/ Moves(w, "reply", NewCall(n, b), Ends(w, "too large"))
         /\ PutCreate(w) => Moves(w, "copy", call[w], answer[w])
         /\ PutCreateFails(w) => Moves(w, "reply", call[w], Ends(w, "error"))
         /\ PutCopy(w) => Moves(w, "check", call[w], answer[w])
         /\ PutCopyFails(w) => Moves(w, "untemp", With(w, "error"), answer[w])
         /\ PutCheck(w) =>
              \/ Moves(w, "untemp", With(w, "too large"), answer[w])
              \/ Moves(w, "untemp", With(w, "size mismatch"), answer[w])
              \/ ~(TakenFrom(call[w].body) > MaxBytes) /\ Moves(w, "sync", call[w], answer[w])
         /\ PutSync(w) => Moves(w, "rename", call[w], answer[w])
         /\ PutInstallFails(w) => Moves(w, "untemp", With(w, "error"), answer[w])
         /\ PutUntemp(w) => Moves(w, "reply", call[w], Ends(w, call[w].result))
         /\ PutUntempFails(w) => Moves(w, "reply", call[w], Ends(w, call[w].result))
         /\ PutRename(w) => Moves(w, "hash", call[w], answer[w])
         /\ PutHashTruncate(w) => Moves(w, "hashing", call[w], answer[w])
         /\ PutHash(w) => Moves(w, "wrote", call[w], answer[w])
         /\ PutHashFails(w) => Moves(w, "reply", call[w], Ends(w, "error"))
         /\ PutDone(w) =>
              \/ TakenFrom(call[w].body) > MaxBytes
                   /\ Moves(w, "unlink", With(w, "too large"), answer[w])
              \/ Moves(w, "unlink", With(w, "length mismatch"), answer[w])
              \/ Moves(w, "reply", call[w], Ends(w, "ok"))
<1> pc \in [Workers -> Places] /\ call \in [Workers -> Calls] /\ answer \in [Workers -> Answers]
  BY DEF TypeInv, Layout
<1>1. ASSUME CallWrite(w)
      PROVE  \E n \in Names, b \in Bodies :
               \/ Moves(w, "create", NewCall(n, b), answer[w])
               \/ Moves(w, "reply", NewCall(n, b), Ends(w, "too large"))
  <2>1. PICK n \in Names, b \in Bodies :
          /\ call' = [call EXCEPT ![w] = NewCall(n, b)]
          /\ IF b.expected > MaxBytes THEN Return(w, "too large")
             ELSE Goto(w, "create") /\ UNCHANGED answer
    BY <1>1 DEF CallWrite, NewCall
  <2>2. CASE Return(w, "too large")
    BY <2>1, <2>2 DEF Return, Goto, Moves, Ends
  <2>3. CASE Goto(w, "create") /\ UNCHANGED answer
    BY <2>1, <2>3 DEF Goto, Moves
  <2> QED
    BY <2>1, <2>2, <2>3
<1>2. PutCreate(w) => Moves(w, "copy", call[w], answer[w])
  BY DEF PutCreate, Goto, Moves
<1>3. PutCreateFails(w) => Moves(w, "reply", call[w], Ends(w, "error"))
  BY DEF PutCreateFails, Return, Goto, Moves, Ends
<1>4. PutCopy(w) => Moves(w, "check", call[w], answer[w])
  BY DEF PutCopy, Goto, Moves
<1>5. PutCopyFails(w) => Moves(w, "untemp", With(w, "error"), answer[w])
  BY DEF PutCopyFails, Goto, Moves, With
<1>6. PutCheck(w) =>
        \/ Moves(w, "untemp", With(w, "too large"), answer[w])
        \/ Moves(w, "untemp", With(w, "size mismatch"), answer[w])
        \/ ~(TakenFrom(call[w].body) > MaxBytes) /\ Moves(w, "sync", call[w], answer[w])
  BY DEF PutCheck, Goto, Moves, With
<1>7. PutSync(w) => Moves(w, "rename", call[w], answer[w])
  BY DEF PutSync, Goto, Moves
<1>8. PutInstallFails(w) => Moves(w, "untemp", With(w, "error"), answer[w])
  BY DEF PutInstallFails, Goto, Moves, With
<1>9. PutUntemp(w) => Moves(w, "reply", call[w], Ends(w, call[w].result))
  BY DEF PutUntemp, PutUntempFails, Return, Goto, Moves, Ends
<1>u. PutUntempFails(w) => Moves(w, "reply", call[w], Ends(w, call[w].result))
  BY DEF PutUntempFails, Return, Goto, Moves, Ends
<1>10. PutRename(w) => Moves(w, "hash", call[w], answer[w])
  BY DEF PutRename, Goto, Moves
<1>11. PutHashTruncate(w) => Moves(w, "hashing", call[w], answer[w])
  BY DEF PutHashTruncate, Goto, Moves
<1>12. PutHash(w) => Moves(w, "wrote", call[w], answer[w])
  BY DEF PutHash, Goto, Moves
<1>13. PutHashFails(w) => Moves(w, "reply", call[w], Ends(w, "error"))
  BY DEF PutHashFails, Return, Goto, Moves, Ends
<1>14. PutDone(w) =>
         \/ TakenFrom(call[w].body) > MaxBytes
              /\ Moves(w, "unlink", With(w, "too large"), answer[w])
         \/ Moves(w, "unlink", With(w, "length mismatch"), answer[w])
         \/ Moves(w, "reply", call[w], Ends(w, "ok"))
  BY DEF PutDone, Return, Goto, Moves, With, Ends
<1> QED
  BY <1>1, <1>2, <1>3, <1>4, <1>5, <1>6, <1>7, <1>8, <1>9, <1>u, <1>10, <1>11, <1>12, <1>13,
    <1>14

LEMMA ReadEffects ==
  ASSUME TypeInv, NEW w \in Workers
  PROVE  /\ CallDelete(w) => \E n \in Names :
              Moves(w, "unlink", [call[w] EXCEPT !.name = n, !.result = "deleted"], answer[w])
         /\ DeleteBlob(w) => \E r \in {call[w].result, "not found"} :
              Moves(w, "unhash", With(w, r), answer[w])
         /\ DeleteBlobFails(w) => Moves(w, "unhash", With(w, "error"), answer[w])
         /\ DeleteHash(w) => Moves(w, "reply", call[w], Ends(w, call[w].result))
         /\ DeleteHashFails(w) => Moves(w, "reply", call[w], Ends(w, call[w].result))
         /\ CallOpen(w) => \E n \in Names :
              Moves(w, "open", [call[w] EXCEPT !.name = n], answer[w])
         /\ OpenBlob(w) =>
              \/ Moves(w, "reply", call[w], Ends(w, "not found"))
              \/ dir[call[w].name] # Absent
                   /\ Moves(w, "stat", call[w], [answer[w] EXCEPT !.file = dir[call[w].name]])
         /\ OpenStat(w) =>
              Moves(w, "sidecar", call[w], [answer[w] EXCEPT !.bytes = answer[w].file.bytes])
         /\ OpenSidecar(w) => Moves(w, "reply", call[w],
              [answer[w] EXCEPT !.status = "open",
                                !.sha = ReadSidecar(dir[hashPath(call[w].name)])])
         /\ ListRead(w) => Moves(w, "list", call[w], answer[w])
         /\ ListEntry(w) => \E listed \in SUBSET Paths :
              Moves(w, "list", call[w], [answer[w] EXCEPT !.listed = listed])
         /\ ListDone(w) => Moves(w, "reply", call[w], Ends(w, "list"))
         /\ Reply(w) => Moves(w, "idle", Idle, NoAnswer)
<1> pc \in [Workers -> Places] /\ call \in [Workers -> Calls] /\ answer \in [Workers -> Answers]
  BY DEF TypeInv, Layout
<1>1. ASSUME CallDelete(w)
      PROVE  \E n \in Names :
        Moves(w, "unlink", [call[w] EXCEPT !.name = n, !.result = "deleted"], answer[w])
  <2>1. PICK n \in Names :
          call' = [call EXCEPT ![w] = [call[w] EXCEPT !.name = n, !.result = "deleted"]]
    BY <1>1 DEF CallDelete
  <2>2. pc' = [pc EXCEPT ![w] = "unlink"] /\ answer' = answer
    BY <1>1 DEF CallDelete, Goto
  <2> QED
    BY <2>1, <2>2 DEF Moves
<1>2. DeleteBlob(w) => \E r \in {call[w].result, "not found"} :
        Moves(w, "unhash", With(w, r), answer[w])
  BY DEF DeleteBlob, Goto, Moves, With
<1>3. DeleteBlobFails(w) => Moves(w, "unhash", With(w, "error"), answer[w])
  BY DEF DeleteBlobFails, Goto, Moves, With
<1>4. DeleteHash(w) => Moves(w, "reply", call[w], Ends(w, call[w].result))
  BY DEF DeleteHash, DeleteHashFails, Return, Goto, Moves, Ends
<1>f. DeleteHashFails(w) => Moves(w, "reply", call[w], Ends(w, call[w].result))
  BY DEF DeleteHashFails, Return, Goto, Moves, Ends
<1>5. CallOpen(w) => \E n \in Names :
        Moves(w, "open", [call[w] EXCEPT !.name = n], answer[w])
  BY DEF CallOpen, Goto, Moves
<1>6. OpenBlob(w) =>
        \/ Moves(w, "reply", call[w], Ends(w, "not found"))
        \/ dir[call[w].name] # Absent
             /\ Moves(w, "stat", call[w], [answer[w] EXCEPT !.file = dir[call[w].name]])
  BY DEF OpenBlob, Return, Goto, Moves, Ends
<1>7. OpenStat(w) =>
        Moves(w, "sidecar", call[w], [answer[w] EXCEPT !.bytes = answer[w].file.bytes])
  BY DEF OpenStat, Goto, Moves
<1>8. OpenSidecar(w) => Moves(w, "reply", call[w],
        [answer[w] EXCEPT !.status = "open",
                          !.sha = ReadSidecar(dir[hashPath(call[w].name)])])
  BY DEF OpenSidecar, Goto, Moves
<1>9. ListRead(w) => Moves(w, "list", call[w], answer[w])
  BY DEF ListRead, Goto, Moves
<1>10. ASSUME ListEntry(w)
       PROVE  \E listed \in SUBSET Paths :
                Moves(w, "list", call[w], [answer[w] EXCEPT !.listed = listed])
  <2>1. answer[w].listed \subseteq Paths /\ seen[w] \subseteq Paths /\ pc' = pc /\ call' = call
        /\ pc[w] = "list"
    BY <1>10 DEF ListEntry, TypeInv, TypeOK
  <2>2. PICK p \in seen[w] :
          answer' = IF dir[p] = Absent THEN answer
                    ELSE [answer EXCEPT ![w].listed = @ \cup {p}]
    BY <1>10 DEF ListEntry
  <2>3. CASE answer' = answer
    <3>1. answer[w] = [answer[w] EXCEPT !.listed = answer[w].listed]
      BY DEF Answers
    <3> QED
      BY <2>1, <2>3, <3>1 DEF Moves
  <2>4. CASE answer' = [answer EXCEPT ![w].listed = @ \cup {p}]
    <3>1. answer[w].listed \cup {p} \in SUBSET Paths
      BY <2>1, <2>2
    <3>2. answer' = [answer EXCEPT ![w] = [answer[w] EXCEPT !.listed = answer[w].listed \cup {p}]]
      BY <2>4
    <3> QED
      BY <2>1, <3>1, <3>2 DEF Moves
  <2> QED
    BY <2>2, <2>3, <2>4
<1>11. ListDone(w) => Moves(w, "reply", call[w], Ends(w, "list"))
  BY DEF ListDone, Return, Goto, Moves, Ends
<1>12. Reply(w) => Moves(w, "idle", Idle, NoAnswer)
  BY DEF Reply, Goto, Moves
<1> QED
  BY <1>1, <1>2, <1>3, <1>4, <1>f, <1>5, <1>6, <1>7, <1>8, <1>9, <1>10, <1>11, <1>12

\* The steps of one goroutine.
WriteStep(w) ==
  \/ CallWrite(w) \/ PutCreate(w) \/ PutCreateFails(w) \/ PutCopy(w) \/ PutCopyFails(w)
  \/ PutCheck(w) \/ PutSync(w) \/ PutInstallFails(w) \/ PutUntemp(w) \/ PutUntempFails(w)
  \/ PutRename(w) \/ PutHashTruncate(w) \/ PutHash(w) \/ PutHashFails(w) \/ PutDone(w)

ReadStep(w) ==
  \/ CallDelete(w) \/ DeleteBlob(w) \/ DeleteBlobFails(w) \/ DeleteHash(w)
  \/ DeleteHashFails(w) \/ CallOpen(w) \/ OpenBlob(w) \/ OpenStat(w) \/ OpenSidecar(w)
  \/ ListRead(w) \/ ListEntry(w) \/ ListDone(w) \/ Reply(w)

WorkerStep(w) == WriteStep(w) \/ ReadStep(w)

LEMMA NextSteps == Next <=> Crash \/ \E w \in Workers : WorkerStep(w)
  BY DEF Next, WorkerStep, WriteStep, ReadStep

\* Where a goroutine can go, with which call.
Keeps(w, l, c) ==
  /\ l \in AtBlob => c.name \in Names
  /\ l \in Writing => c.id # 0
  /\ \/ c.id \in {0, call[w].id} /\ writes' = writes
     \/ c.id = writes + 1 /\ writes' = writes + 1 /\ writes' <= MaxWrites

\* The results that an action writes.
LEMMA ResultNames ==
  /\ "none" \in Results /\ "error" \in Results /\ "too large" \in Results
  /\ "size mismatch" \in Results /\ "length mismatch" \in Results
  /\ "deleted" \in Results /\ "not found" \in Results
  /\ "ok" \notin Results /\ "open" \notin Results /\ "list" \notin Results
BY DEF Results

\* A result written into a call, or a status into an answer, keeps the other fields.
LEMMA FieldsKept ==
  ASSUME TypeInv, NEW w \in Workers
  PROVE  /\ \A r \in Results : /\ With(w, r).name = call[w].name /\ With(w, r).id = call[w].id
                               /\ With(w, r).body = call[w].body /\ With(w, r).result = r
         /\ \A s \in Results \cup {"ok", "open", "list"} : Ends(w, s).status = s
<1>1. call[w] \in Calls /\ answer[w] \in Answers
  BY DEF TypeInv, Layout
<1>2. ASSUME NEW r \in Results
      PROVE  /\ With(w, r).name = call[w].name /\ With(w, r).id = call[w].id
             /\ With(w, r).body = call[w].body /\ With(w, r).result = r
  BY <1>1 DEF With, Calls
<1>3. ASSUME NEW s \in Results \cup {"ok", "open", "list"}
      PROVE  Ends(w, s).status = s
  BY <1>1 DEF Ends, Answers
<1> QED
  BY <1>2, <1>3

LEMMA RecordTypes ==
  ASSUME TypeInv, NEW w \in Workers
  PROVE  /\ call[w] \in Calls /\ answer[w] \in Answers /\ pc[w] \in Places
         /\ \A r \in Results : With(w, r) \in Calls
         /\ \A s \in Results \cup {"ok", "open", "list"} : Ends(w, s) \in Answers
         /\ \A n \in Names, b \in Bodies : writes < MaxWrites => NewCall(n, b) \in Calls
         /\ Idle \in Calls /\ Idle.id = 0 /\ NoAnswer \in Answers
<1>1. call[w] \in Calls /\ answer[w] \in Answers /\ pc[w] \in Places
  BY DEF TypeInv, Layout
<1>2. ASSUME NEW r \in Results
      PROVE  With(w, r) \in Calls
  BY <1>1 DEF With, Calls
<1>3. ASSUME NEW s \in Results \cup {"ok", "open", "list"}
      PROVE  Ends(w, s) \in Answers
  BY <1>1 DEF Ends, Answers
<1>4. ASSUME NEW n \in Names, NEW b \in Bodies, writes < MaxWrites
      PROVE  NewCall(n, b) \in Calls
  <2>1. b \in Body /\ writes + 1 \in 0..MaxWrites
    BY <1>4, BodiesAssumption, BlobBounds DEF TypeInv, Layout
  <2> QED
    BY <2>1 DEF NewCall, Calls, Blob, Results
<1>5. Idle \in Calls /\ Idle.id = 0
  BY BlobBounds DEF Idle, Calls, Blob, Body, Results
<1>6. NoAnswer \in Answers
  BY FileTypes DEF NoAnswer, Answers, Results
<1> QED
  BY <1>1, <1>2, <1>3, <1>4, <1>5, <1>6

LEMMA WriteKeeps ==
  ASSUME TypeInv, NEW w \in Workers, WriteStep(w)
  PROVE  \E l \in Places, c \in Calls, a \in Answers : Moves(w, l, c, a) /\ Keeps(w, l, c)
<1>t. /\ call[w] \in Calls /\ answer[w] \in Answers /\ pc[w] \in Places
      /\ \A r \in Results : With(w, r) \in Calls
      /\ \A r \in Results : With(w, r).name = call[w].name /\ With(w, r).id = call[w].id
      /\ \A s \in Results \cup {"ok", "open", "list"} : Ends(w, s) \in Answers
      /\ \A n \in Names, b \in Bodies : writes < MaxWrites => NewCall(n, b) \in Calls
      /\ Idle \in Calls /\ Idle.id = 0 /\ NoAnswer \in Answers
  BY RecordTypes, FieldsKept
<1> USE <1>t
<1>1. CASE CallWrite(w)
  <2>1. writes < MaxWrites /\ writes' = writes + 1 /\ writes \in 0..MaxWrites
    BY <1>1, BlobBounds DEF CallWrite, TypeInv, Layout
  <2>2. PICK n \in Names, b \in Bodies :
              \/ Moves(w, "create", NewCall(n, b), answer[w])
              \/ Moves(w, "reply", NewCall(n, b), Ends(w, "too large"))
    BY <1>1, WriteEffects
  <2>3. NewCall(n, b) \in Calls /\ NewCall(n, b).id = writes + 1 /\ NewCall(n, b).name \in Names
    BY <2>1 DEF NewCall
  <2>4. Keeps(w, "create", NewCall(n, b)) /\ Keeps(w, "reply", NewCall(n, b))
    BY <2>1, <2>3, BlobBounds DEF Keeps
  <2>5. "create" \in Places /\ "reply" \in Places /\ "too large" \in Results
    BY DEF Places, Writing, Results
  <2> QED
    BY <2>2, <2>3, <2>4, <2>5
<1>2. CASE WriteStep(w) /\ ~CallWrite(w)
  <2>1. pc[w] \in AtBlob \ {"idle"} /\ writes' = writes
    BY <1>2 DEF WriteStep, PutCreate, PutCreateFails, PutCopy, PutCopyFails, PutCheck,
      PutSync, PutInstallFails, PutUntemp, PutUntempFails, PutRename, PutHashTruncate, PutHash,
      PutHashFails, PutDone, AtBlob, Places, Writing, counts
  <2>2. call[w].name \in Names /\ (pc[w] \in Writing => call[w].id # 0)
    BY <2>1 DEF TypeInv, Layout
  <2>3. call[w].result \in Results
    BY DEF Calls
  <2>4. \A l, c, a : Moves(w, l, c, a) /\ l \in Places /\ c \in Calls /\ a \in Answers
          /\ c.name = call[w].name /\ c.id = call[w].id
          /\ (l \in Writing => pc[w] \in Writing) => 
             Moves(w, l, c, a) /\ Keeps(w, l, c)
    BY <2>1, <2>2 DEF Keeps
  <2>5. CASE PutCreate(w) \/ PutCopy(w) \/ PutSync(w) \/ PutRename(w) \/ PutHashTruncate(w)
             \/ PutHash(w)
    <3>1. CASE PutCreate(w) \/ PutCopy(w) \/ PutSync(w)
      <4>1. pc[w] \in Writing /\ {"copy", "check", "rename"} \subseteq Places
        BY <3>1 DEF PutCreate, PutCopy, PutSync, Writing, Places
      <4> QED
        BY <2>4, <3>1, <4>1, WriteEffects
    <3>2. CASE PutRename(w) \/ PutHashTruncate(w) \/ PutHash(w)
      <4>1. {"hash", "hashing", "wrote"} \subseteq Places \ Writing
        BY DEF Writing, Places
      <4> QED
        BY <2>4, <3>2, <4>1, WriteEffects
    <3> QED
      BY <2>5, <3>1, <3>2
  <2>6. CASE PutCopyFails(w) \/ PutCheck(w) \/ PutInstallFails(w)
    <3>1. pc[w] \in Writing
      BY <2>6 DEF PutCopyFails, PutCheck, PutInstallFails, Writing
    <3>2. \/ \E r \in Results : Moves(w, "untemp", With(w, r), answer[w])
          \/ Moves(w, "sync", call[w], answer[w])
      BY <2>6, WriteEffects DEF Results
    <3>3. "untemp" \in Places /\ "sync" \in Places
      BY DEF Places, Writing
    <3> QED
      BY <2>4, <3>1, <3>2, <3>3
  <2>7. CASE PutCreateFails(w) \/ PutUntemp(w) \/ PutUntempFails(w) \/ PutHashFails(w) \/ PutDone(w)
    <3>1. \/ \E s \in Results \cup {"ok"} : Moves(w, "reply", call[w], Ends(w, s))
          \/ \E r \in Results : Moves(w, "unlink", With(w, r), answer[w])
      BY <2>3, <2>7, WriteEffects DEF Results
    <3>2. "reply" \in Places /\ "reply" \notin Writing /\ "unlink" \in Places
          /\ "unlink" \notin Writing
      BY DEF Places, Writing
    <3> QED
      BY <2>4, <3>1, <3>2
  <2> QED
    BY <1>2, <2>5, <2>6, <2>7 DEF WriteStep
<1> QED
  BY <1>1, <1>2

LEMMA ReadKeeps ==
  ASSUME TypeInv, NEW w \in Workers, ReadStep(w)
  PROVE  \E l \in Places, c \in Calls, a \in Answers : Moves(w, l, c, a) /\ Keeps(w, l, c)
<1>t. /\ call[w] \in Calls /\ answer[w] \in Answers /\ pc[w] \in Places
      /\ \A r \in Results : With(w, r) \in Calls
      /\ \A r \in Results : With(w, r).name = call[w].name /\ With(w, r).id = call[w].id
      /\ \A s \in Results \cup {"ok", "open", "list"} : Ends(w, s) \in Answers
      /\ \A n \in Names, b \in Bodies : writes < MaxWrites => NewCall(n, b) \in Calls
      /\ Idle \in Calls /\ Idle.id = 0 /\ NoAnswer \in Answers
  BY RecordTypes, FieldsKept
<1> USE <1>t
<1>1. writes' = writes
  BY DEF ReadStep, CallDelete, DeleteBlob, DeleteBlobFails, DeleteHash, DeleteHashFails,
    CallOpen, OpenBlob,
    OpenStat, OpenSidecar, ListRead, ListEntry, ListDone, Reply, counts
<1>2. /\ dir \in [Paths -> File] /\ (pc[w] \in AtBlob => call[w].name \in Names)
      /\ call[w].result \in Results /\ answer[w].file \in File
  BY DEF TypeInv, TypeOK, Layout, Calls
<1>3. "reply" \in Places \ (AtBlob \cup Writing) /\ "list" \in Places \ (AtBlob \cup Writing)
      /\ "idle" \in Places \ (AtBlob \cup Writing)
      /\ {"unlink", "unhash", "open", "stat", "sidecar"} \subseteq Places \ Writing
  BY DEF Places, AtBlob, Writing
<1>4. /\ Keeps(w, "reply", call[w]) /\ Keeps(w, "list", call[w])
      /\ pc[w] \in AtBlob => /\ Keeps(w, "stat", call[w]) /\ Keeps(w, "sidecar", call[w])
                             /\ \A r \in Results : Keeps(w, "unhash", With(w, r))
  BY <1>1, <1>2, <1>3 DEF Keeps
<1>5. CASE CallDelete(w) \/ CallOpen(w)
  <2>1. ASSUME NEW n \in Names
        PROVE  /\ [call[w] EXCEPT !.name = n, !.result = "deleted"] \in Calls
               /\ [call[w] EXCEPT !.name = n, !.result = "deleted"].id = call[w].id
               /\ [call[w] EXCEPT !.name = n, !.result = "deleted"].name = n
               /\ [call[w] EXCEPT !.name = n] \in Calls
               /\ [call[w] EXCEPT !.name = n].id = call[w].id
               /\ [call[w] EXCEPT !.name = n].name = n
    <3>1. n \in Blob
      BY DEF Blob
    <3> QED
      BY <3>1, ResultNames DEF Calls
  <2>2. \E n \in Names : 
          \/ Moves(w, "unlink", [call[w] EXCEPT !.name = n, !.result = "deleted"], answer[w])
          \/ Moves(w, "open", [call[w] EXCEPT !.name = n], answer[w])
    BY <1>5, ReadEffects
  <2>3. \A n \in Names :
          /\ Keeps(w, "unlink", [call[w] EXCEPT !.name = n, !.result = "deleted"])
          /\ Keeps(w, "open", [call[w] EXCEPT !.name = n])
    BY <1>1, <1>3, <2>1 DEF Keeps
  <2> QED
    BY <1>3, <2>1, <2>2, <2>3
<1>6. CASE DeleteBlob(w) \/ DeleteBlobFails(w)
  <2>1. pc[w] \in AtBlob /\ "unhash" \in Places \ Writing
    BY <1>6 DEF DeleteBlob, DeleteBlobFails, AtBlob, Places, Writing
  <2>2. \E r \in Results : Moves(w, "unhash", With(w, r), answer[w])
    BY <1>2, <1>6, ReadEffects DEF Results
  <2> QED
    BY <1>4, <2>1, <2>2
<1>7. CASE DeleteHash(w) \/ DeleteHashFails(w) \/ ListDone(w)
  <2>1. \E s \in Results \cup {"list"} : Moves(w, "reply", call[w], Ends(w, s))
    BY <1>2, <1>7, ReadEffects
  <2> QED
    BY <1>3, <1>4, <2>1
<1>8. CASE OpenBlob(w)
  <2>1. pc[w] \in AtBlob
    BY <1>8 DEF OpenBlob, AtBlob, Places
  <2>2. dir[call[w].name] \in File
    BY <1>2, <2>1, PathsApart
  <2>3. [answer[w] EXCEPT !.file = dir[call[w].name]] \in Answers
    BY <2>2 DEF Answers
  <2>4. \/ Moves(w, "reply", call[w], Ends(w, "not found"))
        \/ Moves(w, "stat", call[w], [answer[w] EXCEPT !.file = dir[call[w].name]])
    BY <1>8, ReadEffects
  <2> QED
    BY <1>3, <1>4, <2>1, <2>3, <2>4 DEF Results
<1>9. CASE OpenStat(w)
  <2>1. pc[w] \in AtBlob
    BY <1>9 DEF OpenStat, AtBlob, Places
  <2>2. answer[w].file.bytes \in Nat
    BY <1>2 DEF File
  <2>3. [answer[w] EXCEPT !.bytes = answer[w].file.bytes] \in Answers
    BY <2>2 DEF Answers
  <2> QED
    BY <1>3, <1>4, <1>9, <2>1, <2>3, ReadEffects
<1>10. CASE OpenSidecar(w)
  <2>1. pc[w] \in AtBlob
    BY <1>10 DEF OpenSidecar, AtBlob, Places
  <2>2. ReadSidecar(dir[hashPath(call[w].name)]) \in Int
    BY <1>2, <2>1, PathsApart, SidecarType
  <2>3. [answer[w] EXCEPT !.status = "open",
                          !.sha = ReadSidecar(dir[hashPath(call[w].name)])] \in Answers
    BY <2>2 DEF Answers
  <2> QED
    BY <1>3, <1>4, <1>10, <2>3, ReadEffects
<1>11. CASE ListRead(w)
  BY <1>3, <1>4, <1>11, ReadEffects
<1>12. CASE ListEntry(w)
  <2>1. PICK listed \in SUBSET Paths :
          Moves(w, "list", call[w], [answer[w] EXCEPT !.listed = listed])
    BY <1>12, ReadEffects
  <2>2. [answer[w] EXCEPT !.listed = listed] \in Answers
    BY DEF Answers
  <2> QED
    BY <1>3, <1>4, <2>1, <2>2
<1>13. CASE Reply(w)
  BY <1>1, <1>3, <1>13, ReadEffects DEF Keeps
<1> QED
  BY <1>5, <1>6, <1>7, <1>8, <1>9, <1>10, <1>11, <1>12, <1>13 DEF ReadStep

\* A step of a goroutine keeps the layout of the goroutines and numbers of the writes.
LEMMA LayoutStep ==
  ASSUME TypeInv, NEW w \in Workers, WorkerStep(w)
  PROVE  /\ pc' \in [Workers -> Places] /\ call' \in [Workers -> Calls]
         /\ answer' \in [Workers -> Answers] /\ writes' \in 0..MaxWrites
         /\ \A u \in Workers :
              /\ pc'[u] \in AtBlob => call'[u].name \in Names
              /\ pc'[u] \in Writing => call'[u].id # 0
              /\ call'[u].id <= writes'
         /\ \A v, u \in Workers :
              v # u /\ call'[v].id = call'[u].id => call'[v].id = 0
<1>1. PICK l \in Places, c \in Calls, a \in Answers : Moves(w, l, c, a) /\ Keeps(w, l, c)
  BY WriteKeeps, ReadKeeps DEF WorkerStep
<1>2. pc' \in [Workers -> Places] /\ call' \in [Workers -> Calls] /\ answer' \in [Workers -> Answers]
  BY <1>1 DEF Moves, TypeInv, Layout
<1>3. /\ pc'[w] = l /\ call'[w] = c
      /\ \A u \in Workers : u # w => pc'[u] = pc[u] /\ call'[u] = call[u]
  BY <1>1 DEF Moves, TypeInv, Layout
<1>4. \A u \in Workers : call[u].id \in Nat /\ call[u].id <= writes
  BY BlobBounds DEF TypeInv, Layout, Calls
<1>5. writes \in 0..MaxWrites /\ MaxWrites \in Nat
  BY BlobBounds DEF TypeInv, Layout
<1>6. writes' \in 0..MaxWrites /\ writes <= writes' /\ c.id <= writes'
  BY <1>1, <1>4, <1>5 DEF Keeps
<1>7. ASSUME NEW u \in Workers
      PROVE  /\ pc'[u] \in AtBlob => call'[u].name \in Names
             /\ pc'[u] \in Writing => call'[u].id # 0
             /\ call'[u].id <= writes'
  <2>1. CASE u = w
    BY <1>1, <1>3, <1>6, <2>1 DEF Keeps
  <2>2. CASE u # w
    BY <1>3, <1>4, <1>5, <1>6, <2>2 DEF TypeInv, Layout
  <2> QED
    BY <2>1, <2>2
<1>8. ASSUME NEW u \in Workers, u # w, c.id = call[u].id
      PROVE  c.id = 0
  BY <1>1, <1>4, <1>5, <1>8 DEF Keeps, TypeInv, Layout
<1>9. ASSUME NEW v \in Workers, NEW u \in Workers, v # u, call'[v].id = call'[u].id
      PROVE  call'[v].id = 0
  BY <1>3, <1>8, <1>9 DEF TypeInv, Layout
<1> QED
  BY <1>2, <1>6, <1>7, <1>9

\* What every path holds, and that a crash can leave what it holds now.
FileTypeOK ==
  /\ dir \in [Paths -> File] /\ survive \in [Paths -> SUBSET File]
  /\ \A p \in Paths : dir[p] \in survive[p]

LEMMA SetKeeps ==
  ASSUME FileTypeOK, NEW p \in Paths, NEW f \in File, Set(p, f)
  PROVE  FileTypeOK'
  BY DEF FileTypeOK, Set

LEMMA WriteKeepsTypes ==
  ASSUME FileTypeOK, NEW w \in Workers, hashPath(call[w].name) \in Paths
  PROVE  /\ \A f \in File : WriteHash(w, f) => FileTypeOK'
         /\ UNCHANGED <<dir, survive>> => FileTypeOK'
  BY DEF FileTypeOK, WriteHash

\* The paths that a step of a goroutine changes.
LEMMA OwnPaths ==
  ASSUME TypeInv, NEW w \in Workers
  PROVE  /\ pc[w] \in Writing => Temp(call[w].id) \in Paths /\ call[w].id \in 1..MaxWrites
                                 /\ call[w].id <= writes
         /\ pc[w] \in AtBlob => /\ call[w].name \in Names /\ call[w].name \in Paths
                                /\ hashPath(call[w].name) \in Paths
         /\ call[w].id \in Nat /\ call[w].body \in Body /\ TakenFrom(call[w].body) \in Nat
         /\ Writing \subseteq AtBlob
<1>1. call[w].id \in 0..MaxWrites /\ call[w].body \in Body /\ MaxWrites \in Nat
  BY BlobBounds DEF TypeInv, Layout, Calls
<1>2. pc[w] \in Writing => call[w].id # 0
  BY DEF TypeInv, Layout
<1>3. pc[w] \in AtBlob => call[w].name \in Names
  BY DEF TypeInv, Layout
<1>4. Writing \subseteq AtBlob
  BY DEF Writing, AtBlob, Places
<1>5. call[w].id <= writes
  BY DEF TypeInv, Layout
<1> QED
  BY <1>1, <1>2, <1>3, <1>4, <1>5, PathsApart, TakenType

LEMMA FilesStep ==
  ASSUME TypeInv, NEW w \in Workers, WorkerStep(w)
  PROVE  FileTypeOK'
<1>0. FileTypeOK
  BY DEF TypeInv, TypeOK, FileTypeOK
<1>1. CASE UNCHANGED files
  BY <1>0, <1>1 DEF files, FileTypeOK
<1>2. CASE PutCreate(w) \/ PutCopyFails(w) \/ PutUntemp(w)
  <2>1. pc[w] \in Writing
    BY <1>2 DEF PutCreate, PutCopyFails, PutUntemp, PutUntempFails, Writing
  <2>2. \E f \in {EmptyFile, Part(call[w].id), Absent} : Set(Temp(call[w].id), f)
    BY <1>2 DEF PutCreate, PutCopyFails, PutUntemp
  <2> QED
    BY <1>0, <2>1, <2>2, OwnPaths, FileTypes, SetKeeps
<1>3. CASE PutCopy(w)
  <2>1. pc[w] \in Writing
    BY <1>3 DEF PutCopy, Writing
  <2> DEFINE t == Temp(call[w].id)
             f == Data(call[w].id, TakenFrom(call[w].body))
  <2>2. /\ dir' = [dir EXCEPT ![t] = f]
        /\ survive' = [survive EXCEPT ![t] = @ \cup {Part(call[w].id), f}]
    BY <1>3 DEF PutCopy
  <2>3. t \in Paths /\ f \in File /\ Part(call[w].id) \in File
    BY <2>1, OwnPaths, FileTypes
  <2> HIDE DEF t, f
  <2> QED
    BY <1>0, <2>2, <2>3 DEF FileTypeOK
<1>4. CASE PutSync(w)
  <2>1. pc[w] \in Writing
    BY <1>4 DEF PutSync, Writing
  <2> DEFINE t == Temp(call[w].id)
  <2>2. dir' = dir /\ survive' = [survive EXCEPT ![t] = {dir[t]}] /\ t \in Paths
    BY <1>4, <2>1, OwnPaths DEF PutSync
  <2> HIDE DEF t
  <2> QED
    BY <1>0, <2>2 DEF FileTypeOK
<1>5. CASE PutRename(w)
  <2>1. pc[w] \in Writing
    BY <1>5 DEF PutRename, Writing
  <2> DEFINE t == Temp(call[w].id)
             n == call[w].name
  <2>2. /\ dir' = [dir EXCEPT ![n] = dir[t], ![t] = Absent]
        /\ survive' = [survive EXCEPT ![n] = @ \cup survive[t], ![t] = @ \cup {Absent}]
    BY <1>5 DEF PutRename
  <2>3. t \in Paths /\ n \in Paths /\ Absent \in File /\ t # n
    BY <2>1, OwnPaths, FileTypes, PathsApart
  <2> HIDE DEF t, n
  <2> QED
    BY <1>0, <2>2, <2>3 DEF FileTypeOK
<1>6. CASE PutHashTruncate(w) \/ DeleteHash(w)
  <2>1. pc[w] \in AtBlob
    BY <1>6 DEF PutHashTruncate, DeleteHash, AtBlob, Places
  <2>2. \E f \in {EmptyFile, Absent} : Set(hashPath(call[w].name), f)
    BY <1>6 DEF PutHashTruncate, DeleteHash
  <2> QED
    BY <1>0, <2>1, <2>2, OwnPaths, FileTypes, SetKeeps
<1>7. CASE PutHash(w) \/ PutHashFails(w)
  <2>1. pc[w] \in AtBlob
    BY <1>7 DEF PutHash, PutHashFails, AtBlob, Places
  <2>2. \/ UNCHANGED <<dir, survive>>
        \/ \E f \in {Part(call[w].id), Hash(call[w].id)} : WriteHash(w, f)
    BY <1>7 DEF PutHash, PutHashFails
  <2>3. \A f \in {Part(call[w].id), Hash(call[w].id)} : f \in File
    BY OwnPaths, FileTypes
  <2> QED
    BY <1>0, <2>1, <2>2, <2>3, OwnPaths, WriteKeepsTypes
<1>8. CASE DeleteBlob(w)
  <2>1. pc[w] \in AtBlob
    BY <1>8 DEF DeleteBlob, AtBlob, Places
  <2>2. Set(call[w].name, Absent)
    BY <1>8 DEF DeleteBlob
  <2> QED
    BY <1>0, <2>1, <2>2, OwnPaths, FileTypes, SetKeeps
<1>9. UNCHANGED files \/ PutCreate(w) \/ PutCopyFails(w) \/ PutUntemp(w) \/ PutCopy(w)
      \/ PutSync(w) \/ PutRename(w) \/ PutHashTruncate(w) \/ PutHash(w) \/ PutHashFails(w)
      \/ DeleteHash(w) \/ DeleteBlob(w)
  BY DEF WorkerStep, WriteStep, ReadStep, CallWrite, PutCreateFails, PutCheck,
    PutInstallFails, PutUntempFails, PutDone, CallDelete, DeleteBlobFails, DeleteHashFails,
    CallOpen, OpenBlob, OpenStat, OpenSidecar, ListRead, ListEntry, ListDone, Reply
<1> QED
  BY <1>1, <1>2, <1>3, <1>4, <1>5, <1>6, <1>7, <1>8, <1>9

LEMMA SeenStep ==
  ASSUME TypeInv, NEW w \in Workers, WorkerStep(w)
  PROVE  seen' \in [Workers -> SUBSET Paths]
<1>1. CASE seen' = seen
  BY <1>1 DEF TypeInv, Layout
<1>2. CASE ListRead(w) \/ ListEntry(w)
  <2>1. \E s \in SUBSET Paths : seen' = [seen EXCEPT ![w] = s]
    <3>1. CASE ListRead(w)
      <4>1. seen' = [seen EXCEPT ![w] = {p \in Paths : dir[p] # Absent /\ ~IsSidecar(p)}]
        BY <3>1 DEF ListRead
      <4> QED
        BY <4>1
    <3>2. CASE ListEntry(w)
      <4>1. PICK p \in seen[w] : seen' = [seen EXCEPT ![w] = seen[w] \ {p}]
        BY <3>2 DEF ListEntry, TypeInv, Layout
      <4>2. seen[w] \ {p} \in SUBSET Paths
        BY DEF TypeInv, TypeOK
      <4> QED
        BY <4>1, <4>2
    <3> QED
      BY <1>2, <3>1, <3>2
  <2> QED
    BY <2>1 DEF TypeInv, Layout
<1>3. seen' = seen \/ ListRead(w) \/ ListEntry(w)
  BY DEF WorkerStep, WriteStep, ReadStep, CallWrite, PutCreate, PutCreateFails, PutCopy,
    PutCopyFails, PutCheck, PutSync, PutInstallFails, PutUntemp, PutUntempFails, PutRename,
    PutHashTruncate,
    PutHash, PutHashFails, PutDone, CallDelete, DeleteBlob, DeleteBlobFails, DeleteHash,
    DeleteHashFails,
    CallOpen, OpenBlob, OpenStat, OpenSidecar, ListDone, Reply
<1> QED
  BY <1>1, <1>2, <1>3

LEMMA CountsStep ==
  ASSUME TypeInv, NEW w \in Workers, WorkerStep(w)
  PROVE  /\ faults' \in Nat /\ crashes' = crashes
         /\ mixed' \in {mixed, mixed \cup {call[w].name}, mixed \ {call[w].name}}
         /\ mixed' \subseteq Names
         /\ leftover \subseteq leftover' /\ leftover' \subseteq 1..MaxWrites
<1>1. faults' \in {faults, faults + 1} /\ crashes' = crashes
  BY DEF WorkerStep, WriteStep, ReadStep, CallWrite, PutCreate, PutCreateFails, PutCopy,
    PutCopyFails, PutCheck, PutSync, PutInstallFails, PutUntemp, PutUntempFails, PutRename,
    PutHashTruncate,
    PutHash, PutHashFails, PutDone, CallDelete, DeleteBlob, DeleteBlobFails, DeleteHash,
    DeleteHashFails,
    CallOpen, OpenBlob, OpenStat, OpenSidecar, ListRead, ListEntry, ListDone, Reply,
    Fault, counts
<1>2. \/ mixed' = mixed
      \/ pc[w] \in AtBlob /\ mixed' \in {mixed \cup {call[w].name}, mixed \ {call[w].name}}
  <2> DEFINE Mixes == PutRename(w) \/ DeleteBlob(w) \/ PutHashFails(w) \/ DeleteBlobFails(w)
                      \/ DeleteHashFails(w)
  <2>1. CASE Mixes
    <3>1. pc[w] \in AtBlob
      BY <2>1 DEF PutRename, DeleteBlob, PutHashFails, DeleteBlobFails, DeleteHashFails,
        AtBlob, Places, Writing
    <3>2. mixed' \in {mixed \cup {call[w].name}, mixed \ {call[w].name}}
      BY <2>1 DEF PutRename, DeleteBlob, PutHashFails, DeleteBlobFails, DeleteHashFails, Enter
    <3> QED
      BY <3>1, <3>2
  <2>2. CASE mixed' = mixed
    BY <2>2
  <2>3. mixed' = mixed \/ Mixes
    BY DEF WorkerStep, WriteStep, ReadStep, CallWrite, PutCreate, PutCreateFails, PutCopy,
      PutCopyFails, PutCheck, PutSync, PutInstallFails, PutUntemp, PutUntempFails,
      PutHashTruncate, PutHash, PutDone, CallDelete, DeleteHash, CallOpen, OpenBlob,
      OpenStat, OpenSidecar, ListRead, ListEntry, ListDone, Reply, history
  <2> QED
    BY <2>1, <2>2, <2>3
<1>3. leftover \subseteq leftover' /\ leftover' \subseteq 1..MaxWrites
  <2>1. CASE PutUntempFails(w)
    <3>1. pc[w] \in Writing /\ leftover' = leftover \cup {call[w].id}
      BY <2>1 DEF PutUntempFails, Writing
    <3> QED
      BY <3>1, OwnPaths DEF TypeInv, TypeOK
  <2>2. leftover' = leftover \/ PutUntempFails(w)
    BY DEF WorkerStep, WriteStep, ReadStep, CallWrite, PutCreate, PutCreateFails, PutCopy,
      PutCopyFails, PutCheck, PutSync, PutInstallFails, PutUntemp, PutRename, PutHashTruncate,
      PutHash, PutHashFails, PutDone, CallDelete, DeleteBlob, DeleteBlobFails, DeleteHash,
      DeleteHashFails, CallOpen, OpenBlob, OpenStat, OpenSidecar, ListRead, ListEntry,
      ListDone, Reply, history
  <2> QED
    BY <2>1, <2>2 DEF TypeInv, TypeOK
<1> QED
  BY <1>1, <1>2, <1>3, OwnPaths DEF TypeInv, TypeOK, Layout

\* A .sha256 file that is removed or renamed over is lost to those who have it open, and
\* a goroutine that ends its write to one has none open any more.
LEMMA LostEffects ==
  ASSUME NEW w \in Workers, WorkerStep(w)
  PROVE  \/ lost' = lost /\ pc[w] # "hashing"
         \/ PutHash(w) \/ PutHashFails(w)
         \/ (PutRename(w) \/ DeleteBlob(w)) /\ Unlink(call[w].name)
         \/ DeleteHash(w) /\ Unlink(hashPath(call[w].name))
  BY DEF WorkerStep, WriteStep, ReadStep, CallWrite, PutCreate, PutCreateFails, PutCopy,
    PutCopyFails, PutCheck, PutSync, PutInstallFails, PutUntemp, PutUntempFails, PutRename,
    PutHashTruncate, PutDone, CallDelete, DeleteBlob, DeleteBlobFails, DeleteHash,
    DeleteHashFails, CallOpen, OpenBlob, OpenStat, OpenSidecar, ListRead, ListEntry,
    ListDone, Reply, files

LEMMA LostStep ==
  ASSUME TypeInv, NEW w \in Workers, WorkerStep(w)
  PROVE  lost' \subseteq {u \in Workers : pc'[u] = "hashing"}
<1>0. lost \subseteq {u \in Workers : pc[u] = "hashing"}
  BY DEF TypeInv, TypeOK
<1>1. \A u \in Workers : u # w => pc'[u] = pc[u]
  <2>1. PICK l \in Places, c \in Calls, a \in Answers : Moves(w, l, c, a)
    BY WriteKeeps, ReadKeeps DEF WorkerStep
  <2> QED
    BY <2>1 DEF Moves, TypeInv, Layout
<1>2. lost' \subseteq {u \in Workers : pc[u] = "hashing"} /\ w \notin lost'
  <2>1. CASE lost' = lost /\ pc[w] # "hashing"
    BY <1>0, <2>1
  <2>2. CASE PutHash(w) \/ PutHashFails(w)
    <3>1. lost' = lost \ {w}
      BY <2>2 DEF PutHash, PutHashFails
    <3> QED
      BY <1>0, <3>1
  <2>3. CASE (PutRename(w) \/ DeleteBlob(w)) /\ Unlink(call[w].name)
    <3>1. pc[w] # "hashing"
      BY <2>3 DEF PutRename, DeleteBlob
    <3> QED
      BY <1>0, <2>3, <3>1 DEF Unlink
  <2>4. CASE DeleteHash(w) /\ Unlink(hashPath(call[w].name))
    <3>1. pc[w] # "hashing"
      BY <2>4 DEF DeleteHash
    <3> QED
      BY <1>0, <2>4, <3>1 DEF Unlink
  <2> QED
    BY <2>1, <2>2, <2>3, <2>4, LostEffects
<1> QED
  BY <1>1, <1>2

\* After a crash the volume holds one of the things that can survive, and nobody runs.
LEMMA CrashStep ==
  ASSUME TypeInv, Crash
  PROVE  /\ FileTypeOK' /\ TypeInv'
         /\ \A p \in Paths : dir'[p] \in survive[p] /\ survive'[p] = {dir'[p]}
         /\ pc' = [w \in Workers |-> "idle"] /\ call' = [w \in Workers |-> Idle]
         /\ answer' = [w \in Workers |-> NoAnswer]
         /\ writes' = writes /\ mixed' = Names /\ crashes' = crashes + 1
         /\ leftover' = {i \in 1..MaxWrites : dir'[Temp(i)] # Absent}
<1>1. /\ \A p \in Paths : dir'[p] \in survive[p]
      /\ dir' \in [Paths -> UNION {survive[p] : p \in Paths}]
      /\ survive' = [p \in Paths |-> {dir'[p]}]
  BY DEF Crash
<1>2. FileTypeOK'
  <2>1. \A p \in Paths : dir'[p] \in File
    BY <1>1 DEF TypeInv, TypeOK
  <2>2. dir' \in [Paths -> File]
    BY <1>1, <2>1
  <2> QED
    BY <1>1, <2>1, <2>2 DEF FileTypeOK
<1>3. /\ pc' = [w \in Workers |-> "idle"] /\ call' = [w \in Workers |-> Idle]
      /\ seen' = [w \in Workers |-> {}] /\ answer' = [w \in Workers |-> NoAnswer]
      /\ writes' = writes /\ faults' = faults /\ mixed' = Names /\ crashes' = crashes + 1
      /\ lost' = {} /\ leftover' = {i \in 1..MaxWrites : dir'[Temp(i)] # Absent}
  BY DEF Crash
<1>4. Idle \in Calls /\ Idle.id = 0 /\ NoAnswer \in Answers
  <2>1. Idle \in Calls /\ Idle.id = 0
    BY BlobBounds DEF Idle, Calls, Blob, Body, Results
  <2>2. NoAnswer \in Answers
    BY FileTypes DEF NoAnswer, Answers, Results
  <2> QED
    BY <2>1, <2>2
<1>5. Layout'
  <2>1. "idle" \in Places \ (AtBlob \cup Writing)
    BY DEF Places, AtBlob, Writing
  <2>2. writes \in 0..MaxWrites /\ faults \in Nat /\ crashes \in Nat
    BY DEF TypeInv, Layout
  <2>3. \A w \in Workers : pc'[w] = "idle" /\ call'[w] = Idle
    BY <1>3
  <2>4. \A w \in Workers : call'[w].id = 0
    BY <1>4, <2>3
  <2>5. \A w \in Workers :
          /\ pc'[w] \in AtBlob => call'[w].name \in Names
          /\ pc'[w] \in Writing => call'[w].id # 0
          /\ call'[w].id <= writes'
    BY <1>3, <2>1, <2>2, <2>3, <2>4, BlobBounds
  <2> QED
    BY <1>3, <1>4, <2>1, <2>2, <2>4, <2>5 DEF Layout
<1>6. TypeOK'
  <2>1. /\ \A w \in Workers : seen'[w] \subseteq Paths /\ answer'[w].listed \subseteq Paths
        /\ \A w \in Workers : answer'[w].file \in File /\ answer'[w].sha \in Int
    BY <1>3, <1>4 DEF Answers
  <2>2. \A w \in Workers : pc'[w] \notin Writing
    BY <1>3 DEF Writing
  <2> QED
    BY <1>2, <1>3, <2>1, <2>2 DEF TypeOK, FileTypeOK
<1> QED
  BY <1>1, <1>2, <1>3, <1>5, <1>6 DEF TypeInv

LEMMA TypeStep == TypeInv /\ [Next]_vars => TypeInv'
<1> SUFFICES ASSUME TypeInv, [Next]_vars
             PROVE  TypeInv'
  OBVIOUS
<1>1. ASSUME NEW w \in Workers, WorkerStep(w)
      PROVE  TypeInv'
  <2>1. Layout'
    BY <1>1, LayoutStep, SeenStep, CountsStep DEF Layout, TypeInv
  <2>2. TypeOK'
    <3>1. /\ \A u \in Workers : seen'[u] \subseteq Paths /\ answer'[u].listed \subseteq Paths
          /\ \A u \in Workers : answer'[u].file \in File /\ answer'[u].sha \in Int
      BY <2>1 DEF Layout, Answers
    <3>2. \A u, v \in Workers :
            u # v /\ pc'[u] \in Writing /\ pc'[v] \in Writing => call'[u].id # call'[v].id
      BY <2>1 DEF Layout
    <3> QED
      BY <1>1, <3>1, <3>2, FilesStep, CountsStep, LostStep DEF TypeOK, FileTypeOK
  <2> QED
    BY <2>1, <2>2 DEF TypeInv
<1>2. CASE Crash
  BY <1>2, CrashStep
<1>3. CASE UNCHANGED vars
  BY <1>3 DEF vars, TypeInv, TypeOK, Layout
<1> QED
  BY <1>1, <1>2, <1>3, NextSteps

LEMMA TypeInit == Init => TypeInv
<1> SUFFICES ASSUME Init
             PROVE  TypeInv
  OBVIOUS
<1>1. Idle \in Calls /\ Idle.id = 0
  BY BlobBounds DEF Idle, Calls, Blob, Body, Results
<1>2. NoAnswer \in Answers
  BY FileTypes DEF NoAnswer, Answers, Results
<1>3. "idle" \in Places \ (AtBlob \cup Writing)
  BY DEF Places, AtBlob, Writing
<1>4. \A w \in Workers : pc[w] = "idle" /\ call[w] = Idle /\ answer[w] = NoAnswer /\ seen[w] = {}
  BY DEF Init
<1>5. Layout
  <2>1. /\ pc \in [Workers -> Places] /\ call \in [Workers -> Calls]
        /\ seen \in [Workers -> SUBSET Paths] /\ answer \in [Workers -> Answers]
        /\ writes = 0 /\ faults = 0 /\ crashes = 0
    BY <1>1, <1>2, <1>3 DEF Init
  <2>2. \A w \in Workers : call[w].id = 0
    BY <1>1, <1>4
  <2> QED
    BY <1>3, <1>4, <2>1, <2>2, BlobBounds DEF Layout
<1>6. TypeOK
  <2>1. /\ \A w \in Workers : seen[w] \subseteq Paths /\ answer[w].listed \subseteq Paths
        /\ \A w \in Workers : answer[w].file \in File /\ answer[w].sha \in Int
    BY <1>2, <1>4 DEF Answers
  <2>2. \A w \in Workers : pc[w] \notin Writing
    BY <1>3, <1>4
  <2> QED
    BY <2>1, <2>2, FileTypes DEF Init, TypeOK
<1> QED
  BY <1>5, <1>6 DEF TypeInv

\* The types of the variables, with where each goroutine can be and the numbers of the
\* writes, hold in every state.
THEOREM TypeInvariant == Spec => []TypeInv
  BY TypeInit, TypeStep, PTL DEF Spec

\* However many goroutines write, no two of them have the same temporary file.
THEOREM TypeCorrect == Spec => []TypeOK
<1>1. TypeInv => TypeOK
  BY DEF TypeInv
<1> QED
  BY <1>1, TypeInvariant, PTL

(***************************************************************************)
(* What each step does to the files.                                       *)
(***************************************************************************)
ChangesBlob(w) == PutRename(w) \/ DeleteBlob(w)
ChangesHash(w) == PutHashTruncate(w) \/ PutHash(w) \/ PutHashFails(w) \/ DeleteHash(w)

FileSteps(w) ==
  PutCreate(w) \/ PutCopyFails(w) \/ PutUntemp(w) \/ PutCopy(w) \/ PutSync(w)
  \/ ChangesBlob(w) \/ ChangesHash(w)

LEMMA OtherSteps == \A w : WorkerStep(w) => FileSteps(w) \/ UNCHANGED files
  BY DEF WorkerStep, WriteStep, ReadStep, CallWrite, PutCreateFails, PutCheck, FileSteps,
    ChangesBlob, ChangesHash, PutInstallFails, PutUntempFails, PutDone, CallDelete,
    DeleteBlobFails, DeleteHashFails, CallOpen, OpenBlob, OpenStat, OpenSidecar, ListRead,
    ListEntry, ListDone, Reply

Same(p) == dir'[p] = dir[p] /\ survive'[p] = survive[p]

LEMMA SetSame ==
  ASSUME FileTypeOK, NEW p \in Paths, NEW f, Set(p, f)
  PROVE  /\ dir'[p] = f /\ survive'[p] = survive[p] \cup {f}
         /\ \A q \in Paths : q # p => Same(q)
  BY DEF FileTypeOK, Set, Same

LEMMA RenameSame ==
  ASSUME TypeInv, NEW w \in Workers, PutRename(w)
  PROVE  LET n == call[w].name  t == Temp(call[w].id) IN
         /\ dir'[n] = dir[t] /\ survive'[n] = survive[n] \cup survive[t]
         /\ dir'[t] = Absent /\ survive'[t] = survive[t] \cup {Absent}
         /\ \A q \in Paths : q # n /\ q # t => Same(q)
<1> DEFINE n == call[w].name  t == Temp(call[w].id)
<1>1. pc[w] \in Writing
  BY DEF PutRename, Writing
<1>2. n \in Paths /\ t \in Paths /\ n # t
  BY <1>1, OwnPaths, PathsApart
<1>3. /\ dir' = [dir EXCEPT ![n] = dir[t], ![t] = Absent]
      /\ survive' = [survive EXCEPT ![n] = @ \cup survive[t], ![t] = @ \cup {Absent}]
  BY DEF PutRename
<1>4. dir \in [Paths -> File] /\ survive \in [Paths -> SUBSET File]
  BY DEF TypeInv, TypeOK
<1> HIDE DEF n, t
<1>5. /\ dir'[n] = dir[t] /\ survive'[n] = survive[n] \cup survive[t]
      /\ dir'[t] = Absent /\ survive'[t] = survive[t] \cup {Absent}
      /\ \A q \in Paths : q # n /\ q # t => Same(q)
  BY <1>2, <1>3, <1>4 DEF Same
<1> QED
  BY <1>5 DEF n, t

\* A step that is about a .sha256 file changes no other one and brings no data to it.
LEMMA HashSame ==
  ASSUME TypeInv, NEW w \in Workers, ChangesHash(w)
  PROVE  LET p == hashPath(call[w].name) IN
         /\ pc[w] \in AtBlob /\ call[w].name \in Names /\ p \in Paths
         /\ \A q \in Paths : q # p => Same(q)
         /\ dir'[p] = dir[p] \/ dir'[p].kind # "data"
         /\ \A f \in survive'[p] : f \in survive[p] \/ f.kind # "data"
<1> DEFINE p == hashPath(call[w].name)
<1>0. dir \in [Paths -> File] /\ survive \in [Paths -> SUBSET File]
  BY DEF TypeInv, TypeOK
<1>1. pc[w] \in AtBlob
  BY DEF ChangesHash, PutHashTruncate, PutHash, PutHashFails, DeleteHash, AtBlob, Places
<1>2. call[w].name \in Names /\ p \in Paths
  BY <1>1, OwnPaths
<1> DEFINE Written == {EmptyFile, Part(call[w].id), Hash(call[w].id), Absent}
<1>3. \/ UNCHANGED <<dir, survive>>
      \/ \E f \in Written : Set(p, f) \/ WriteHash(w, f)
  BY DEF ChangesHash, PutHashTruncate, PutHash, PutHashFails, DeleteHash
<1>4. ASSUME NEW f \in Written, Set(p, f) \/ WriteHash(w, f)
      PROVE  /\ dir' = dir \/ dir' = [dir EXCEPT ![p] = f]
             /\ survive' = [survive EXCEPT ![p] = @ \cup {f}]
  BY <1>4 DEF Set, WriteHash
<1>5. \A f \in Written : f.kind # "data"
  BY FileKinds
<1> HIDE DEF p, Written
<1>6. /\ \A q \in Paths : q # p => Same(q)
      /\ dir'[p] = dir[p] \/ dir'[p].kind # "data"
      /\ \A f \in survive'[p] : f \in survive[p] \/ f.kind # "data"
  <2>1. CASE UNCHANGED <<dir, survive>>
    BY <2>1 DEF Same
  <2>2. ASSUME NEW f \in Written, dir' = dir \/ dir' = [dir EXCEPT ![p] = f],
               survive' = [survive EXCEPT ![p] = @ \cup {f}]
        PROVE  /\ \A q \in Paths : q # p => Same(q)
               /\ dir'[p] = dir[p] \/ dir'[p].kind # "data"
               /\ \A g \in survive'[p] : g \in survive[p] \/ g.kind # "data"
    BY <1>0, <1>2, <1>5, <2>2 DEF Same
  <2> QED
    BY <1>3, <1>4, <2>1, <2>2
<1> QED
  BY <1>1, <1>2, <1>6 DEF p

\* A goroutine changes no temporary file but its own.
LEMMA TempsKept ==
  ASSUME TypeInv, NEW w \in Workers, WorkerStep(w), NEW i \in 1..MaxWrites,
         i # call[w].id \/ pc[w] \notin Writing
  PROVE  Same(Temp(i))
<1>0. FileTypeOK /\ Temp(i) \in Paths
  BY PathsApart DEF FileTypeOK, TypeInv, TypeOK
<1>1. CASE PutCreate(w) \/ PutCopyFails(w) \/ PutUntemp(w)
  <2>1. pc[w] \in Writing
    BY <1>1 DEF PutCreate, PutCopyFails, PutUntemp, PutUntempFails, Writing
  <2>2. \E f : Set(Temp(call[w].id), f)
    BY <1>1 DEF PutCreate, PutCopyFails, PutUntemp
  <2> QED
    BY <1>0, <2>1, <2>2, OwnPaths, PathsApart, SetSame
<1>2. CASE PutCopy(w) \/ PutSync(w)
  <2>1. pc[w] \in Writing
    BY <1>2 DEF PutCopy, PutSync, Writing
  <2>2. Temp(i) # Temp(call[w].id)
    BY <2>1, PathsApart
  <2> QED
    BY <1>0, <1>2, <2>2 DEF PutCopy, PutSync, Same, FileTypeOK
<1>3. CASE PutRename(w)
  <2>1. pc[w] \in Writing
    BY <1>3 DEF PutRename, Writing
  <2> QED
    BY <1>0, <1>3, <2>1, OwnPaths, PathsApart, RenameSame
<1>4. CASE ChangesHash(w)
  BY <1>0, <1>4, HashSame, PathsApart
<1>5. CASE DeleteBlob(w)
  <2>1. pc[w] \in AtBlob /\ Set(call[w].name, Absent)
    BY <1>5 DEF DeleteBlob, AtBlob, Places
  <2> QED
    BY <1>0, <2>1, OwnPaths, PathsApart, SetSame
<1>6. CASE UNCHANGED files
  BY <1>6 DEF files, Same
<1> QED
  BY <1>1, <1>2, <1>3, <1>4, <1>5, <1>6, OtherSteps DEF FileSteps, ChangesBlob

\* Only a rename brings data to a path that is no temporary file.
LEMMA DataFromRename ==
  ASSUME TypeInv, NEW w \in Workers, WorkerStep(w), NEW n \in Names
  PROVE  \/ /\ dir'[n] = dir[n] \/ dir'[n].kind # "data"
            /\ \A f \in survive'[n] : f \in survive[n] \/ f.kind # "data"
         \/ /\ PutRename(w) /\ n = call[w].name /\ dir'[n] = dir[Temp(call[w].id)]
            /\ survive'[n] = survive[n] \cup survive[Temp(call[w].id)]
<1>0. FileTypeOK /\ n \in Paths
  BY PathsApart DEF FileTypeOK, TypeInv, TypeOK
<1>1. CASE Same(n)
  BY <1>1 DEF Same
<1>2. CASE PutCreate(w) \/ PutCopyFails(w) \/ PutUntemp(w)
  <2>1. pc[w] \in Writing
    BY <1>2 DEF PutCreate, PutCopyFails, PutUntemp, Writing
  <2>2. \E g : Set(Temp(call[w].id), g)
    BY <1>2 DEF PutCreate, PutCopyFails, PutUntemp
  <2> QED
    BY <1>0, <1>1, <2>1, <2>2, OwnPaths, PathsApart, SetSame
<1>3. CASE PutCopy(w) \/ PutSync(w)
  <2>1. n # Temp(call[w].id)
    BY PathsApart
  <2>2. Same(n)
    BY <1>0, <1>3, <2>1 DEF PutCopy, PutSync, FileTypeOK, Same
  <2> QED
    BY <1>1, <2>2
<1>4. CASE PutRename(w)
  <2>1. n # Temp(call[w].id)
    BY PathsApart
  <2> QED
    BY <1>0, <1>1, <1>4, <2>1, RenameSame
<1>5. CASE ChangesHash(w)
  BY <1>0, <1>1, <1>5, HashSame
<1>6. CASE DeleteBlob(w)
  <2>1. pc[w] \in AtBlob /\ Set(call[w].name, Absent)
    BY <1>6 DEF DeleteBlob, AtBlob, Places
  <2>2. n = call[w].name => dir'[n] = Absent /\ survive'[n] = survive[n] \cup {Absent}
    BY <1>0, <2>1, SetSame
  <2>3. n # call[w].name => Same(n)
    BY <1>0, <2>1, OwnPaths, SetSame
  <2> QED
    BY <1>1, <2>2, <2>3, FileKinds
<1>7. CASE UNCHANGED files
  BY <1>7 DEF files
<1> QED
  BY <1>2, <1>3, <1>4, <1>5, <1>6, <1>7, OtherSteps DEF FileSteps, ChangesBlob

(***************************************************************************)
(* Temporary files.                                                        *)
(***************************************************************************)
LEMMA WriteOwn ==
  ASSUME TypeInv, TempInv, NEW w \in Workers, WriteStep(w)
  PROVE  TempFile(w)' /\ (pc'[w] \in {"unlink", "unhash"} => call'[w].result \notin Refused)
<1>0. /\ FileTypeOK /\ pc \in [Workers -> Places] /\ call \in [Workers -> Calls]
      /\ answer \in [Workers -> Answers] /\ TempFile(w)
  BY DEF FileTypeOK, TypeInv, TypeOK, Layout, TempInv
<1>1. CASE CallWrite(w)
  <2>1. PICK n \in Names, b \in Bodies :
              \/ Moves(w, "create", NewCall(n, b), answer[w])
              \/ Moves(w, "reply", NewCall(n, b), Ends(w, "too large"))
    BY <1>1, WriteEffects
  <2>2. call'[w].id = writes + 1 /\ pc'[w] \in {"create", "reply"}
    <3>1. NewCall(n, b).id = writes + 1
      BY DEF NewCall
    <3> QED
      BY <2>1, <3>1 DEF Moves
  <2>3. writes + 1 \in 1..MaxWrites
    <3>1. writes < MaxWrites /\ writes \in 0..MaxWrites
      BY <1>1, BlobBounds DEF CallWrite, TypeInv, Layout
    <3> QED
      BY <3>1, BlobBounds
  <2>5. survive' = survive
    BY <1>1 DEF CallWrite, files
  <2>4. survive[Temp(writes + 1)] = {Absent}
    BY <2>3, BlobBounds DEF TempInv, Fresh, TypeInv, Layout
  <2> QED
    BY <2>2, <2>5, <2>4 DEF TempFile
<1>2. CASE PutCreate(w)
  BY <1>0, <1>2, WriteEffects DEF Moves, TempFile
<1>3. CASE PutCopy(w)
  <2>1. pc'[w] = "check" /\ call'[w] = call[w]
    BY <1>0, <1>3, WriteEffects DEF Moves
  <2>2. Temp(call[w].id) \in Paths
    BY <1>3, OwnPaths DEF PutCopy, Writing
  <2>3. dir'[Temp(call[w].id)] = Whole(w)
    BY <1>0, <1>3, <2>2 DEF PutCopy, FileTypeOK, Whole
  <2> QED
    BY <2>1, <2>3 DEF TempFile, Whole
<1>4. CASE PutCheck(w)
  <2>1. dir' = dir /\ dir[Temp(call[w].id)] = Whole(w)
    BY <1>0, <1>4 DEF PutCheck, files, TempFile
  <2>2. \/ pc'[w] = "untemp"
        \/ Fits(w) /\ pc'[w] = "sync" /\ call'[w] = call[w]
    <3>1. TakenFrom(call[w].body) \in Nat /\ MaxBytes \in Nat
      BY OwnPaths, BlobBounds
    <3>2. \/ pc'[w] = "untemp"
          \/ ~(TakenFrom(call[w].body) > MaxBytes) /\ pc'[w] = "sync" /\ call'[w] = call[w]
      BY <1>4, WriteEffects DEF Moves
    <3> QED
      BY <3>1, <3>2 DEF Fits
  <2> QED
    BY <2>1, <2>2 DEF TempFile, Whole, Fits
<1>5. CASE PutSync(w)
  <2>1. pc'[w] = "rename" /\ call'[w] = call[w] /\ Fits(w)
    BY <1>0, <1>5, WriteEffects DEF Moves, TempFile, PutSync
  <2>2. Temp(call[w].id) \in Paths
    BY <1>5, OwnPaths DEF PutSync, Writing
  <2>3. survive'[Temp(call[w].id)] = {Whole(w)}
    BY <1>0, <1>5, <2>2 DEF PutSync, FileTypeOK, TempFile
  <2> QED
    BY <2>1, <2>3 DEF TempFile, Whole, Fits
<1>6. CASE PutRename(w) \/ PutHashTruncate(w) \/ PutHash(w)
  <2>1. pc'[w] \in {"hash", "hashing", "wrote"} /\ call'[w] = call[w]
    BY <1>0, <1>6, WriteEffects DEF Moves
  <2>2. Fits(w)
    BY <1>0, <1>6 DEF TempFile, PutRename, PutHashTruncate, PutHash
  <2> QED
    BY <2>1, <2>2 DEF TempFile, Fits
<1>7. CASE PutCreateFails(w) \/ PutCopyFails(w) \/ PutInstallFails(w) \/ PutUntemp(w)
           \/ PutUntempFails(w) \/ PutHashFails(w)
  <2>1. pc'[w] \in {"untemp", "reply"}
    BY <1>0, <1>7, WriteEffects DEF Moves
  <2> QED
    BY <2>1 DEF TempFile
<1>8. CASE PutDone(w)
  <2>1. ~(TakenFrom(call[w].body) > MaxBytes)
    <3>1. TakenFrom(call[w].body) \in Nat /\ MaxBytes \in Nat
      BY OwnPaths, BlobBounds
    <3>2. Fits(w)
      BY <1>0, <1>8 DEF TempFile, PutDone
    <3> QED
      BY <3>1, <3>2 DEF Fits
  <2>2. \/ pc'[w] = "unlink" /\ call'[w] = With(w, "length mismatch")
        \/ pc'[w] = "reply"
    BY <1>0, <1>8, <2>1, WriteEffects DEF Moves
  <2>3. With(w, "length mismatch").result = "length mismatch"
    BY FieldsKept, ResultNames
  <2> QED
    BY <2>2, <2>3 DEF TempFile, Refused
<1> QED
  BY <1>1, <1>2, <1>3, <1>4, <1>5, <1>6, <1>7, <1>8 DEF WriteStep

LEMMA ReadOwn ==
  ASSUME TypeInv, TempInv, NEW w \in Workers, ReadStep(w)
  PROVE  TempFile(w)' /\ (pc'[w] \in {"unlink", "unhash"} => call'[w].result \notin Refused)
<1>0. /\ pc \in [Workers -> Places] /\ call \in [Workers -> Calls]
      /\ answer \in [Workers -> Answers]
  BY DEF TypeInv, Layout
<1>1. pc'[w] \in {"unlink", "unhash", "reply", "open", "stat", "sidecar", "list", "idle"}
  BY <1>0, ReadEffects DEF ReadStep, Moves
<1>2. CASE CallDelete(w)
  <2>1. PICK n \in Names :
          call' = [call EXCEPT ![w] = [call[w] EXCEPT !.name = n, !.result = "deleted"]]
    BY <1>2, ReadEffects DEF Moves
  <2>2. [call[w] EXCEPT !.name = n, !.result = "deleted"].result = "deleted"
    BY <1>0 DEF Calls
  <2> QED
    BY <1>0, <1>1, <2>1, <2>2 DEF TempFile, Refused
<1>3. CASE DeleteBlob(w) \/ DeleteBlobFails(w)
  <2>1. call[w].result \notin Refused /\ call[w].result \in Results
    BY <1>0, <1>3 DEF TempInv, PastRename, DeleteBlob, DeleteBlobFails, Calls
  <2>2. PICK r \in Results \ Refused : call'[w] = With(w, r)
    <3>1. "not found" \in Results \ Refused /\ "error" \in Results \ Refused
      BY DEF Results, Refused
    <3>2. \E r \in {call[w].result, "not found", "error"} : Moves(w, "unhash", With(w, r), answer[w])
      BY <1>3, ReadEffects
    <3> QED
      BY <2>1, <3>1, <3>2 DEF Moves
  <2>3. call'[w].result \notin Refused
    BY <2>2, FieldsKept
  <2> QED
    BY <1>1, <2>3 DEF TempFile
<1>4. CASE ~(CallDelete(w) \/ DeleteBlob(w) \/ DeleteBlobFails(w))
  <2>1. pc'[w] \in {"reply", "open", "stat", "sidecar", "list", "idle"}
    BY <1>0, <1>4, ReadEffects DEF ReadStep, Moves
  <2> QED
    BY <2>1 DEF TempFile
<1> QED
  BY <1>2, <1>3, <1>4

\* A goroutine that writes, or that has just been refused, was writing already under the
\* same number or begins with the next one.
LEMMA SameWrite ==
  ASSUME TypeInv, TempInv, NEW w \in Workers, WorkerStep(w),
         pc'[w] \in Writing \/ (pc'[w] = "reply" /\ answer'[w].status \in Refused)
  PROVE  \/ pc[w] \in Writing /\ call'[w].id = call[w].id /\ pc'[w] # "hash" /\ ~PutRename(w)
         \/ call'[w].id = writes + 1 /\ CallWrite(w)
<1>0. /\ pc \in [Workers -> Places] /\ call \in [Workers -> Calls]
      /\ answer \in [Workers -> Answers] /\ TempFile(w)
  BY DEF TypeInv, Layout, TempInv
<1>r. /\ \A r \in {"error", "too large", "size mismatch"} : With(w, r).id = call[w].id
      /\ \A st \in {"error", "ok", "list", "not found"} : Ends(w, st).status = st
  <2>1. /\ \A r \in Results : With(w, r).id = call[w].id
        /\ \A st \in Results \cup {"ok", "open", "list"} : Ends(w, st).status = st
    BY FieldsKept
  <2> QED
    BY <2>1, ResultNames
<1>1. CASE CallWrite(w)
  <2>1. \E n \in Names, b \in Bodies : call'[w] = NewCall(n, b)
    BY <1>1, WriteEffects DEF Moves
  <2> QED
    BY <1>1, <2>1 DEF NewCall
<1>2. CASE PutCreate(w) \/ PutCopy(w) \/ PutCheck(w) \/ PutSync(w)
  <2>1. pc[w] \in Writing /\ ~PutRename(w) /\ pc'[w] # "hash"
    BY <1>0, <1>2, WriteEffects DEF PutCreate, PutCopy, PutCheck, PutSync, PutRename, Writing,
      Moves
  <2>2. call'[w].id = call[w].id
    BY <1>r, <1>2, WriteEffects DEF Moves
  <2> QED
    BY <2>1, <2>2
<1>3. CASE PutCreateFails(w) \/ PutCopyFails(w) \/ PutInstallFails(w) \/ PutUntemp(w)
           \/ PutUntempFails(w)
  <2>1. pc[w] \in Writing /\ pc'[w] # "hash"
    BY <1>0, <1>3, WriteEffects DEF PutCreateFails, PutCopyFails, PutInstallFails, PutUntemp,
      PutUntempFails,
      Writing, Moves
  <2>2. call'[w].id = call[w].id
    BY <1>r, <1>3, WriteEffects DEF Moves
  <2>3. ~PutRename(w)
    BY <1>0, <1>3, <2>1, WriteEffects DEF Moves
  <2> QED
    BY <2>1, <2>2, <2>3
<1>4. CASE PutRename(w) \/ PutHashTruncate(w) \/ PutHash(w)
  BY <1>0, <1>4, WriteEffects DEF Moves, Writing
<1>5. CASE PutHashFails(w) \/ PutDone(w)
  <2>1. \/ \E st \in {"error", "ok"} : Moves(w, "reply", call[w], Ends(w, st))
        \/ pc'[w] = "unlink"
    BY <1>0, <1>5, WriteEffects DEF Moves
  <2> QED
    BY <1>r, <2>1 DEF Moves, Refused, Writing
<1>6. CASE DeleteHash(w) \/ DeleteHashFails(w)
  <2>1. call[w].result \notin Refused /\ call[w].result \in Results
    BY <1>0, <1>6 DEF TempInv, PastRename, DeleteHash, DeleteHashFails, Calls
  <2>2. Moves(w, "reply", call[w], Ends(w, call[w].result))
    BY <1>6, ReadEffects
  <2>3. Ends(w, call[w].result).status = call[w].result
    BY <2>1, FieldsKept
  <2> QED
    BY <2>1, <2>2, <2>3 DEF Moves, Writing
<1>7. CASE OpenSidecar(w)
  <2>1. Moves(w, "reply", call[w],
          [answer[w] EXCEPT !.status = "open",
                            !.sha = ReadSidecar(dir[hashPath(call[w].name)])])
    BY <1>7, ReadEffects
  <2>2. [answer[w] EXCEPT !.status = "open",
                          !.sha = ReadSidecar(dir[hashPath(call[w].name)])].status = "open"
    BY <1>0 DEF Answers
  <2> QED
    BY <1>0, <2>1, <2>2 DEF Moves, Refused, Writing
<1>8. CASE OpenBlob(w)
  <2>1. Moves(w, "reply", call[w], Ends(w, "not found")) \/ pc'[w] = "stat"
    BY <1>0, <1>8, ReadEffects DEF Moves
  <2> QED
    BY <1>r, <2>1 DEF Moves, Refused, Writing
<1>9. CASE ListDone(w)
  BY <1>r, <1>9, ReadEffects DEF Moves, Refused, Writing
<1>10. CASE CallDelete(w) \/ DeleteBlob(w) \/ DeleteBlobFails(w) \/ CallOpen(w) \/ OpenStat(w)
            \/ ListRead(w) \/ ListEntry(w) \/ Reply(w)
  <2>1. pc'[w] \in {"unlink", "unhash", "open", "sidecar", "list", "idle"}
    BY <1>0, <1>10, ReadEffects DEF Moves
  <2> QED
    BY <2>1 DEF Writing
<1> QED
  BY <1>1, <1>2, <1>3, <1>4, <1>5, <1>6, <1>7, <1>8, <1>9, <1>10
    DEF WorkerStep, WriteStep, ReadStep

\* The goroutines that do not take the step.
LEMMA OthersKept ==
  ASSUME TypeInv, NEW w \in Workers, WorkerStep(w), NEW u \in Workers, u # w
  PROVE  /\ pc'[u] = pc[u] /\ call'[u] = call[u] /\ answer'[u] = answer[u]
         /\ pc[u] \in Writing => Same(Temp(call[u].id))
<1>1. PICK l \in Places, c \in Calls, a \in Answers : Moves(w, l, c, a)
  BY WriteKeeps, ReadKeeps DEF WorkerStep
<1>2. pc'[u] = pc[u] /\ call'[u] = call[u] /\ answer'[u] = answer[u]
  BY <1>1 DEF Moves, TypeInv, Layout
<1>3. ASSUME pc[u] \in Writing PROVE Same(Temp(call[u].id))
  <2>1. call[u].id \in 1..MaxWrites /\ call[u].id # 0
    BY <1>3, OwnPaths DEF TypeInv, Layout
  <2>2. call[u].id # call[w].id
    BY <2>1 DEF TypeInv, Layout
  <2> QED
    BY <2>1, <2>2, TempsKept
<1> QED
  BY <1>2, <1>3

LEMMA WritesGrow ==
  ASSUME TypeInv, NEW w \in Workers, WorkerStep(w)
  PROVE  writes \in Nat /\ writes' \in {writes, writes + 1} /\ call[w].id <= writes
<1>1. \E l \in Places, c \in Calls, a \in Answers : Moves(w, l, c, a) /\ Keeps(w, l, c)
  BY WriteKeeps, ReadKeeps DEF WorkerStep
<1> QED
  BY <1>1, BlobBounds DEF Keeps, TypeInv, Layout

LEMMA FreshStep ==
  ASSUME TypeInv, TempInv, NEW w \in Workers, WorkerStep(w)
  PROVE  Fresh'
<1> SUFFICES ASSUME NEW i \in 1..MaxWrites, i > writes'
             PROVE  survive'[Temp(i)] = {Absent}
  BY DEF Fresh
<1>1. i > writes /\ i # call[w].id
  BY WritesGrow, OwnPaths, BlobBounds
<1> QED
  BY <1>1, TempsKept DEF Same, TempInv, Fresh

LEMMA GrantedStep ==
  ASSUME TypeInv, TempInv, NEW w \in Workers, WorkerStep(w)
  PROVE  Granted'
<1> SUFFICES ASSUME NEW n \in Names, NEW f \in survive'[n], f.kind = "data"
             PROVE  /\ f.id <= writes'
                    /\ \A u \in Workers :
                         (pc'[u] \in Writing \/ (pc'[u] = "reply" /\ answer'[u].status \in Refused))
                           => call'[u].id # f.id
  BY DEF Granted
<1> DEFINE Refusing(u) ==
      pc[u] \in Writing \/ (pc[u] = "reply" /\ answer[u].status \in Refused)
<1>1. CASE f \in survive[n]
  <2>1. f.id <= writes /\ \A u \in Workers : Refusing(u) => call[u].id # f.id
    BY <1>1 DEF TempInv, Granted
  <2>2. f.id \in Nat
    BY <1>1, PathsApart DEF TypeInv, TypeOK, File
  <2>3. f.id <= writes'
    BY <2>1, <2>2, WritesGrow
  <2>4. ASSUME NEW u \in Workers, u # w,
               pc'[u] \in Writing \/ (pc'[u] = "reply" /\ answer'[u].status \in Refused)
        PROVE  call'[u].id # f.id
    BY <2>1, <2>4, OthersKept
  <2>5. ASSUME pc'[w] \in Writing \/ (pc'[w] = "reply" /\ answer'[w].status \in Refused)
        PROVE  call'[w].id # f.id
    <3>1. \/ pc[w] \in Writing /\ call'[w].id = call[w].id
          \/ call'[w].id = writes + 1
      BY <2>5, SameWrite
    <3> QED
      BY <2>1, <2>2, <3>1, WritesGrow
  <2> QED
    BY <2>3, <2>4, <2>5
<1>2. CASE PutRename(w) /\ f \in survive[Temp(call[w].id)]
  <2>1. f.id = call[w].id
    <3>1. TempFile(w) /\ pc[w] = "rename"
      BY <1>2 DEF TempInv, PutRename
    <3>2. f = Whole(w)
      BY <1>2, <3>1 DEF TempFile
    <3> QED
      BY <3>2, FileKinds DEF Whole
  <2>2. pc[w] \in Writing /\ call[w].id # 0 /\ call[w].id \in Nat
    BY <1>2, OwnPaths DEF PutRename, Writing, TypeInv, Layout
  <2>3. f.id <= writes'
    BY <2>1, <2>2, WritesGrow
  <2>4. ASSUME NEW u \in Workers, u # w
        PROVE  call'[u].id # f.id
    BY <2>1, <2>2, <2>4, OthersKept DEF TypeInv, Layout
  <2>5. ~(pc'[w] \in Writing \/ (pc'[w] = "reply" /\ answer'[w].status \in Refused))
    <3>1. pc'[w] = "hash"
      BY <1>2, WriteEffects DEF Moves
    <3> QED
      BY <3>1 DEF Writing
  <2> QED
    BY <2>3, <2>4, <2>5
<1> QED
  BY <1>1, <1>2, DataFromRename

\* Nobody else brings a goroutine's body to a name, whatever they do with the name.
LEMMA PlacedOther ==
  ASSUME TypeInv, TempInv, NEW w \in Workers, WorkerStep(w), NEW u \in Workers, u # w
  PROVE  Placed(u)'
<1>1. /\ pc'[u] = pc[u] /\ call'[u] = call[u] /\ answer'[u] = answer[u]
      /\ Placed(u)
  BY OthersKept DEF TempInv
<1>2. ASSUME NEW n \in Names, Wrote(u, n)'
      PROVE  Wrote(u, n)
  <2>1. CASE dir'[n] = dir[n] \/ dir'[n].kind # "data"
    BY <1>1, <1>2, <2>1 DEF Wrote
  <2>2. CASE PutRename(w) /\ dir'[n] = dir[Temp(call[w].id)]
    <3>1. pc[w] \in Writing /\ pc[w] = "rename" /\ TempFile(w)
      BY <2>2 DEF PutRename, Writing, TempInv
    <3>2. Temp(call[w].id) \in Paths /\ survive[Temp(call[w].id)] = {Whole(w)}
      BY <3>1, OwnPaths DEF TempFile
    <3>3. dir[Temp(call[w].id)] = Whole(w)
      BY <3>2 DEF TypeInv, TypeOK
    <3>4. dir'[n].id = call[w].id
      BY <2>2, <3>3, FileKinds DEF Whole
    <3>5. call[w].id # call[u].id
      BY <3>1 DEF TypeInv, Layout
    <3> QED
      BY <1>1, <1>2, <3>4, <3>5 DEF Wrote
  <2> QED
    BY <2>1, <2>2, DataFromRename
<1> QED
  BY <1>1, <1>2 DEF Placed, Renamed, Removed

\* A goroutine's own steps: its rename brings its body to the name of its call only, as it
\* was under none before, and its removal takes it away from there.
LEMMA PlacedWrite ==
  ASSUME TypeInv, TempInv, NEW w \in Workers, WriteStep(w)
  PROVE  Placed(w)'
<1>0. /\ pc \in [Workers -> Places] /\ call \in [Workers -> Calls]
      /\ answer \in [Workers -> Answers] /\ Placed(w) /\ WorkerStep(w)
  BY DEF TypeInv, Layout, TempInv, WorkerStep
<1>r. /\ \A r \in {"error", "too large", "size mismatch", "length mismatch"} :
           With(w, r).name = call[w].name /\ With(w, r).id = call[w].id /\ With(w, r).result = r
      /\ \A st \in {"error", "ok", "too large"} : Ends(w, st).status = st
  <2>1. /\ \A r \in Results : With(w, r).name = call[w].name /\ With(w, r).id = call[w].id
                               /\ With(w, r).result = r
        /\ \A st \in Results \cup {"ok", "open", "list"} : Ends(w, st).status = st
    BY FieldsKept
  <2>2. {"error", "too large", "size mismatch", "length mismatch"} \subseteq Results
    BY ResultNames
  <2>3. {"error", "ok", "too large"} \subseteq Results \cup {"ok", "open", "list"}
    BY <2>2
  <2> QED
    BY <2>1, <2>2, <2>3
<1>1. CASE PutRename(w)
  <2>1. pc'[w] = "hash" /\ call'[w] = call[w] /\ pc[w] \in Writing
    BY <1>1, WriteEffects DEF Moves, PutRename, Writing
  <2>2. ASSUME NEW n \in Names, Wrote(w, n)', n # call[w].name
        PROVE  FALSE
    <3>1. dir'[n] = dir[n] /\ dir'[n].kind = "data" /\ dir'[n].id = call[w].id
      BY <1>0, <2>1, <2>2, DataFromRename DEF Wrote
    <3>2. dir[n] \in survive[n]
      BY PathsApart DEF TypeInv, TypeOK
    <3> QED
      BY <2>1, <3>1, <3>2 DEF TempInv, Granted
  <2> QED
    BY <2>1, <2>2 DEF Placed, Renamed, Removed
<1>2. CASE PutHashTruncate(w) \/ PutHash(w)
  <2>1. pc[w] \in {"hash", "hashing"} /\ pc'[w] \in {"hashing", "wrote"} /\ call'[w] = call[w]
    BY <1>2, WriteEffects DEF Moves, PutHashTruncate, PutHash
  <2>2. ~PutRename(w)
    BY <2>1 DEF PutRename
  <2>3. \A n \in Names : Wrote(w, n)' => Wrote(w, n)
    BY <1>0, <2>1, <2>2, DataFromRename DEF Wrote
  <2> QED
    BY <1>0, <2>1, <2>3 DEF Placed, Renamed, Removed
<1>3. CASE PutDone(w)
  <2>1. /\ pc[w] = "wrote" /\ dir' = dir /\ call'[w].id = call[w].id
        /\ call'[w].name = call[w].name
        /\ pc'[w] = "unlink" \/ (pc'[w] = "reply" /\ answer'[w].status = "ok")
    <3>1. pc[w] = "wrote" /\ dir' = dir
      BY <1>3 DEF PutDone, files
    <3>2. \/ \E r \in {"too large", "length mismatch"} : Moves(w, "unlink", With(w, r), answer[w])
          \/ Moves(w, "reply", call[w], Ends(w, "ok"))
      BY <1>3, WriteEffects
    <3>3. ASSUME NEW r \in {"too large", "length mismatch"},
                 Moves(w, "unlink", With(w, r), answer[w])
          PROVE  /\ pc'[w] = "unlink" /\ call'[w].id = call[w].id
                 /\ call'[w].name = call[w].name
      <4>1. pc'[w] = "unlink" /\ call'[w] = With(w, r)
        BY <3>3 DEF Moves
      <4> QED
        BY <1>r, <4>1
    <3>4. ASSUME Moves(w, "reply", call[w], Ends(w, "ok"))
          PROVE  pc'[w] = "reply" /\ answer'[w].status = "ok" /\ call'[w] = call[w]
      BY <1>r, <3>4 DEF Moves
    <3> QED
      BY <3>1, <3>2, <3>3, <3>4
  <2> QED
    BY <1>0, <2>1 DEF Placed, Renamed, Removed, Wrote
<1>4. CASE PutCopyFails(w) \/ PutCheck(w) \/ PutInstallFails(w)
  <2>1. \/ \E r \in {"error", "too large", "size mismatch"} :
             Moves(w, "untemp", With(w, r), answer[w])
        \/ Moves(w, "sync", call[w], answer[w])
    BY <1>4, WriteEffects
  <2> QED
    BY <1>r, <2>1 DEF Moves, Placed, Renamed, Removed
<1>5. CASE PutUntemp(w) \/ PutUntempFails(w)
  <2>1. pc[w] = "untemp" /\ Moves(w, "reply", call[w], Ends(w, call[w].result))
    BY <1>5, WriteEffects DEF PutUntemp, PutUntempFails
  <2>2. call[w].result # "length mismatch"
    BY <1>0, <2>1 DEF Placed, Renamed, Removed
  <2>3. Ends(w, call[w].result).status = call[w].result
    <3>1. call[w].result \in Results
      BY <1>0 DEF Calls
    <3> QED
      BY <3>1, FieldsKept
  <2>4. pc'[w] = "reply" /\ answer'[w].status # "length mismatch"
    <3>1. pc'[w] = "reply" /\ answer'[w] = Ends(w, call[w].result)
      BY <2>1 DEF Moves
    <3> QED
      BY <2>2, <2>3, <3>1
  <2> QED
    BY <2>4 DEF Placed, Renamed, Removed
<1>6. CASE PutCreateFails(w) \/ PutHashFails(w)
  <2>1. Moves(w, "reply", call[w], Ends(w, "error"))
    BY <1>6, WriteEffects
  <2> QED
    BY <1>r, <2>1 DEF Moves, Placed, Renamed, Removed
<1>7. CASE CallWrite(w) \/ PutCreate(w) \/ PutCopy(w) \/ PutSync(w)
  <2>1. \/ pc'[w] \in {"create", "copy", "check", "rename"}
        \/ pc'[w] = "reply" /\ answer'[w] = Ends(w, "too large")
    BY <1>7, WriteEffects DEF Moves
  <2> QED
    BY <1>r, <2>1 DEF Placed, Renamed, Removed
<1> QED
  BY <1>1, <1>2, <1>3, <1>4, <1>5, <1>6, <1>7 DEF WriteStep

LEMMA PlacedRead ==
  ASSUME TypeInv, TempInv, NEW w \in Workers, ReadStep(w)
  PROVE  Placed(w)'
<1>0. /\ pc \in [Workers -> Places] /\ call \in [Workers -> Calls]
      /\ answer \in [Workers -> Answers] /\ Placed(w) /\ WorkerStep(w) /\ call[w].result \in Results
  <2>1. /\ pc \in [Workers -> Places] /\ call \in [Workers -> Calls]
        /\ answer \in [Workers -> Answers] /\ Placed(w) /\ WorkerStep(w)
    BY DEF TypeInv, Layout, TempInv, WorkerStep
  <2>2. call[w] \in Calls
    BY <2>1
  <2> QED
    BY <2>1, <2>2 DEF Calls
<1>r. /\ \A r \in Results : With(w, r).id = call[w].id /\ With(w, r).result = r
      /\ \A st \in {"list", "not found"} : Ends(w, st).status = st
      /\ Ends(w, call[w].result).status = call[w].result
  <2>1. /\ \A r \in Results : With(w, r).id = call[w].id /\ With(w, r).result = r
        /\ \A st \in Results \cup {"ok", "open", "list"} : Ends(w, st).status = st
    BY FieldsKept
  <2> QED
    BY <1>0, <2>1, ResultNames
<1>1. CASE CallDelete(w)
  <2>1. PICK n \in Names :
          Moves(w, "unlink", [call[w] EXCEPT !.name = n, !.result = "deleted"], answer[w])
    BY <1>1, ReadEffects
  <2>2. [call[w] EXCEPT !.name = n, !.result = "deleted"].result = "deleted"
    <3>1. call[w] \in Calls
      BY <1>0
    <3> QED
      BY <3>1 DEF Calls
  <2>3. pc'[w] = "unlink" /\ call'[w].result = "deleted"
    BY <2>1, <2>2 DEF Moves
  <2> QED
    BY <2>3 DEF Placed, Renamed, Removed
<1>2. CASE DeleteBlob(w)
  <2>1. PICK r \in {call[w].result, "not found"} : Moves(w, "unhash", With(w, r), answer[w])
    BY <1>2, ReadEffects
  <2>2. With(w, r).id = call[w].id /\ With(w, r).result = r
    BY <1>0, <1>r, <2>1, ResultNames
  <2>3. pc'[w] = "unhash" /\ call'[w].id = call[w].id /\ call'[w].result = r
    BY <2>1, <2>2 DEF Moves
  <2>4. pc[w] = "unlink" /\ Set(call[w].name, Absent) /\ call[w].name \in Names
        /\ call[w].name \in Paths /\ ~PutRename(w)
    BY <1>2, OwnPaths DEF DeleteBlob, PutRename, AtBlob, Places
  <2>5. dir'[call[w].name] = Absent
    BY <2>4, SetSame DEF FileTypeOK, TypeInv, TypeOK
  <2>6. ASSUME NEW n \in Names, r = "length mismatch", Wrote(w, n)'
        PROVE  FALSE
    <3>1. Wrote(w, n)
      BY <1>0, <2>3, <2>4, <2>6, DataFromRename DEF Wrote
    <3>2. call[w].result = "length mismatch"
      BY <2>1, <2>6
    <3>3. n = call[w].name
      BY <1>0, <2>4, <3>1, <3>2 DEF Placed, Renamed, Removed
    <3> QED
      BY <2>5, <2>6, <3>3, FileKinds DEF Wrote
  <2> QED
    BY <2>3, <2>6 DEF Placed, Renamed, Removed
<1>3. CASE DeleteBlobFails(w)
  <2>1. Moves(w, "unhash", With(w, "error"), answer[w])
    BY <1>3, ReadEffects
  <2> QED
    BY <1>r, <2>1, ResultNames DEF Moves, Placed, Renamed, Removed
<1>4. CASE DeleteHash(w) \/ DeleteHashFails(w)
  <2>1. pc[w] = "unhash" /\ Moves(w, "reply", call[w], Ends(w, call[w].result))
    BY <1>4, ReadEffects DEF DeleteHash, DeleteHashFails
  <2>2. ~PutRename(w)
    BY <2>1 DEF PutRename
  <2>3. \A n \in Names : Wrote(w, n)' => Wrote(w, n)
    BY <1>0, <2>1, <2>2, DataFromRename DEF Wrote, Moves
  <2>4. pc'[w] = "reply" /\ answer'[w].status = call[w].result
    BY <1>r, <2>1 DEF Moves
  <2> QED
    BY <1>0, <2>1, <2>3, <2>4 DEF Placed, Renamed, Removed
<1>5. CASE OpenBlob(w) \/ ListDone(w)
  <2>1. \/ \E st \in {"list", "not found"} : Moves(w, "reply", call[w], Ends(w, st))
        \/ pc'[w] = "stat"
    BY <1>5, ReadEffects DEF Moves
  <2> QED
    BY <1>r, <2>1 DEF Moves, Placed, Renamed, Removed
<1>6. CASE OpenSidecar(w)
  <2>1. Moves(w, "reply", call[w],
          [answer[w] EXCEPT !.status = "open",
                            !.sha = ReadSidecar(dir[hashPath(call[w].name)])])
    BY <1>6, ReadEffects
  <2>2. [answer[w] EXCEPT !.status = "open",
                          !.sha = ReadSidecar(dir[hashPath(call[w].name)])].status = "open"
    BY <1>0 DEF Answers
  <2> QED
    BY <2>1, <2>2 DEF Moves, Placed, Renamed, Removed
<1>7. CASE CallOpen(w) \/ OpenStat(w) \/ ListRead(w) \/ ListEntry(w) \/ Reply(w)
  <2>1. pc'[w] \in {"open", "sidecar", "list", "idle"}
    BY <1>7, ReadEffects DEF Moves
  <2> QED
    BY <2>1 DEF Placed, Renamed, Removed
<1> QED
  BY <1>1, <1>2, <1>3, <1>4, <1>5, <1>6, <1>7 DEF ReadStep

LEMMA TempStep == TypeInv /\ TempInv /\ [Next]_vars => TempInv'
<1> SUFFICES ASSUME TypeInv, TempInv, [Next]_vars
             PROVE  TempInv'
  OBVIOUS
<1>1. ASSUME NEW w \in Workers, WorkerStep(w)
      PROVE  TempInv'
  <2>1. TempFile(w)' /\ (pc'[w] \in {"unlink", "unhash"} => call'[w].result \notin Refused)
    BY <1>1, WriteOwn, ReadOwn DEF WorkerStep
  <2>2. ASSUME NEW u \in Workers, u # w
        PROVE  TempFile(u)' /\ (pc'[u] \in {"unlink", "unhash"} => call'[u].result \notin Refused)
    <3>1. /\ pc'[u] = pc[u] /\ call'[u] = call[u]
          /\ pc[u] \in Writing => Same(Temp(call[u].id))
      BY <1>1, <2>2, OthersKept
    <3>2. TempFile(u) /\ (pc[u] \in {"unlink", "unhash"} => call[u].result \notin Refused)
      BY DEF TempInv, PastRename
    <3> QED
      BY <3>1, <3>2 DEF TempFile, Whole, Fits, Same, Writing
  <2>3. (\A u \in Workers : TempFile(u)') /\ PastRename'
    BY <2>1, <2>2 DEF PastRename
  <2>4. ASSUME NEW u \in Workers
        PROVE  Placed(u)'
    BY <1>1, PlacedOther, PlacedWrite, PlacedRead DEF WorkerStep
  <2> QED
    BY <1>1, <2>3, <2>4, FreshStep, GrantedStep DEF TempInv
<1>2. CASE Crash
  <2>1. \A w \in Workers : pc'[w] = "idle"
    BY <1>2, CrashStep
  <2>2. ASSUME NEW w \in Workers
        PROVE  /\ TempFile(w)' /\ Placed(w)'
               /\ pc'[w] \notin Writing \cup {"unlink", "unhash", "reply"}
    BY <2>1 DEF TempFile, Placed, Renamed, Removed, Writing
  <2>3. ASSUME NEW n \in Names, NEW f \in survive'[n]
        PROVE  f \in survive[n] /\ writes' = writes
    <3>1. n \in Paths
      BY PathsApart
    <3> QED
      BY <1>2, <3>1, CrashStep
  <2>4. Granted'
    BY <2>2, <2>3 DEF Granted, TempInv
  <2>5. Fresh'
    <3> SUFFICES ASSUME NEW i \in 1..MaxWrites, i > writes'
                 PROVE  survive'[Temp(i)] = {Absent}
      BY DEF Fresh
    <3>1. Temp(i) \in Paths /\ survive[Temp(i)] = {Absent}
      BY <1>2, CrashStep, PathsApart DEF TempInv, Fresh
    <3>2. dir'[Temp(i)] \in survive[Temp(i)] /\ survive'[Temp(i)] = {dir'[Temp(i)]}
      BY <1>2, <3>1, CrashStep
    <3> QED
      BY <3>1, <3>2
  <2> QED
    BY <2>2, <2>4, <2>5 DEF TempInv, PastRename
<1>3. CASE UNCHANGED vars
  BY <1>3 DEF vars, TempInv, TempFile, Placed, Renamed, Removed, Wrote, Fresh, Granted,
    PastRename, Whole, Fits
<1> QED
  BY <1>1, <1>2, <1>3, NextSteps

LEMMA TempInit == Init => TempInv
<1> SUFFICES ASSUME Init
             PROVE  TempInv
  OBVIOUS
<1>1. \A w \in Workers : pc[w] = "idle"
  BY DEF Init
<1>2. \A p \in Paths : survive[p] = {Absent}
  BY DEF Init
<1>3. \A w \in Workers : TempFile(w) /\ Placed(w) /\ pc[w] \notin {"unlink", "unhash"}
  BY <1>1 DEF TempFile, Placed, Renamed, Removed
<1>4. Fresh
  BY <1>2, PathsApart DEF Fresh
<1>5. Granted
  BY <1>2, PathsApart, FileKinds DEF Granted
<1> QED
  BY <1>3, <1>4, <1>5 DEF TempInv, PastRename

\* Where a goroutine is tells what its temporary file holds and under which name its
\* body can be, and what is under a name is of no write that is not yet renamed or was
\* refused before its rename.
THEOREM TempInvariant == Spec => []TempInv
  BY TypeInvariant, TempInit, TempStep, PTL DEF Spec

\* Whoever else writes, deletes or stops: a write refused as too large, or as not of the
\* size to generate, was not under its name at any moment, and no crash can bring it
\* there; one refused for a length other than the declared one is not under its name any
\* more when the refusal is returned.
THEOREM RefusedHidden == Spec => []RefusedNotServed
<1>1. TempInv => RefusedNotServed
  BY DEF TempInv, Granted, Refused, Placed, Renamed, Removed, Wrote, RefusedNotServed
<1> QED
  BY <1>1, TempInvariant, PTL

(***************************************************************************)
(* Temporary files that are left.                                          *)
(***************************************************************************)
LEMMA LeakStep ==
  ASSUME TypeInv, TempInv, NoTempLeak, NEW w \in Workers, WorkerStep(w)
  PROVE  NoTempLeak'
<1> SUFFICES ASSUME NEW i \in 1..MaxWrites, i \notin leftover', dir'[Temp(i)] # Absent
             PROVE  \E u \in Workers : pc'[u] \in Writing /\ call'[u].id = i
  BY DEF NoTempLeak
<1>0. FileTypeOK /\ Temp(i) \in Paths /\ i \notin leftover
  BY CountsStep, PathsApart DEF FileTypeOK, TypeInv, TypeOK
<1>1. ASSUME i # call[w].id \/ pc[w] \notin Writing
      PROVE  \E u \in Workers : pc'[u] \in Writing /\ call'[u].id = i
  <2>1. dir[Temp(i)] # Absent
    BY <1>1, TempsKept DEF Same
  <2>2. PICK u \in Workers : pc[u] \in Writing /\ call[u].id = i
    BY <1>0, <2>1 DEF NoTempLeak
  <2>3. u # w
    BY <1>1, <2>2
  <2> QED
    BY <2>2, <2>3, OthersKept
<1>2. ASSUME i = call[w].id, pc[w] \in Writing
      PROVE  pc'[w] \in Writing /\ call'[w].id = i
  <2>r. \A r \in {"error", "too large", "size mismatch"} : With(w, r).id = call[w].id
    <3>1. \A r \in Results : With(w, r).id = call[w].id
      BY FieldsKept
    <3> QED
      BY <3>1, ResultNames
  <2>1. CASE PutCreate(w) \/ PutCopy(w) \/ PutCheck(w) \/ PutSync(w) \/ PutCopyFails(w)
             \/ PutInstallFails(w)
    <3>1. pc'[w] \in {"copy", "check", "untemp", "sync", "rename"}
      BY <2>1, WriteEffects DEF Moves
    <3>2. call'[w].id = call[w].id
      BY <2>r, <2>1, WriteEffects DEF Moves
    <3> QED
      BY <1>2, <3>1, <3>2 DEF Writing
  <2>2. CASE PutCreateFails(w)
    <3>1. survive[Temp(i)] = {Absent} /\ dir' = dir
      BY <1>2, <2>2 DEF PutCreateFails, files, TempInv, TempFile
    <3> QED
      BY <1>0, <3>1 DEF FileTypeOK
  <2>3. CASE PutUntemp(w)
    BY <1>0, <1>2, <2>3, SetSame DEF PutUntemp
  <2>f. CASE PutUntempFails(w)
    BY <1>2, <2>f DEF PutUntempFails
  <2>4. CASE PutRename(w)
    BY <1>2, <2>4, RenameSame
  <2>5. pc[w] \notin {"idle", "hash", "hashing", "wrote", "unlink", "unhash", "open",
                         "stat", "sidecar", "list", "reply"}
    BY <1>2 DEF Writing
  <2> QED
    BY <2>1, <2>2, <2>3, <2>f, <2>4, <2>5 DEF WorkerStep, WriteStep, ReadStep, CallWrite,
      PutHashTruncate, PutHash, PutHashFails, PutDone, CallDelete, DeleteBlob,
      DeleteBlobFails, DeleteHash, DeleteHashFails, CallOpen, OpenBlob, OpenStat, OpenSidecar,
      ListRead,
      ListEntry, ListDone, Reply
<1> QED
  BY <1>1, <1>2

\* Only a crash or a removal that itself fails leaves a temporary file: whichever other
\* call fails, and however the writes fall together, every other one is that of a write
\* that is going on.
THEOREM NoTempLeaks == Spec => []NoTempLeak
<1>1. Init => NoTempLeak
  BY PathsApart DEF Init, NoTempLeak
<1>2. TypeInv /\ TempInv /\ NoTempLeak /\ [Next]_vars => NoTempLeak'
  <2> SUFFICES ASSUME TypeInv, TempInv, NoTempLeak, [Next]_vars
               PROVE  NoTempLeak'
    OBVIOUS
  <2>1. CASE Crash
    <3>1. \A i \in (1..MaxWrites) \ leftover' : dir'[Temp(i)] = Absent
      BY <2>1, CrashStep
    <3> QED
      BY <3>1 DEF NoTempLeak
  <2>2. CASE UNCHANGED vars
    BY <2>2 DEF vars, NoTempLeak
  <2> QED
    BY <2>1, <2>2, LeakStep, NextSteps
<1> QED
  BY <1>1, <1>2, TypeInvariant, TempInvariant, PTL DEF Spec

(***************************************************************************)
(* Blobs and their .sha256.                                                *)
(***************************************************************************)
Pairing(w) == ChangesBlob(w) \/ ChangesHash(w) \/ DeleteBlobFails(w) \/ DeleteHashFails(w)

\* A step changes the blob or the .sha256 of no name but that of its call, where no
\* blob is the .sha256 of another one.
LEMMA NamesKept ==
  ASSUME TypeInv, NEW w \in Workers, WorkerStep(w), NEW n \in Names
  PROVE  /\ Clear(n) /\ ~(n = call[w].name /\ ChangesBlob(w)) => Same(n)
         /\ Alone(n) /\ ~(n = call[w].name /\ ChangesHash(w)) => Same(hashPath(n))
<1>0. FileTypeOK /\ n \in Paths /\ hashPath(n) \in Paths
  BY PathsApart DEF FileTypeOK, TypeInv, TypeOK
<1>1. CASE PutCreate(w) \/ PutCopyFails(w) \/ PutUntemp(w)
  <2>1. pc[w] \in Writing
    BY <1>1 DEF PutCreate, PutCopyFails, PutUntemp, PutUntempFails, Writing
  <2>2. \E g : Set(Temp(call[w].id), g)
    BY <1>1 DEF PutCreate, PutCopyFails, PutUntemp
  <2> QED
    BY <1>0, <2>1, <2>2, OwnPaths, PathsApart, SetSame
<1>2. CASE PutCopy(w) \/ PutSync(w)
  <2>1. n # Temp(call[w].id) /\ hashPath(n) # Temp(call[w].id)
    BY PathsApart
  <2> QED
    BY <1>0, <1>2, <2>1 DEF PutCopy, PutSync, FileTypeOK, Same
<1>3. CASE PutRename(w)
  <2>1. call[w].name \in Names
    BY <1>3, OwnPaths DEF PutRename, Writing
  <2>2. \A q \in Paths : q # call[w].name /\ q # Temp(call[w].id) => Same(q)
    BY <1>3, RenameSame
  <2>3. /\ n # Temp(call[w].id) /\ hashPath(n) # Temp(call[w].id)
        /\ Alone(n) => hashPath(n) # call[w].name
    BY <2>1, PathsApart DEF Alone
  <2> QED
    BY <1>0, <1>3, <2>2, <2>3 DEF ChangesBlob
<1>4. CASE ChangesHash(w)
  <2>1. /\ call[w].name \in Names
        /\ \A q \in Paths : q # hashPath(call[w].name) => Same(q)
    BY <1>4, HashSame
  <2>2. /\ Clear(n) => hashPath(call[w].name) # n
        /\ n # call[w].name => hashPath(n) # hashPath(call[w].name)
    BY <2>1, PathsApart DEF Clear
  <2> QED
    BY <1>0, <1>4, <2>1, <2>2
<1>5. CASE DeleteBlob(w)
  <2>1. pc[w] \in AtBlob
    BY <1>5 DEF DeleteBlob, AtBlob, Places
  <2>2. Set(call[w].name, Absent)
    BY <1>5 DEF DeleteBlob
  <2>3. /\ call[w].name \in Names /\ call[w].name \in Paths
        /\ Alone(n) => hashPath(n) # call[w].name
    BY <2>1, OwnPaths DEF Alone
  <2> QED
    BY <1>0, <1>5, <2>2, <2>3, SetSame DEF ChangesBlob
<1>6. CASE UNCHANGED files
  BY <1>6 DEF files, Same
<1> QED
  BY <1>1, <1>2, <1>3, <1>4, <1>5, <1>6, OtherSteps DEF FileSteps, ChangesBlob

LEMMA GoodStep ==
  ASSUME TypeInv, TempInv, GoodBlobs, NEW w \in Workers, WorkerStep(w)
  PROVE  GoodBlobs'
<1> SUFFICES ASSUME NEW n \in Names, Clear(n), NEW f \in survive'[n]
             PROVE  GoodBlob(f)
  BY DEF GoodBlobs, Clear
<1>1. CASE Same(n)
  BY <1>1 DEF Same, GoodBlobs
<1>2. CASE n = call[w].name /\ PutRename(w)
  <2>1. f \in survive[n] \/ f \in survive[Temp(call[w].id)]
    BY <1>2, RenameSame
  <2>2. pc[w] = "rename" /\ TempFile(w)
    BY <1>2 DEF PutRename, TempInv
  <2>3. survive[Temp(call[w].id)] = {Whole(w)} /\ Fits(w)
    BY <2>2 DEF TempFile
  <2>4. GoodBlob(Whole(w))
    BY <2>3, FileKinds DEF GoodBlob, Whole, Fits
  <2> QED
    BY <2>1, <2>3, <2>4 DEF GoodBlobs
<1>3. CASE n = call[w].name /\ DeleteBlob(w)
  <2>1. survive'[n] = survive[n] \cup {Absent}
    BY <1>3, PathsApart, SetSame DEF DeleteBlob, FileTypeOK, TypeInv, TypeOK
  <2> QED
    BY <2>1 DEF GoodBlobs, GoodBlob
<1> QED
  BY <1>1, <1>2, <1>3, NamesKept DEF ChangesBlob

\* A step that is about no pair, or about another one, leaves a pair alone.
LEMMA PairKept ==
  ASSUME TypeInv, NEW w \in Workers, WorkerStep(w), NEW n \in Names, Alone(n),
         ~(n = call[w].name /\ Pairing(w))
  PROVE  /\ Same(n) /\ Same(hashPath(n)) /\ Between(n)' = Between(n) /\ w \notin Between(n)
         /\ n \in mixed' <=> n \in mixed
         /\ \A u \in Between(n) : u \in lost' => u \in lost
<1>1. Same(n) /\ Same(hashPath(n))
  BY NamesKept DEF Pairing, Alone
<1>2. w \notin Between(n)
  <2> SUFFICES ASSUME pc[w] \in {"hash", "hashing", "unhash"}, call[w].name = n
               PROVE  FALSE
    BY DEF Between
  <2> QED
    BY DEF Pairing, ChangesBlob, ChangesHash, WorkerStep, WriteStep, ReadStep, CallWrite,
      PutCreate, PutCreateFails, PutCopy, PutCopyFails, PutCheck, PutSync, PutInstallFails,
      PutUntemp, PutUntempFails, PutRename, PutDone, CallDelete, DeleteBlob, DeleteBlobFails,
      CallOpen,
      OpenBlob, OpenStat, OpenSidecar, ListRead, ListEntry, ListDone, Reply
<1>3. w \notin Between(n)'
  <2> SUFFICES ASSUME pc'[w] \in {"hash", "hashing", "unhash"}, call'[w].name = n
               PROVE  FALSE
    BY DEF Between
  <2>1. PutRename(w) \/ PutHashTruncate(w) \/ DeleteBlob(w) \/ DeleteBlobFails(w)
    BY WriteEffects, ReadEffects DEF Moves, WorkerStep, WriteStep, ReadStep
  <2>2. call'[w].name = call[w].name
    <3>1. call[w].result \in Results /\ \A r \in Results : With(w, r).name = call[w].name
      BY RecordTypes, FieldsKept DEF Calls
    <3>2. CASE PutRename(w) \/ PutHashTruncate(w)
      BY <3>2, WriteEffects DEF Moves
    <3>3. CASE DeleteBlob(w) \/ DeleteBlobFails(w)
      <4>1. \E r \in {call[w].result, "not found", "error"} : call'[w] = With(w, r)
        BY <3>3, ReadEffects DEF Moves
      <4>2. \A r \in {call[w].result, "not found", "error"} : With(w, r).name = call[w].name
        BY <3>1, ResultNames
      <4> QED
        BY <4>1, <4>2
    <3> QED
      BY <2>1, <3>2, <3>3
  <2> QED
    BY <2>1, <2>2 DEF Pairing, ChangesBlob, ChangesHash
<1>4. \A u \in Workers \ {w} : u \in Between(n)' <=> u \in Between(n)
  BY OthersKept DEF Between
<1>5. Between(n)' = Between(n)
  BY <1>2, <1>3, <1>4 DEF Between
<1>6. n \in mixed' <=> n \in mixed
  <2>1. CASE Pairing(w)
    BY <2>1, CountsStep
  <2>2. CASE ~Pairing(w)
    <3>1. mixed' = mixed
      BY <2>2 DEF Pairing, ChangesBlob, ChangesHash, WorkerStep, WriteStep, ReadStep,
        CallWrite, PutCreate, PutCreateFails, PutCopy, PutCopyFails, PutCheck, PutSync,
        PutInstallFails, PutUntemp, PutUntempFails, PutDone, CallDelete, CallOpen, OpenBlob,
        OpenStat, OpenSidecar, ListRead, ListEntry, ListDone, Reply, history
    <3> QED
      BY <3>1
  <2> QED
    BY <2>1, <2>2
<1>7. ASSUME NEW u \in Between(n), u \in lost'
      PROVE  u \in lost
  <2>1. u \in Workers /\ call[u].name = n /\ u # w
    BY <1>2, <1>7 DEF Between
  <2>2. CASE (PutRename(w) \/ DeleteBlob(w)) /\ Unlink(call[w].name)
    <3>1. call[w].name \in Names
      BY <2>2, OwnPaths DEF PutRename, DeleteBlob, AtBlob, Places, Writing
    <3>2. hashPath(n) # call[w].name
      BY <3>1 DEF Alone
    <3> QED
      BY <1>7, <2>1, <2>2, <3>2 DEF Unlink
  <2>3. CASE DeleteHash(w) /\ Unlink(hashPath(call[w].name))
    <3>1. call[w].name \in Names /\ call[w].name # n
      BY <2>3, OwnPaths DEF DeleteHash, AtBlob, Places, Pairing, ChangesHash
    <3>2. hashPath(n) # hashPath(call[w].name)
      BY <3>1, PathsApart
    <3> QED
      BY <1>7, <2>1, <2>3, <3>2 DEF Unlink
  <2>4. CASE PutHash(w) \/ PutHashFails(w)
    BY <1>7, <2>4 DEF PutHash, PutHashFails
  <2> QED
    BY <1>7, <2>2, <2>3, <2>4, LostEffects
<1> QED
  BY <1>1, <1>2, <1>5, <1>6, <1>7

LEMMA OwnPair ==
  ASSUME TypeInv, TempInv, NEW w \in Workers, WorkerStep(w), Pairing(w),
         NEW n \in Names, Alone(n), call[w].name = n, n \notin mixed', n \notin mixed => Paired(n)
  PROVE  Paired(n)'
<1>0. /\ FileTypeOK /\ n \in Paths /\ hashPath(n) \in Paths
      /\ \A u \in Workers \ {w} : u \in Between(n)' <=> u \in Between(n)
  <2>1. FileTypeOK /\ n \in Paths /\ hashPath(n) \in Paths
    BY PathsApart DEF FileTypeOK, TypeInv, TypeOK
  <2>2. \A u \in Workers \ {w} : u \in Between(n)' <=> u \in Between(n)
    BY OthersKept DEF Between
  <2> QED
    BY <2>1, <2>2
<1>l. lost' \subseteq {u \in Workers : pc'[u] = "hashing"}
  BY LostStep
<1>n. \A r \in {call[w].result, "not found"} : With(w, r).name = n
  <2>1. call[w].result \in Results
    BY RecordTypes DEF Calls
  <2>2. \A r \in Results : With(w, r).name = n
    BY FieldsKept
  <2> QED
    BY <2>1, <2>2, ResultNames
<1>1. CASE PutRename(w)
  <2>1. pc'[w] = "hash" /\ call'[w] = call[w]
    BY <1>1, WriteEffects DEF Moves
  <2>2. Between(n) = {}
    BY <1>1 DEF PutRename, Enter
  <2>3. Between(n)' = {w}
    BY <1>0, <2>1, <2>2 DEF Between
  <2>4. dir'[n] = Whole(w)
    <3>1. survive[Temp(call[w].id)] = {Whole(w)} /\ Temp(call[w].id) \in Paths
      BY <1>1, OwnPaths DEF PutRename, TempInv, TempFile, Writing
    <3>2. dir[Temp(call[w].id)] = Whole(w)
      BY <1>0, <3>1 DEF FileTypeOK
    <3> QED
      BY <1>1, <3>2, RenameSame
  <2>5. dir'[n].kind = "data" /\ dir'[n].id = call'[w].id
    BY <2>1, <2>4, FileKinds DEF Whole
  <2> QED
    BY <1>l, <2>1, <2>3, <2>5 DEF Paired
<1>2. CASE DeleteBlob(w)
  <2>1. pc'[w] = "unhash" /\ call'[w].name = n
    <3>1. pc'[w] = "unhash" /\ \E r \in {call[w].result, "not found"} : call'[w] = With(w, r)
      BY <1>2, ReadEffects DEF Moves
    <3> QED
      BY <1>n, <3>1
  <2>2. Between(n) = {}
    BY <1>2 DEF DeleteBlob, Enter
  <2>3. Between(n)' = {w}
    BY <1>0, <2>1, <2>2 DEF Between
  <2>4. dir'[n] = Absent
    BY <1>0, <1>2, SetSame DEF DeleteBlob
  <2> QED
    BY <1>l, <2>1, <2>3, <2>4 DEF Paired
<1>3. CASE PutHashFails(w) \/ DeleteBlobFails(w) \/ DeleteHashFails(w)
  BY <1>3 DEF PutHashFails, DeleteBlobFails, DeleteHashFails
<1>4. CASE PutHashTruncate(w) \/ PutHash(w) \/ DeleteHash(w)
  <2>1. mixed' = mixed /\ w \in Between(n)
    BY <1>4 DEF PutHashTruncate, PutHash, DeleteHash, Between, history
  <2>2. /\ Between(n) = {w} /\ Paired(n)
        /\ pc[w] \in {"hash", "hashing"} => dir[n].kind = "data" /\ dir[n].id = call[w].id
        /\ w \notin lost
        /\ pc[w] = "unhash" => dir[n] = Absent
    BY <2>1 DEF Paired
  <2>3. dir'[n] = dir[n]
    <3>1. ~ChangesBlob(w)
      BY <1>4 DEF ChangesBlob, PutHashTruncate, PutHash, DeleteHash, PutRename, DeleteBlob
    <3> QED
      BY <1>0, <3>1, NamesKept DEF Same, Alone
  <2>4. CASE PutHashTruncate(w)
    <3>1. pc'[w] = "hashing" /\ call'[w] = call[w] /\ pc[w] = "hash"
      BY <2>4, WriteEffects DEF Moves, PutHashTruncate
    <3>2. Between(n)' = {w}
      BY <1>0, <2>2, <3>1 DEF Between
    <3>3. w \notin lost'
      BY <2>2, <2>4 DEF PutHashTruncate
    <3> QED
      BY <2>2, <2>3, <3>1, <3>2, <3>3 DEF Paired
  <2>5. CASE PutHash(w)
    <3>1. pc'[w] = "wrote" /\ call'[w] = call[w] /\ pc[w] = "hashing"
      BY <2>5, WriteEffects DEF Moves, PutHash
    <3>2. Between(n)' = {}
      BY <1>0, <2>2, <3>1 DEF Between
    <3>3. dir'[hashPath(n)] = Hash(call[w].id)
      BY <1>0, <2>2, <2>5 DEF PutHash, WriteHash, FileTypeOK
    <3> QED
      BY <2>2, <2>3, <3>1, <3>2, <3>3 DEF Paired
  <2>6. CASE DeleteHash(w)
    <3>1. pc'[w] = "reply" /\ pc[w] = "unhash"
      BY <2>6, ReadEffects DEF Moves, DeleteHash
    <3>2. Between(n)' = {}
      BY <1>0, <2>2, <3>1 DEF Between
    <3>3. dir'[hashPath(n)] = Absent
      BY <1>0, <2>6, SetSame DEF DeleteHash
    <3> QED
      BY <2>2, <2>3, <3>1, <3>2, <3>3 DEF Paired
  <2> QED
    BY <1>4, <2>4, <2>5, <2>6
<1> QED
  BY <1>1, <1>2, <1>3, <1>4 DEF Pairing, ChangesBlob, ChangesHash

LEMMA PairStep ==
  ASSUME TypeInv, TempInv, Pairs, NEW w \in Workers, WorkerStep(w)
  PROVE  Pairs'
<1>1. ASSUME NEW n \in Names, n \notin mixed', Alone(n)
      PROVE  Paired(n)'
  <2>1. CASE n = call[w].name /\ Pairing(w)
    BY <1>1, <2>1, OwnPair DEF Pairs
  <2>2. CASE ~(n = call[w].name /\ Pairing(w))
    <3>1. /\ Same(n) /\ Same(hashPath(n)) /\ Between(n)' = Between(n) /\ w \notin Between(n)
          /\ n \notin mixed /\ \A u \in Between(n) : u \in lost' => u \in lost
      BY <1>1, <2>2, PairKept
    <3>2. Paired(n)
      BY <1>1, <3>1 DEF Pairs
    <3>3. \A u \in Between(n) : pc'[u] = pc[u] /\ call'[u] = call[u]
      BY <3>1, OthersKept DEF Between
    <3> QED
      BY <3>1, <3>2, <3>3 DEF Paired, Same
  <2> QED
    BY <2>1, <2>2
<1>2. \A n \in Names \ mixed' : Alone(n) => Paired(n)'
  BY <1>1
<1> QED
  BY <1>2 DEF Pairs, Alone, Clear

LEMMA OpenedStep ==
  ASSUME TypeInv, GoodBlobs, Opened, NEW w \in Workers, WorkerStep(w)
  PROVE  Opened'
<1>0. Found(w) /\ answer[w] \in Answers
  BY DEF Opened, TypeInv, Layout
<1>1. ASSUME NEW u \in Workers, u # w
      PROVE  Found(u)'
  <2>1. pc'[u] = pc[u] /\ call'[u] = call[u] /\ answer'[u] = answer[u]
    BY <1>1, OthersKept
  <2> QED
    BY <2>1 DEF Opened, Found, Clear
<1>2. Found(w)'
  <2>1. CASE OpenBlob(w)
    <3>1. \/ pc'[w] = "reply" /\ answer'[w] = Ends(w, "not found")
          \/ /\ dir[call[w].name] # Absent /\ pc'[w] = "stat" /\ call'[w] = call[w]
             /\ answer'[w] = [answer[w] EXCEPT !.file = dir[call[w].name]]
      BY <2>1, ReadEffects DEF Moves
    <3>2. pc[w] = "open" /\ call[w].name \in Names
      BY <2>1, OwnPaths DEF OpenBlob, AtBlob, Places, Writing
    <3>3. dir[call[w].name] # Absent /\ Clear(call[w].name)
            => dir[call[w].name].kind = "data"
      BY <3>2, PathsApart DEF TypeInv, TypeOK, GoodBlobs, GoodBlob
    <3>4. [answer[w] EXCEPT !.file = dir[call[w].name]].file = dir[call[w].name]
          /\ [answer[w] EXCEPT !.file = dir[call[w].name]].status = answer[w].status
      BY <1>0 DEF Answers
    <3>5. Ends(w, "not found").status = "not found"
      BY FieldsKept, ResultNames
    <3> QED
      BY <1>0, <3>1, <3>2, <3>3, <3>4, <3>5 DEF Found, Clear
  <2>2. CASE OpenStat(w)
    <3>1. /\ pc[w] = "stat" /\ pc'[w] = "sidecar" /\ call'[w] = call[w]
          /\ answer'[w] = [answer[w] EXCEPT !.bytes = answer[w].file.bytes]
      BY <2>2, ReadEffects DEF Moves, OpenStat
    <3>2. LET a == [answer[w] EXCEPT !.bytes = answer[w].file.bytes] IN
          a.file = answer[w].file /\ a.bytes = answer[w].file.bytes /\ a.status = answer[w].status
      BY <1>0 DEF Answers
    <3> QED
      BY <1>0, <3>1, <3>2 DEF Found, Clear
  <2>3. CASE OpenSidecar(w)
    <3> DEFINE a == [answer[w] EXCEPT !.status = "open",
                                      !.sha = ReadSidecar(dir[hashPath(call[w].name)])]
    <3>1. /\ pc[w] = "sidecar" /\ pc'[w] = "reply"
          /\ call'[w] = call[w] /\ answer'[w] = a
      BY <2>3, ReadEffects DEF Moves, OpenSidecar
    <3>2. a.file = answer[w].file /\ a.bytes = answer[w].bytes
      BY <1>0 DEF Answers
    <3>3. call[w].name \in Names
      BY <3>1, OwnPaths DEF AtBlob, Places, Writing
    <3> QED
      BY <1>0, <3>1, <3>2, <3>3 DEF Found, Clear
  <2>4. CASE Reply(w)
    <3>1. pc'[w] = "idle" /\ answer'[w] = NoAnswer
      BY <2>4, ReadEffects DEF Moves
    <3> QED
      BY <3>1 DEF NoAnswer, Found
  <2>5. CASE ~(OpenBlob(w) \/ OpenStat(w) \/ OpenSidecar(w) \/ Reply(w))
    <3>1. pc'[w] \notin {"stat", "sidecar"}
      BY <2>5, WriteEffects, ReadEffects DEF Moves, WorkerStep, WriteStep, ReadStep
    <3>2. pc[w] # "reply"
      BY <2>5 DEF WorkerStep, WriteStep, ReadStep, CallWrite, PutCreate, PutCreateFails,
        PutCopy, PutCopyFails, PutCheck, PutSync, PutInstallFails, PutUntemp, PutUntempFails,
        PutRename,
        PutHashTruncate, PutHash, PutHashFails, PutDone, CallDelete, DeleteBlob,
        DeleteBlobFails, DeleteHash, DeleteHashFails, CallOpen, ListRead, ListEntry, ListDone
    <3>3. call[w].result \in Results
      BY RecordTypes DEF Calls
    <3>4. \/ answer'[w] = answer[w]
          \/ \E listed \in SUBSET Paths : answer'[w] = [answer[w] EXCEPT !.listed = listed]
          \/ \E st \in {call[w].result, "too large", "error", "ok", "list"} :
               answer'[w] = Ends(w, st)
      BY <2>5, WriteEffects, ReadEffects DEF Moves, WorkerStep, WriteStep, ReadStep
    <3>5. \A st \in {call[w].result, "too large", "error", "ok", "list"} :
            Ends(w, st).status = st /\ st # "open"
      <4>1. \A st \in Results \cup {"ok", "open", "list"} : Ends(w, st).status = st
        BY FieldsKept
      <4> QED
        BY <3>3, <4>1, ResultNames
    <3>6. \A listed : [answer[w] EXCEPT !.listed = listed].status = answer[w].status
      BY <1>0 DEF Answers
    <3>7. answer'[w].status # "open"
      BY <1>0, <3>2, <3>4, <3>5, <3>6 DEF Found
    <3> QED
      BY <3>1, <3>7 DEF Found
  <2> QED
    BY <2>1, <2>2, <2>3, <2>4, <2>5
<1> QED
  BY <1>1, <1>2 DEF Opened

LEMMA PairInvStep == TypeInv /\ TempInv /\ PairInv /\ [Next]_vars => PairInv'
<1> SUFFICES ASSUME TypeInv, TempInv, PairInv, [Next]_vars
             PROVE  PairInv'
  OBVIOUS
<1>1. ASSUME NEW w \in Workers, WorkerStep(w)
      PROVE  PairInv'
  BY <1>1, GoodStep, PairStep, OpenedStep DEF PairInv
<1>2. CASE Crash
  <2>1. GoodBlobs'
    <3> SUFFICES ASSUME NEW n \in Names, Clear(n), NEW f \in survive'[n]
                 PROVE  GoodBlob(f)
      BY DEF GoodBlobs, Clear
    <3>1. n \in Paths
      BY PathsApart
    <3>2. f \in survive[n]
      BY <1>2, <3>1, CrashStep
    <3> QED
      BY <3>2 DEF PairInv, GoodBlobs
  <2>2. Pairs'
    BY <1>2, CrashStep DEF Pairs
  <2>3. Opened'
    BY <1>2, CrashStep DEF NoAnswer, Opened, Found
  <2> QED
    BY <2>1, <2>2, <2>3 DEF PairInv
<1>3. CASE UNCHANGED vars
  BY <1>3 DEF vars, PairInv, GoodBlobs, Clear, Alone, Pairs, Paired, Between, Opened, Found
<1> QED
  BY <1>1, <1>2, <1>3, NextSteps

LEMMA PairInit == Init => PairInv
<1> SUFFICES ASSUME Init
             PROVE  PairInv
  OBVIOUS
<1>1. \A w \in Workers : pc[w] = "idle" /\ answer[w] = NoAnswer
  BY DEF Init
<1>2. \A p \in Paths : dir[p] = Absent /\ survive[p] = {Absent}
  BY DEF Init
<1>3. GoodBlobs
  BY <1>2, PathsApart DEF GoodBlobs, GoodBlob
<1>4. Pairs
  <2>1. \A n \in Names : Between(n) = {}
    BY <1>1 DEF Between
  <2> QED
    BY <1>2, <2>1, PathsApart DEF Pairs, Paired
<1>5. Opened
  BY <1>1 DEF Opened, Found, NoAnswer
<1> QED
  BY <1>3, <1>4, <1>5 DEF PairInv

\* Blobs are whole and fit, also after a crash, under every name that is not the .sha256
\* of another one; where its own .sha256 is no blob either, the two are in order, or they
\* are recorded as mixed by an overlap, a failed change or removal, or a crash; and a
\* download announces the length of the file it has opened.
THEOREM PairInvariant == Spec => []PairInv
<1>1. TypeInv /\ TempInv /\ PairInv /\ [Next]_vars => PairInv'
  BY PairInvStep
<1> QED
  BY <1>1, TypeInvariant, TempInvariant, PairInit, PTL DEF Spec

\* If no client uses a name together with that name and ".sha256" behind it, there is
\* under a name nothing, or all that one write took from its body, whoever else writes
\* it and whenever the node stops.
THEOREM BlobsWhole == ASSUME Apart PROVE Spec => []WholeBlobs
<1>1. PairInv => WholeBlobs
  BY FileKinds DEF PairInv, GoodBlobs, GoodBlob, WholeBlobs, Apart, Alone
<1> QED
  BY <1>1, PairInvariant, PTL

\* Whatever lengths they declare and send, no blob of such clients is larger than
\* MAX_BLOB_BYTES.
THEOREM BlobsFit == ASSUME Apart PROVE Spec => []BlobsWithinLimit
<1>1. PairInv => BlobsWithinLimit
  BY BlobBounds DEF PairInv, GoodBlobs, GoodBlob, BlobsWithinLimit, Absent, Apart, Alone
<1> QED
  BY <1>1, PairInvariant, PTL

\* Between their calls the .sha256 is that of the blob, unless two calls overlapped on
\* the name, one of a call's two changes failed (also where the call then succeeds), or
\* the node stopped.
THEOREM HashesMatch == ASSUME Apart PROVE Spec => []HashMatches
<1>1. PairInv => HashMatches
  BY DEF PairInv, Pairs, Paired, HashMatches, Apart
<1> QED
  BY <1>1, PairInvariant, PTL

\* A download is of a blob, and announces the length of the file it sends, also when the
\* blob is replaced or deleted while it is opened.
THEOREM OpensConsistently == ASSUME Apart PROVE Spec => []OpenConsistent
<1>1. ASSUME PairInv, NEW w \in Workers, answer[w].status = "open"
      PROVE  answer[w].file.kind = "data" /\ answer[w].bytes = answer[w].file.bytes
  <2>1. Found(w)
    BY <1>1 DEF PairInv, Opened
  <2> QED
    BY <1>1, <2>1 DEF Found, Apart, Alone
<1>2. PairInv => OpenConsistent
  BY <1>1 DEF OpenConsistent
<1> QED
  BY <1>2, PairInvariant, PTL
=============================================================================
