------------------------------- MODULE BlobStore -------------------------------
(***************************************************************************)
(* The blob store (internal/blobs/store.go): the files of DATA_DIR/blobs,  *)
(* written, read, listed and removed by concurrent request goroutines with *)
(* no lock between them.                                                   *)
(*                                                                         *)
(*   Put, Generate  copy the body to a temporary file, fsync it, rename it *)
(*                  to the blob's name, then rewrite the blob's .sha256    *)
(*                  file in place; Put removes what has the wrong length;  *)
(*   Open           opens the blob, stats the handle, reads the .sha256;   *)
(*   List           reads the directory, then each entry's size and hash;  *)
(*   Delete         removes the blob, then its .sha256.                    *)
(*                                                                         *)
(* Every system call that changes or reads the directory is a step.  A     *)
(* call can fail (MaxFaults bounds how often) and the node can stop.       *)
(***************************************************************************)
EXTENDS Integers, FiniteSets

CONSTANTS
  Workers,     \* request goroutines
  Names,       \* the blob names clients use: [base, sha]
  Bodies,      \* the bodies they send: [expected, bytes, exact]
  MaxBytes,    \* MAX_BLOB_BYTES
  MaxWrites,   \* bound on the calls of Put and Generate
  MaxFaults,   \* bound on the failing system calls
  MaxCrashes   \* bound on the crashes of the node

(***************************************************************************)
(* A name is a base and the number of ".sha256" suffixes behind it.  A     *)
(* body is the length the request declares (0: not declared), the bytes it *)
(* has, and whether Generate (exact) or Put reads it.                      *)
(***************************************************************************)
Name == [base: STRING, sha: Nat]
Body == [expected: Nat, bytes: Nat, exact: BOOLEAN]

ASSUME NamesAssumption  == Names \subseteq Name
ASSUME BodiesAssumption == Bodies \subseteq Body
ASSUME BlobBounds == /\ MaxBytes \in Nat \ {0} /\ MaxWrites \in Nat
                     /\ MaxFaults \in Nat /\ MaxCrashes \in Nat

hashPath(n) == [n EXCEPT !.sha = @ + 1]
Temp(i)     == [temp |-> i]         \* ".<name>.tmp-<random>" of the i-th write

Paths == Names \cup {hashPath(n) : n \in Names} \cup {Temp(i) : i \in 1..MaxWrites}

(***************************************************************************)
(* What a path holds: nothing, an empty file, a part of what the i-th      *)
(* write took from its body, all of it, or its SHA-256.                    *)
(***************************************************************************)
Absent     == [kind |-> "absent", id |-> 0, bytes |-> 0]
EmptyFile  == [kind |-> "empty", id |-> 0, bytes |-> 0]
Part(i)    == [kind |-> "part", id |-> i, bytes |-> 0]
Data(i, b) == [kind |-> "data", id |-> i, bytes |-> b]
Hash(i)    == [kind |-> "hash", id |-> i, bytes |-> 65]
File == [kind: {"absent", "empty", "part", "data", "hash"}, id: Nat, bytes: Nat]

\* What readHashSidecar makes of a file: the write it is the hash of, 0 for "",
\* -1 for bytes that are the hash of nothing (some blob's data).
ReadSidecar(f) == IF f.kind = "hash" THEN f.id
                  ELSE IF f.kind \in {"absent", "empty"} THEN 0 ELSE -1

\* io.LimitReader(body, limit+1) in Put, io.LimitReader(random, size) in Generate.
TakenFrom(b) ==
  LET limit == IF b.exact THEN b.expected
               ELSE 1 + IF b.expected > 0 THEN b.expected ELSE MaxBytes
  IN  IF b.bytes < limit THEN b.bytes ELSE limit

-----------------------------------------------------------------------------
VARIABLES
  dir,      \* what each path holds
  survive,  \* what each path can hold after a crash
  lost,     \* goroutines whose open .sha256 file was removed or renamed over
  pc,       \* where each goroutine is
  call,     \* its call: [name, body, id of its write, result so far]
  seen,     \* entries a List has still to look at
  answer,   \* what it has to return
  writes, faults, crashes,
  mixed,    \* history: names whose blob and .sha256 were changed by overlapping
            \* calls, by a call one of whose two changes failed, or by a crash
  leftover  \* history: writes whose temporary file a crash or a failed removal left

vars == <<dir, survive, lost, pc, call, seen, answer, writes, faults, crashes,
          mixed, leftover>>

Idle     == [name |-> [base |-> "", sha |-> 0],
             body |-> [expected |-> 0, bytes |-> 0, exact |-> FALSE],
             id |-> 0, result |-> "none"]
NoAnswer == [status |-> "none", file |-> Absent, bytes |-> 0, sha |-> 0, listed |-> {}]

Init ==
  /\ dir = [p \in Paths |-> Absent] /\ survive = [p \in Paths |-> {Absent}] /\ lost = {}
  /\ pc = [w \in Workers |-> "idle"] /\ call = [w \in Workers |-> Idle]
  /\ seen = [w \in Workers |-> {}] /\ answer = [w \in Workers |-> NoAnswer]
  /\ writes = 0 /\ faults = 0 /\ crashes = 0 /\ mixed = {} /\ leftover = {}

files   == <<dir, survive, lost>>
counts  == <<writes, faults, crashes>>
history == <<mixed, leftover>>

Goto(w, l)   == pc' = [pc EXCEPT ![w] = l]
Return(w, s) == /\ Goto(w, "reply")
                /\ answer' = [answer EXCEPT ![w].status = s]
Fault        == faults < MaxFaults /\ faults' = faults + 1

\* A change of one path is visible at once; until an fsync a crash can undo it.
Set(p, f) == /\ dir' = [dir EXCEPT ![p] = f]
             /\ survive' = [survive EXCEPT ![p] = @ \cup {f}]

\* Where path p loses its file, a goroutine that has that file open as its .sha256
\* still writes to the file, and under the path nobody sees it.
Unlink(p) ==
  lost' = lost \cup {w \in Workers : pc[w] = "hashing" /\ hashPath(call[w].name) = p}

\* A write to the .sha256 file that the goroutine has open; a crash that undoes the
\* removal of the file brings back what was written to it.
WriteHash(w, f) ==
  LET p == hashPath(call[w].name) IN
  /\ dir' = IF w \in lost THEN dir ELSE [dir EXCEPT ![p] = f]
  /\ survive' = [survive EXCEPT ![p] = @ \cup {f}]

\* The goroutines that have changed blob n and not yet its .sha256.
Between(n) == {w \in Workers : pc[w] \in {"hash", "hashing", "unhash"} /\ call[w].name = n}

\* Entering that window alone makes blob and hash agree at its end; entering while
\* somebody is in it does not.
Enter(n) == mixed' = IF Between(n) = {} THEN mixed \ {n} ELSE mixed \cup {n}

-----------------------------------------------------------------------------
(***************************************************************************)
(* Put and Generate.                                                       *)
(***************************************************************************)
\* Mutation: every write of a blob uses the same temporary file.
Bug_CallWrite(w) ==
  /\ pc[w] = "idle" /\ writes < MaxWrites
  /\ \E n \in Names, b \in Bodies :
       /\ call' = [call EXCEPT ![w] = [name |-> n, body |-> b, id |-> 1, result |-> "none"]]
       /\ IF b.expected > MaxBytes THEN Return(w, "too large")
          ELSE Goto(w, "create") /\ UNCHANGED answer
  /\ writes' = writes + 1
  /\ UNCHANGED <<files, seen, faults, crashes, history>>

CallWrite(w) ==
  /\ pc[w] = "idle" /\ writes < MaxWrites
  /\ \E n \in Names, b \in Bodies :
       /\ call' = [call EXCEPT ![w] = [name |-> n, body |-> b, id |-> writes + 1,
                                       result |-> "none"]]
       /\ IF b.expected > MaxBytes THEN Return(w, "too large")
          ELSE Goto(w, "create") /\ UNCHANGED answer
  /\ writes' = writes + 1
  /\ UNCHANGED <<files, seen, faults, crashes, history>>

PutCreate(w) ==
  /\ pc[w] = "create"
  /\ Set(Temp(call[w].id), EmptyFile)
  /\ Goto(w, "copy")
  /\ UNCHANGED <<lost, call, seen, answer, counts, history>>

PutCreateFails(w) ==
  /\ pc[w] = "create" /\ Fault
  /\ Return(w, "error")
  /\ UNCHANGED <<files, call, seen, writes, crashes, history>>

\* io.CopyBuffer to the end of the body; the bytes are not durable yet.
PutCopy(w) ==
  LET i == call[w].id  b == TakenFrom(call[w].body) IN
  /\ pc[w] = "copy"
  /\ dir' = [dir EXCEPT ![Temp(i)] = Data(i, b)]
  /\ survive' = [survive EXCEPT ![Temp(i)] = @ \cup {Part(i), Data(i, b)}]
  /\ Goto(w, "check")
  /\ UNCHANGED <<lost, call, seen, answer, counts, history>>

\* The client went away, the volume is full, the random source stopped.
PutCopyFails(w) ==
  /\ pc[w] = "copy" /\ Fault
  /\ Set(Temp(call[w].id), Part(call[w].id))
  /\ call' = [call EXCEPT ![w].result = "error"]
  /\ Goto(w, "untemp")
  /\ UNCHANGED <<lost, seen, answer, writes, crashes, history>>

\* Mutation: only the declared length is checked against MAX_BLOB_BYTES.
Bug_PutCheck(w) ==
  /\ pc[w] = "check" /\ Goto(w, "sync")
  /\ UNCHANGED <<files, call, seen, answer, counts, history>>

PutCheck(w) ==
  LET written == TakenFrom(call[w].body) IN
  /\ pc[w] = "check"
  /\ IF written > MaxBytes
     THEN Goto(w, "untemp") /\ call' = [call EXCEPT ![w].result = "too large"]
     ELSE IF call[w].body.exact /\ written # call[w].body.expected
     THEN Goto(w, "untemp") /\ call' = [call EXCEPT ![w].result = "size mismatch"]
     ELSE Goto(w, "sync") /\ UNCHANGED call
  /\ UNCHANGED <<files, seen, answer, counts, history>>

\* Mutation: the temporary file is renamed without an fsync.
Bug_PutSync(w) ==
  /\ pc[w] = "sync" /\ Goto(w, "rename")
  /\ UNCHANGED <<files, call, seen, answer, counts, history>>

PutSync(w) ==
  /\ pc[w] = "sync"
  /\ survive' = [survive EXCEPT ![Temp(call[w].id)] = {dir[Temp(call[w].id)]}]
  /\ Goto(w, "rename")
  /\ UNCHANGED <<dir, lost, call, seen, answer, counts, history>>

\* chmod, fsync, close or rename failed.
PutInstallFails(w) ==
  /\ pc[w] \in {"sync", "rename"} /\ Fault
  /\ call' = [call EXCEPT ![w].result = "error"]
  /\ Goto(w, "untemp")
  /\ UNCHANGED <<files, seen, answer, writes, crashes, history>>

\* Mutation: the deferred function closes the temporary file and leaves it.
Bug_PutUntemp(w) ==
  /\ pc[w] = "untemp" /\ Return(w, call[w].result)
  /\ UNCHANGED <<files, call, seen, counts, history>>

\* The deferred removal of the temporary file on an error path.
PutUntemp(w) ==
  /\ pc[w] = "untemp"
  /\ Set(Temp(call[w].id), Absent)
  /\ Return(w, call[w].result)
  /\ UNCHANGED <<lost, call, seen, counts, history>>

\* os.Remove fails: the temporary file stays, and the answer is the same.
PutUntempFails(w) ==
  /\ pc[w] = "untemp" /\ Fault
  /\ leftover' = leftover \cup {call[w].id}
  /\ Return(w, call[w].result)
  /\ UNCHANGED <<files, call, seen, writes, crashes, mixed>>

PutRename(w) ==
  LET n == call[w].name  t == Temp(call[w].id) IN
  /\ pc[w] = "rename"
  /\ dir' = [dir EXCEPT ![n] = dir[t], ![t] = Absent]
  /\ survive' = [survive EXCEPT ![n] = @ \cup survive[t], ![t] = @ \cup {Absent}]
  /\ Unlink(n) /\ Enter(n)
  /\ Goto(w, "hash")
  /\ UNCHANGED <<call, seen, answer, counts, leftover>>

\* os.WriteFile truncates the .sha256 file, then writes the line.
PutHashTruncate(w) ==
  /\ pc[w] = "hash"
  /\ Set(hashPath(call[w].name), EmptyFile)
  /\ Goto(w, "hashing")
  /\ UNCHANGED <<lost, call, seen, answer, counts, history>>

PutHash(w) ==
  /\ pc[w] = "hashing"
  /\ WriteHash(w, Hash(call[w].id)) /\ lost' = lost \ {w}
  /\ Goto(w, "wrote")
  /\ UNCHANGED <<call, seen, answer, counts, history>>

\* The file is not opened, or nothing, a part or all of the line is written to it.
PutHashFails(w) ==
  /\ pc[w] \in {"hash", "hashing"} /\ Fault
  /\ \/ UNCHANGED <<dir, survive>>
     \/ /\ pc[w] = "hashing"
        /\ \E f \in {Part(call[w].id), Hash(call[w].id)} : WriteHash(w, f)
  /\ lost' = lost \ {w}
  /\ mixed' = mixed \cup {call[w].name}
  /\ Return(w, "error")
  /\ UNCHANGED <<call, seen, writes, crashes, leftover>>

\* Mutation: a blob that has not the declared length is refused and not removed.
Bug_PutDone(w) ==
  LET b == call[w].body  written == TakenFrom(b) IN
  /\ pc[w] = "wrote"
  /\ IF ~b.exact /\ b.expected > 0 /\ written # b.expected
     THEN Return(w, "length mismatch") ELSE Return(w, "ok")
  /\ UNCHANGED <<files, call, seen, counts, history>>

\* Put removes a blob that is too large or has not the declared length.
PutDone(w) ==
  LET b == call[w].body  written == TakenFrom(b) IN
  /\ pc[w] = "wrote"
  /\ IF ~b.exact /\ (written > MaxBytes \/ (b.expected > 0 /\ written # b.expected))
     THEN /\ Goto(w, "unlink") /\ UNCHANGED answer
          /\ call' = [call EXCEPT ![w].result =
                        IF written > MaxBytes THEN "too large" ELSE "length mismatch"]
     ELSE Return(w, "ok") /\ UNCHANGED call
  /\ UNCHANGED <<files, seen, counts, history>>

(***************************************************************************)
(* Delete, and the removal of a rejected blob.                             *)
(***************************************************************************)
CallDelete(w) ==
  /\ pc[w] = "idle"
  /\ \E n \in Names : call' = [call EXCEPT ![w].name = n, ![w].result = "deleted"]
  /\ Goto(w, "unlink")
  /\ UNCHANGED <<files, seen, answer, counts, history>>

DeleteBlob(w) ==
  LET n == call[w].name IN
  /\ pc[w] = "unlink"
  /\ Set(n, Absent) /\ Unlink(n)
  /\ Enter(n)
  /\ call' = [call EXCEPT ![w].result =
                IF @ = "deleted" /\ dir[n] = Absent THEN "not found" ELSE @]
  /\ Goto(w, "unhash")
  /\ UNCHANGED <<seen, answer, counts, leftover>>

\* os.Remove fails: the blob stays, the .sha256 goes all the same.
DeleteBlobFails(w) ==
  /\ pc[w] = "unlink" /\ Fault
  /\ mixed' = mixed \cup {call[w].name}
  /\ call' = [call EXCEPT ![w].result = "error"]
  /\ Goto(w, "unhash")
  /\ UNCHANGED <<files, seen, answer, writes, crashes, leftover>>

\* Mutation: the hash is left when the blob was not there.
Bug_DeleteHash(w) ==
  /\ pc[w] = "unhash"
  /\ IF call[w].result = "deleted" THEN UNCHANGED files
     ELSE Set(hashPath(call[w].name), Absent) /\ Unlink(hashPath(call[w].name))
  /\ Return(w, call[w].result)
  /\ UNCHANGED <<call, seen, counts, history>>

DeleteHash(w) ==
  LET p == hashPath(call[w].name) IN
  /\ pc[w] = "unhash"
  /\ Set(p, Absent) /\ Unlink(p)
  /\ Return(w, call[w].result)
  /\ UNCHANGED <<call, seen, counts, history>>

\* os.Remove fails: the .sha256 stays, and the call succeeds all the same.
DeleteHashFails(w) ==
  /\ pc[w] = "unhash" /\ Fault
  /\ mixed' = mixed \cup {call[w].name}
  /\ Return(w, call[w].result)
  /\ UNCHANGED <<files, call, seen, writes, crashes, leftover>>

(***************************************************************************)
(* Open: the handle keeps its file whatever happens to the name.           *)
(***************************************************************************)
CallOpen(w) ==
  /\ pc[w] = "idle"
  /\ \E n \in Names : call' = [call EXCEPT ![w].name = n]
  /\ Goto(w, "open")
  /\ UNCHANGED <<files, seen, answer, counts, history>>

OpenBlob(w) ==
  LET f == dir[call[w].name] IN
  /\ pc[w] = "open"
  /\ IF f = Absent THEN Return(w, "not found")
     ELSE /\ answer' = [answer EXCEPT ![w].file = f]
          /\ Goto(w, "stat")
  /\ UNCHANGED <<files, call, seen, counts, history>>

\* Mutation: the size is that of the path, not of the handle.
Bug_OpenStat(w) ==
  /\ pc[w] = "stat"
  /\ answer' = [answer EXCEPT ![w].bytes = dir[call[w].name].bytes]
  /\ Goto(w, "sidecar")
  /\ UNCHANGED <<files, call, seen, counts, history>>

OpenStat(w) ==
  /\ pc[w] = "stat"
  /\ answer' = [answer EXCEPT ![w].bytes = answer[w].file.bytes]
  /\ Goto(w, "sidecar")
  /\ UNCHANGED <<files, call, seen, counts, history>>

OpenSidecar(w) ==
  /\ pc[w] = "sidecar"
  /\ answer' = [answer EXCEPT ![w].status = "open",
                              ![w].sha = ReadSidecar(dir[hashPath(call[w].name)])]
  /\ Goto(w, "reply")
  /\ UNCHANGED <<files, call, seen, counts, history>>

(***************************************************************************)
(* List: directory entries first, then each entry's size and hash.         *)
(***************************************************************************)
IsSidecar(p) == p \in {[base |-> n.base, sha |-> k] : n \in Names, k \in 1..2}

ListRead(w) ==
  /\ pc[w] = "idle"
  /\ seen' = [seen EXCEPT ![w] = {p \in Paths : dir[p] # Absent /\ ~IsSidecar(p)}]
  /\ Goto(w, "list")
  /\ UNCHANGED <<files, call, answer, counts, history>>

ListEntry(w) ==
  /\ pc[w] = "list"
  /\ \E p \in seen[w] :
       /\ seen' = [seen EXCEPT ![w] = @ \ {p}]
       /\ answer' = IF dir[p] = Absent THEN answer
                    ELSE [answer EXCEPT ![w].listed = @ \cup {p}]
  /\ UNCHANGED <<files, pc, call, counts, history>>

ListDone(w) ==
  /\ pc[w] = "list" /\ seen[w] = {}
  /\ Return(w, "list")
  /\ UNCHANGED <<files, call, seen, counts, history>>

Reply(w) ==
  /\ pc[w] = "reply"
  /\ Goto(w, "idle")
  /\ call' = [call EXCEPT ![w] = Idle]
  /\ answer' = [answer EXCEPT ![w] = NoAnswer]
  /\ UNCHANGED <<files, seen, counts, history>>

(***************************************************************************)
(* The node stops: every path holds what had reached the volume.           *)
(***************************************************************************)
Crash ==
  /\ crashes < MaxCrashes /\ crashes' = crashes + 1
  /\ dir' \in {f \in [Paths -> UNION {survive[p] : p \in Paths}] :
                 \A p \in Paths : f[p] \in survive[p]}
  /\ survive' = [p \in Paths |-> {dir'[p]}] /\ lost' = {}
  /\ pc' = [w \in Workers |-> "idle"] /\ call' = [w \in Workers |-> Idle]
  /\ seen' = [w \in Workers |-> {}] /\ answer' = [w \in Workers |-> NoAnswer]
  /\ mixed' = Names /\ leftover' = {i \in 1..MaxWrites : dir'[Temp(i)] # Absent}
  /\ UNCHANGED <<writes, faults>>

Next ==
  \/ Crash
  \/ \E w \in Workers :
       \/ CallWrite(w) \/ PutCreate(w) \/ PutCreateFails(w) \/ PutCopy(w)
       \/ PutCopyFails(w) \/ PutCheck(w) \/ PutSync(w) \/ PutInstallFails(w)
       \/ PutUntemp(w) \/ PutUntempFails(w) \/ PutRename(w) \/ PutHashTruncate(w)
       \/ PutHash(w) \/ PutHashFails(w) \/ PutDone(w)
       \/ CallDelete(w) \/ DeleteBlob(w) \/ DeleteBlobFails(w)
       \/ DeleteHash(w) \/ DeleteHashFails(w)
       \/ CallOpen(w) \/ OpenBlob(w) \/ OpenStat(w) \/ OpenSidecar(w)
       \/ ListRead(w) \/ ListEntry(w) \/ ListDone(w)
       \/ Reply(w)

Spec == Init /\ [][Next]_vars

-----------------------------------------------------------------------------
Writing == {"create", "copy", "check", "sync", "rename", "untemp"}

\* Type invariant, with the reason writers need no lock: no two goroutines write to
\* the same temporary file (os.CreateTemp).
TypeOK ==
  /\ dir \in [Paths -> File]
  /\ survive \in [Paths -> SUBSET File] /\ \A p \in Paths : dir[p] \in survive[p]
  /\ \A w \in Workers : seen[w] \subseteq Paths /\ answer[w].listed \subseteq Paths
  /\ \A w \in Workers : answer[w].file \in File /\ answer[w].sha \in Int
  /\ \A w, u \in Workers :
       w # u /\ pc[w] \in Writing /\ pc[u] \in Writing => call[w].id # call[u].id
  /\ lost \subseteq {w \in Workers : pc[w] = "hashing"}
  /\ mixed \subseteq Names /\ leftover \subseteq 1..MaxWrites

\* What a client can find under a blob's name, now or after a crash, is all a write
\* took from its body: never a part, never a mixture, whoever else writes or stops.
WholeBlobs ==
  \A n \in Names : \A f \in survive[n] : f.kind \in {"absent", "data"}

\* Whatever length was declared, no blob is larger than MAX_BLOB_BYTES.
BlobsWithinLimit ==
  \A n \in Names : \A f \in survive[n] : f.bytes <= MaxBytes

\* A write that is refused for its size is not under its name when its client hears of
\* it. Too large, or not of the size to generate, it never was, and no crash can bring
\* it there. Of another length than its client declared, it was for a while, and Put
\* has removed it again whoever else wrote or deleted the name meanwhile; where that
\* removal fails, the answer is another error.
RefusedNotServed ==
  \A w \in Workers, n \in Names :
    pc[w] = "reply" =>
      /\ answer[w].status \in {"too large", "size mismatch"} =>
           \A f \in survive[n] : f.kind = "data" => f.id # call[w].id
      /\ answer[w].status = "length mismatch" =>
           ~(dir[n].kind = "data" /\ dir[n].id = call[w].id)

\* Every temporary file is that of a write at work, whichever of its calls fails; only
\* a crash, or a removal that itself failed, leaves one behind.
NoTempLeak ==
  \A i \in (1..MaxWrites) \ leftover :
    dir[Temp(i)] # Absent => \E w \in Workers : pc[w] \in Writing /\ call[w].id = i

\* When no call is between changing a blob and changing its .sha256, the hash is that
\* of the blob, unless two such calls overlapped, one of the two changes failed (a
\* Delete that only logs so succeeds), or the node stopped; the next write or delete
\* that runs alone and through makes them agree again.
HashMatches ==
  \A n \in Names \ mixed :
    Between(n) = {} =>
      \/ dir[n] = Absent /\ dir[hashPath(n)] = Absent
      \/ dir[n].kind = "data" /\ dir[hashPath(n)] = Hash(dir[n].id)

\* The Content-Length of a download is the size of the file it sends, also when the
\* blob is replaced or deleted between the system calls of Open.
OpenConsistent ==
  \A w \in Workers :
    answer[w].status = "open" =>
      answer[w].file.kind = "data" /\ answer[w].bytes = answer[w].file.bytes

(***************************************************************************)
(* What the repository says of the store and the code does not do.         *)
(***************************************************************************)
\* "Info describes a file stored on the PVC" (store.go:45): the hash Open returns,
\* the X-Blob-SHA256 of a download, is that of the file it opened, or omitted.
InfoDescribesFile ==
  \A w \in Workers :
    answer[w].status = "open" => answer[w].sha \in {0, answer[w].file.id}
=============================================================================
