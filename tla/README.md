# Specifications of the TLS route benchmark

TLA+ models of the benchmark server (`src/cmd`, `src/internal`), of the script
that drives it (`src/scripts/vm-bench.sh`) and of the dashboard that shows the
results (`src/web/static/app.js`), the TLC configurations that
check them on small instances, and TLAPS proofs that hold for every instance.

    tlc -config ResultsLog_safety.cfg MCResultsLog      # check one configuration
    tlapm ResultsLogProofs.tla                          # check the proofs

## 1. The system

The server listens on HTTP and HTTPS at once, stores blobs on a volume, serves
them back, and writes one line per benchmark request to a results log on the
same volume. A script on another machine runs `curl`, and posts what curl
measured of each request back to the server, which merges it into the line that
the request left. A dashboard in a browser reads pages of the log and shows
percentiles of the samples of an experiment.

| component | state | operations | source |
| --- | --- | --- | --- |
| results log | one JSON-lines file, one mutex, a temporary file while it is rewritten | `Append`, `MergeClientTimings`, `ReadNewestPage` | `internal/results/log.go` |
| blob store | a directory of blobs, their `.sha256` files, temporary files; no lock | `Put`, `Generate`, `Open`, `List`, `Delete` | `internal/blobs/store.go` |
| TLS listener, tracker | kernel queue, the connection in its handshake, `Tracker.byConn`, a request counter per connection | `Accept`, `Tracker.{Store,Load,Delete}`, `Meta.ConsumeHandshake` | `internal/tlslisten/listen.go` |
| server process | an errgroup of three goroutines, the group's context, two `http.Server`s, one shutdown deadline | `ListenAndServe` | `internal/server/server.go`, `cmd/server/main.go` |
| request handlers | none of their own | record a run, merge timings, statuses | `internal/server/{server,timings,probe,validate}.go` |
| benchmark script | its options, the sample it is at, three arrays of samples | cold probes, `--reuse` streams, uploads and a download, `submit_timings`, the summary | `scripts/vm-bench.sh` |
| certificate files | CA, certificate, key and trust bundle on a volume | build the bundle, `LoadOrGenerate` | `internal/certs/certs.go`, `scripts/entrypoint.sh` |
| timing and statistics | none | curl times to phases, percentiles (three implementations) | `internal/timing`, `web/static/app.js`, `vm-bench.sh` |
| dashboard | refreshes under way, the runs last read, filter and grouping, auto-refresh | `refresh`, filters, expanding a group, percentiles of a group | `web/static/app.js` |
| configuration, TLS settings | none | environment to `tls.Config`, once | `internal/config`, `internal/certs/tlsconfig.go` |
| connection info | none | a request's TLS state to a record | `internal/requestinfo` |
| write token, headers | none | predicates of one request | `internal/server/security.go` |
| deployment | none | manifests and helper scripts | `deploy`, `scripts`, `Makefile` |

Interactions: every request runs in a goroutine of its own. `record` reads the
connection's `Meta` (listener) and calls `Append` (log). The blob handlers call
the store, then `record`. `attachClientTimings` calls `MergeClientTimings`. The
script sees only statuses, and ignores most of them; what it prints it computes
from curl's reports itself. The dashboard computes its percentiles from what the
server derived from the same reports and merged into the log. The two shutdowns of the
process wait for whatever handlers are running.

What is hard:

* the log's appends and rewrites share a file; a write can stop short on a full
  volume; the node can stop between any two steps;
* blobs and their hashes are two files changed one after the other without a
  lock, and are read by goroutines that look at path and handle at other times;
* HTTP/2 streams race for the one handshake of their connection;
* the handshake runs inside `Accept`, so one client can hold up all others;
* a download is recorded after the client has its last byte, and the post of its
  timings can overtake that;
* a start can end between writing the CA, the certificate and the key;
* percentiles of the same samples are computed twice along different ways, in three
  languages, and the samples that count are chosen differently;
* the dashboard's refreshes overlap and fail, and nothing orders their answers;
* a TLS setting can be without effect, or keep the process from serving, depending
  on another one;
* HTTP and HTTPS are shut down one after the other under a single deadline.

The properties that make each part correct are the invariants of section 3;
`hazards` in `PROJECT.json` lists the places in the code they are about.

## 2. The modules

`Runs` holds what a run and a post are and which run a post matches
(`findMergeIndex`), for the log and for the sessions alike.

    Runs <- ResultsLog <- ResultsLogProofs
    Runs <- RunTable  <-- refined by ResultsLog (ResultsLogProofs)
    Runs <- BenchSession <- BenchSessionProofs
    Timing <- TimingProofs
    Runs, Timing <- SharedLog <- VMBench, Dashboard <- Study
    Study, TimingProofs <- StudyProofs
    TLSSettings <- TLSListener <- TLSListenerProofs
    BlobStore <- BlobStoreProofs          ServerLifecycle <- ServerLifecycleProofs
    CertFiles <- CertFilesProofs

`MCxxx` instantiates `xxx`: it defines the values of its constants and the
symmetries. Definitions called `Bug_...` are the variants of an action with one
plausible mistake; no specification uses them. They are there to be substituted
for the action, to see that a property notices.

**ResultsLog** has the file (`log`), the temporary file, the mutex, and per
goroutine a program counter, its argument, what it has read and what it returns.
Each system call that changes a file is one action: the line is written
(`AppendWrite`, `AppendShort`) and fsynced (`AppendSync`); the rewrite truncates
and writes the temporary file, syncs it and renames it. What one read under the
mutex returns is one action, since nobody else changes the file meanwhile (part of
`TypeOK`). Every error return of the code is an action (`...Fails`), with the
unlock that `defer` does. The contents of a file are the runs a reader finds and
the way it ends: after a newline, after a whole run without its newline, or inside
a line. Lines that do not parse are skipped by every reader and are left out, and
the measured numbers of a run are reduced to `client`, the curl timings last
merged, and `hs`, the client handshake.
`survive` is what a crash can leave: until an fsync returns, any part of what was
written since the last one. `NewLogger` is `Init`.

**RunTable** is the promise the log makes, without files: runs are added at the
end, timings are attached to the one run a post addresses, only an unacknowledged
last run can go, and a restart keeps acknowledged runs, in order.
`Addresses` and `Attached` are stated anew there, from the meaning of a post; they
are not the log's `Matches` and `Merged`.

**BlobStore** maps paths to what they hold. A name is a base and a number of
`.sha256` suffixes, which is all that tells blobs from hashes (`hashPath`); a
body is a declared length, a real length, and whether `Put` or `Generate` reads
it. Each system call is an action: create, copy, the size checks, fsync, rename,
truncating and writing the hash, the removals. `Delete` and the removal of a blob
of the wrong length share their actions. A removal can fail as any other call: the
code logs it and goes on, so a temporary file stays (`PutUntempFails`), and a `Delete`
succeeds that leaves the `.sha256` (`DeleteHashFails`). `Open` keeps the opened file
whatever happens to its name, and so does a writer that has the `.sha256` open: the
line it writes goes to a file that nobody sees if the path was removed meanwhile
(`lost`, `WriteHash`). `List` reads the directory and then entry after entry; the size
and hash it gives of each are left out. Of the history variables `mixed` has the names
whose blob and hash were changed by overlapping calls, by a call one of whose two
changes failed, or by a crash, and `leftover` the writes whose temporary file a crash
or a failed removal left.

**TLSListener** has the queue of connections, the accept loop with the
connection it is with, the tracker and the requests of every connection:
one after another on HTTP/1.1, side by side on HTTP/2, where handlers may also
outlive their connection. `ConsumeHandshake` is one action, as in the code it is
one atomic addition. Of a request only matters whether its handler records a run.
The process runs in one of `Environments`, a client has an offer, a completed
handshake takes one of the outcomes that `Negotiated` allows, and a recorded run
describes it (`requestinfo.FromRequest`).

**TLSSettings** is pure: `FromEnv` parses the environment as `config.go` does, where
a value that does not parse makes the set of configurations empty; `ServerTLSConfig`
and `LoadClientCAs` build the listener's settings; `HTTP2Accepts` is the check with
which `net/http` refuses to serve, and `Negotiated` what `crypto/tls` agrees on
(external). `Serving` composes them. The code trims blanks around values, and reads
booleans and the minimum version in either case of letters; a value of the model stands
for all its spellings.

**ServerLifecycle** has the three goroutines of the group, the listening
sockets, `inShutdown`, the deadline and requests at every stage from the kernel's
queue to the end of their handler. A goroutine that returns an error cancels the
context (errgroup). `Shutdown` of `net/http` is external: it sets `inShutdown`,
closes the listener, and waits for idle connections or for the deadline. A second
`Shutdown` under a deadline that has passed closes its listener all the same, and
reports success if nothing is active.

**CertFiles** is a sequence of starts over three files. A file is absent, empty, a
part of a PEM or all of it, and carries the number of the start that generated it,
0 for one of the operator; a certificate belongs to the key and is signed by the CA
with the same number. Truncating and writing a file are two actions, since
`os.WriteFile` does both; `Stop` is a signal or the error of any call. The bundle is
built in one action, as nothing reads it before the process runs. Initially the
operator may have provided any set of the three files, each of them whole, and a
certificate and a key that belong together: a pair of an operator's that does not load
(`certs.go:58-61`) stops every start and is not represented, so `RefusedOnlyWhenHalf`
speaks of operators' files that are valid. Power losses are not modelled here.

**BenchSession** composes script, handlers and log: scripts ask, handlers record
and answer, scripts post. The log is used through its operations, each a single
step, as `ImplementsRunTable` justifies. The order of recording and answering
is that of each handler: probes and uploads are recorded, then answered; a
download is streamed, then recorded. `submit_timings` goes on whatever the status.
`--reuse` asks all streams at once and posts when all have answered with 200.
`vm-bench.sh` runs with `set -e`, so a curl that cannot connect stops the script
(`Break`). Timings are numbers that name script and sample: to have the
timings of another sample is to have another number.

**Timing** has what is computed from curl's reports: `PhasesFromCurl` (Go) and
`curl_phases_ms` (Python), the three implementations of percentile, the summaries of
Go, the script and the dashboard, and `IsPercentile`, which says what a percentile is
without sorting, by counting. Sorting itself is by rank (`Ordered`): the place behind k others
comes (k+1)th, and of equal values the earlier place first, which is what a stable sort does.
Times are whole microseconds, and percentiles are scaled by 100 so that interpolation stays
in the integers.

**VMBench** is one run of the script with its options: refused command lines, the
defaults of `--repeat` and `--warmup`, cold probes, `--reuse` with the checks of
`multiplex_timing_rows`, uploads with a download, a single upload and download. The
three arrays hold the requests whose values they have; the summary is computed when it
is printed. For `--reuse`, curl may fall back to HTTP/1.1 or open more connections
than one, and handlers record the streams in any order.

**Dashboard** is a page: the refreshes under way, each before or after the server has
read the log for it, and the view that the last one to render left. `Render` is one
callback. `Fail` is an error of any of the three requests. `Rerender` is a click that
renders the runs last read with the controls of now. `overtaken` is history. The route
mode is left out of the key of a group: an experiment of the script has one.

**Study** composes both over the log, in which each operation is one step (`SharedLog`,
as for `BenchSession`).

External and modelled from its use: the file system (`Fsync`, `Rename`, short
writes, what survives), `net/http` (accept loop, HTTP/1.1 and HTTP/2 scheduling,
`Shutdown`), curl. Two assumptions there matter. An fsync of a file just renamed
makes the rename durable, as journalling file systems do; the code syncs no
directory. A crash leaves of an unsynced file any of the states its
writes went through, never bytes nobody wrote.

## 3. What is checked

| configuration | instance | what it shows |
| --- | --- | --- |
| `ResultsLog_safety` | 2 goroutines, 2 recorded runs that share experiment and blob name, posts by experiment and by name, page limits 1 and 9, 1 crash | `TypeOK` with the lock discipline; `AckedLostOnlyByGlue`: an acknowledged run is in the file and in everything a crash can leave of it, unless its line was written behind an unterminated one; `NoDuplicateRuns`; `PageComplete`: a page leaves out no run acknowledged before the read without its total showing it; `ImplementsRunTable` |
| `ResultsLog_live` | 2 goroutines, 2 runs, 1 post, no crash, with fairness | `EveryCallReturns`: no error path keeps the mutex, nobody starves |
| `BlobStore_safety` | 2 goroutines, 1 name, 7 kinds of body, 2 writes, 1 failing call, 1 crash | `WholeBlobs`: under a blob's name is all a write took from its body, also after a crash; `BlobsWithinLimit`; `RefusedNotServed`: a write refused as too large or as not of the size to generate is never under its name, nor after a crash, and one refused for another length than its client declared is not there when it is refused, though it was renamed into place and others write and delete the name meanwhile; `NoTempLeak`: only a crash or a failed removal leaves a temporary file; `OpenConsistent`: `Content-Length` is the length of what is sent; `HashMatches`: blob and hash agree except after overlapping calls, a failed change or removal of one of the two, or a crash |
| `TLSListener` | 2 connections with 3 requests and 1, 10 environments, 2 kinds of client, with fairness | `TrackedWhileLive`: `byConn` is exactly the live connections; `OneHandshakeRow`: exactly one recorded run has the handshake of its connection; `RowsHonourSettings`: recorded runs show what `TLS_MIN_VERSION`, `TLS_CIPHER_SUITES` (over TLS 1.2) and `TLS_CLIENT_CA_FILE` ask for; `ColdRowsFull`: a run with a handshake has a full one, although its client connected before, unless tickets were turned on; `EveryConnectionDecided`: a client that stalls delays the others and no more |
| `ServerLifecycle` | 3 requests, with fairness | `CleanExitCutsNothing`, `CutOnlyAtDeadline`, `ShutsDown`: from a signal, a port that is taken or a broken listener to the exit, with requests that never end |
| `CertFiles` | 5 starts, every set of provided files | `CASignsServed`: the CA at `/ca.crt` signed the certificate served; `RestartsKeepTrust`: later starts serve the same pair and CA, and none refuses; `RefusedOnlyWhenHalf`: a start refuses only on half of a pair; `BundleTrustsServer`: from the second start on the bundle has the CA |
| `BenchSession_sessions` | 4 scripts: `--reuse` with 2 streams, upload and download, cold probe with warmup, an id the server refuses; 1 failure | `OwnTimings`: no run ever has the timings of another sample or script; `SamplesComplete`: after the script has posted, every request that succeeded and was stored has one run with its timings, unless the post overtook the run, and only a download's post can |
| `Study` | 7 command lines and series of reports, 0 or 1 runs in the log before, page limit 4, 2 refreshes at once, 1 failing, 2 settings of the controls, with fairness | `SummaryIsStudy`: the summary printed is that of the samples after the warmup, all of them and no others, by the definition of a percentile, and equal to the server's `Summarize`; `ReusePrintsOneHandshake`: a `--reuse` summary is printed only for one connection and has one handshake; `RowIsStudy`: the dashboard's row of an ended study has its samples once each and the percentiles of all of them, warmup included, by the server's `Summarize`; without a warmup they are those the script printed; `FilterTakesEffect`: controls and table differ only while a refresh is under way or with the failure shown; `RegressOnlyByOverlap`: the page goes back to an older state of the log only by a refresh that another one overtook; `CatchesUp`: with auto-refresh on and the log quiet the page comes to show the newest runs and stays there |

Four configurations check what a comment, a document or a test says and the code
does not do; TLC finds each of them violated.

| configuration | statement | what happens |
| --- | --- | --- |
| `ResultsLog_newest_first` | "newest first" (`log.go:115`) | `Append` stamps before it locks; two goroutines write in the other order |
| `BlobStore_info_race` | "Info describes a file stored on the PVC" (`store.go:45`) | `Open` opens one upload and reads the hash of another |
| `BenchSession_one_cold` | "Expect **one** sample with TCP/TLS handshake cost; the rest should show **Reused**" (`tls-benchmark-methodology.md:70`) | the server gives the handshake to the stream it records first, curl to the stream that opened the connection |
| `Study_warmup_row` | "Discard warmup (`--warmup 3` when `--repeat > 1`)", "compare **TLS hs cli** and **TLS hs srv** p50/p99 in the dashboard" (`tls-benchmark-methodology.md:97` and `:44`) | the script records its warmup samples like the others, and the dashboard's summary row has the p50 and p99 of all of them (`app.js:253`), the script those without the warmup |

Seen on the way, and visible in the same models, without a configuration of their
own:

* a run acknowledged after a write that stopped short is written behind the
  unterminated line and cannot be read: the exception in `AckedLostOnlyByGlue`;
* a download is recorded after its last byte is sent; a post that overtakes that
  gets 404, which the script ignores: `late`, the exception in `SamplesComplete`;
* a listing shows temporary files, whose names are valid blob names, and a blob that
  a client calls `a.sha256` is read as the hash of `a`;
* where a removal fails the store only logs it: a temporary file stays and is listed, or
  a `.sha256` stays behind a `Delete` that reported success: `leftover` and `mixed`, the
  exceptions in `NoTempLeak` and `HashMatches`;
* an upload of another length than declared is under its name for a moment, and replaces
  what was there, before it is refused and removed (`store.go:115-120`);
* a caller that repeats an `Append` that failed after its line was written adds a second
  run with another timestamp (`NoDuplicateRuns` is about one run's line), and a post by name
  with an index renumbers the run it matches, as `RunTable` permits;
* after a first request that records nothing (`/api/info`) a later one gets the
  handshake;
* with a repeated experiment id every post is ambiguous and refused, unseen by the
  script, though the comment at `log.go:93` says that it goes to the newest matching
  run; a merge rewrites the log that `README.md:58` calls append-only;
* after a stop between the writes of certificate and key no later start runs until
  somebody removes the file;
* the pin of TLS 1.3 suites that `tls-benchmark-methodology.md:92` suggests has no effect
  on TLS 1.3 connections: with `TLS_MIN_VERSION=1.3` the process serves, and negotiates
  suites that are not in the list, which Go's TLS heeds below TLS 1.3 only (hence "over
  TLS 1.2" in `RowsHonourSettings`; the fifth of `TenEnvs`);
* a cipher pin of TLS 1.3 suites alone with the default minimum version stops the
  server as soon as it serves, since HTTP/2 wants its TLS 1.2 suite in the list
  (`Serving` is empty, `TenEnvs`); a pin without names (`,`) is
  read as the suite `localhost` and stops the start, as `splitCSV` is that of the DNS
  names;
* `--warmup 0` cannot be told from no option: `--handshake-only` still discards 3;
* the three implementations of percentile agree (also proved, section 4).

### Bounds

Constants bound only what is unbounded by nature: runs, writes, crashes, failing
calls, requests. Two goroutines are enough for the races: each hazard in the log
and in the store is between one call that is between two steps and one other call,
and both are in every combination of operations; a third goroutine would only
wait for the mutex. Two runs give none, one and two matches of a post. One crash
is enough because a restart begins from any state that a crash leaves and all
goroutines idle. In the store one failing call with every later call succeeding,
and the other way round, are both explored; a blob name interacts with another
only through `.sha256`. Two connections are one that stalls and one that waits, or one that
comes back with the session of the other; each negotiates on its own.
Three requests are one at each of three stages of the shutdown. Of five starts
two can be interrupted at different files, one serves, and two follow it. In `BenchSession`
the scripts meet only in the table of runs. In `Study` the defaults of 30 samples and
3 warmups are 3 and 1: the slice cuts off the same part, and summaries of no sample
(plain HTTP), of one, two and three occur. The page limit 4 is below the longest log, so that pages are
cut; two refreshes are enough to overtake, and a third would be overtaken like
the second.

`CHECK_DEADLOCK FALSE` stands where the system really stops: connections and
requests are used up, the process has exited, the scripts have ended.

### Fairness

* `ResultsLog`: a goroutine that can take a step takes it (the Go scheduler), and
  `sync.Mutex` hands the lock to a goroutine that has waited for a millisecond
  (its starvation mode), hence strong fairness for taking it. No call has to be
  made and nothing has to crash or fail.
* `TLSListener`: the accept loop runs; a handshake ends one way or the other, by
  its `handshakeTimeout` context. Clients owe nothing.
* `ServerLifecycle`: the goroutines run and timers fire; a handshake ends by its
  own timeout. Handlers may run for ever, a signal need not come.
* `Study`: the timer fires, and the browser gets each answer or an error, so each
  refresh renders or fails. Nothing is assumed of the script or the user: `CatchesUp`
  speaks of the box being on and the log quiet from some point on.

## 4. What is proved

`ResultsLogProofs`, for any set of goroutines, any runs, posts and limits and any
bounds, from the assumptions that the constants have their types and that no
goroutine is the value `Free`:

* `TypeCorrect`: `Spec => []TypeOK`. `TypeOK` contains `MutexHeld`, the lock
  discipline, which is what makes it inductive: whoever is between reading or
  writing the file and returning is the holder, so two goroutines are never both
  there. The proof has a step for every action; `GotoType` and `ReturnType`
  say once what moving on and returning do.
* `AckedRunsStay`: `Spec => []AckedLostOnlyByGlue`. It is not inductive: a rewrite
  replaces the whole file by what a merge read some steps earlier, and an append
  acknowledges a line it wrote earlier. `Strengthening` adds what is needed.
  `DataSurvives`: the contents seen are among those that can survive.
  `LastUnacked`: a last line without its newline is an unacknowledged run, so
  gluing onto it loses nothing that was promised. `FreshIds`: timestamps not yet
  written are in no file and not acknowledged. `Written`: at the fsync of an
  append its run is in the file. `MergeKeeps`: what a merge is about to write, and
  the temporary file with all it can become, has every acknowledged run; this
  holds because nobody acknowledges while the merge has the mutex, which is where
  `MutexHeld` comes in. The lemmas on `AppendLine`, `TornWrites`, `Merged` and
  `PageOf` say what each does to the ids of the runs.

Its second part goes on from there, under the same assumptions. `TableInv` adds to
`Strengthening` what readers can tell apart. `SurvivorsAlike`: any two of the contents that
a crash may leave have the same runs, where they have them at all, in the same order.
`RunsWritten` and `RunsStamped`: a run in a file has been stamped, a draft that is not
written yet is in no file, and glued runs are in none; that keeps a second copy out.
`RewriteMerges`: what a merge is going to write is the file with the post attached to the
one run it matches, which the rename, some steps later, has to show to the table.

* `NoDuplicates` and `PagesComplete` are invariants of `ResultsLog_safety`. For the second,
  `PageInv` says that what a reader is owed stays acknowledged until it reads, and that a
  page whose total is its length has all of that (`PageIds`).
* `LogImplementsTable`: `Spec => ImplementsRunTable`. The steps that show are a line that
  is written, whole or torn (`WriteAddsOrDrops`), a rename (`RenameAttaches`) and a crash
  (`CrashRestarts`); all others stutter (`StepImplements`). What a post means in `RunTable`
  (`Addresses`, `Attached`) is shown to be what `Matches` and `Merged` do.

`BlobStoreProofs`, for any number of goroutines, names, bodies, limits, failures and
crashes. `TypeInv` is `TypeOK` with the numbers of the writes: each goroutine has a write
number of its own, which is why no two have the same temporary file. `TempInv` follows a
temporary file through a write: empty, copied whole, within the limit, and from the fsync on
the only thing a crash can leave; it also says that what is under a name came from a
write that was not refused before its rename, and where a goroutine's body can be after it
(`Placed`): under the name of its call only, and, of the wrong length, under none from its
removal on, because every write has a number of its own. From these:

* `RefusedHidden` and `NoTempLeaks`, with the exceptions that the code makes: a body of the
  wrong length is under its name until `Put` has removed it, and a temporary file stays
  where its removal fails.
* `PairInvariant`: `Spec => []PairInv`. Under a name that is not the `.sha256` of another
  name (`Clear`) every blob is whole and fits, also after a crash. Where neither is
  (`Alone`), blob and `.sha256` agree, or one goroutine is between the two and will find what
  it left there and write to the file that has the path, or the name is in `mixed`, as after
  a removal that failed. A download announces the length of what it has
  opened. Nothing is assumed of the names: `validateName` accepts `a.sha256`, and for such a
  pair these facts are false.
* `BlobsWhole`, `BlobsFit`, `HashesMatch` and `OpensConsistently` are the invariants of
  `BlobStore_safety`, for all names at once, hence with the hypothesis `Apart`: no client
  uses a name together with that name and `.sha256`. The script's names (`vm-SIZE.bin`) and
  the instance of the run satisfy it.

`TLSListenerProofs`, for any connections, any number of requests on each, every environment
and every offer of a client. `TypeInv` adds to `TypeOK` that a connection is in the queue
once. `Tracking` is `TrackedWhileLive`. `RowsInv` is what `OneHandshakeRow` needs to be
inductive: `Conversation` (a connection that is past its handshake has something that
`Negotiated` allows under some reading of the environment, and each recorded run says that)
and `Handover` (the counter of the Meta is positive as soon as a run is recorded, exactly one
recorded run has the handshake, the others are marked reused). `OneHandshake` follows, and,
with lemmas that go from the text of the environment through `FromEnv`, `ServerTLSConfig` and
`Negotiated` to a version and a suite, `SettingsHonoured` and `ColdIsFull`.

`ServerLifecycleProofs`, for any set of requests: `TypeCorrect`, `CutsAtDeadline` and
`CleanExit`. `ShutdownInv` says that once the third goroutine is past a server, nothing
becomes active on it, and what is active was left there by a `Shutdown` that returned its
context's error (`Quiet`), although handshakes end during the shutdown; and that an exit cuts
requests off only after such an error, and that comes only with the deadline
(`CutsAreReported`). Assumed is that no request is the value for "none".

`BenchSessionProofs`, for any scripts, modes, samples and failures. `LogInv`: every run
belongs to one request that recorded it, no request has two, and one that was recorded has
its run unless storage refused it. `ScriptsInv`: what a script has not asked for, what it
has an answer to, and what became of each post (`Timed`), which is where the order of
recording and answering in the handlers comes in. `SessionInvariant` holds for scripts that
share ids as well: what it says of timings it says of scripts that have their id for
themselves (`Sole`), also beside others that do not. `TimingsAreOwn` and
`SamplesAreComplete` are the invariants of the run for all scripts at once, with the
hypothesis `DistinctIds`: each script has its own id, as with the default of `vm-bench.sh`,
the time and the process number. Without it they are false: two scripts with the same id
post for each other's runs.

`CertFilesProofs`, for any number of starts: `CertTypes`, `CAAlwaysSigns`,
`TrustIsKept`, `RefusalsExplained` and `BundleTrusts`, one for each invariant of
`CertFiles`. All follow from `CertInv`: while a start generates, what the
files before the present one hold is known (`WrittenSoFar`), so that when the key
completes a pair its CA is beside it (`SignedOnDisk`); what was served first is what
the files hold, and such files load, so nothing generates again (`ServedOnDisk`).

`TimingProofs`, for every sequence of samples, whole percentile and report, without
assumptions:

* `PercentilesAgree` (the percentiles of Go, JavaScript and Python are the same function,
  although they treat the last rank differently; `RankInSequence` says why: only the last
  sample has no rank behind it, and there nothing is interpolated), `PercentileBounded` (a
  percentile is between the smallest and the largest sample), `PhasesWithinTotal` (the
  phases of a report whose times come in order do not add up to more than its total) and
  `ScriptReadsAsServer` (script and server derive the same three numbers from a report).
* `SummaryRight`: for every sequence of samples the summaries of server, script and
  dashboard are what `IsSummary` says without sorting. On the way there `OrderedByRank`:
  each rank below the number of places is taken by exactly one of them, since ranks are
  in the order of the values and no two are equal (`RanksInOrder`), so that `Ordered`
  lists every place once, ascending (`OrderedAscends`); `SortedSamples` and `RankIsUnique`
  say the same of the positive samples, and `SameSamples` that two sequences with the same
  positive samples, in whatever places, have one sorting.

`StudyProofs`, for every set of command lines, reports of curl, settings of the filters,
page limit and number of refreshes, from the assumptions of `VMBench` (curl reports on every
request: `CurlAssumption`) and `Dashboard`.

* `TypeCorrect`: `Spec => []TypeOK`. It needs `OnItsWay`, which command lines get where: a
  script without uploads never comes to the download behind its samples, which is not a
  sample and must not enter the arrays.
* `FilterWillTakeEffect`: `Spec => []FilterTakesEffect`.
* `NoRegressWithoutOverlap`: `Spec => RegressOnlyByOverlap`. The invariant behind it is
  `AgesInOrder`: nothing shown or answered is newer than the log, and what a refresh that
  none has overtaken was answered is as new as what is shown, or newer. That the log itself
  never gets an older page (`AgeGrows`) is not obvious, since timed runs leave the page at
  the limit: for each that does, another run has entered the log. `PageAge` and `PageRuns`
  say what a page is made of; `ScriptStep`, that every step of the script only adds runs
  and timings (`Later`).
* `SummariesOfTheStudy`, `ReuseMeasuresOne` and `RowOfStudy`:
  `SummaryIsStudy`, `ReusePrintsOneHandshake` and `RowIsStudy` always hold. They speak
  of the end of a study and say nothing of how it got there, so two invariants are carried
  beside `StudyInvariant`. `Measures`: until the summary is printed each array holds, once
  each, exactly the earlier requests with a value, the warmup ones in front (`Holds`);
  the requests of `--reuse` that are posted have one connection, which shook hands; and
  what is printed is the summary of the study. `Sampled`: each sample asked for has one
  run in the log, with the handshake that was posted of it and 0 before that, whatever order
  the streams of `--reuse` were recorded in. The cut `[@]:WARMUP` then leaves the
  samples of the study (`CutIsStudy`), and a page that is not truncated lists them from the
  last to the first, so the sample k of the row is request T - k + 1 (`ShownSamples`), whose
  handshakes are a permutation of those posted, and without a warmup of those the script
  summarised: `SameSamples` closes it.
  TLC checked `Measures` and `Sampled` on the instance of `Study` before they were proved.

The first of these has a hypothesis, `WarmupsCount`: each warmup sample
has a value that is not zero, or no sample has one. The code needs it: an array
leaves zeros out and is then cut by `WARMUP` (`vm-bench.sh:424`), so a warmup request with a
handshake of 0 before a measured one would cost a measured sample. That case is excluded, here
and in the run, and is not caught by them. The hypothesis holds of plain
HTTP, where no request has a handshake, of `--reuse`, which has no warmup, and of probes and
uploads, each over a connection of its own, as long as a connect and a handshake over a
network take curl a microsecond. The second has
`ConnectsTakeTime`: connecting and shaking hands take a microsecond at least, without which
the one connection may be absent from the numbers. Both are about the reports of curl
alone; `MCStudy` assumes them of its instance (`ReportsAssumption`), where TLC evaluates
them.

Model-checked only:

* everything under fairness (`EveryCallReturns`, `EveryConnectionDecided`, `ShutsDown`,
  `CatchesUp`): liveness and `ENABLED` are beyond the prover;
* that `Total`, the sum a mean divides, adds up each sample: it is the same expression in
  the three summaries, and what a fold computes is induction over data;
* the four statements that TLC refutes.

No invariant of a passing run, and no action property, is only model-checked.

## 5. What is not modelled, and what comes next

Not modelled because they keep no state and take part in no interaction: the write
token and the headers; because they are declarative or wrap other tools: manifests and
helper scripts. Of the handlers, routing, probes of the platform, static files and the
layout of JSON are left out; of the script, the text it prints; of the configuration,
values that are passed through (addresses, paths, DNS names); of the connection info,
addresses, SNI and the text of the certificate; of the dashboard, the column picker and
what the browser stores for it, the metrics guide, the table of blobs and the layout.
`LoadExtraCAs` builds a pool that the server does not use.

Plan, in order:

1. (done) `Runs`, `ResultsLog`, `RunTable`, `BlobStore`, `TLSListener`,
   `ServerLifecycle`, `CertFiles`, `BenchSession`; theorems on the log and the files.
2. (done) `Timing`, `VMBench`, `Dashboard`, `Study`, `TLSSettings` in `TLSListener`.
3. (done) Theorems on the table of runs and the refinement, the blob store, the listener
   and its settings, the shutdown, and the sessions.
4. (done) Theorems on the study: its types, the filters, the overlapping refreshes, the
   percentiles, the summaries printed and shown.
