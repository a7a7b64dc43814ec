# ugoku: a verification development

TLA+ models of [ugoku](../src/readme.md), an SFTP client in Go that moves and
mirrors files as a command line tool or a service; TLC configurations that check
them on small instances; and TLAPS proofs for instances of every size.

The modules describe the goroutines and channels of the program: what they
share without a lock, what they wait for, and what is left when a call fails, a
transfer exceeds its timeout or the process dies. Paths below are relative to
`src/`; line numbers refer to them.

## 1. The system

### Components

| Component | Source | State | Operations |
|---|---|---|---|
| SftpScanner | `downloader/sftp-scanner.go` | `started`, connection; a walk, a local count `dispatched` | scan, scan_once, Stop; recreated by its manager |
| SftpDownloader | `downloader/downloader.go` | per object: connection, `started`, `downloader_to_exit`; per pipeline: channels `c` and `done` | Start (receive loop, health check), download, removeSrc, Stop; recreated by its manager |
| FolderScanner | `uploader/folder-scanner.go` | `started`, `LocalFolderMap`, pass counter | scan, with or without watching for changes |
| SftpUploader | `uploader/uploader.go` | as SftpDownloader | Start, upload, removeSrc, Stop |
| ServerSyncer, LocalSyncer | `syncer/*.go` | per object: connection, `to_exit`; sizes and times of both sides' files | Start (loop), downloadable/uploadable, download/upload, updateModTime, Stop; recreated by its goroutine |
| Streamer | `streamer/streamer.go` | two connections, `streamer_to_exit` | stream, removeSrc, init, Stop |
| Service entry point | `cmd/service/ugoku.go` | `master_config` | which pipelines run in which mode, and who ends the process |
| Configuration | `internal/config` | none | ReadConfig: modes, worker numbers, defaults |
| Signal handling | `internal/sigintHandler` and the `setupSigHandler`s | `term_signal`, `new_scanner` | Stop of everything from another goroutine |
| Helpers | `sftplibs/*.go`, `internal/sleepytime` | `tempindex`; back-off | DownloadToTemp, RenameTempfile, CalculateTimeout, GetNextSleep |

### How they interact

A *pipeline* is one scanner, `Worker` managers and two buffered channels of
capacity `2 * Worker`. The scanner sends files to `c`; each worker object
receives one, transfers it, and sends one token to `done` whatever came of it.
The scanner counts files out and tokens back, and starts no new scan before its
count is zero. All four kinds of pipeline have this shape.

One worker object is used by up to three goroutines that share its fields with
no lock:

    manager:   make object; Start: init (connect), spawn the loop,
               watch downloader_to_exit;  Stop: close the connection;  again
    loop:      receive fo; download(fo); if ok removeSrc(fo); done <- 1;
               leave if downloader_to_exit
    transfer:  open, copy to a temporary file, rename (download)
               or make folder, open, create, copy (upload);
               on an error set downloader_to_exit

download waits in a select for the transfer or its timeout. After a timeout the
transfer goes on alone. In service mode the managers replace objects and
scanners for ever; in one-time mode nobody replaces anything and the process
exits when the one scan returns.

Two pipelines differ from this. A streamer has no transfer goroutine: stream
runs in the loop, with no timeout. A syncer has no loop goroutine either: Start
itself is the loop, so an object is never stopped under it, and a finished file
is not removed but given its source's time:

    goroutine: make object; Start: init (connect), then for each fo received:
               if the copy's size or time differ from fo's: download or upload;
               updateModTime(fo); done <- 1; return if to_exit
               Stop: close the connection;  again

### What is hard, and what makes each component correct

- *Scanner and channels.* A count shared with nobody must match what a changing
  population of workers does: a file out is a token back, exactly once, on every
  path. A scan must not see the files of the one before it. The sends and
  receives at a full queue must not wait for each other.
- *Downloader, uploader.* A file leaves the source only after the target has it:
  whatever fails, times out, is replaced or restarted in between, and whatever a
  transfer that was left behind still does. Every file is moved in the end. A
  one-time run ends.
- *Syncers.* The target's size and time decide whether a file is copied again,
  so they may say "same" only when the contents are. The time that a copy gets is
  of a Stat read before the file was queued, the contents are of whatever was
  there when the transfer opened it, and updateModTime runs also after a transfer
  that failed. The copy must never go back to an older version, and must agree
  with the source once that rests.
- *Streamer.* No timeout at all: one stuck call stops a worker for good; an
  object is condemned by its own init when its first connection attempt fails,
  and then loses its connections under a stream in progress.
- *Service.* Which of several pipelines ends the process; what a missing or
  broken configuration starts; that a command line run ends at all.
- *Signal handling.* It walks over pointers that the managers replace; what it
  has stopped must not come back.

`PROJECT.json` lists each hazard at the line where it bites.

## 2. The modules

    FileMove                          what a mover of files promises
       ^ Moves, MovesFairly
    SftpScanner <--- Workers <--- Downloader <--- MCDownloader
       ^                ^ ^------ Streamer <----- MCStreamer
       |                |
    FolderScanner <-----+-------- Uploader <----- MCUploader
       ^ Scan (of files with their times)
    SyncScanners <--------------- Syncer <------- MCSyncer
                                     | StaysMirrored, Settles
    Mirror   <-----------------------+  what a syncer promises

    Service <--- MCService            the process around the pipelines

    WorkersProofs <- HolderProofs, DeadlockProofs
                          ^--------- DownloaderProofs
                          ^--------- UploaderProofs
                          ^--------- StreamerProofs
    SyncerProofs
    ServiceProofs

An arrow points to the module that is extended; the proof modules also extend
the module they are about. Where an arrow has a label, the module at its tip is
instantiated under that name or for that property.

**SftpScanner** has the channels `c` (a sequence of paths) and `done` (its
number of tokens) and the scanner goroutine. `scanner` is its place:
`connect` (init), `ready` (pause), `walk` (the loop's select), `full`
(`<-done` of the default case), `send` (the send after it), `drain` (the final
wait), `stopped` (scan has returned) and `exited` (os.Exit). One action stands
for each statement that can block or that decides: `Dispatch` and `ChannelFull`
are the two cases of the select, `AwaitToken` and `BlockedSend` the default
case's receive and send, `EndWalk` and `Drain` the end. `WalkError` is
`w.Err() != nil`: it abandons the count, and `stale` remembers by how much.
`RecreateScanner` is the manager's next SftpScanner, on the same channels.

**Workers** has what `downloader.go` and `uploader.go` share statement for
statement: the managers and the worker objects' receive loops. A *slot* is the
identity of a worker object. For each slot `sup` is its manager (`connect`,
`watch`, or `none` once it is stopped), `to_exit` its exit flag, and `loop` its
receive loop: `top` (the test of `started`), `receive`, `select` in download or
upload, `remove` and `verify` in removeSrc, `signal` before `done <- 1`, `check`
after it; `fo` is the file in hand and `tries` removeSrc's counter. `transfers`
is the set of transfer goroutines. One with `id = 0` is waited for by its owner's
select; `SelectTimeout` gives it another identity, and it goes on. Its `late`
says that its context is done: `Expire` sets it, and the select may still take
the report. `Leave` is the health check and the manager: the object's connection
is closed (`Closed`), a new object takes an idle slot, and the old object's loop,
if it is still running, lives on beside it. `Stuck` says of a state that the
scanner, every loop and every manager wait for one of the others. removeSrc is
three tries of Remove and Stat. `Restart` is a crash at any point followed by a
start: of all state, only the two folders survive. Where the two programs differ
the actions have a parameter: where a loop starts a round, where a transfer
begins, and whether the source is reached through the connection.

**Downloader** adds the transfers of `download`: open, copy to a temporary file,
rename. Of those left behind by a timeout, one in `open` still opens, and
condemns the object if it cannot, whatever the object is doing by then
(`Condemn`); one that was copying removes its temporary file (`CopyCancelled`);
one past the test of `cancelled` still renames.

**FileMove** is the abstract specification: three variables, `source`, `target`
and `latest`, and three steps, Produce, Copy, and Remove, which is allowed only
when the target holds the version to be removed. `Moves` says that Downloader
implements its safety part with the identity mapping, `MovesFairly` all of it
with its fairness: every file at the source is copied and then removed.

**FolderScanner** changes SftpScanner where `folder-scanner.go` differs: the
folder is listed completely before the first file is sent (`ReadError` instead of
`WalkError`), and each file is looked up again before it is sent (`SkipFile`). It
is the scanner of the uploader, which does not watch for changes.

**Uploader** adds those of `upload`, which make the remote folder, open the
source, create the remote file and copy. `Create` truncates, so `target` may be
`Partial`, and every other transfer to that file loses what it had written
(`Truncated`). `upload` never sets `cancelled`, so a transfer left behind takes
the same steps as any other; if its context is done before the copy's first read
the copy must fail (`abort`), and that condemns its object. `torn` remembers the
paths that such transfers have truncated. `CreateErr` is a panic of the whole
process: the error that is logged there is nil.

**Streamer** is SftpScanner and Workers again, with `stream` as the transfer
that is waited for and never late. It writes in place, as `upload` does, and has
the same nil error (`CreateErr`). `ConnectErr` is an attempt of init that fails:
Stop sets `streamer_to_exit`, which nothing clears, so the object is condemned
when it starts, and its manager may close the connections as soon as its loop
runs. `shared` remembers the paths that two streamers had at once.

**SyncScanners** has the scanners of both kinds of syncer, chosen by `mode`. A
file there is a path with the Stat its scanner has read, and the exchange with the
workers is that of SftpScanner and FolderScanner, instantiated over such files
(`Scan`). The server syncer's scanner is SftpScanner as it stands. The local
syncer's is the watching FolderScanner: `ListFolder` lists names, `StatFile` reads
one Stat and compares it with `LocalFolderMap`, which has the file from then on.

**Syncer** adds the goroutines. `loop` is the place of each: `connect` (init),
`receive`, `look` (downloadable or uploadable), `call` (in download or upload),
`touch` (updateModTime), `signal`, `check`, and `gone` in one-time mode. `target`
is the copy: for each path a version and a time (and, as history, the last whole
version), where a version is its own time
and all have the same size, so that only the time can tell them apart. `Fail` goes
on to `touch` as a success does. `Timeout` leaves a download behind, which may
still rename its file into place; when its object is stopped it becomes
`Nobody`'s. `suspect` remembers the paths of which the time may be wrong, and
`Distrusted` says when a failure makes it so: what is at the target may then be
an older or a partial copy that gets the new file's time.

**Mirror** is the abstract specification of a syncer: edits and deletions at the
source, updates of the copy to any version that the source has had and that is not
older than the last whole one that the copy has had (`last`), a truncation that
begins an update in place, and a loss of trust (`Exclude`). `StaysMirrored` says that Syncer implements its safety part
with `copy` and `last` mapped to what `target` has of them and `excluded` to `suspect` (to
every path while the process is dead by a panic); `Settles` is its liveness.

**Service** is the process. `config` is what ReadConfig makes of the file
(`ModeRead`, worker numbers, a missing or broken file). `next` are the loops over
`master_config` that start pipelines; `scan` is the goroutine that makes, runs
and replaces one pipeline's scanner, with the `new_scanner` pointer it sets to nil
in between; `handler` is its signal handler, which sets `term_signal`, tests the
pointer, reads it again to call Stop, sleeps one second and exits. What ends the
process is an action of its own in each case: a one-time function's exit, nothing
to do, a handler, the default of a signal, a panic, or the runtime's notice that
nobody can run any more (`Deadlocked`), which it may or may not take.

### Abstractions

A file is its path and a version number; contents, sizes and folders within the
tree are left out. The size only sets the timeout, and a timeout may strike
whenever a transfer is waited for. Pauses have no length. A walk is a set read
when it begins, sent in any order, where the program reads folder by folder. A
call fails when its condition says so (the connection is closed, the file is
gone) or by a fault, of which there are boundedly many. The three renames of
RenameTempfile are one outcome. The 1.1 s pause before a failed transfer reports
is not modelled: the manager may Leave before or after the loop has read the
report, which is what the pause is about. Bytes that an upload left behind is
still writing are those of the version it opened, at their own offsets.

## 3. What is checked

All runs are of the MC modules, which only add the symmetry sets and, for
Service, the entries of the configuration file.

| Run | Instance | Checks |
|---|---|---|
| `downloader_service` | service, fair; 1 worker, 2 slots, 2 paths; 1 walk error, 1 fault, 1 timeout | TypeOK, ScanBarrier, OneHolder, StuckOnlyWhenLong, Moves, MovesFairly, ScansForever |
| `downloader_onetime` | one-time, fair; 1 worker, 3 paths of 2 versions; 1 walk error, 1 fault, 1 restart | TokenConservation, NoVanish, StuckOnlyWhenLost, FinishesOrLosesWorker |
| `onetime_hang` | one-time, fair; 1 worker, 2 paths; 1 fault | Finishes: **violated** |
| `name_reuse` | service; 1 worker, 1 path of 2 versions; no fault | RemovedOnlyAfterDownload: **violated** |
| `uploader_service` | service, fair; 1 worker, 2 slots, 2 paths; 1 scanner error, 1 fault, 1 timeout | OneUpload, LostOnlyWhenTorn, UploadsAll |
| `uploader_onetime` | one-time, fair; 1 worker, 3 paths; 1 scanner error, 3 faults, 1 restart | TypeOK, Counted, LostOnlyWhenTorn, FinishesOrLosesWorker |
| `upload_lost` | service; 1 worker, 2 slots, 1 path; 1 timeout, no fault | NothingLost: **violated** |
| `streamer_service` | service, fair; 1 worker, 2 slots, 2 paths; 1 walk error, 1 fault, 1 restart | TypeOK, SharedNeedsWalkError, LostOnlyWhenShared, StreamsAll |
| `syncer_service` | service, fair, both directions; 2 workers, 1 path of 2 versions; 1 walk error, 1 fault or timeout, 1 restart | TypeOK, LabelsTrue, TokenConservation, StaysMirrored, Settles |
| `service_stuck` | service; 1 worker, 2 slots, 4 paths; 1 walk error, 1 fault; symmetry | KeepsScanning: **violated** |
| `service` | fair; 2 configured pipelines out of 10 entries, every command; 1 scan error | TypeOK, StopIsFinal, CommandEnds, ServesAll, SignalEnds |
| `one_of_many` | 2 configured pipelines out of the same entries; no scan error | FinishesWhatWasAsked: **violated** |

Why these bounds. One worker makes channels of two, so three files fill `c` and
take the scanner through `full` and `send`; in `downloader_service` two do, since
two more may be left in `c` by the scan before. Two slots for one worker are enough
for a condemned object's loop beside its successor's, whose connection is closed
under it; so every passing run in service mode has them. One fault is enough for each error path, one timeout for
a transfer left behind, and both for an object condemned by such a transfer
while it is busy; three faults exhaust removeSrc. Two versions let a name be used
again. One walk error makes the counts of two scanners meet on one pair of
channels. In `downloader_service` all of it happens together: an abandoned scan,
the next one with a full queue, a condemned object, and a transfer left behind that
opens or renames late. A crash is in the one-time run, where `NoVanish` is about
it; two workers are left to the theorems. What a larger instance could still add to safety is covered by the
theorems below, which are about every instance. A fault, here and in the
configurations, is a call that fails for no reason that the model knows.

A service can be stuck (`service_stuck`) only when its files, with those that
abandoned scans have left in the channels, are at least `5 * Worker + 2`
(`StuckOnlyWhenLong`): seven with one worker, which four files and three left
over reach. The other runs stay below. So the liveness that `downloader_service`,
`uploader_service` and `streamer_service` show is that of folders below this
bound, and says nothing of larger ones; that nothing smaller gets stuck is proved
and not left to the size of a run.

Of a syncer, what is hard is two goroutines with one file, so one path and two
goroutines are the instance; two versions let the source change under each step.
Faults and timeouts have one budget, to let either kind strike anywhere. With one
path the channels of four never fill: the full queue is the same code as in
SftpScanner and FolderScanner, which the runs of the downloader and the uploader
fill. That syncers are never stuck is therefore not a question for this run; it is
proved for any number of paths (`NeverStuckWithAgents`), as is what is said of
tokens.
One-time syncers and streamers have no run of their own; their actions are those
of the other pipelines, except `gone`, which the theorems cover. Of Service two
pipelines are enough for one to end the other, with each pair of kinds; three
would add an order of starts, not a new meeting, and the theorems of Service are
about any number.

`CHECK_DEADLOCK FALSE` is set where the modelled system may stop: after os.Exit,
after a panic, and in a one-time run that has lost its workers.

What some of them show beside their invariants:

- `streamer_service`: an init that condemns its own object has its connections
  closed under a stream a second later. If that stream is then at its Create, the
  process panics, as the error that is logged there is nil; otherwise the stream
  fails and its file is sent again. No file is lost by either. Two streamers get one file only after a walk error
  (`SharedNeedsWalkError`), and only then can a file be lost.
- `syncer_service`: a wrong time can come only of a transfer that failed over an
  older copy, or of two transfers that met, one of them left behind by a timeout
  or its file sent twice after a walk error (`LabelsTrue`). Outside those paths a
  resting file's copy ends up equal (`Settles`), also after a crash in the middle
  of a write in place, and although LocalFolderMap knows files whose upload has
  not begun.
- `syncer_service`: a copy never gets an older version than one it has had, also
  when it is written in place and what was there is gone before the new version
  is whole (`StaysMirrored`; `last` remembers it).
- `service`: a command line run ends (`CommandEnds`) unless one of its scans never
  does, which is what `onetime_hang` shows of a download, or every enabled sync is
  of a mode that nothing implements: `twoway`, which `config.go:168` keeps and
  `syncer.go:214` does not know (it knows `both`), or anything in a file that did
  not decode. A configuration that does not decode is only logged, and the process
  goes on without its defaults: with no worker a scan never ends. `ServesAll` is
  therefore about files that were read. A signal ends the process in every state,
  in some by the handler's panic on a nil scanner (`SignalEnds`).

### Fairness

`FairSpec` says that each goroutine that can take a step takes one in the end: a
scanner, each manager, each loop and each transfer. This is what the Go scheduler
gives goroutines that are runnable and calls that return; a receive or a send on
a channel is enabled only when the channel allows it. It rests on two facts of
the code: connecting is retried for ever, and a transfer that does not return is
given up on by its timeout. Nothing is assumed of producers, faults, timeouts,
walk errors or restarts: they need not happen.

Streams and the uploads of a local syncer have no timeout, so there it is an
assumption about the network that their calls return; the hazard at
`local-syncer.go:171` is what is left if they do not. A syncer's goroutine is one
process, with the transfer it waits for; nothing is assumed of downloads left
behind. Service assumes nothing of scans, of which the one-time one need not end
(`onetime_hang`), nor of signals, scan errors and the runtime.

A failed Create at the server is the other limit of these properties: the error
that is logged there is nil, and the process ends with every pipeline in it
(`uploader.go:109`, `streamer.go:94`, `local-syncer.go:72`). It is the action
`CreateErr`; `UploadsAll`, `StreamsAll` and `Settles` are about runs without it.

### What the violations show

- `onetime_hang`: in one-time mode a failed open or copy ends the worker, and
  nobody replaces it. The files in `c` have no receiver, the scanner waits for
  their tokens for ever. The readme promises an exit (`readme.md:36`).
  `FinishesOrLosesWorker` shows that this is the only way a run of this size
  hangs. That no other deadlock exists at any size is a theorem
  (`OneTimeStuckOnlyWhenLost`).
- `name_reuse`: removeSrc takes a Stat that succeeds after a successful Remove
  for a failed removal. When a producer has used the name again, the next try
  removes a file that was never downloaded (`readme.md:13`). `NoVanish` still
  holds: an older version is at the target.
- `upload_lost`: the timeout of an upload cancels nothing before the copy. A
  transfer held up in MkdirAll or Create truncates the remote file after the
  retry has completed it, and the retry removes the source. `LostOnlyWhenTorn`
  shows that nothing else loses a file.
- `service_stuck`: the scanner takes a token to make room and then sends, and
  while it sends it takes no token. That is safe if the loop that gave the token
  receives again. A condemned object's loop does not: it gives its token and
  leaves (`downloader.go:215-219`), while the object that replaces it has
  received a file of its own meanwhile. With `c` full again and `done` full, the
  scanner waits for a receiver and every loop waits for a reader of `done`, for
  ever, in service mode (`readme.md:34`). `StuckOnlyWhenLong` says how many files
  this takes: five for each worker and two more, less those that abandoned scans
  have left in the channels. The same code is in the uploader and the streamer.
- `one_of_many`: each one-time function ends the process when its own scan is
  complete. Of two enabled downloads, which run side by side, the first to finish
  cuts the other short; of two uploads, syncs or streams the second is never
  started (`OneRunStartsOne`), where the readme promises the operation finished
  (`readme.md:36`). `FinishesWhatWasAsked` is about runs without a signal.

## 4. What is proved

For every finite set of slots, every set of paths, every number of workers and
every value of the bounds, in both modes:

| Module | Theorem | Says |
|---|---|---|
| `DownloaderProofs` | `TypeCorrect` | `Spec => []TypeOK` |
| | `TokensConserved` | `Spec => []TokenConservation` |
| | `ScansDoNotOverlap` | `Spec => []ScanBarrier` |
| | `FilesHeldOnce` | `Spec => []OneHolder` |
| | `NothingVanishes` | `Spec => []NoVanish` |
| | `ImplementsFileMove` | `Spec => Moves`, when `MaxVersion = 1` |
| | `OneTimeStuckOnlyWhenLost` | `Spec => []StuckOnlyWhenLost` |
| | `ServiceStuckOnlyWhenLong` | `Spec => []StuckOnlyWhenLong`, when there are finitely many paths |
| `UploaderProofs` | `TypeCorrect` | `Spec => []TypeOK` |
| | `FilesCounted` | `Spec => []Counted` |
| | `UploadsSeparate` | `Spec => []OneUpload` |
| | `LossNeedsALateUpload` | `Spec => []LostOnlyWhenTorn`, when `MaxVersion = 1` |
| | `OneTimeStuckOnlyWhenLost`, `ServiceStuckOnlyWhenLong` | as for Downloader |
| `StreamerProofs` | `TypeCorrect` | `Spec => []TypeOK` |
| | `TokensConserved` | `Spec => []TokenConservation` |
| | `StreamsSeparate` | `Spec => []SharedNeedsWalkError` |
| | `LossNeedsTwoStreamers` | `Spec => []LostOnlyWhenShared`, when `MaxVersion = 1` |
| | `OneTimeStuckOnlyWhenLost`, `ServiceStuckOnlyWhenLong` | as for Downloader |
| `SyncerProofs` | `TypeCorrect` | `Spec => []TypeOK` |
| | `TokensConserved` | `Spec => []TokenConservation` |
| | `LabelsAreTrue` | `Spec => []LabelsTrue` |
| | `ImplementsMirror` | `Spec => StaysMirrored` |
| | `NeverStuckWithAgents` | `Spec => []StuckOnlyWhenLost` |
| `ServiceProofs` | `ServiceTypes` | `Spec => []TypeOK` |
| | `OneRunStartsOne` | `Spec => []OneRunOnePipeline` |
| | `StoppedScannerStays` | `Spec => []StopIsFinal` |

Assumptions: `ScannerAssumption` (at least one worker, which `ReadConfig` sees
to) and `WorkersAssumption` (finitely many slots, at least one for each worker,
`NoPath` is not a path, the bounds are numbers); for the syncer
`SyncAssumption` and `AgentAssumption`, which say the same of its constants (as
many goroutines as workers, `Nobody` not one of them); for Service
`ServiceAssumption`, which gives the type of what the configuration file may have.
`FairSpec` implies `Spec`, so
the theorems hold of the fair runs too.

`WorkersProofs`, `HolderProofs` and `DeadlockProofs` prove what the three
pipelines need, one lemma per action of Workers, about arbitrary transfers; the
modules below them add only their own actions. `WorkersProofs` holds the lemmas
on cardinalities.

*Types.* The type invariant is not inductive: that a loop's file is a path when a
transfer's report makes it remove the source, that the count stays a count, and
that a transfer left behind gets an identity within bounds depend on who owns
what. `WorkersInv` adds `CountOK` (the scanner's count at each of its places),
`TransferInLoop` (a transfer with `id = 0` exists only while its owner's loop is
in the select, one for each loop, and has that loop's file), `NewObjectIdle` (an
object that is connecting has no loop) and `TimeoutCounted` (a transfer that is
late has been counted, so that the identity it gets when it is left behind is
not 0).

*Tokens.* `TokenInv` says that the queue, the loops that owe a token and the
tokens add up to the scanner's count plus `stale`. Each step is one of three
kinds: it moves one unit between two of the terms (Receive, Signal), changes a
term and the count together (Send, TakeToken, WalkError), or touches none of
them. The number of loops that owe a token is the cardinality of a set, hence the
lemmas on finite sets. `ScansDoNotOverlap` follows, since a sum of naturals that
is zero has zero terms; so does `FilesCounted`, as a FolderScanner leaves `stale`
at 0.

*Holders.* `HolderInv` says that, while `stale` is 0, the queue has no path
twice, and queue, hands and unsent files are disjoint. It needs `TokenInv`: a new
scan, which lists files anew, begins only with nothing queued or held.
`UploadsSeparate` follows with `TransferInLoop`.

*Moving.* `MoveInv` adds to `NoVanish` that a version opened was produced, and
that removeSrc has begun, or a transfer has reported success, only when the target
has the path. The refinement needs the first two to see that a rename, also one
by a transfer left behind, is an abstract Copy or changes nothing, and the third
to see that a removal is an abstract Remove. With names used again the refinement
is false: that is the finding `name_reuse`.

*Delivery.* `DeliveryInv` is the same argument where the target is written in
place. Outside `torn`, a loop in removeSrc, or a report of success, means that
the target is whole. A `Create` by a transfer that is waited for could break that,
but no other loop has its file (`HolderInv`); one by a transfer left behind puts
the path into `torn`. A transfer whose file was truncated under it (`ver` is
`Partial`) is left behind or its path is torn.

*Streams.* StreamerProofs reuses both lower modules, since a stream is a transfer
with `id = 0` that is never late. While no walk has failed, `HolderInv` keeps two
loops from one file, so `shared` stays empty; outside `shared` the argument of
*Delivery* holds without its late transfers.

*Syncers.* A syncer has no managers, so SyncerProofs stands alone. `TypeInv` is
TypeOK with the scanner's count and the one transfer of each loop. `MirrorInv` is
about versions: the source has the last version or nothing, and copies, their
times and the Stats that are queued or in hand are not newer (`StoreInv`,
`StatInv`); two loops have one file only if it is suspect (`OneHolder`); what a
transfer has opened is not older than the Stat in its loop's hand nor, outside
`suspect`, than any that the copy has had (`TransferInv`); and a loop about to give a
copy the time of its source finds that version there (`TouchInv`). The last makes
`LabelsTrue` inductive: an edit gives the source a time that no copy has, and
updateModTime gives a copy the source's time only in that case. `TransferInv` is
what makes a rename, or the end of an upload, an abstract Update, which never goes
back; a rename by a download left behind excludes its file, as it may go back.

*Waiting.* Whether all wait for each other is a question about a state, `Stuck`,
so its absence is an invariant and needs no fairness and no ENABLED.
DeadlockProofs shows that the scanner's waits for a token are harmless: files are
then out, by `TokenInv`, and somebody has them or is there to receive them. That
leaves the blocked send. `CrewInv` has what is needed: `WatchedRuns` (an object
that is watched and not condemned has a loop), `CrewSize` (a service always has
`Worker` managers, a one-time run never more workers than it began with),
`FullCounted` (the wait for a token begins with a full `c`) and, for one-time
runs, `SendServed`: the scanner has just taken a token, so `done` can be full
again only by a loop that is about to receive, or has left and is lost. In service mode
that loop has a successor, and the argument is a count instead: a stuck service
has `2 * Worker` files in `c`, as many tokens, a file in the hands of each of
`Worker` loops, and the scanner has one file in its send and had taken a token;
with `TokenInv` and `WalkBound` (files sent and files left are files of the
folder) that is `5 * Worker + 2`. The case of equality is reached, so the bound
cannot be raised. For syncers no such bound is needed (`NeverStuckWithAgents`), because
the goroutine that gave the token is the one that receives.

*Process.* `ServiceInv` adds to `TypeOK`: the start loop has passed each pipeline
that runs, so none is started twice (`Passed`); no runner of a command line run
is gone while the process lives (`NoneFinished`), hence the loop that waits until all
are gone starts nothing after its first (`OneRunStartsOne`); a handler past its first
statement has set its package's flag (`FlagSet`); and a stopped scanner's package
has the flag and its runner is on the way to the loop that tests it (`HaltedEnds`).

Model-checked only: liveness (`MovesFairly`, `ScansForever`, `UploadsAll`,
`StreamsAll`, `Settles`, `FinishesOrLosesWorker`, and of Service `CommandEnds`,
`ServesAll` and `SignalEnds`), which rests on fairness and is out of the prover's
reach. `StuckOnlyWhenLong` and `StuckOnlyWhenLost` are the part of it that could
be proved: they exclude the deadlocks, not a starvation. Every invariant and
every refinement of a passing run is a theorem. Proved and in no run are
`NeverStuckWithAgents`, as no small instance gets near it, and
`OneRunStartsOne`. Neither checked nor proved:
`LostOnlyWhenTorn` with `MaxVersion > 1`. It is false there, as a name used again
can be lost in the uploader's removeSrc as it is in the downloader's.

## 5. Not modelled

- What a signal handler's Stop does to workers in the second before the process
  exits. A crash at any point, which is modelled, leaves no less behind.
- `CalculateTimeout`, Sleepytime and the scanner's pauses: a timeout may strike
  and a pause may end at any time, so no property depends on a length. By reading,
  `CalculateTimeout` raises its result to 60 s after it has applied the maximum
  (`sftplibs.go:188`).
- Names of temporary files: the index in them is incremented by all workers with
  no lock (`sftplibs.go:156`), but a name also has its worker's and the
  millisecond, so each download is given its own file here.
- Mode `twoway` of the syncers: it starts nothing.
- Edits within one second of each other, which leave a file's time as it was, and
  files without a size, of which a partial copy may look whole.
- SSH and SFTP themselves and the other vendored code, connection set-up, logging,
  and YAML.

What could be added: the timing helpers as operators against reference
definitions; a run of Syncer with two paths and one goroutine, to have the queue
filled by files with different times.
