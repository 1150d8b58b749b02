# Verification of BinanceMarketDataRecorder

TLA+ models of the recorder in `src/src/binance_market_data_recorder`, the TLC
configurations that check them on small instances, and TLAPS proofs of the most
important results for every instance. `PROJECT.json` lists components, runs,
mutants, the map from definitions to source lines, findings, hazards and
theorems.

    tlc -workers 2 -config Archive.cfg Archive      # one run
    tlapm Archive_proofs.tla                        # one set of proofs

Paths below are relative to `src/src/binance_market_data_recorder`.

## 1. The system

The recorder captures public Binance market data and must never pretend to have
captured what it did not. Bytes are written once, sealed, archived to removable
or remote storage, and deleted from the host only under evidence. What is said
of them afterwards (availability, readiness, audits, acceptance stages, builds)
must be true of them.

| Part | State | Operations | Talks to |
|---|---|---|---|
| WebSocket receiver and writer (`binance/public_websocket.py`, `spool/async_queue.py`) | connection, receipt queue, pending gap, recovery marker, seal intent | receive, wait for space, end a connection, persist a batch, start and complete a gap, seal at a boundary | spool, Catalog events, lifecycle callbacks |
| Raw chunks (`spool/`, `storage/catalog/chunks.py`) | `.partial` file, artifact, manifest, chunk row, seal intent | open, append, sync, rotate, seal, recover, quarantine, reconcile | Catalog, file system |
| Catalog (`storage/catalog/`) | SQLite in WAL mode, `synchronous=NORMAL`, some transactions forced to FULL | idempotent transitions | everything |
| Depth continuity (`supervisor/depth_continuity.py`, `collector/coverage.py`) | sequence buffer, reliable id, cached snapshot, pending request, readiness flags | persist a frame, lifecycle events, poll a snapshot | receiver, REST poller, availability journal |
| Availability journal (`collector/availability.py`, `storage/catalog/availability.py`) | open interval per source, pending transitions, watermark | observe, monitor, flush in batches, restart | capture, Catalog |
| Side data (`collector/usdm_side_data.py`, `collector/coverage.py`) | cursor, gaps, empty windows | request a page, persist, advance | wire, Catalog |
| Wire (`binance/spot/rate_limit.py`, `binance/request_budget.py`) | pace, block, strikes, slot, window of charges | acquire, wait for the slot, look again, send, observe an answer | every REST caller |
| Session collectors and handover (`collector/spot.py`, `usdm.py`, `resync.py`, `supervisor/blue_green.py`) | session, readiness, resync request, deployment row | run, end and begin a session, resync, deploy, roll back | receiver, Catalog |
| Service (`service/runtime.py`, `readiness.py`, `collector/coverage.py`) | lock, tasks, stop events, state file | start, recover, reconcile the directory, heartbeat, gauge the disk, stop | supervisor, capture |
| Verification (`service/verification*.py`) | queue, results, lock | read back sealed chunks, record | Catalog, archive |
| Capacity (`storage/forecast.py`, `capacity.py`, `emergency.py`) | samples, alert state, emergency events | observe, forecast, decide, stop capture | Catalog, capture |
| Archive transaction and drain (`archive/manager.py`, `archive/drain.py`, `storage/catalog/archive_ops.py`) | transaction state, external temporary, artifact, manifest, source, drain lock | reserve, copy, verify, commit outside, delete, resume | volume, registry, metrics |
| Registry and eject (`storage/macos/`, `storage/linux.py`) | control state of a target, eject request | probe, activate, latch, eject | archive transaction |
| Remote archive (`archive/remote_*.py`) | session, medium, receipt, row, verbs on the host | select, receive, authorise, delete, inspect, retry, recover | OpenSSH, Catalog, same-host archive |
| Archive set (`archive/archive_set.py`) | identity and entries on each medium, index | bind, open, commit an entry, scan, rebuild | media |
| Catalog snapshots (`archive/catalog_snapshot.py`) | stages, generations, two retention slots | export, receive, publish, retain, clean up | live Catalog, offline workspace |
| Boundary audit (`audit/reconnect_boundaries.py`) | continuation | freeze, read, classify, compact | Raw, Catalog, archive |
| Acceptance (`service/acceptance.py`, `service/acceptance_v5_*.py`) | chain of documents, cursors, corpus, audit shards | start, sample, resume, finish, verify | Catalog ledgers, Raw, archive |
| Order book (`orderbook/`) | buffer, book, intervals, checkpoints | offer, synchronize, restart, save, restore | depth events |
| Normalisation and replay (`normalize/`, `replay/`) | partitions, builds | build, open, replay | Raw, checkpoints, Catalog |
| Backfill (`backfill/`) | revisions, manifests, gaps | plan, download, verify, normalise | the exchange's archive |
| Deployment, configuration, CLI; products and schemas; tools | text files and tables | | not modelled, see section 8 |

What is hard:

- *Crashes between durable steps.* Sealing, archiving, remote deletion, archive
  sets, snapshots and builds are sequences of fsyncs, renames, unlinks and
  Catalog commits. The Catalog can lose its latest commits at a power loss,
  while files do not.
- *Callbacks in an order nobody wrote down.* Frames are persisted after their
  connection has ended; snapshots arrive after the reason for them is gone; a
  verb goes on running on the host after its caller has given up; a product is
  admitted while the capture is stopping.
- *Two actors on one thing.* The eject latch against a reservation, a probe
  against the latch, a remote session against the same-host archive, a drain
  against a manual retry, two collectors of one market, three observers of one
  disk.
- *Evidence that is made piecewise.* Audits, cursors and acceptance chains are
  extended while what they speak of is sealed, archived, deleted or damaged.
- *Something that must happen.* Startup must end, a gap must be completed, a
  pending deletion carried out, depth must become reliable again.

What makes each part correct is what its properties say; section 4 lists them
by run.

## 2. Modules

| Module | Models | Run |
|---|---|---|
| `RawChunk` | chunk life cycle, chunk rows and reconnect evidence, recovery, kill, power loss | `raw_chunk_*` |
| `MCRawChunk` | symmetry of chunks and gaps for the runs of `RawChunk` | |
| `RawChunk_proofs` | type correctness, sealed rows have bundles; frames are kept, manifests honest, recovery possible, orphans kept | |
| `Reconnect` | receiver, runner and writer of one stream, gap events, intents, restart | `reconnect` |
| `Evidence_proofs` | gap evidence is sound, boundaries are visible (`Reconnect`); cursors are exact, eligible stages are true (`V5Acceptance`) | |
| `Custody` | abstract: who holds a chunk | |
| `Archive` | archive transaction, eject, probe, volume faults; implements `Custody` | `archive_*` |
| `Archive_proofs` | type, latch, no loss, authorised deletion, metrics, refinement (`Archive`); one retry is safe (`Drain`) | |
| `Remote` | sessions, host jobs, receipts, deletion, recovery | `remote_archive` |
| `Remote_proofs` | custody is handed over, reports are true, bindings are for ever | |
| `Availability` | journal, monitor, flush, restart | `capture` |
| `Wire` | limiter, cooldown, budget, slot, callers | `capture` |
| `SideData` | cursors of the five-minute statistics, two owners | `capture` |
| `Depth` | depth continuity of one product and its snapshot requests | `capture` |
| `Collection_proofs` | the cursor is evaluated (`SideData`), requests are allowed (`Wire`), depth is sound (`Depth`) | |
| `Handover` | two session collectors, resync, blue/green deployment | `capture` |
| `Service` | process, capture supervisor, product directory, state file, readiness | `service` |
| `Supervision_proofs` | deployments are safe (`Handover`), the status is true (`Service`), capacity is judged as the samples say (`Capacity`) | |
| `Capacity` | samples, forecast, policy, alerts, emergency coordinator | `service` |
| `Verification` | verification queue and read-back | `service` |
| `Drain` | several archive managers on one target, files as inodes | `operation`, `archive_retry_race` |
| `Normalise` | build, deduplication, publication, replay | `operation` |
| `Reconstructor` | order book, buffer, checkpoints | `operation` |
| `Backfill` | plan, download, verification, revisions | `operation` |
| `History_proofs` | a reliable book is true (`Reconstructor`), an import is exact (`Backfill`), the increments of an audit are one audit (`BoundaryAudit`) | |
| `ArchiveSet` | identity, entries and index of media | `operation` |
| `Acceptance` | stages of generations 3 and 4 | `acceptance` |
| `BoundaryAudit` | full and incremental audit | `evidence` |
| `V5Acceptance` | ledgers, cursors, corpus, audit of generation 5 | `evidence` |
| `CatalogSnapshot` | exporters, store, retention, clean-up | `evidence` |
| `ArchiveStores_proofs` | recorded proofs are true (`Verification`), what a call has returned stays (`ArchiveSet`), snapshots are kept (`CatalogSnapshot`) | |
| `MCCapture`, `MCService`, `MCOperation`, `MCEvidence` | put components into one state space: `focus`, chosen at the start, is the one that moves | |

The components of an MC module share no variable, and in the code no state that
their properties speak of, so a product of their steps would show nothing that
the steps of one do not; `focus` makes the state space their sum. Initial
states of the components that stand still are pinned to one.

## 3. How the modules correspond to the code

### RawChunk

`part`, `art` and `man` are the three files of a chunk, `cat` the Catalog as the
process sees it and `stable` the set of Catalog contents that a power loss may
leave (every commit since the last forced synchronisation). `job` is the step a
seal has reached, `rec` the phase of `recover_storage` with the chunks left to
visit. `Kill` keeps what was written, with any torn tail; `PowerLoss` keeps what
was synchronised and any longer prefix, and one member of `stable`. `hist` holds
what a property needs and the code does not (frames appended, frames
acknowledged as synchronised).

Abstracted: `.partial` names of temporary files written by `_atomic_json`, the
`quarantined_artifacts` table, the process-boundary flag, the multi-connection
defence in `_manifest` (Reconnect never lets two connections into a chunk
without a flag), early returns on a stop request (a `Kill` between steps),
archive and remote states met by reconciliation, and fatal I/O errors (the
process exits, `Exit` or `Kill`). `Current(g)` lets the writer name one gap at a
time; Reconnect's `GapEvidenceIsSound` justifies it.

### Reconnect

`recv` is the receiver (connection, queue-bound frame in hand), `gapvars` the
fields `_generation`, `_pending_gap`, `_recovery_flag_pending` and
`_recovery_marker_enqueued`, `boundary` the seal intent and forced flags that the
runner takes from the end of a connection, `writer` the queue and the batch.
`raw` is what has been persisted, `started`, `completed` and `intents` what the
Catalog knows. The awaited calls of `_record_gap_started` and
`_record_gap_completed` are split where the code awaits (`Commit...`,
`Return...`). `Kill` clears the process; `Start` decides from the evidence as
startup does.

Abstracted: the reason of a gap; native depth sequence marks; version 1 intents
and operator classification; a session restart is an `EndConnection`; a receipt
that waits for space is received when there is space; power loss is RawChunk's.

Kline frames that are still forming are filtered after they took a place in the
queue (`kind = "filtered"`). The run `reconnect` is about the streams whose
frames are all kept (`Kinds = {"kept"}`); section 7 says what filtered frames do.

### Archive and Custody

`dev` is the external temporary, artifact and manifest of a chunk, each with its
durability (`cached`, `renamed`, `synced`, `good`, `bad`); `src` is the source.
`mgr` is the step of the manager's attempt, `ej` an eject in its steps, `reg` a
probe that has read the control state and not yet acted. A commit is NORMAL or
FULL as in the code; `stable` is as in RawChunk. `Abort` is an exception or a
kill at any step; `Remove`, `Mount`, `Damage` and `PowerLoss` are the volume and
the power. `Custody` has one function from chunks to their holder and lets it
move only from the host to a safe external copy; `Archive` implements it under
`holder <- Holder(c)`.

Abstracted: one storage target and one ejector; attempt counters, `last_error`
and event rows; the oldest chunk first is any incomplete chunk; the source does
not change after the seal. Damage does not strike between a read-back and the
step that relies on it, nor after the source is gone (archive is not backup, as
the docs say). `CHECK_DEADLOCK FALSE`: when all is archived the archiver stops.

### Drain

Archive has one manager and power losses; Drain has many managers and the files
as inodes: `disk` names the inode of temporary and artifact, `inode` says how
many blocks each has, so that one manager can go on writing a file that another
has unlinked, renamed or created again. `actor` is a process of `archive drain`
(under `drainLock`, with `MaxFiles`, signals, target states) or of `archive
retry` (`cli.py:1902`, no lock). A chunk is sealed at most once; `row` is the
transaction. Abstracted: content is the number of whole blocks; digests compare
it; the timers only start drains.

### Remote

`med` is what the medium holds of a chunk (raw, manifest, entry, and the session
it is bound to), `rec` the receipts, `remote` and `local` the rows of the host's
Catalog, `ses` the sessions, `jobs` the processes that run verbs on the host. A
timed-out call leaves its job running. Everything before a directory fsync may
vanish at a power loss of its machine.

Abstracted: content is verified by size and digest, so a transfer is exact or
fails; a source is never replaced; temporary names; the Catalog snapshot a
session takes at its end (CatalogSnapshot); damage of the medium. Startup
classification reads row and file in one step.

### ArchiveSet

`med` is a medium twice, as a process sees it and as a torn-off one keeps it:
identity, entries, directories, junk (a `.partial` of a killed process). `bnd`
is a process in `bind`, `open` or `commit_entry`, between its publication and
its fsync of the directory; `reb` and `setIndex` the rebuild and the index.
`vowed` is what a call has returned. A name is published without replacing; who
finds it there compares, and synchronises the directory before it returns.

### CatalogSnapshot

`exporter` is a process with its private stage, marker and flock; `keeper` the
writer of the store; `gens` and `slots` generations and retention documents, as
seen and as durable; `acked` the last result returned. Clean-up of stages and of
generations is in steps of its own, and a power loss keeps or loses each
unsynchronised directory change. The first creation of a store is left out.

### Depth

The exchange's frame `n` carries the changes `Width*(n-1)+1 .. Width*n`; a
snapshot is the book after any change, also one that no frame has carried yet.
`cont` is `DepthContinuity` with one addition: `book`, the set of changes behind
the reliable id, which is what `LocalBookReconstructor` has applied after the
same calls. `poll` is the `depth_snapshot` source between its awaits; a request
is dropped while one is pending (`coverage.py:624`). `streak` counts frames
persisted in order, on an open connection, with no request pending and nothing
else waiting. Both markets are initial states of one run.

Abstracted: the other core streams; the RPI book, which uses the same class with
the same handling; `OrderBookDataError`, which is handled as a malformed frame;
delays and backoff (a request that is due goes out some time later); batches
(a batch is its frames one after the other, as no await separates them).

### Availability

`j` is `AvailabilityJournal` (open state, pending transitions, ids, overflow),
`mon` the monitor that looks at every source once a second, `fl` the flush
between its awaits (transitions first, then the watermark), `cat` what the
Catalog holds. Instant `t` stands for the time from `t` to `t + 1`. Callbacks,
monitor ticks, a clock that steps back, a stop, a kill and a restart happen
between any two of these. Intervals of a source are what
`source_availability_intervals` returns.

### Wire

A request passes weight or cooldown, the one slot of its market, and a last look
at block and budget; a cancelled caller's request on the wire still answers.
`told` is the latest end of a block the exchange has named; `early` and `sends`
are history. Time is in ticks, weights are scaled. Both markets are initial
states.

### SideData

A period is a number; `closed` is the last closed one; the exchange keeps
`Retention` of them. `owner` is the poller of `usdm_side_data.py` or the source
of `coverage.py`, which use the cursor table differently. A page is answered
dense, short, empty or saturated; Raw is durable before the cursor moves; a task
may fail and start again, a process may die. `held` is what durable answers
evaluated.

### Handover

`col` holds the collectors "old" and "new", each with its streams, snapshot
task, readiness and resync request; `sup` the coroutine `deploy` and its
deployment row. `dark` notes an instant in which neither captured and no
reconnect evidence was open. Whether a snapshot bridges is open (Depth); a
collector may lose a stream, fail or collapse at any step. `CHECK_DEADLOCK
FALSE`: a deployment ends.

### Service

`sv` is `ServiceRuntime.run` with its heartbeat and gauge tasks, `cap`
`SelectedAssetCapture.run`, `rc` the directory poll and `reconcile`, which runs
without awaiting between `ReconcileBegins` and `ReconcileAwaits`; `pt` are the
product tasks with their stop events and membership of the two tables; `file` is
`service_state.json`, `events` the operational events of this process. Anything
that the code guards may fail once; signals, the disk and the directory move at
any time. A product's status BREAK behaves as one that is missing and is left
out of `ListedStatuses`. Abstracted: what a product's streams do, shared stream
groups, sleep gaps, power assertions. `CHECK_DEADLOCK FALSE`: the service stops.

### Capacity

Three observers (the service's monitor, the metrics recorder of the writer, the
command `storage forecast`) read clock and disk in separate steps and record
later; two of them round the time to a bucket. `ReadSet` is the bounded read of
`space_forecast_read_set`, `coord` the emergency coordinator in its steps,
`reached` whether the disk really was at the reserve. Bytes are in GiB; named
profile and plain rotation are initial states. The coordinator is the exported
one; the running service stops capture by its own monitor (modelled in Service).
It is killed only while it is not idle, and steps of observers that touch nothing
it reads are not interleaved with its own (`Quiet`): both leave out no state of
samples or alerts.

### Verification

`vproc` is a process with its batch (the set of rows still to do, oldest first)
and what it has seen of manifest and artifact, `queue`, `results` and `failEvents` the Catalog, `vlock` the lock file.
Commands enrol without the lock, the archive moves a bundle, damage strikes.
`vhist` is whether the bytes were whole when the proof was closed.

### Normalise

`norm` is the running build: chunks chosen once, checkpoints read later, records
parsed to candidates, an external merge sort with `RowsPerRun` and `FanIn`,
partitions committed one by one under content-addressed names, then the build
manifest. Hashes are the values themselves, ordered by number sequences. `Replay`
opens one build and merges its rows under the query's clock and gap policy. A
chunk holds trades or depth, pages of five-minute statistics, funding answers or
public observations. Under the exchange's clock a row of a stream without one
(statistics and observations, `ClockedFamilies`) makes the replay fail whatever the
policy for missing times; that policy decides on malformed events and empty funding
answers. A record of the build's range in an unsupported representation fails the
build. Not modelled: restricted selections of a consumer, seek by checkpoint, polls of two
collectors that share a deployment identity.

### Reconstructor

The exchange numbers its changes and sends them in events of one or two; `lbr`
is `LocalBookReconstructor` with its `OrderBook`, levels and cached best price
(bids only), `kept` are checkpoints. Both sequence rules are initial states.

### Backfill

`server` has versions of a file and of its checksum, replaced independently;
`revs` is what each revision directory holds, `imp` the importer between its file
operations; `request` chooses a plan across month boundaries, klines or daily
trades.

### Acceptance, BoundaryAudit, V5Acceptance

Documents are records at their place in the chain and digests are the values.
`Acceptance`: `w` is the recorder and its host, `ob` the observer's memory (or
none after a kill), `chain` what was published, `ladder` what verification
allowed; the samples keep the cadence of `_run_acceptance_stage` (`Due`, `Unfinished`:
one at once, then one an interval, until one covers the duration; then the final with
one more); a terminal event carries its instant and counts from T0 on, and the world
is followed up to the final of a stage. `BoundaryAudit`: a frame is its connection and two marks; `view` is an
observation over frozen rows while `life` of each chunk goes on, `cont` the
continuation; a full audit of a world at rest is the reference. Whether the external
copy of a missing chunk can be verified (target known and mounted, manifest
readable and equal, commit valid) is a choice of each observation: if not, the class
is UNKNOWN whatever the Catalog says. A Raw file that goes between the inventory and
its re-check only gets an issue; the loss is reported by a later observation that
finds it missing before its inventory. `V5Acceptance`:
`vw` are three append-only ledgers, files and services, `vo` the observer, `vt`
the corpus, the audit and the final; the recorder, the archive worker and the
disk move between any two steps. `V5Begins` reads the clock and the process (T0, at
the start of the stage); an operational event carries whether it was recorded before
T0 or since, and a stop is a finding only since then. The wall clock does not go back
in this model (it does in `Acceptance`).

## 4. Runs

| Run | Bounds | Result |
|---|---|---|
| `raw_chunk_deep` | 1 chunk, 2 gaps, 2 frames, 2 kills, 2 power losses | `SyncedFramesSurvive`, `CompleteIsHonest`, `SealedRowHasBundle`, `RecoveryIsPossible`, `RecoveryNeverSealsOrphan`; 780 k states |
| `raw_chunk_startup` | 2 chunks, 1 gap, 1 frame, 1 power loss, fair | `StartupEnds`; 367 k states |
| `reconnect` | queue 2, 4 connections, 3 process lives, fair | `GapEvidenceIsSound`, `BoundaryIsVisible`, `GapCompletes`; 245 k states |
| `archive_custody` | 2 chunks, 3 faults, 1 eject, 1 probe, damage to artifact and manifest | safety, refinement of `Custody`; 231 k states |
| `archive_progress` | 1 chunk, damage to the temporary, 2 faults, fair | `Archived`: every chunk is archived |
| `remote_archive` | 1 chunk, 2 sessions (one deletes), 2 jobs, 2 faults, fair | `HandoverIsSafe`, `ReportIsTrue`, `DeletionRunsItsCourse`; 204 k states |
| `capture` | availability: 1 source, 3 instants, 2 events, 1 kill, batches of 1; wire: 1 snapshot caller, 1 poller, window of 3 per 2 ticks; side data: retention 4, pages of 3, 2 faults; depth: 6 updates of 2 changes, buffer 3, queue 2, 2 connections, 2 faults; handover: 1 mishap, 1 collapse | `JournalIsTrue`, `RequestsAreAllowed`, `CursorIsEvaluated`, `DepthIsSound`, `DeploymentIsSafe`; 2.5 M states |
| `service` | service: 2 products, budget 1, 2 directory documents, 1 failure, 2 processes; capacity: 3 disks, 3 samples, windows of 2 and 4 ticks, 1 kill; verification: 2 chunks, 2 processes, 1 damage, 3 attempts, 1 kill | `StatusIsTrue`, `CapacityIsSound`, `ProofIsTrue`; 3.7 M states |
| `operation` | drain: 2 drains, 1 retry, 2 chunks, 1 fault; normalise: 2 chunks, runs of 1 row, merge of 2; book: 2 prices, buffer 2, 3 changes, 1 restart; backfill: 2 months, 2 versions, 2 troubles; archive set: 2 media, 2 sets, 2 processes, 1 fault | `SourceGoesOnlyForWhole`, `BuildIsExact`, `ReplayIsOrdered`, `BookIsTrue`, `ImportIsExact`, `ArchiveSetIsKept`; 2.0 M states |
| `acceptance` | 1 manifest, 1 gap, stage of 2 intervals, deadline of 1, 2 world events, 1 kill | `EligibleIsHonest`, `ResumeIsExact`; 313 k states |
| `evidence` | audit: 3 chunks, 3 frames, 1 mark; generation 5: 2 chunks, pages of 2, references 3, 2 moves, 1 kill; snapshots: 2 exporters, 3 generations, 2 power losses, 1 kill | `AuditIsRight`, `CursorIsExact`, `V5EligibleIsTrue`, `SnapshotsAreKept`; 930 k states |
| `archive_retry_race` | 1 chunk, 2 drains, 2 retries, no fault | **violated**: section 6 |

Every `TypeOK` that is not named is a conjunct of, or is implied by, the
properties above. `CHECK_DEADLOCK FALSE` stands where a model comes to its end:
the bounds are used up, a service has stopped, a deployment is over.

Why the bounds are enough. A chunk's protocol involves one chunk and the gap
before it; a second chunk adds the order in which recovery visits them
(`raw_chunk_startup`), a second gap the case that a crash leaves one unfinished
while the next begins. Two crashes let the second strike in the recovery from
the first. Four connections and three lives let a gap be extended over a
connection that delivered nothing and over a restart. Two chunks in `Archive`
let one resume while the other is reserved. Two sessions and two jobs let a
timed-out verb run against its own retry; a second chunk there would only repeat
the first. In `capture`: six updates of two changes and a buffer of three let an
overflow be followed by a recovery; two pages of three periods with a retention
of four let a catch-up race the retention; the snapshot callers of a market share one
request at a time, so one of them and a poller contend for the slot; two collectors are all there are. In `service`: two products, a budget of
one and a directory that reads twice let one be refused, delisted and admitted
again in a stop; three samples by three observers make every order of two
windows' predecessors. In `operation`: two drains and one retry make every pair
of managers (three are in `archive_retry_race`); two chunks of one record with
runs of one row make every merge of the sort; three changes with a buffer of two
make an overflow and a bridge. In `acceptance`: a stage of two
intervals has up to four samples, so an episode is seen unready in two of them and
ends within the deadline or after it. In `evidence`: three chunks and three frames give
a boundary on each side of a continuation; two chunks with pages of two rows and
three references let a page cut a life cycle; three generations exceed the two
slots by the one that is cleaned up.

Every property has a mutant: a definition changed as a plausible bug would
change it (a dropped fsync, an early commit, an off-by-one, a forgotten reset),
under which the same configuration finds the property violated.

### Fairness

- `RawChunk!FairSpec`: weak fairness of recovery and sealing; startup is one
  thread that runs until it is done. Kills and power losses are not fair and are
  bounded.
- `Reconnect!FairSpec`: weak fairness of receiver, runner, writer and start;
  asyncio tasks that are ready run, and systemd restarts the service. Frames
  keep arriving on an open connection.
- `Archive!FairSpec`: weak fairness of the manager (its timer runs the drain
  again) and of mounting (the operator returns the volume).
- `Remote!FairSpec`: weak fairness of the jobs on the host, strong fairness of
  the operator's retry of a pending receipt, which
  `docs/archive_transfer_contract.md:298` asks for.

The other modules state what must happen as safety: `Depth` bounds the number of
good frames after which the book is reliable again, `Handover` says that a
repair is always owed by somebody, `ResumeIsExact` and `RetrySucceeds` (part of
`ImportIsExact`) compare states.

## 5. Proofs

All theorems hold for every value of the constants allowed by the named
assumptions (bounds are natural numbers, queues and batches have room for one,
sets that must be chosen from are not empty, marker values are no members of the
sets they stand beside). Every inductive invariant below was an invariant of a
TLC run, on the instance of the run or a larger one, before it was proved.

`RawChunk_proofs`: `TypeCorrect`, and `SealedRowsHaveBundles`: in the Catalog and
in every member of `stable`, a SEALED row has an artifact and a manifest that
agree. `SealedRowHasBundle` alone is not inductive: the commit of the row is
justified by the step the seal has reached. `BundleInv` adds that a manifest
lies over an artifact (`ManifestOverArtifact`), that a row SEALED in any possible
Catalog has a manifest (`SealedHasManifest`), that each step of a seal finds the
files of the steps before it (`SealInOrder`), and that recovery and capture never
run together (`RecoveryAlone`).

In the same module `SyncedFramesAreKept`, `CompleteManifestsAreHonest`,
`RecoveryIsAlwaysPossible` and the action property `OrphansAreKept`, all by
`FrameInv` over `BundleInv`. A frame is where a file, a manifest and a Catalog
together say it is, and a power loss moves only the last of the three. So
`FrameInv` relates each file to what was appended and synchronised (`AllFiles`)
and each member of `stable` to the files (`AllCats`: which flags, intents and gap
events it may hold of a chunk at each of its stages); it says what the writer and
a seal have yet to do (`WriterOK`, `JobOK`, `JobSteps`), what each phase of
recovery has settled (`RowsSettle`), that recovery's seal job belongs to its
reseal phase and finds its row SEALING (`ResealOK`), and which gaps can be open at
all: none after Phase A, at most its own in a running process (`GapsOK`). That at most one gap
is unfinished in *every* Catalog a power loss may leave is what makes recovery
possible.

`Evidence_proofs`: `GapEvidenceStaysSound` and `BoundariesAreVisible`, by
`ReconnectInv`, for streams whose frames are all kept (`AllKept`). The hypothesis
is needed: section 7 shows the trace for forming klines. The invariant follows a
gap through memory, pipe and Catalog: the pipe holds frames of the current
connection and is empty between connections (`PipeOK`); the pending gap in memory
is the unfinished one in the Catalog except between the commit of COMPLETED and
its return (`PendingOK`); an intent extends that gap or opens one of its own, and
waits for the drain when another is pending (`IntentOK`); a marker that was
enqueued is on its way or has closed its gap (`MarkOK`), so that the drain before
`CloseAndSeal` always completes the parent; a frame of an earlier connection at
the end of Raw has its gap pending (`RawOK`); an unforced boundary has its marked
frame at the end of the pipe (`TailOK`). `Decisions` is a recursive function over
the intents; `DecisionsAreUnfinished` proves by the least counterexample that it
is the set of unfinished gaps, so `AlwaysStartable` follows from one gap at most.

`CursorsAreExact` and `EligibleStagesAreTrue` of `V5Acceptance`, in the same
module, by `V5Inv`. `WorldOK` says what the ledgers owe the chunks: the archive
ledger goes on where it stopped (`ArchChained`) and agrees with the chunk ledger
(`ArchAgrees`), a gap that started is ended before the next starts
(`GapChain`), a chunk with a manifest has been sealed (`ManSealed`). A continuation is
`Good` for the entries it has acknowledged: each row from the baseline to the
cursor is one of them, what it still refers to is what they name beyond the
cursors, its backlog, gap and findings are those of the rows behind it. One
acknowledged row more keeps it so (`AckIsGood`), hence a page, whose rows follow
the cursor without a hole (`PageFits`), hence a document, however the causal walk
has cut the pages (`CausalPrefixesFit`). Every published document is the replay
of its pages over the one before it (`DocOK`), and what a snapshot froze is not
changed by the ledgers that grow (`LogGrows`, `HighWithin`): that is why an
observer that resumes has in hand what was published (`OnlineIsStanding`). The
audit reads places one by one while the disk is damaged, so `AuditOK` speaks of
the damage when the final reading began (`hurt`): what is verified was read after
it and is whole, or is not where the frozen rows place it (`Sound`), whatever the
proofs of an interrupted audit say, and a root that passes has all of it
(`RootOK`). `Moves` states once what no step of the recorder, the archive worker
or the disk takes back; observer, documents and audit are shown to survive just
that (`ObserverStays`, `DocsStay`, `AuditStays`). Of the service the theorem says what
the code checks: no acknowledged row is of a stop since T0, and each document of the
stage saw the process that the start saw; a service that stopped and started again
between the baseline and T0 does not spoil the stage. Replays and walks are recursive
functions, unfolded along the numbers of a page or of the documents
(`CountingUp`).

`Archive_proofs`: `ArchiveTypeCorrect`; `LatchExcludesWork` by `LatchInv`;
`NoChunkIsLost`, `DeletionsAreAuthorised` and `ArchiveImplementsCustody` by
`ArchiveInv`, which says where the attempt stands relative to the Catalog
(`AttemptAgrees`), which files are durable at each step (`AttemptDurable`), that
files appear in order (`FilesInOrder`) and before the Catalog states that rely on
them (`FilesBeforeCatalog`), for every member of `stable`. The three rest on one
hypothesis, stated in the theorems: the temporary copy is not damaged between
its fsync and its read-back (`"tmp" \notin Damageable`). `archive_custody` keeps
to it; `archive_progress` damages the temporary to show that a failed check does
not block later attempts. The refinement maps every step to a step or a stutter
of `Custody`. `BytesAreCountedOnce` needs no hypothesis on damage: `CountInv` ties
the metrics batches in each member of `stable` to the state of the transaction
there, and the step of the attempt to both.

`OneRetryIsSafe` of `Drain`, in the same module: with any number of drains and one
retry, `SourceGoesOnlyForWhole`, by `DrainInv`. The hypothesis of one retry is
stated in the theorem and needed (section 6: two break it). The retry takes no
lock and unlinks, creates and renames the temporary file of a drain, so an
artifact may be published while it is still being written; what saves the source
is that two actors at most are at work. Once somebody counts on the artifact
(`Late`: the row is VERIFIED, or an actor is past the rename), one actor at most
is still copying (`OneEarly`), and one about to rename finds a whole file or none
(`RenameOK`): so an artifact that was validated is replaced only by a whole one.
A descriptor belongs to one actor (`FdsOK`), and whoever makes a file finds a free
inode (`InodeIsFree`, by counting: the names and descriptors in use are fewer than
the inodes). What a step of one actor owes the others is stated once
(`WorldGrows`, `OthersStay`, `EntersWell`) and shown to be enough (`StepKeeps`).

`Remote_proofs`: `CustodyIsHandedOver`, `ReportsAreTrue` and the action property
`BindingsAreForever` (the safety half of `DeletionRunsItsCourse`), by `RemoteInv`.
A receipt is believed by a machine that cannot see the medium, so the invariant
has one part per side: `MediumInv` (entry after manifest after raw, each durable
before the next, and the receipt after all of them), `RowInv` (a bound row has a
durable receipt; a deleted one a durable unlink), `JobsOK` (a verb works for a
durable receipt and a row that is seen stays, so that what it loaded is still true
when it unlinks, however late; the unlink is durable before the terminal row) and
`ReportIsTrue`.

`ArchiveStores_proofs` is about three stores. `ProofsAreTrue` of `Verification`, by
`VerInv`: under the batch lock only one
process has an attempt in hand, the attempt has no result and no event yet, and
what it is about to record was closed on whole bytes (`AttemptOK`), while
enrolment, the archive and damage go on without the lock.

`PromisesOfSets` of `ArchiveSet`, by `SetInv`: what is durable of a medium is
a part of what is seen, an entry lies under an identity (`MediumOK`); a process
between its publication and its fsync, or one that found the name there, has yet
to return (`BinderOK`); what was returned is durable (`VowOK`); a rebuild holds
the rows of the media it has scanned and owes what was vowed before it began
(`RebuildOK`).

`SnapshotsStay` of `CatalogSnapshot`, by `SnapshotInv`: every retention document
that a slot shows, or may show after a power loss, names only generations that
are whole and durable (`DocumentsOK`); a number stands for one document
(`NumbersOK`); the document that the keeper writes is the newest, names only what
is durable already, and is on disk in both slots before a generation is removed
(`KeeperOK`); whoever copies or streams holds the lock of its stage (`StagesOK`).

`Collection_proofs`: `CursorsAreEvaluated` of `SideData`, by `SideInv`. A task
remembers where to go on while the cursor stays behind, so the invariant speaks of
what lies between them: every period after the cursor and before the place where
the task goes on is held, on record as a gap or was out of retention
(`NothingBetween`), and what is durable of an answer is held (`RequestOK`).

`RequestsStayAllowed` of `Wire`, in the same module, has two invariants. `WireInv`:
the latest end that the exchange has named to anybody is covered by the gate or by
the window, neither of which ever moves back. `BudgetInv`: the budget remembers
the last requests that were sent, and those it has forgotten have left the window
(`Remembered`). So when a request is let through, all that it shares a window with
is counted, and the sum over the requests sent is bounded for every stretch
(`LaterCostsLess`).

`DepthStaysSound` of `Depth`, also there, by `DepthInv`. A continuity that is not
blank stands for an interval of changes that ends with the frame persisted last
(`ContOK`, `Stands`); frames are persisted in the order in which they were sent
(`QueueOK`); an answer is not older than its request (`PollOK`). That the book is
reliable again after `Patience` good frames is the hard part: `RunOK` says how far
recovery is after one and after two of them. Either a request is out whose answer
all the buffered frames reach (`Awaiting`), or the snapshot is ahead of the stream
(`Ahead`) and the next frame reaches it (`NextReaches`). The third frame bridges,
which is why `Patience >= 3` is assumed: with two the property is false, and TLC
shows it. What `synchronize` keeps of a buffer and what its loop makes of it are
recursive functions; `CandidatesChosen` and `BridgedStands` say what they compute,
by an induction up to a number that is stated over a set (`CountingUp`).

`Supervision_proofs`: `DeploymentsAreSafe` of `Handover`, `StatusStaysTrue` of
`Service` and `CapacityStaysSound` of `Capacity`, three components in one module.
`HandoverInv`: the active collector captures as long as it lives and ends by an error unless it was asked to stop
(`OldOK`); from the overlap on the candidate does the same (`NewOK`); darkness
needs the end of the active collector, and darkness that began before the overlap
keeps its streams from growing, so that the overlap is never confirmed over it
(`DarkOK`). What one step of a collector does is stated once (`Moves`) for both.
`ServiceInv`: a status RUNNING, in memory or in the file, has its start recorded
(`StartOK`); before capture starts there is nothing to clean (`BeforeOK`); a task
that works or has failed is in the tables, and one that is not listed any more is
awaited by the poll or is the poll's error (`TablesOK`); a capture that is not
failing ends because of a stop, awaits what works and seals when nothing works
(`CaptureOK`); a runtime that cleans up without an error has no capture or one
that ended well (`EndOK`). `CapacityStaysSound` rests on `StopInv` and
`AlertInv`: a reading or a sample as low as the reserve was really on the disk (`LowIsReached`), however late it is recorded; what
a round of the coordinator has sealed, stopped and recorded when it comes to a
step (`RoundOK`); a disk as low as the reserve and the emergency level is judged an
emergency by either policy, whatever the forecast says (`DueIsEmergency`). The
bounded read holds the inside and the anchor of every window of the policy
(`ReadSetIsEnough`), so the forecast from it is that of the whole history; what the
median of the slopes is does not matter to it.

`History_proofs`: `BooksAreTrue` of `Reconstructor`, by `RcInv`: a
synchronised reconstructor has the levels of the exchange at the change that its
book is numbered with, with the best prices taken from them, and nothing buffered
(`Sound`); a checkpoint holds the levels of its own change, which those to come do
not alter (`HistoryStays`), so that restoring one is bridged like a snapshot.
`ImportsAreExact` of `Backfill`, by `BfInv`: a file kept under a checksum is the
file of that checksum (`RevsOK`); the importer has accounted for every entry of
the plan before the one in hand (`StepOK`); after a refusal the partial file is
whole or gone, so the next attempt can only succeed (`RefusalsOK`). That the plan
covers each day of the request once (`PlanIsExact`) is about `FilesFrom`, a
recursion over the calendar (`FilesFromTiles`).
`AuditsAreRight` of `BoundaryAudit`, by `BaInv`: the chunks met are the first ones
(`MetOK`), the rows an observation has frozen stay true of the chunks (`ViewOK`),
connections only rise (`ConnsOK`), and what was reported and what the continuation
holds are those of one scan of what was met (`ScansAgree`). Of absences the theorem
says that a reported file is judged by its life and by what could be verified of its
copy: AUTHORIZED_LOCAL_DELETE only where the life entitles to it, UNKNOWN for an
entitled one only where its copy could not be verified (`AbsenceJudged`). The continuation keeps
of the chunk before a boundary its last two frames: the boundary is classified from
them as from the chunk (`CompactCrosses`), a scan that starts from it goes on like
the scan it stands for (`IncrementIsExact`), and a Catalog interval recorded later
matches no boundary already reported (`LaterGap`).

Only model-checked:

- Liveness (`StartupEnds`, `GapCompletes`, `Archived`, the progress half of
  `DeletionRunsItsCourse`): outside the prover's reach.
- The properties of the modules without proofs: `JournalIsTrue` of `Availability`,
  `BuildIsExact` and `ReplayIsOrdered` of `Normalise`, `ResumeIsExact` and
  `EligibleIsHonest` of `Acceptance`. `Normalise` declares a recursive operator,
  and its sorts and merges, like the verification of an acceptance chain, are
  folds and selections; what they compute for every sequence stays with TLC.
  `JournalIsTrue` and the two properties of `Acceptance` are not proved yet
  (section 9).

## 6. Finding

`archive_retry_race` (`archive/manager.py:431`): `archive retry` runs without the
drain's lock and every manager of a transaction uses the same temporary name.
With three managers, one that has read back the temporary may rename the empty
file that another has just created over the artifact that the third verified
and for which it deleted the source. `src/docs/adr/0015-crash-reconcilable-archive-transaction.md:36`
says that a conflicting file is never overwritten. With one drain and one retry
the source is never lost (`operation`, `SourceGoesOnlyForWhole`).

## 7. Statements of the repository that the code does not keep

Each has an invariant and a configuration under which TLC shows a trace; they
are not in `PROJECT.json`'s runs.

| Configuration (module, invariant) | What the repository says | What the code does |
|---|---|---|
| `RawChunkReseal` (`MCRawChunk`, `ResealAgreesWithManifest`) | `spool/recovery.py:39`: recovery can be repeated safely | `recovery.py:852` adds `reconnect_gap` to every reseal while a gap of the stream is open; a chunk that rotation sealed without flags before a kill then contradicts its manifest, and startup raises every time |
| `ReconnectBoundaryFiltered` (`Reconnect`, `BoundaryIsVisible`) | `docs/data_contract.md:641`: old and new manifests of a boundary stay incomplete | `public_websocket.py:1017` forces no flag when the hand-off of the boundary frame succeeded; a forming kline frame is then filtered and the old chunk is sealed complete. `OneUnfinishedGap` fails there too, when the marked frame of a pending gap is the one that is filtered |
| `ArchiveCachedCopy` (`Archive`, `VerifiedIsDurable`) | `docs/adr/0015-crash-reconcilable-archive-transaction.md:29`: VERIFIED only after artifact and manifest are durable | `archive/manager.py:422`: a copy interrupted before its fsync is verified from the page cache by the next attempt |
| `ArchiveLatchRace` (`Archive`, `EjectExcludesAllocation`) | `docs/adr/0017-non-forced-macos-safe-eject.md:32`: either the reservation or the eject wins | `storage/macos/registry.py:257`: a probe that read the state before the latch activates the target after it |
| `DrainVerified` (`Drain`, `VerifiedIsWhole`) | ADR 0015, as above | a drain and a retry on one temporary name: VERIFIED is committed of an artifact that is not there |
| `DepthStaleReady` (`Depth`, `ReadyIsNotStale`) | comment at `collector/coverage.py:327`: no bridge from before a disconnect is used again | frames of the old connection are persisted after the reset and make the product ready on the next connection |
| `SideDataAgedOut` (`SideData`, `AgedOutIsExplicit`) | `docs/data_contract.md:238`: a period that ages out becomes an explicit unrecoverable gap | `collector/coverage.py:1107` moves the start of the request into the retention and records nothing |
| `ServiceStop` (`Service`, `AwaitedAreStopped`) | `docs/adr/0023-depth-resync-and-terminal-recovery.md:33`: both stop events are set and the service exits | `collector/coverage.py:1763`: a product admitted while the monitor is awaited is never told to stop and is awaited for ever |
| `HandoverResync` (`Handover`, `ResyncEndsInItsSession`) | `collector/resync.py:85`: a completed resync ends the unreliable interval | the snapshot of a session that is being ended completes the resync; the next session starts unreliable without a request of its own |

Also met while modelling, without a configuration:

- *Catalog.* `docs/code_guide.zh-CN.md` describes `synchronous=FULL` where
  `storage/catalog/base.py:90` sets NORMAL; the comment at
  `storage/catalog/chunks.py:58` is true of a kill and not of a power loss.
- *Reconnect.* A marker reserved for a frame that is later filtered leaves the
  gap open until the next marker.
- *Archive.* The terminal commit of a resumed attempt (`manager.py:342`) does not
  synchronise the source's directory again; the name that may return is a
  duplicate. A drain that finds a partial artifact at LOCAL_DELETE_PENDING is
  blocked on that target.
- *Remote.* The source is unlinked while its row says REMOTE_DELETE_PENDING, which
  the boundary audit of that moment calls UNEXPLAINED_ABSENCE
  (`audit/reconnect_boundaries.py:1225`).
- *Archive set.* A `.partial` file of a killed process makes scan and rebuild of
  that medium refuse until it is removed by hand (`archive_set.py:298`).
- *Catalog snapshots.* A crash during the creation of a store leaves one that is
  refused; a half-removed generation ends later clean-ups early; a stage killed
  between its marker and its lock is never cleaned.
- *Availability.* A journal at its capacity gives up the process
  (`coverage.py:1561`); the run keeps it out of reach.
- *Service.* An error of the capacity monitor after the stop is swallowed; the
  evidence of a hard-reserve stop is lost when the supervisor fails while it
  drains or when SIGTERM races it; a product admitted between the last state
  document and the hard stop gets no discontinuity.
- *Capacity.* The coordinator records DISK_EMERGENCY_STOP once for ever; killed
  between the event and the gap, it never opens the gap. The reserve of the plain
  path lies above the emergency level when `rotation_bytes` exceeds 5 GiB and is
  then not enforced before it. The alert state may follow an older observation
  that was recorded later.
- *Verification.* A chunk enrolled again without the lock (`cli.py:1451`) may get
  the result of a reading that began before; a row over the budget at the head of
  the queue can starve later ones.
- *Normalisation.* A checkpoint saved between the choice of chunks and
  `_checkpoint_entries` makes a build that cannot be opened; `RawSourceError` is
  not wrapped.
- *Order book.* A second gap or `restart_bootstrap` during RESYNC_REQUIRED leaves
  the earlier interval open; a stale snapshot can close an interval.
- *Backfill.* `verify` fails for ever on a superseded revision whose normalisation
  was killed; `supersedes` lists incomplete revisions; a corrupted zip that has a
  manifest is never downloaded again; gap records stay.
- *Acceptance.* `_raw_evidence` changes what the next sample builds on before
  `_catalog_projection` may raise; a resumed observer's interval keys include
  closed ones from before T0; a failed start observation cannot be resumed; an
  eligible final may be refused when a gap event commits after its instant.
- *Acceptance V5.* A chunk deleted remotely pends for ever; admission may stall
  with the references at their cap (`acceptance_v5_admission.py:76`).

## 8. Not modelled

- Deployment identity, service files, configuration, proxy and the command line:
  text that is generated, parsed and compared. The commands that act on state are
  actions of the modules of that state.
- Products, sources and schemas of the exchange: tables and payload validation; a
  payload is a value everywhere.
- Tools and scripts outside the recorder.
- Within modelled parts: byte formats, compression and digests; decimal
  arithmetic and field parsers; HTTP and TLS; the daily report; kline backfill;
  the queue's byte limits and its race of put, writer and stop
  (`spool/async_queue.py:252`); acceptance generations 1 and 2; the operator's
  classification of version 1 reconnect evidence.

## 9. Plan

1. Proofs: `JournalIsTrue` of `Availability`; `ResumeIsExact` and
   `EligibleIsHonest` of `Acceptance`.
2. `IngressQueue`: `spool/async_queue.py`, with `Reconnect`'s queue as its
   abstract specification.
3. The metrics recorder and the daily report; kline backfill; the operator's
   classification of legacy evidence.
