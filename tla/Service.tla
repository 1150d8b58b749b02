------------------------------ MODULE Service -------------------------------
(***************************************************************************)
(* The recorder process from its lock to its last record: ServiceRuntime   *)
(* (service/runtime.py) with the capture it owns (SelectedAssetCapture.run *)
(* and reconcile, collector/coverage.py), the state file it publishes and  *)
(* the readiness that deployment reads from that file.                     *)
(*                                                                         *)
(* Signals, a full disk, failing heartbeats, failing product tasks and the *)
(* product directory act on each other through events and tasks of one     *)
(* asyncio loop; while reconcile runs without awaiting nothing else does.  *)
(* A product is a number, its capture is one task.  The streams and what   *)
(* they write are in RawChunk, Reconnect and Depth.                        *)
(***************************************************************************)
EXTENDS Integers, FiniteSets, FiniteSetsExt

CONSTANTS ProductCount,    \* products that the exchange may list
          ProductBudget,   \* coverage.max_products
          ListedStatuses,  \* what a directory document may say of a product
          MaxReads,        \* bound: directory documents
          MaxFailures,     \* bound: things that fail
          MaxProcesses     \* bound: processes started

ASSUME ServiceAssumption == ProductCount \in Nat /\ ProductBudget \in Nat \ {0}

VARIABLES sv,     \* the coroutine ServiceRuntime.run and its tasks
          cap,    \* the coroutine SelectedAssetCapture.run
          rc,     \* the poll of the directory and reconcile
          pt,     \* products: task, stop event, membership of the two tables
          dir,    \* the product directory
          low,    \* free space is at the hard reserve
          file,   \* service_state.json
          events, \* operational events of this process
          spent   \* [reads, failures, processes] against the bounds

svvars == <<sv, cap, rc, pt, dir, low, file, events, spent>>

ProductKeys == 1..ProductCount

NoRuntime == [pc |-> "off", stop |-> FALSE, status |-> "STARTING", heart |-> "off",
              gauge |-> "off", hard |-> FALSE, err |-> FALSE]
NoCapture == [pc |-> "off", err |-> FALSE, cleanup |-> FALSE, awaited |-> {}, sealed |-> {},
              left |-> {}, broken |-> FALSE]
NoReconcile == [pc |-> "none", todo |-> {}]
NoProduct == [task |-> "none", stop |-> FALSE, listed |-> FALSE, coll |-> FALSE,
              ver |-> 0, spool |-> FALSE]

ServiceInit ==
    /\ sv = NoRuntime /\ cap = NoCapture /\ rc = NoReconcile
    /\ pt = [k \in ProductKeys |-> NoProduct]
    /\ dir = [k \in ProductKeys |-> [status |-> "UNKNOWN", ver |-> 0]]
    /\ low = FALSE /\ events = {}
    /\ file = [pid |-> 0, status |-> "STARTING", recovered |-> FALSE, products |-> {}]
    /\ spent = [reads |-> 0, failures |-> 0, processes |-> 0]

Process == spent.processes
Collected == {k \in ProductKeys : pt[k].coll}
Fault == spent.failures < MaxFailures /\ spent' = [spent EXCEPT !.failures = @ + 1]

\* Everything but reconcile waits while reconcile does not await.
LoopIsFree == rc.pc # "sync"

\* _state_document and ServiceStateStore.write: the file is replaced at once.
Document(s) == [pid |-> Process, status |-> s.status,
                recovered |-> s.pc \notin {"off", "recovering"}, products |-> Collected]

\* _observe_capacity: free bytes at or under the reserve of the profile.
HardReserveReached == low

-----------------------------------------------------------------------------
(* ServiceRuntime.run                                                        *)

Start ==
    /\ sv.pc = "off" /\ spent.processes < MaxProcesses
    /\ spent' = [spent EXCEPT !.processes = @ + 1]
    /\ sv' = [NoRuntime EXCEPT !.pc = "recovering", !.heart = "on"]
    /\ file' = [pid |-> Process + 1, status |-> "STARTING", recovered |-> FALSE,
                products |-> {}]
    /\ events' = {}
    /\ UNCHANGED <<cap, rc, pt, dir, low>>

\* _publish_failure: the event and the file, either of which may not be written.
PublishFailure(s) ==
    /\ sv' = [s EXCEPT !.pc = "cleanup", !.err = TRUE, !.stop = TRUE, !.status = "FAILED"]
    /\ \/ /\ events' = events \cup {"SERVICE_FAILED"}
          /\ file' = Document([s EXCEPT !.status = "FAILED"])
       \/ UNCHANGED <<events, file>>

Returns(s) == sv' = [s EXCEPT !.pc = "cleanup"] /\ UNCHANGED <<events, file>>

\* Startup recovery has ended, or was given up because of a stop, or failed.
Recovered ==
    /\ sv.pc = "recovering" /\ LoopIsFree
    /\ \/ sv.heart = "failed" /\ PublishFailure(sv) /\ UNCHANGED spent
       \/ Fault /\ PublishFailure(sv)
       \/ sv.heart # "failed" /\ sv.stop /\ Returns(sv) /\ UNCHANGED spent
       \/ /\ sv.heart # "failed" /\ ~sv.stop
          /\ sv' = [sv EXCEPT !.pc = "measuring"] /\ UNCHANGED <<events, file, spent>>
    /\ UNCHANGED <<cap, rc, pt, dir, low>>

\* _record_hard_reserve_stop: the event, and a discontinuity for every product.
HardStop(evs) == evs \cup {"DISK_EMERGENCY_STOP"}

\* The disk is looked at before anything is captured; then the capture starts.
Measured ==
    /\ sv.pc = "measuring" /\ LoopIsFree
    /\ \/ sv.heart = "failed" /\ PublishFailure(sv) /\ UNCHANGED <<cap, spent>>
       \/ Fault /\ PublishFailure(sv) /\ UNCHANGED cap
       \/ sv.heart # "failed" /\ sv.stop /\ Returns(sv) /\ UNCHANGED <<cap, spent>>
       \/ /\ sv.heart # "failed" /\ ~sv.stop /\ HardReserveReached
          /\ sv' = [sv EXCEPT !.pc = "cleanup", !.status = "STOPPING"]
          /\ events' = HardStop(events) /\ UNCHANGED <<file, cap, spent>>
       \/ /\ sv.heart # "failed" /\ ~sv.stop /\ ~HardReserveReached
          /\ sv' = [sv EXCEPT !.pc = "running", !.status = "RUNNING", !.gauge = "on"]
          /\ cap' = [NoCapture EXCEPT !.pc = "loop"]
          /\ events' = events \cup {"SERVICE_STARTED"}
          /\ file' = Document(sv') /\ UNCHANGED spent
    /\ UNCHANGED <<rc, pt, dir, low>>

\* SIGTERM or SIGINT
RequestStop ==
    /\ sv.pc \in {"recovering", "measuring", "running", "awaiting"} /\ LoopIsFree
    /\ ~sv.stop
    /\ sv' = [sv EXCEPT !.stop = TRUE, !.status = "STOPPING"]
    /\ UNCHANGED <<cap, rc, pt, dir, low, file, events, spent>>

\* _heartbeat and _guard_heartbeat; the last document can be written after the stop.
Heartbeat ==
    /\ sv.heart = "on" /\ LoopIsFree
    /\ \/ ~sv.stop /\ file' = Document(sv) /\ UNCHANGED <<sv, spent>>
       \/ sv.stop /\ sv' = [sv EXCEPT !.heart = "ended"] /\ UNCHANGED <<file, spent>>
       \/ /\ Fault /\ sv' = [sv EXCEPT !.heart = "failed", !.stop = TRUE]
          /\ UNCHANGED file
    /\ UNCHANGED <<cap, rc, pt, dir, low, events>>

\* _capacity_monitor
Gauge ==
    /\ sv.gauge = "on" /\ LoopIsFree
    /\ \/ /\ HardReserveReached /\ sv' = [sv EXCEPT !.gauge = "reached"]
          /\ file' = Document(sv) /\ UNCHANGED spent
       \/ sv.stop /\ sv' = [sv EXCEPT !.gauge = "ended"] /\ UNCHANGED <<file, spent>>
       \/ Fault /\ sv' = [sv EXCEPT !.gauge = "failed"] /\ UNCHANGED file
    /\ UNCHANGED <<cap, rc, pt, dir, low, events>>

\* The first of the three required tasks has ended.
Wakes ==
    /\ sv.pc = "running" /\ LoopIsFree
    /\ sv.heart \in {"failed", "ended"} \/ sv.gauge # "on" \/ cap.pc = "done"
    /\ \/ (sv.heart = "failed" \/ sv.gauge = "failed") /\ PublishFailure(sv)
       \/ /\ sv.heart # "failed" /\ sv.gauge # "failed"
          /\ sv' = IF sv.gauge = "reached"
                   THEN [sv EXCEPT !.pc = "awaiting", !.hard = TRUE, !.stop = TRUE,
                                   !.status = "STOPPING"]
                   ELSE [sv EXCEPT !.pc = "awaiting"]
          /\ UNCHANGED <<events, file>>
    /\ UNCHANGED <<cap, rc, pt, dir, low, spent>>

\* The capture has ended: by a stop, or the service fails.
CaptureAwaited ==
    /\ sv.pc = "awaiting" /\ cap.pc = "done" /\ LoopIsFree
    /\ \/ (cap.broken \/ sv.heart = "failed" \/ ~sv.stop) /\ PublishFailure(sv)
       \/ /\ ~cap.broken /\ sv.heart # "failed" /\ sv.stop
          /\ sv' = [sv EXCEPT !.pc = "cleanup"]
          /\ events' = (IF sv.hard THEN HardStop(events) ELSE events) /\ UNCHANGED file
    /\ UNCHANGED <<cap, rc, pt, dir, low, spent>>

\* The finally block: the other tasks are awaited, the end is recorded, the
\* Catalog is closed and the lock released.  stop was set on every way here.
CleansUp ==
    /\ sv.pc = "cleanup" /\ LoopIsFree /\ cap.pc \in {"off", "done"}
    /\ IF ~sv.stop THEN sv' = [sv EXCEPT !.stop = TRUE] /\ UNCHANGED <<events, file, cap, pt>>
       ELSE /\ sv.heart # "on"
            /\ IF sv.heart = "failed" /\ ~sv.err
               THEN PublishFailure(sv) /\ UNCHANGED <<cap, pt>>
               ELSE /\ sv' = [sv EXCEPT !.pc = "over", !.status = IF sv.err THEN @ ELSE "STOPPED"]
                    /\ IF sv.err THEN UNCHANGED <<events, file>>
                       ELSE /\ events' = events \cup {"SERVICE_STOPPED"}
                            /\ file' = Document([sv EXCEPT !.status = "STOPPED"])
                    /\ UNCHANGED <<cap, pt>>
    /\ UNCHANGED <<rc, dir, low, spent>>

\* The process is gone, after its end or killed at any point.
ProcessEnds ==
    /\ sv.pc # "off" /\ (sv.pc = "over" \/ spent.processes < MaxProcesses)
    /\ sv' = NoRuntime /\ cap' = NoCapture /\ rc' = NoReconcile /\ events' = {}
    /\ pt' = [k \in ProductKeys |-> NoProduct]
    /\ dir' = [k \in ProductKeys |-> [status |-> "UNKNOWN", ver |-> 0]]
    /\ UNCHANGED <<low, file, spent>>

DiskFills == ~low /\ low' = TRUE /\ UNCHANGED <<sv, cap, rc, pt, dir, file, events, spent>>

-----------------------------------------------------------------------------
(* Product tasks and the directory.                                          *)

\* A product's capture ends when it is told to, or fails, or returns too early.
ProductEnds(k) ==
    /\ pt[k].task = "run" /\ LoopIsFree
    /\ \/ pt[k].stop /\ pt' = [pt EXCEPT ![k].task = "ended"] /\ UNCHANGED spent
       \/ Fault /\ \E t \in {"ended", "failed"} : pt' = [pt EXCEPT ![k].task = t]
    /\ UNCHANGED <<sv, cap, rc, dir, low, file, events>>

\* An exchange_info poll is put on the wire.
PollDirectory ==
    /\ cap.pc = "loop" /\ rc.pc = "none" /\ spent.reads < MaxReads
    /\ spent' = [spent EXCEPT !.reads = @ + 1]
    /\ rc' = [rc EXCEPT !.pc = "wire"]
    /\ UNCHANGED <<sv, cap, pt, dir, low, file, events>>

\* ProductDirectory.apply: a product that is not in the document is missing,
\* which is no proof that it has ended.
Applied(d, doc) ==
    [k \in ProductKeys |->
       IF k \notin DOMAIN doc
       THEN IF d[k].status = "UNKNOWN" THEN d[k] ELSE [d[k] EXCEPT !.status = "MISSING"]
       ELSE [status |-> doc[k].status, ver |-> doc[k].ver]]

ReconcileBegins ==
    /\ rc.pc = "wire"
    /\ \E listed \in SUBSET ProductKeys :
         \E doc \in [listed -> [status : ListedStatuses, ver : 0..1]] :
           dir' = Applied(dir, doc)
    /\ rc' = [pc |-> "sync", todo |-> {k \in ProductKeys : dir'[k].status # "UNKNOWN"}]
    /\ UNCHANGED <<sv, cap, pt, low, file, events, spent>>

Next1 == Min(rc.todo)
Skips(k) == [rc EXCEPT !.todo = @ \ {k}]

\* A product that is captured: it is told to stop and awaited when it has
\* closed or changed, and kept otherwise.
Retires(k) == \/ dir[k].status = "CLOSED"
              \/ dir[k].status # "MISSING" /\ dir[k].ver # pt[k].ver

\* Why a listed product is not captured.
Refused(k) == \/ dir[k].status # "TRADING" \/ sv.stop
              \/ Cardinality(Collected) >= ProductBudget

Admitted(k) == [task |-> "run", stop |-> FALSE, listed |-> TRUE, coll |-> TRUE,
                ver |-> dir[k].ver, spool |-> TRUE]

ReconcileKey ==
    /\ rc.pc = "sync" /\ rc.todo # {}
    /\ LET k == Next1 IN
       \/ /\ pt[k].coll /\ Retires(k)
          /\ pt' = [pt EXCEPT ![k].stop = TRUE, ![k].listed = FALSE]
          /\ rc' = [rc EXCEPT !.pc = "await"]
       \/ pt[k].coll /\ ~Retires(k) /\ rc' = Skips(k) /\ UNCHANGED pt
       \/ ~pt[k].coll /\ Refused(k) /\ rc' = Skips(k) /\ UNCHANGED pt
       \/ ~pt[k].coll /\ ~Refused(k) /\ rc' = Skips(k) /\ pt' = [pt EXCEPT ![k] = Admitted(k)]
    /\ UNCHANGED <<sv, cap, dir, low, file, events, spent>>

\* The retired task is awaited; its error is the error of the poll.
ReconcileAwaits ==
    /\ rc.pc = "await" /\ pt[Next1].task \in {"ended", "failed"}
    /\ \/ pt[Next1].task = "failed" /\ rc' = [rc EXCEPT !.pc = "failed"] /\ UNCHANGED pt
       \/ /\ pt[Next1].task = "ended"
          /\ pt' = [pt EXCEPT ![Next1].coll = FALSE]
          /\ rc' = [rc EXCEPT !.pc = "sync"]
    /\ UNCHANGED <<sv, cap, dir, low, file, events, spent>>

\* _reconcile_shared and PRODUCT_DIRECTORY_OBSERVED
ReconcileEnds ==
    /\ rc.pc = "sync" /\ rc.todo = {}
    /\ rc' = NoReconcile
    /\ UNCHANGED <<sv, cap, pt, dir, low, file, events, spent>>

-----------------------------------------------------------------------------
(* SelectedAssetCapture.run                                                  *)

Listed == {k \in ProductKeys : pt[k].listed}

\* The beginning of the finally block.
StopsChildren(c) ==
    /\ cap' = [c EXCEPT !.pc = "stopping"]
    /\ pt' = [k \in ProductKeys |-> [pt[k] EXCEPT !.stop = @ \/ pt[k].listed]]

\* One turn of the loop: a stop, a poll or a product that ended, or a write
\* of the journal that failed.
LoopEnds ==
    /\ cap.pc = "loop" /\ LoopIsFree
    /\ \/ sv.stop /\ StopsChildren(cap) /\ UNCHANGED <<events, spent>>
       \/ /\ rc.pc = "failed"
          /\ StopsChildren([cap EXCEPT !.err = TRUE]) /\ UNCHANGED <<events, spent>>
       \/ /\ \E k \in Listed : pt[k].task # "run" /\ ~pt[k].stop
          /\ StopsChildren([cap EXCEPT !.err = TRUE])
          /\ events' = events \cup {"CORE_MARKET_TERMINAL_FAILURE"} /\ UNCHANGED spent
       \/ Fault /\ StopsChildren([cap EXCEPT !.err = TRUE]) /\ UNCHANGED events
    /\ UNCHANGED <<sv, rc, dir, low, file>>

\* The monitor is cancelled and awaited, sources are marked unavailable; then
\* everything in the tables is awaited.
Gathers ==
    /\ cap.pc = "stopping" /\ LoopIsFree
    /\ cap' = [cap EXCEPT !.pc = "gather", !.awaited = Listed]
    /\ UNCHANGED <<sv, rc, pt, dir, low, file, events, spent>>

Drained == {k \in cap.awaited : pt[k].task = "failed"}

GatherEnds ==
    /\ cap.pc = "gather" /\ LoopIsFree
    /\ \A k \in cap.awaited : pt[k].task \in {"ended", "failed"}
    /\ rc.pc \in {"none", "failed"}
    /\ cap' = [cap EXCEPT !.pc = "sealing", !.cleanup = @ \/ rc.pc = "failed" \/ Drained # {}]
    /\ events' = IF Drained # {} /\ ~cap.err
                 THEN events \cup {"CORE_MARKET_TERMINAL_FAILURE"} ELSE events
    /\ UNCHANGED <<sv, rc, pt, dir, low, file, spent>>

CollectorSpools == {k \in ProductKeys : pt[k].spool}

\* The mutant forgets the error of a spool that does not seal.
SealLosesError(k) ==
    \/ cap' = [cap EXCEPT !.sealed = @ \cup {k}] /\ UNCHANGED spent
    \/ Fault /\ cap' = [cap EXCEPT !.left = @ \cup {k}]

\* close_and_seal of one spool; the others follow even when it fails.
SealSpool(k) ==
    \/ cap' = [cap EXCEPT !.sealed = @ \cup {k}] /\ UNCHANGED spent
    \/ Fault /\ cap' = [cap EXCEPT !.left = @ \cup {k}, !.cleanup = TRUE]

Seals ==
    /\ cap.pc = "sealing" /\ LoopIsFree
    /\ \E k \in CollectorSpools \ (cap.sealed \cup cap.left) : SealSpool(k)
    /\ UNCHANGED <<sv, rc, pt, dir, low, file, events>>

\* The last flush of availability and metrics, and the error that is raised.
CaptureEnds ==
    /\ cap.pc = "sealing" /\ CollectorSpools \subseteq cap.sealed \cup cap.left /\ LoopIsFree
    /\ \/ cap' = [cap EXCEPT !.pc = "done", !.broken = cap.err \/ cap.cleanup] /\ UNCHANGED spent
       \/ Fault /\ cap' = [cap EXCEPT !.pc = "done", !.broken = TRUE]
    /\ UNCHANGED <<sv, rc, pt, dir, low, file, events>>

ServiceNext ==
    \/ Start \/ Recovered \/ Measured \/ RequestStop \/ Heartbeat \/ Gauge
    \/ Wakes \/ CaptureAwaited \/ CleansUp \/ ProcessEnds \/ DiskFills
    \/ \E k \in ProductKeys : ProductEnds(k)
    \/ PollDirectory \/ ReconcileBegins \/ ReconcileKey \/ ReconcileAwaits \/ ReconcileEnds
    \/ LoopEnds \/ Gathers \/ GatherEnds \/ Seals \/ CaptureEnds

ServiceSpec == ServiceInit /\ [][ServiceNext]_svvars

-----------------------------------------------------------------------------
(* Readiness, as deployment reads it.                                        *)

\* VpsReadinessEvaluator.evaluate: the file belongs to the main process, says
\* that it runs, has recovered, and lists products.
ReadyVerdict ==
    /\ sv.pc \notin {"off", "over"} /\ file.pid = Process
    /\ file.status = "RUNNING" /\ file.recovered /\ file.products # {}

-----------------------------------------------------------------------------
(* Properties.                                                               *)

\* A process that records SERVICE_STOPPED had nothing to hide: no product task
\* and no heartbeat failed, every spool was sealed without an error and no
\* capture is still running, whatever was failing, stopping or being admitted
\* when the stop came (runtime.py, run; coverage.py, run).
CleanStopIsClean ==
    "SERVICE_STOPPED" \in events =>
      /\ ~cap.err /\ sv.heart # "failed"
      /\ CollectorSpools \subseteq cap.sealed
      /\ \A k \in ProductKeys : pt[k].task \notin {"run", "failed"}

\* Readiness is never read from the file of a process that is gone: the
\* process it is said of has recovered its storage and started its capture
\* (readiness.py, evaluate).
ReadyIsAlive == ReadyVerdict => "SERVICE_STARTED" \in events

\* What the service says of itself is true: neither the record of a stop nor the
\* verdict of readiness covers up a failure (runtime.py, readiness.py).
StatusIsTrue == CleanStopIsClean /\ ReadyIsAlive

\* Once the capture waits for its product tasks, every one of them has been
\* told to stop or has ended (coverage.py, run).  The code does not keep it
\* (ServiceStop.cfg).
AwaitedAreStopped ==
    cap.pc = "gather" =>
      \A k \in cap.awaited : pt[k].stop \/ pt[k].task # "run"

=============================================================================
