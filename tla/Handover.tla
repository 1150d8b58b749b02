------------------------------ MODULE Handover ------------------------------
(***************************************************************************)
(* A collector is replaced by another one while the market goes on:        *)
(* BlueGreenSupervisor.deploy (supervisor/blue_green.py) over two running  *)
(* collectors (collector/spot.py and collector/usdm.py, which have the     *)
(* same control) whose capture sessions are ended and begun again by the   *)
(* DepthResyncCoordinator (collector/resync.py).                           *)
(*                                                                         *)
(* A collector holds the depth stream and another core stream, "trade". A  *)
(* session runs its streams, the task that asks for a snapshot until one   *)
(* bridges the buffered updates, and the task that ends the session on a   *)
(* stop or a resync request.  Whether a snapshot bridges is left open here *)
(* (module Depth), and so is the evidence of a reconnect (Reconnect): this *)
(* module only knows for which streams such evidence is open.              *)
(***************************************************************************)
EXTENDS Integers, FiniteSets

CONSTANTS MaxMishaps,   \* bound: disconnects, gaps and malformed frames
          MaxCollapses  \* bound: failures that end a collector

VARIABLES col,     \* the collectors "old" and "new"
          sup,     \* the supervisor's coroutine, the deployment row and its evidence
          dark,    \* history: neither was capturing, and no reconnect evidence was open
          luck     \* [mishaps, collapses] against the bounds

hvars == <<col, sup, dark, luck>>

CoreStreams == {"depth", "trade"}

\* bound: streams with an open reconnect boundary; late: frames still queued.
NewCollector ==
    [pc |-> "idle", conn |-> {}, seen |-> {}, late |-> {}, bound |-> {},
     book |-> "empty", fail |-> FALSE, snapd |-> FALSE,
     req |-> FALSE, active |-> FALSE, rest |-> "none",
     stop |-> FALSE, grown |-> FALSE, broke |-> FALSE, early |-> FALSE]

Session(c) == [c EXCEPT !.pc = "session", !.req = FALSE, !.rest = "ask"]

HandoverInit ==
    /\ col = [old |-> [NewCollector EXCEPT
                         !.pc = "session", !.conn = CoreStreams, !.seen = CoreStreams,
                         !.book = "reliable", !.snapd = TRUE],
              new |-> NewCollector]
    /\ sup = [pc |-> "idle", row |-> "NONE", gaps |-> {}, running |-> TRUE, stale |-> FALSE]
    /\ dark = FALSE /\ luck = [mishaps |-> 0, collapses |-> 0]

\* ReadinessSnapshot.ready
Ready(c) == /\ ~c.fail /\ c.conn = CoreStreams /\ c.seen = CoreStreams
            /\ c.snapd /\ c.book = "reliable"

-----------------------------------------------------------------------------
(* One collector.  Each operation gives the collector after it.             *)

\* DepthResyncCoordinator.request: evidence once, the event always.
Request(c) == [c EXCEPT !.req = TRUE, !.active = TRUE]

\* observe_quality: a sequence gap or a malformed depth frame.
GapObserved(c) == Request([c EXCEPT !.fail = TRUE])

\* A frame of stream s is written and observed; a frame of a closed connection
\* can still be queued.
FramePersisted(c, s) ==
    LET seen == [c EXCEPT !.seen = @ \cup {s}, !.grown = TRUE,
                          !.late = IF s \in c.conn THEN @ ELSE @ \ {s},
                          !.bound = IF s \in c.conn THEN @ \ {s} ELSE @]
    IN  IF s # "depth" THEN seen
        ELSE [seen EXCEPT !.book = IF c.book = "reliable" THEN @ ELSE "frames"]

\* The frame does not continue the book, or cannot be parsed, or fills the
\* bounded buffer.
Unfit(c) ==
    {GapObserved([c EXCEPT !.book = "empty"])}
      \cup {GapObserved([FramePersisted(c, "depth") EXCEPT !.book = "frames"]) :
              x \in IF c.book = "reliable" THEN {1} ELSE {}}
      \cup {Request([FramePersisted(c, "depth") EXCEPT !.book = "empty"]) :
              x \in IF c.book = "frames" THEN {1} ELSE {}}

\* lifecycle_observer: a disconnect, a planned rotation, a server shutdown or
\* backpressure; only the depth stream ends the session.
Disconnected(c, s) ==
    LET off == [c EXCEPT !.conn = @ \ {s}, !.seen = @ \ {s}, !.late = @ \cup {s},
                         !.bound = @ \cup {s}]
    IN  IF s = "depth" THEN GapObserved(off) ELSE off

\* DepthResyncCoordinator.complete; early marks a completion that is recorded
\* while the session of the snapshot is being ended.
Complete(c) == [c EXCEPT !.active = FALSE,
                         !.early = @ \/ (c.active /\ c.pc = "retiring")]

\* _capture_snapshot after the snapshot is synchronised to disk: it bridges and
\* the task ends, or the loop goes on unless the session is being ended.
Stored(c) ==
    LET kept == [c EXCEPT !.snapd = TRUE]
        again == IF c.pc = "session" THEN "ask" ELSE "none"
    IN  {[kept EXCEPT !.rest = again, !.book = b] : b \in {c.book, "empty"}}
          \cup IF c.book # "frames" THEN {}
               ELSE {Complete([kept EXCEPT !.rest = "none", !.book = "reliable"]),
                     GapObserved([kept EXCEPT !.rest = again])}

\* control_session
Control(c) == [c EXCEPT !.pc = "retiring"]

\* The task group has ended: restart_bootstrap and prepare_restart, or leave
\* the loop.
Retired(c) ==
    IF c.stop THEN [c EXCEPT !.pc = "closing", !.conn = {}, !.seen = {}, !.late = {}]
    ELSE [c EXCEPT !.pc = "backoff", !.conn = {}, !.seen = {}, !.late = {},
                   !.bound = CoreStreams, !.snapd = FALSE, !.fail = FALSE,
                   !.book = "empty", !.req = FALSE]

BackoffOver(c) == IF c.stop THEN [c EXCEPT !.pc = "closing"] ELSE Session(c)

\* An error escapes a stream, its writer or the snapshot task: the group is
\* cancelled and run goes through its finally block.
Collapsed(c) == [c EXCEPT !.pc = "closing", !.stop = TRUE, !.broke = TRUE,
                          !.conn = {}, !.seen = {}, !.late = {}, !.rest = "none"]

-----------------------------------------------------------------------------
(* Steps of the collectors.                                                  *)

Capturing(c) == /\ c.pc \in {"session", "retiring", "backoff"}
                /\ CoreStreams \subseteq c.seen \cup c.bound

\* A collector goes from c to d; darkness is noted while a deployment runs.
Becomes(k, d) ==
    /\ col' = [col EXCEPT ![k] = d]
    /\ dark' = (dark \/ (sup.pc \notin {"idle", "end"}
                          /\ \A i \in DOMAIN col' : ~Capturing(col'[i])))
    /\ UNCHANGED sup

Free == UNCHANGED luck
Mishap == luck.mishaps < MaxMishaps /\ luck' = [luck EXCEPT !.mishaps = @ + 1]
Collapse == luck.collapses < MaxCollapses /\ luck' = [luck EXCEPT !.collapses = @ + 1]

Alive(k) == col[k].pc \in {"session", "retiring"}

StreamConnects(k, s) ==
    /\ col[k].pc = "session" /\ s \notin col[k].conn \cup col[k].late
    /\ Becomes(k, [col[k] EXCEPT !.conn = @ \cup {s}]) /\ Free

FramePersists(k, s) ==
    /\ Alive(k) /\ s \in col[k].conn \cup col[k].late
    /\ Becomes(k, FramePersisted(col[k], s)) /\ Free

FrameIsUnfit(k) ==
    /\ Alive(k) /\ "depth" \in col[k].conn /\ Mishap
    /\ \E d \in Unfit(col[k]) : Becomes(k, d)

StreamDisconnects(k, s) ==
    /\ Alive(k) /\ s \in col[k].conn /\ Mishap
    /\ Becomes(k, Disconnected(col[k], s))

\* The opener fails: the depth stream reports it, another stream tries again.
CoreConnectFails(k) ==
    /\ col[k].pc = "session" /\ "depth" \notin col[k].conn /\ Mishap
    /\ Becomes(k, GapObserved(col[k]))

\* A rate limit or a server error repeats the request, which changes nothing
\* here.  A session that is being ended drops the request under way.
SnapshotAnswers(k) ==
    /\ Alive(k) /\ col[k].rest = "ask"
    /\ Becomes(k, [col[k] EXCEPT !.rest = IF col[k].pc = "session" THEN "store" ELSE "none"])
    /\ Free

SnapshotStored(k) ==
    /\ Alive(k) /\ col[k].rest = "store" /\ Free
    /\ \E d \in Stored(col[k]) : Becomes(k, d)

ControlEnds(k) ==
    /\ col[k].pc = "session" /\ (col[k].req \/ col[k].stop)
    /\ Becomes(k, Control(col[k])) /\ Free

SessionRetires(k) ==
    /\ col[k].pc = "retiring" /\ col[k].rest = "none"
    /\ Becomes(k, Retired(col[k])) /\ Free

BackoffEnds(k) == col[k].pc = "backoff" /\ Becomes(k, BackoffOver(col[k])) /\ Free

\* The side data ends, the snapshot spool is sealed, the Catalog is closed.
CollectorCloses(k) ==
    /\ col[k].pc = "closing"
    /\ Becomes(k, [col[k] EXCEPT !.pc = "done"]) /\ Free

CollectorBreaks(k) ==
    /\ col[k].pc \in {"session", "retiring", "backoff"} /\ Collapse
    /\ Becomes(k, Collapsed(col[k]))

-----------------------------------------------------------------------------
(* The supervisor.                                                           *)

Old == col.old
New == col.new
Done(c) == c.pc = "done"

\* transition_deployment, and the wait that follows.
SupGoes(pc, row) == /\ sup' = [sup EXCEPT !.pc = pc, !.row = row]
                 /\ UNCHANGED <<dark, luck>>
Baseline == [k \in DOMAIN col |-> [col[k] EXCEPT !.grown = FALSE]]

\* create_deployment
CreatedRow == "CANDIDATE_STARTING"

Deploy ==
    /\ sup.pc = "idle" /\ ~Done(Old) /\ Ready(Old)
    /\ col' = [col EXCEPT !.new = Session(@)]
    /\ SupGoes("waiting", CreatedRow)

\* A gap event and the way back; the candidate is asked to stop.
BacksOff(gaps) ==
    /\ col' = [col EXCEPT !.new.stop = TRUE]
    /\ sup' = [sup EXCEPT !.pc = "rollback", !.gaps = @ \cup gaps]
    /\ UNCHANGED <<dark, luck>>

\* One round of _wait_candidate, or its timeout.
WaitCandidate ==
    /\ sup.pc = "waiting"
    /\ \/ Done(Old) /\ BacksOff({"ACTIVE_FAILED_BEFORE_CANDIDATE_READY"})
       \/ ~Done(Old) /\ (Done(New) \/ New.fail) /\ BacksOff({})
       \/ /\ ~Done(Old) /\ ~Done(New) /\ Ready(New)
          /\ col' = Baseline /\ SupGoes("overlap", "CANDIDATE_READY")
       \/ BacksOff({})

\* The overlap is recorded and the old collector is asked to stop.
ConfirmOverlap ==
    /\ col' = [col EXCEPT !.old.stop = TRUE]
    /\ sup' = [sup EXCEPT !.pc = "stopping", !.row = "OVERLAP_CONFIRMED",
                          !.stale = ~Ready(New)]
    /\ UNCHANGED <<dark, luck>>

WaitOverlap ==
    /\ sup.pc = "overlap"
    /\ \/ Done(Old) /\ BacksOff({"ACTIVE_FAILED_DURING_OVERLAP"})
       \/ ~Done(Old) /\ (Done(New) \/ ~Ready(New)) /\ BacksOff({})
       \/ /\ ~Done(Old) /\ ~Done(New) /\ Ready(New) /\ Old.grown /\ New.grown
          /\ ConfirmOverlap
       \/ BacksOff({})

\* The mutant looks at the candidate's snapshot of the overlap.
CutoverGapFromOverlap == sup.stale

\* _complete_cutover: the candidate is looked at again.
CutoverGap == Done(New) \/ ~Ready(New)

\* The old collector has ended, well or not, or its shutdown timed out.
CompleteCutover ==
    /\ sup.pc = "stopping"
    /\ sup' = [sup EXCEPT !.pc = "end", !.row = "CUTOVER_COMPLETE",
                          !.gaps = IF CutoverGap
                                   THEN @ \cup {"CANDIDATE_LOST_READINESS_DURING_CUTOVER"}
                                   ELSE @]
    /\ UNCHANGED <<col, dark, luck>>

RollBack ==
    /\ sup.pc = "rollback" /\ Done(New)
    /\ sup' = [sup EXCEPT !.pc = "end", !.row = "ROLLED_BACK", !.running = ~Done(Old)]
    /\ UNCHANGED <<col, dark, luck>>

CollectorStep(k) ==
    \/ \E s \in CoreStreams :
         StreamConnects(k, s) \/ FramePersists(k, s) \/ StreamDisconnects(k, s)
    \/ FrameIsUnfit(k) \/ CoreConnectFails(k)
    \/ SnapshotAnswers(k) \/ SnapshotStored(k)
    \/ ControlEnds(k) \/ SessionRetires(k) \/ BackoffEnds(k)
    \/ CollectorCloses(k) \/ CollectorBreaks(k)

HandoverNext ==
    \/ sup.pc # "end" /\ \E k \in DOMAIN col : CollectorStep(k)
    \/ Deploy \/ WaitCandidate \/ WaitOverlap \/ CompleteCutover \/ RollBack

HandoverSpec == HandoverInit /\ [][HandoverNext]_hvars

-----------------------------------------------------------------------------
(* Properties.                                                               *)

\* When a deployment is over and there was a time in which neither collector
\* was capturing and no reconnect evidence was open, that is on record: as a
\* gap event of the supervisor, or by a rollback that says the active collector
\* is not running, or whose active task is ending with an error that its owner
\* will see (deploy, _complete_cutover, _rollback).
HoleIsOnRecord ==
    sup.pc = "end" /\ dark =>
      \/ sup.gaps # {}
      \/ sup.row = "ROLLED_BACK" /\ (~sup.running \/ Old.broke)

\* A session whose book is not reliable, or whose readiness has failed, always
\* has somebody to repair it: a snapshot task that is still at work, or a
\* restart that is requested and not forgotten (spot.py and usdm.py,
\* _capture_snapshot and _run_capture_session; resync.py).
RepairIsOwed ==
    \A k \in DOMAIN col :
      LET c == col[k] IN
      c.pc = "session" /\ ~c.stop =>
        /\ c.book # "reliable" => c.req \/ c.rest # "none"
        /\ c.fail => c.req

\* Neither a deployment nor a session of its collectors ends in a state that
\* nobody knows of and nobody repairs.
DeploymentIsSafe == HoleIsOnRecord /\ RepairIsOwed

\* A resync is recorded as completed by a session that goes on: the snapshot
\* that completes it does not belong to a session that is being ended
\* (resync.py, complete).  The code does not keep it (HandoverResync.cfg).
ResyncEndsInItsSession == \A k \in DOMAIN col : ~col[k].early

=============================================================================
