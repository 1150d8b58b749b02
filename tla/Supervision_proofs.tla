------------------------- MODULE Supervision_proofs -------------------------
(***************************************************************************)
(* Proofs about the modules that start, stop and replace capture: Handover *)
(* (a collector is replaced by another one while streams disconnect, books *)
(* break and collectors fail at any time), Service (one recorder process   *)
(* from its lock to its last record) and Capacity (capture is stopped when *)
(* the disk is short of space).                                            *)
(***************************************************************************)
EXTENDS Handover, Service, Capacity, FiniteSetTheorems, WellFoundedInduction, TLAPS

-----------------------------------------------------------------------------
(* Handover: the inductive invariant. *)

Collector ==
    [pc : {"idle", "session", "retiring", "backoff", "closing", "done"},
     conn : SUBSET CoreStreams, seen : SUBSET CoreStreams, late : SUBSET CoreStreams,
     bound : SUBSET CoreStreams, book : {"empty", "frames", "reliable"}, fail : BOOLEAN,
     snapd : BOOLEAN, req : BOOLEAN, active : BOOLEAN, rest : {"none", "ask", "store"},
     stop : BOOLEAN, grown : BOOLEAN, broke : BOOLEAN, early : BOOLEAN]

Supervisor ==
    [pc : {"idle", "waiting", "overlap", "stopping", "rollback", "end"},
     row : {"NONE", "CANDIDATE_STARTING", "CANDIDATE_READY", "OVERLAP_CONFIRMED",
            "CUTOVER_COMPLETE", "ROLLED_BACK"},
     gaps : SUBSET {"ACTIVE_FAILED_BEFORE_CANDIDATE_READY", "ACTIVE_FAILED_DURING_OVERLAP",
                    "CANDIDATE_LOST_READINESS_DURING_CUTOVER"},
     running : BOOLEAN, stale : BOOLEAN]

HandoverTypeOK ==
    /\ col \in [{"old", "new"} -> Collector]
    /\ sup \in Supervisor /\ dark \in BOOLEAN

Gone(c) == c.pc \in {"closing", "done"}

\* Every core stream is captured, or evidence of its reconnect is open.
Covered(c) == Gone(c) \/ CoreStreams \subseteq c.seen \cup c.bound

\* RepairIsOwed for one collector.
Owed(c) ==
    c.pc = "session" /\ ~c.stop =>
      /\ c.book # "reliable" => c.req \/ c.rest # "none"
      /\ c.fail => c.req

\* Only a session has connections, and it begins without a failure.
CollectorOK(c) ==
    /\ c.conn # {} => c.pc \in {"session", "retiring"}
    /\ c.pc \in {"idle", "backoff"} => ~c.fail
    /\ Owed(c)

\* The active collector captures as long as it lives, and ends by an error unless
\* the supervisor has asked it to stop.
OldOK ==
    /\ Old.pc # "idle" /\ Covered(Old)
    /\ sup.pc \in {"idle", "waiting", "overlap", "rollback"} =>
         (Old.stop \/ Gone(Old) => Old.broke)

\* From the overlap on the candidate captures as long as it lives.
NewOK ==
    /\ sup.pc = "idle" => New.pc = "idle"
    /\ sup.pc \in {"overlap", "stopping"} => New.pc # "idle" /\ Covered(New)

\* Darkness needs the end of the active collector.  When it began before the
\* overlap, the active collector's streams do not grow in it; when it began later,
\* the candidate has ended too.
DarkOK ==
    /\ sup.pc = "idle" => ~dark
    /\ dark => Gone(Old)
    /\ sup.pc = "overlap" /\ dark => ~Old.grown \/ Gone(New)
    /\ sup.pc = "stopping" /\ dark => Gone(New)

HandoverInv ==
    /\ HandoverTypeOK
    /\ \A k \in {"old", "new"} : CollectorOK(col[k])
    /\ OldOK /\ NewOK /\ DarkOK /\ HoleIsOnRecord
-----------------------------------------------------------------------------
(* Handover: steps of the collectors. *)

\* What a step of a collector does to the invariant, whichever collector it is.
Moves(c, d) ==
    /\ d \in Collector /\ CollectorOK(d)
    /\ Covered(c) => Covered(d)
    /\ c.pc # "idle" /\ d.pc # "idle"
    /\ Gone(c) => Gone(d) /\ d.grown = c.grown
    /\ d.stop \/ Gone(d) => c.stop \/ Gone(c) \/ d.broke
    /\ c.broke => d.broke

\* FramePersisted: a stream that grows is captured.
LEMMA FrameMoves ==
    ASSUME NEW c \in Collector, CollectorOK(c), c.pc \in {"session", "retiring"},
           NEW s \in CoreStreams
    PROVE  Moves(c, FramePersisted(c, s))
<1> DEFINE d == FramePersisted(c, s)
<1>1. /\ d.pc = c.pc /\ d.conn = c.conn /\ d.seen = c.seen \cup {s}
      /\ d.bound \in {c.bound, c.bound \ {s}} /\ d.late \in {c.late, c.late \ {s}}
      /\ d.book \in {c.book, "frames"} /\ (c.book = "reliable" => d.book = "reliable")
      /\ d.fail = c.fail /\ d.req = c.req /\ d.rest = c.rest /\ d.stop = c.stop
      /\ d.broke = c.broke
    BY DEF FramePersisted, Collector
<1>2. d \in Collector
    <2> DEFINE late == IF s \in c.conn THEN c.late ELSE c.late \ {s}
               bound == IF s \in c.conn THEN c.bound \ {s} ELSE c.bound
               seen == [c EXCEPT !.seen = c.seen \cup {s}, !.grown = TRUE,
                                 !.late = late, !.bound = bound]
               book == IF c.book = "reliable" THEN c.book ELSE "frames"
    <2>1. late \in SUBSET CoreStreams /\ bound \in SUBSET CoreStreams
          /\ c.seen \cup {s} \in SUBSET CoreStreams
        BY DEF Collector
    <2>2. seen \in Collector
        <3> HIDE DEF late, bound
        <3> QED
            BY <2>1 DEF Collector
    <2>3. d = IF s # "depth" THEN seen ELSE [seen EXCEPT !.book = book]
        BY DEF FramePersisted
    <2>4. book \in {"empty", "frames", "reliable"}
        BY DEF Collector
    <2>5. [seen EXCEPT !.book = book] \in Collector
        <3> HIDE DEF seen, book
        <3> QED
            BY <2>2, <2>4 DEF Collector
    <2> QED
        BY <2>2, <2>3, <2>5
<1> QED
    BY <1>1, <1>2 DEF Moves, CollectorOK, Owed, Covered, Gone

\* A collector changed within its session.
Within(c, d) ==
    /\ d \in Collector /\ d.pc = c.pc /\ d.stop = c.stop /\ d.broke = c.broke
    /\ Covered(c) => Covered(d)

\* DepthResyncCoordinator.request and observe_quality.
LEMMA Requests ==
    ASSUME NEW c \in Collector, c.pc \in {"session", "retiring"}, NEW d, Within(c, d)
    PROVE  Moves(c, Request(d)) /\ Moves(c, GapObserved(d))
<1>1. ASSUME NEW e \in Collector
      PROVE  /\ Request(e) \in Collector /\ Request(e).req
             /\ Request(e).pc = e.pc /\ Request(e).stop = e.stop
             /\ Request(e).broke = e.broke /\ Request(e).fail = e.fail
             /\ Request(e).seen = e.seen /\ Request(e).bound = e.bound
    BY <1>1 DEF Request, Collector
<1>2. ASSUME NEW e \in Collector, Within(c, e) PROVE Moves(c, Request(e))
    BY <1>1, <1>2 DEF Within, Moves, CollectorOK, Owed, Covered, Gone
<1>3. d \in Collector
    BY DEF Within
<1>4. [d EXCEPT !.fail = TRUE] \in Collector /\ Within(c, [d EXCEPT !.fail = TRUE])
    BY <1>3 DEF Within, Covered, Gone, Collector
<1> QED
    BY <1>2, <1>3, <1>4 DEF GapObserved

\* lifecycle_observer
LEMMA DisconnectMoves ==
    ASSUME NEW c \in Collector, CollectorOK(c), c.pc \in {"session", "retiring"},
           NEW s \in CoreStreams
    PROVE  Moves(c, Disconnected(c, s))
<1> DEFINE conn == c.conn \ {s}
           seen == c.seen \ {s}
           late == c.late \cup {s}
           bound == c.bound \cup {s}
           off == [c EXCEPT !.conn = conn, !.seen = seen, !.late = late, !.bound = bound]
<1>1. /\ conn \in SUBSET CoreStreams /\ seen \in SUBSET CoreStreams
      /\ late \in SUBSET CoreStreams /\ bound \in SUBSET CoreStreams
    BY DEF Collector
<1>2. CoreStreams \subseteq c.seen \cup c.bound => CoreStreams \subseteq seen \cup bound
    OBVIOUS
<1>3. Disconnected(c, s) = IF s = "depth" THEN GapObserved(off) ELSE off
    BY DEF Disconnected
<1> HIDE DEF conn, seen, late, bound
<1>4. off \in Collector
    BY <1>1 DEF Collector
<1>5. /\ off.pc = c.pc /\ off.stop = c.stop /\ off.broke = c.broke /\ off.grown = c.grown
      /\ off.seen = seen /\ off.bound = bound /\ off.book = c.book /\ off.req = c.req
      /\ off.rest = c.rest /\ off.fail = c.fail
    BY DEF Collector
<1> HIDE DEF off
<1>6. Within(c, off) /\ Moves(c, off)
    BY <1>2, <1>4, <1>5 DEF Within, Moves, CollectorOK, Owed, Covered, Gone
<1> QED
    BY <1>3, <1>6, Requests

\* observe_quality and the bounded buffer.
LEMMA UnfitMoves ==
    ASSUME NEW c \in Collector, CollectorOK(c), c.pc \in {"session", "retiring"},
           NEW d \in Unfit(c)
    PROVE  Moves(c, d)
<1> DEFINE f == FramePersisted(c, "depth")
<1>1. Moves(c, f) /\ f.pc = c.pc /\ f.stop = c.stop /\ f.broke = c.broke
    BY FrameMoves DEF CoreStreams, FramePersisted, Collector
<1>2. ASSUME NEW b \in {"empty", "frames"}
      PROVE  Within(c, [c EXCEPT !.book = b]) /\ Within(c, [f EXCEPT !.book = b])
    <2>1. f \in Collector /\ (Covered(c) => Covered(f))
        BY <1>1 DEF Moves
    <2> HIDE DEF f
    <2>2. [c EXCEPT !.book = b] \in Collector /\ [f EXCEPT !.book = b] \in Collector
        BY <2>1 DEF Collector
    <2> QED
        BY <1>1, <2>1, <2>2 DEF Within, Covered, Gone, Collector
<1>3. \/ d = GapObserved([c EXCEPT !.book = "empty"])
      \/ d = GapObserved([f EXCEPT !.book = "frames"])
      \/ d = Request([f EXCEPT !.book = "empty"])
    BY DEF Unfit
<1> QED
    BY <1>2, <1>3, Requests

\* _capture_snapshot after the snapshot is on disk.
LEMMA StoredMoves ==
    ASSUME NEW c \in Collector, CollectorOK(c), c.pc \in {"session", "retiring"},
           NEW d \in Stored(c)
    PROVE  Moves(c, d)
<1> DEFINE kept == [c EXCEPT !.snapd = TRUE]
           again == IF c.pc = "session" THEN "ask" ELSE "none"
           whole == [kept EXCEPT !.rest = "none", !.book = "reliable"]
<1>1. /\ kept \in Collector /\ kept.pc = c.pc /\ kept.stop = c.stop
      /\ kept.broke = c.broke /\ kept.seen = c.seen /\ kept.bound = c.bound
      /\ kept.conn = c.conn /\ kept.fail = c.fail /\ kept.req = c.req
    BY DEF Collector
<1>2. again \in {"none", "ask"} /\ (c.pc = "session" => again = "ask")
    OBVIOUS
<1>3. \/ \E b \in {c.book, "empty"} : d = [kept EXCEPT !.rest = again, !.book = b]
      \/ d = Complete(whole)
      \/ d = GapObserved([kept EXCEPT !.rest = again])
    BY DEF Stored
<1> HIDE DEF kept, again
<1>4. ASSUME NEW b \in {c.book, "empty"}, d = [kept EXCEPT !.rest = again, !.book = b]
      PROVE  Moves(c, d)
    <2>1. b \in {"empty", "frames", "reliable"}
        BY DEF Collector
    <2>2. /\ d \in Collector /\ d.pc = c.pc /\ d.stop = c.stop /\ d.broke = c.broke
          /\ d.seen = c.seen /\ d.bound = c.bound /\ d.conn = c.conn /\ d.fail = c.fail
          /\ d.req = c.req /\ d.rest = again
        BY <1>1, <1>2, <1>4, <2>1 DEF Collector
    <2> QED
        BY <1>2, <2>2 DEF Moves, CollectorOK, Owed, Covered, Gone
<1>5. CASE d = Complete(whole)
    <2>1. /\ whole \in Collector /\ whole.pc = c.pc /\ whole.stop = c.stop
          /\ whole.broke = c.broke /\ whole.seen = c.seen /\ whole.bound = c.bound
          /\ whole.conn = c.conn /\ whole.fail = c.fail /\ whole.req = c.req
          /\ whole.book = "reliable"
        BY <1>1 DEF Collector
    <2> DEFINE early == whole.early \/ (whole.active /\ whole.pc = "retiring")
    <2>2. early \in BOOLEAN /\ d = [whole EXCEPT !.active = FALSE, !.early = early]
        BY <1>5, <2>1 DEF Complete, Collector
    <2> HIDE DEF whole, early
    <2>3. /\ d \in Collector /\ d.pc = c.pc /\ d.stop = c.stop /\ d.broke = c.broke
          /\ d.seen = c.seen /\ d.bound = c.bound /\ d.conn = c.conn /\ d.fail = c.fail
          /\ d.req = c.req /\ d.book = "reliable"
        BY <2>1, <2>2 DEF Collector
    <2> QED
        BY <2>3 DEF Moves, CollectorOK, Owed, Covered, Gone
<1>6. CASE d = GapObserved([kept EXCEPT !.rest = again])
    <2>1. Within(c, [kept EXCEPT !.rest = again])
        BY <1>1, <1>2 DEF Within, Covered, Gone, Collector
    <2> QED
        BY <1>6, <2>1, Requests
<1> QED
    BY <1>3, <1>4, <1>5, <1>6

\* The end of a session, and its beginning.
LEMMA SessionMoves ==
    ASSUME NEW c \in Collector, CollectorOK(c)
    PROVE  /\ c.pc = "session" => Moves(c, Control(c))
           /\ c.pc = "retiring" => Moves(c, Retired(c))
           /\ c.pc = "backoff" => Moves(c, BackoffOver(c))
           /\ c.pc = "closing" => Moves(c, [c EXCEPT !.pc = "done"])
           /\ c.pc \in {"session", "retiring", "backoff"} => Moves(c, Collapsed(c))
<1> USE DEF Moves, CollectorOK, Owed, Covered, Gone
<1>1. c.pc = "session" => Moves(c, Control(c))
    BY DEF Control, Collector
<1>2. ASSUME c.pc = "retiring" PROVE Moves(c, Retired(c))
    <2>1. {} \in SUBSET CoreStreams /\ CoreStreams \in SUBSET CoreStreams
        OBVIOUS
    <2>2. CASE c.stop
        BY <1>2, <2>1, <2>2 DEF Retired, Collector
    <2>3. CASE ~c.stop
        BY <1>2, <2>1, <2>3 DEF Retired, Collector
    <2> QED
        BY <2>2, <2>3
<1>3. ASSUME c.pc = "backoff" PROVE Moves(c, BackoffOver(c))
    <2>1. CASE c.stop
        BY <1>3, <2>1 DEF BackoffOver, Collector
    <2>2. CASE ~c.stop
        BY <1>3, <2>2 DEF BackoffOver, Session, Collector
    <2> QED
        BY <2>1, <2>2
<1>4. c.pc = "closing" => Moves(c, [c EXCEPT !.pc = "done"])
    BY DEF Collector
<1>5. c.pc \in {"session", "retiring", "backoff"} => Moves(c, Collapsed(c))
    BY DEF Collapsed, Collector
<1> QED
    BY <1>1, <1>2, <1>3, <1>4, <1>5

LEMMA CollectorMoves ==
    ASSUME NEW k \in {"old", "new"}, col[k] \in Collector, CollectorOK(col[k]),
           CollectorStep(k)
    PROVE  \E d : Becomes(k, d) /\ Moves(col[k], d)
<1> DEFINE c == col[k]
<1>1. ASSUME NEW s \in CoreStreams, StreamConnects(k, s)
      PROVE  Moves(c, [c EXCEPT !.conn = @ \cup {s}])
    BY <1>1 DEF StreamConnects, Moves, CollectorOK, Owed, Covered, Gone, Collector
<1>2. ASSUME c.pc \in {"session", "retiring"}, c.rest = "ask",
             NEW r \in {"store", "none"}, r = IF c.pc = "session" THEN "store" ELSE "none"
      PROVE  Moves(c, [c EXCEPT !.rest = r])
    BY <1>2 DEF Moves, CollectorOK, Owed, Covered, Gone, Collector
<1>3. CASE \E s \in CoreStreams :
             StreamConnects(k, s) \/ FramePersists(k, s) \/ StreamDisconnects(k, s)
    BY <1>1, <1>3, FrameMoves, DisconnectMoves
    DEF StreamConnects, FramePersists, StreamDisconnects, Alive
<1>4. CASE FrameIsUnfit(k) \/ CoreConnectFails(k)
    <2>1. Within(c, c)
        BY DEF Within
    <2> QED
        BY <1>4, <2>1, Requests, UnfitMoves DEF FrameIsUnfit, CoreConnectFails, Alive
<1>5. CASE SnapshotAnswers(k)
    BY <1>2, <1>5 DEF SnapshotAnswers, Alive
<1>6. CASE SnapshotStored(k)
    BY <1>6, StoredMoves DEF SnapshotStored, Alive
<1>7. CASE ControlEnds(k) \/ SessionRetires(k) \/ BackoffEnds(k) \/ CollectorCloses(k)
             \/ CollectorBreaks(k)
    BY <1>7, SessionMoves
    DEF ControlEnds, SessionRetires, BackoffEnds, CollectorCloses, CollectorBreaks
<1> QED
    BY <1>3, <1>4, <1>5, <1>6, <1>7 DEF CollectorStep

\* Whatever a collector does keeps the invariant.
LEMMA CollectorKeeps ==
    ASSUME HandoverInv, sup.pc # "end", NEW k \in {"old", "new"}, CollectorStep(k)
    PROVE  HandoverInv'
<1>1. HandoverTypeOK /\ OldOK /\ NewOK /\ DarkOK
      /\ \A i \in {"old", "new"} : col[i] \in Collector /\ CollectorOK(col[i])
    BY DEF HandoverInv, HandoverTypeOK
<1>2. PICK d : Becomes(k, d) /\ Moves(col[k], d)
    BY <1>1, CollectorMoves
<1>3. /\ col'[k] = d /\ \A i \in {"old", "new"} \ {k} : col'[i] = col[i]
      /\ col' \in [{"old", "new"} -> Collector] /\ sup' = sup
    BY <1>1, <1>2 DEF Becomes, Moves, HandoverTypeOK
<1>4. dark' \in BOOLEAN /\ (dark => dark')
      /\ (dark' => dark \/ (sup.pc # "idle" /\ ~Capturing(col'["old"])
                                          /\ ~Capturing(col'["new"])))
    <2>1. DOMAIN col' = {"old", "new"}
        BY <1>3
    <2> QED
        BY <1>1, <1>2, <2>1 DEF Becomes, HandoverTypeOK
<1>5. \A i \in {"old", "new"} :
         col'[i].pc # "idle" /\ Covered(col'[i]) /\ ~Capturing(col'[i]) => Gone(col'[i])
    BY <1>3 DEF Capturing, Covered, Gone, Collector
<1>6. HandoverTypeOK' /\ \A i \in {"old", "new"} : CollectorOK(col'[i])
    BY <1>1, <1>2, <1>3, <1>4 DEF HandoverTypeOK, Moves
<1>7. OldOK' /\ NewOK'
    <2>1. CASE k = "old"
        BY <1>1, <1>2, <1>3, <2>1 DEF OldOK, NewOK, Old, New, Moves
    <2>2. CASE k = "new"
        BY <1>1, <1>2, <1>3, <2>2 DEF OldOK, NewOK, Old, New, Moves
    <2> QED
        BY <2>1, <2>2
<1>8. DarkOK'
    <2>1. CASE k = "old"
        BY <1>1, <1>2, <1>3, <1>4, <1>5, <1>7, <2>1
        DEF DarkOK, OldOK, NewOK, Old, New, Moves
    <2>2. CASE k = "new"
        BY <1>1, <1>2, <1>3, <1>4, <1>5, <1>7, <2>2
        DEF DarkOK, OldOK, NewOK, Old, New, Moves
    <2> QED
        BY <2>1, <2>2
<1>9. HoleIsOnRecord'
    BY <1>3 DEF HoleIsOnRecord
<1> QED
    BY <1>6, <1>7, <1>8, <1>9 DEF HandoverInv

-----------------------------------------------------------------------------
(* Handover: steps of the supervisor. *)

\* A collector that is asked to stop owes no repair.
LEMMA StoppedIsOK ==
    ASSUME NEW c \in Collector, CollectorOK(c)
    PROVE  /\ [c EXCEPT !.stop = TRUE] \in Collector
           /\ CollectorOK([c EXCEPT !.stop = TRUE])
    BY DEF CollectorOK, Owed, Collector

\* What is ready is alive and captures.
LEMMA ReadyCaptures ==
    ASSUME NEW c \in Collector, CollectorOK(c), Ready(c)
    PROVE  c.pc \in {"session", "retiring"} /\ Covered(c) /\ ~Gone(c)
    BY DEF CollectorOK, Ready, Covered, Gone, CoreStreams

\* create_deployment: the candidate begins.
LEMMA DeployKeeps ==
    ASSUME HandoverInv, Deploy
    PROVE  HandoverInv'
<1> DEFINE d == Session(col["new"])
<1>1. HandoverTypeOK /\ OldOK /\ NewOK /\ DarkOK
      /\ \A i \in {"old", "new"} : col[i] \in Collector /\ CollectorOK(col[i])
    BY DEF HandoverInv, HandoverTypeOK
<1>2. col["new"].pc = "idle" /\ sup.pc = "idle" /\ sup \in Supervisor
    BY <1>1 DEF Deploy, NewOK, New, HandoverTypeOK
<1>3. d \in Collector /\ CollectorOK(d)
    BY <1>1, <1>2 DEF Session, CollectorOK, Owed, Collector
<1>4. col' \in [{"old", "new"} -> Collector] /\ col'["new"] = d /\ col'["old"] = col["old"]
    BY <1>1, <1>3 DEF Deploy, HandoverTypeOK
<1>5. sup' \in Supervisor /\ sup'.pc = "waiting" /\ UNCHANGED dark
    BY <1>2 DEF Deploy, SupGoes, CreatedRow, Supervisor
<1> QED
    BY <1>1, <1>2, <1>3, <1>4, <1>5
    DEF HandoverInv, HandoverTypeOK, OldOK, NewOK, DarkOK, HoleIsOnRecord, Old, New

\* The way back: the candidate is asked to stop.
LEMMA BacksOffKeeps ==
    ASSUME HandoverInv, sup.pc \in {"waiting", "overlap"},
           NEW gaps \in SUBSET {"ACTIVE_FAILED_BEFORE_CANDIDATE_READY",
                                "ACTIVE_FAILED_DURING_OVERLAP"},
           BacksOff(gaps)
    PROVE  HandoverInv'
<1> DEFINE d == [col["new"] EXCEPT !.stop = TRUE]
<1>1. HandoverTypeOK /\ OldOK /\ NewOK /\ DarkOK
      /\ \A i \in {"old", "new"} : col[i] \in Collector /\ CollectorOK(col[i])
    BY DEF HandoverInv, HandoverTypeOK
<1>2. d \in Collector /\ CollectorOK(d)
    BY <1>1, StoppedIsOK
<1>3. col' \in [{"old", "new"} -> Collector] /\ col'["new"] = d /\ col'["old"] = col["old"]
    BY <1>1, <1>2 DEF BacksOff, HandoverTypeOK
<1>4. sup' \in Supervisor /\ sup'.pc = "rollback" /\ UNCHANGED dark
    <2>1. sup \in Supervisor /\ sup.gaps \cup gaps
             \in SUBSET {"ACTIVE_FAILED_BEFORE_CANDIDATE_READY",
                         "ACTIVE_FAILED_DURING_OVERLAP",
                         "CANDIDATE_LOST_READINESS_DURING_CUTOVER"}
        BY <1>1 DEF HandoverTypeOK, Supervisor
    <2> QED
        BY <2>1 DEF BacksOff, Supervisor
<1> QED
    BY <1>1, <1>2, <1>3, <1>4
    DEF HandoverInv, HandoverTypeOK, OldOK, NewOK, DarkOK, HoleIsOnRecord, Old, New

\* _wait_candidate: the candidate is ready, and growth is counted from here.
LEMMA WaitCandidateKeeps ==
    ASSUME HandoverInv, WaitCandidate
    PROVE  HandoverInv'
<1>1. HandoverTypeOK /\ OldOK /\ NewOK /\ DarkOK /\ sup.pc = "waiting"
      /\ \A i \in {"old", "new"} : col[i] \in Collector /\ CollectorOK(col[i])
    BY DEF HandoverInv, HandoverTypeOK, WaitCandidate
<1>2. CASE \E gaps \in {{"ACTIVE_FAILED_BEFORE_CANDIDATE_READY"}, {}} : BacksOff(gaps)
    BY <1>1, <1>2, BacksOffKeeps
<1>3. CASE Ready(New) /\ col' = Baseline /\ SupGoes("overlap", "CANDIDATE_READY")
    <2>1. \A i \in {"old", "new"} :
             /\ col'[i] = [col[i] EXCEPT !.grown = FALSE]
             /\ col'[i] \in Collector /\ CollectorOK(col'[i])
             /\ col'[i].pc = col[i].pc /\ col'[i].stop = col[i].stop
             /\ col'[i].broke = col[i].broke /\ ~col'[i].grown
             /\ col'[i].seen = col[i].seen /\ col'[i].bound = col[i].bound
        <3>1. \A i \in {"old", "new"} : col'[i] = [col[i] EXCEPT !.grown = FALSE]
            BY <1>1, <1>3 DEF Baseline, HandoverTypeOK
        <3>2. ASSUME NEW c \in Collector, CollectorOK(c), NEW d, d = [c EXCEPT !.grown = FALSE]
              PROVE  /\ d \in Collector /\ CollectorOK(d) /\ ~d.grown
                     /\ d.pc = c.pc /\ d.stop = c.stop /\ d.broke = c.broke
                     /\ d.seen = c.seen /\ d.bound = c.bound
            BY <3>2 DEF CollectorOK, Owed, Collector
        <3>3. \A i \in {"old", "new"} : col[i] \in Collector /\ CollectorOK(col[i])
            BY <1>1
        <3> TAKE i \in {"old", "new"}
        <3>4. /\ col[i] \in Collector /\ CollectorOK(col[i])
              /\ col'[i] = [col[i] EXCEPT !.grown = FALSE]
            BY <3>1, <3>3
        <3> QED
            BY ONLY <3>2, <3>4
    <2>2. col' \in [{"old", "new"} -> Collector]
        BY <1>1, <1>3, <2>1 DEF Baseline, HandoverTypeOK
    <2>3. sup' \in Supervisor /\ sup'.pc = "overlap" /\ UNCHANGED dark
        BY <1>1, <1>3 DEF SupGoes, HandoverTypeOK, Supervisor
    <2>4. col["new"].pc # "idle" /\ Covered(col["new"])
        BY <1>1, <1>3, ReadyCaptures DEF New
    <2> QED
        BY <1>1, <2>1, <2>2, <2>3, <2>4
        DEF HandoverInv, HandoverTypeOK, OldOK, NewOK, DarkOK, HoleIsOnRecord, Old, New,
            Covered, Gone
<1> QED
    BY <1>2, <1>3 DEF WaitCandidate

\* _wait_overlap: both streams have grown and the candidate is ready, so that
\* there was no hole yet when the active collector is asked to stop.
LEMMA WaitOverlapKeeps ==
    ASSUME HandoverInv, WaitOverlap
    PROVE  HandoverInv'
<1>1. HandoverTypeOK /\ OldOK /\ NewOK /\ DarkOK /\ sup.pc = "overlap"
      /\ \A i \in {"old", "new"} : col[i] \in Collector /\ CollectorOK(col[i])
    BY DEF HandoverInv, HandoverTypeOK, WaitOverlap
<1>2. CASE \E gaps \in {{"ACTIVE_FAILED_DURING_OVERLAP"}, {}} : BacksOff(gaps)
    BY <1>1, <1>2, BacksOffKeeps
<1>3. CASE Ready(New) /\ Old.grown /\ ConfirmOverlap
    <2> DEFINE d == [col["old"] EXCEPT !.stop = TRUE]
    <2>1. ~Gone(New) /\ ~dark
        BY <1>1, <1>3, ReadyCaptures DEF DarkOK, New
    <2>2. d \in Collector /\ CollectorOK(d) /\ d.pc = col["old"].pc
          /\ d.seen = col["old"].seen /\ d.bound = col["old"].bound
        <3>1. col["old"] \in Collector /\ CollectorOK(col["old"])
            BY <1>1
        <3>2. d.pc = col["old"].pc /\ d.seen = col["old"].seen /\ d.bound = col["old"].bound
            BY <3>1 DEF Collector
        <3> QED
            BY <3>1, <3>2, StoppedIsOK
    <2>3. /\ col' \in [{"old", "new"} -> Collector]
          /\ col'["old"] = d /\ col'["new"] = col["new"]
        BY <1>1, <1>3, <2>2 DEF ConfirmOverlap, HandoverTypeOK
    <2>4. sup' \in Supervisor /\ sup'.pc = "stopping" /\ UNCHANGED dark
        <3>1. sup \in Supervisor /\ (~Ready(New)) \in BOOLEAN
            BY <1>1 DEF HandoverTypeOK
        <3>2. PICK stale \in BOOLEAN : stale = ~Ready(New)
            BY <3>1
        <3>3. sup' = [sup EXCEPT !.pc = "stopping", !.row = "OVERLAP_CONFIRMED",
                                 !.stale = stale] /\ UNCHANGED dark
            BY <1>3, <3>2 DEF ConfirmOverlap
        <3> QED
            BY ONLY <3>1, <3>3 DEF Supervisor
    <2> QED
        BY <1>1, <2>1, <2>2, <2>3, <2>4
        DEF HandoverInv, HandoverTypeOK, OldOK, NewOK, DarkOK, HoleIsOnRecord, Old, New,
            Covered, Gone
<1> QED
    BY <1>2, <1>3 DEF WaitOverlap

\* _complete_cutover: a hole means that the candidate has ended too, and the second
\* look finds it.
LEMMA CompleteCutoverKeeps ==
    ASSUME HandoverInv, CompleteCutover
    PROVE  HandoverInv'
<1>1. HandoverTypeOK /\ OldOK /\ NewOK /\ DarkOK /\ sup.pc = "stopping"
      /\ sup \in Supervisor
      /\ \A i \in {"old", "new"} : col[i] \in Collector /\ CollectorOK(col[i])
    BY DEF HandoverInv, HandoverTypeOK, CompleteCutover
<1>2. sup' \in Supervisor /\ sup'.pc = "end" /\ UNCHANGED <<col, dark>>
      /\ sup'.gaps = IF CutoverGap
                     THEN sup.gaps \cup {"CANDIDATE_LOST_READINESS_DURING_CUTOVER"}
                     ELSE sup.gaps
    BY <1>1 DEF CompleteCutover, Supervisor
<1>3. dark => CutoverGap
    BY <1>1, ReadyCaptures DEF DarkOK, CutoverGap, New
<1>4. HoleIsOnRecord'
    BY <1>2, <1>3 DEF HoleIsOnRecord
<1> QED
    BY <1>1, <1>2, <1>4
    DEF HandoverInv, HandoverTypeOK, OldOK, NewOK, DarkOK, Old, New

\* _rollback: a hole means that the active collector has ended by an error.
LEMMA RollBackKeeps ==
    ASSUME HandoverInv, RollBack
    PROVE  HandoverInv'
<1>1. HandoverTypeOK /\ OldOK /\ NewOK /\ DarkOK /\ sup.pc = "rollback"
      /\ sup \in Supervisor
      /\ \A i \in {"old", "new"} : col[i] \in Collector /\ CollectorOK(col[i])
    BY DEF HandoverInv, HandoverTypeOK, RollBack
<1>2. sup' \in Supervisor /\ sup'.pc = "end" /\ sup'.row = "ROLLED_BACK"
      /\ UNCHANGED <<col, dark>>
    BY <1>1 DEF RollBack, Supervisor
<1>3. dark => Old.broke
    BY <1>1 DEF DarkOK, OldOK
<1>4. HoleIsOnRecord'
    BY <1>2, <1>3 DEF HoleIsOnRecord, Old
<1> QED
    BY <1>1, <1>2, <1>4
    DEF HandoverInv, HandoverTypeOK, OldOK, NewOK, DarkOK, Old, New

-----------------------------------------------------------------------------
(* Handover: the theorem. *)

LEMMA HandoverBegins == HandoverInit => HandoverInv
<1> SUFFICES ASSUME HandoverInit PROVE HandoverInv
    OBVIOUS
<1>1. NewCollector \in Collector
    BY DEF NewCollector, Collector
<1>2. /\ col["new"] = NewCollector
      /\ col["old"] = [NewCollector EXCEPT
                         !.pc = "session", !.conn = CoreStreams, !.seen = CoreStreams,
                         !.book = "reliable", !.snapd = TRUE]
      /\ col \in [{"old", "new"} -> {col["new"], col["old"]}]
    BY DEF HandoverInit
<1>3. col["old"] \in Collector /\ col["new"] \in Collector
    <2>1. CoreStreams \in SUBSET CoreStreams
        OBVIOUS
    <2>2. ASSUME NEW c \in Collector, NEW S \in SUBSET CoreStreams
          PROVE  [c EXCEPT !.pc = "session", !.conn = S, !.seen = S,
                           !.book = "reliable", !.snapd = TRUE] \in Collector
        BY <2>2 DEF Collector
    <2>3. [NewCollector EXCEPT !.pc = "session", !.conn = CoreStreams, !.seen = CoreStreams,
                               !.book = "reliable", !.snapd = TRUE] \in Collector
        BY ONLY <1>1, <2>1, <2>2
    <2> QED
        BY ONLY <1>1, <1>2, <2>3
<1>4. CollectorOK(col["old"]) /\ CollectorOK(col["new"])
    BY <1>2 DEF NewCollector, CollectorOK, Owed
<1>5. /\ col["new"].pc = "idle" /\ col["old"].pc = "session"
      /\ ~col["old"].stop /\ Covered(col["old"]) /\ ~Gone(col["old"])
    BY <1>2 DEF NewCollector, Covered, Gone
<1>6. sup \in Supervisor /\ sup.pc = "idle" /\ dark = FALSE
    BY DEF HandoverInit, Supervisor
<1> QED
    BY <1>2, <1>3, <1>4, <1>5, <1>6
    DEF HandoverInv, HandoverTypeOK, OldOK, NewOK, DarkOK, HoleIsOnRecord, Old, New

LEMMA HandoverSteps == HandoverInv /\ [HandoverNext]_hvars => HandoverInv'
<1> SUFFICES ASSUME HandoverInv, [HandoverNext]_hvars PROVE HandoverInv'
    OBVIOUS
<1>1. CASE sup.pc # "end" /\ \E k \in DOMAIN col : CollectorStep(k)
    <2>1. DOMAIN col = {"old", "new"}
        BY DEF HandoverInv, HandoverTypeOK
    <2> QED
        BY <1>1, <2>1, CollectorKeeps
<1>2. CASE Deploy
    BY <1>2, DeployKeeps
<1>3. CASE WaitCandidate
    BY <1>3, WaitCandidateKeeps
<1>4. CASE WaitOverlap
    BY <1>4, WaitOverlapKeeps
<1>5. CASE CompleteCutover
    BY <1>5, CompleteCutoverKeeps
<1>6. CASE RollBack
    BY <1>6, RollBackKeeps
<1>7. CASE UNCHANGED hvars
    BY <1>7
    DEF hvars, HandoverInv, HandoverTypeOK, OldOK, NewOK, DarkOK, HoleIsOnRecord, Old, New
<1> QED
    BY <1>1, <1>2, <1>3, <1>4, <1>5, <1>6, <1>7 DEF HandoverNext

\* deploy, _wait_overlap and _complete_cutover with _run_capture_session: a hole in
\* the capture of a deployment is on record at its end, and every unreliable book or
\* failed readiness of a session has somebody to repair it, for any number of
\* disconnects, gaps and failures.
THEOREM DeploymentsAreSafe == HandoverSpec => []DeploymentIsSafe
<1>1. HandoverInv => DeploymentIsSafe
    BY DEF HandoverInv, HandoverTypeOK, DeploymentIsSafe, RepairIsOwed, CollectorOK, Owed
<1> QED
    BY <1>1, HandoverBegins, HandoverSteps, PTL DEF HandoverSpec

-----------------------------------------------------------------------------
(* Service: the inductive invariant. *)

Runtime ==
    [pc : {"off", "recovering", "measuring", "running", "awaiting", "cleanup", "over"},
     stop : BOOLEAN, status : {"STARTING", "RUNNING", "STOPPING", "STOPPED", "FAILED"},
     heart : {"off", "on", "ended", "failed"},
     gauge : {"off", "on", "reached", "ended", "failed"},
     hard : BOOLEAN, err : BOOLEAN]

Capture ==
    [pc : {"off", "loop", "stopping", "gather", "sealing", "done"},
     err : BOOLEAN, cleanup : BOOLEAN, awaited : SUBSET ProductKeys,
     sealed : SUBSET ProductKeys, left : SUBSET ProductKeys, broken : BOOLEAN]

Product ==
    [task : {"none", "run", "ended", "failed"}, stop : BOOLEAN, listed : BOOLEAN,
     coll : BOOLEAN, ver : 0..1, spool : BOOLEAN]

ServiceTypeOK ==
    /\ sv \in Runtime /\ cap \in Capture
    /\ rc \in [pc : {"none", "wire", "sync", "await", "failed"}, todo : SUBSET ProductKeys]
    /\ pt \in [ProductKeys -> Product]
    /\ dir \in [ProductKeys -> [status : ListedStatuses \cup {"UNKNOWN", "MISSING"},
                                ver : 0..1]]

\* A process that says RUNNING has recorded its start.
StartOK ==
    sv.pc # "off" /\ (sv.status = "RUNNING" \/ file.status = "RUNNING") =>
        "SERVICE_STARTED" \in events

\* Before capture starts there is nothing to clean.
BeforeOK ==
    /\ sv.pc \in {"off", "recovering", "measuring"} => cap.pc = "off"
    /\ sv.pc = "off" => /\ sv.status = "STARTING" /\ sv.heart = "off" /\ sv.gauge = "off"
                        /\ events = {}
    /\ cap.pc = "off" => /\ rc.pc = "none" /\ ~cap.err
                         /\ pt = [k \in ProductKeys |-> NoProduct]
    /\ cap.pc \in {"off", "loop"} =>
          ~cap.err /\ ~cap.cleanup /\ ~cap.broken /\ cap.left = {}

Working(k) == pt[k].task \in {"run", "failed"}
Retiring(k) == rc.pc = "failed" \/ (rc.pc = "await" /\ k = Next1)

\* A task that works or has failed is in the tables; one that is not listed any more
\* is being awaited by the poll, or its error is.
TablesOK ==
    \A k \in ProductKeys :
        /\ Working(k) => pt[k].coll
        /\ pt[k].coll /\ ~pt[k].listed => Retiring(k)

\* A capture that is not failing ends because of a stop, awaits what works, and
\* seals when nothing works any more.
CaptureOK ==
    /\ cap.pc \notin {"off", "loop"} /\ ~cap.err => sv.stop
    /\ cap.pc = "gather" /\ ~cap.err =>
          \A k \in ProductKeys : Working(k) => k \in cap.awaited \/ Retiring(k)
    /\ cap.pc \in {"sealing", "done"} => rc.pc \in {"none", "failed"}
    /\ cap.pc \in {"sealing", "done"} /\ ~cap.err /\ ~cap.cleanup =>
          \A k \in ProductKeys : ~Working(k)
    /\ cap.left # {} => cap.cleanup
    /\ cap.pc = "done" => CollectorSpools \subseteq cap.sealed \cup cap.left
    /\ cap.pc = "done" /\ ~cap.broken => ~cap.err /\ ~cap.cleanup

\* A runtime that cleans up without an error has no capture, or one that ended well;
\* only the last step records the stop.
EndOK ==
    /\ sv.pc = "cleanup" /\ ~sv.err => cap.pc = "off" \/ (cap.pc = "done" /\ ~cap.broken)
    /\ "SERVICE_STOPPED" \in events =>
          /\ sv.pc = "over" /\ sv.heart \notin {"on", "failed"}
          /\ cap.pc = "off" \/ (cap.pc = "done" /\ ~cap.broken)

ServiceInv ==
    /\ ServiceTypeOK /\ StartOK /\ BeforeOK /\ TablesOK /\ CaptureOK /\ EndOK
-----------------------------------------------------------------------------
(* Service: steps of the runtime. *)

\* The two ways in which cleaning up may begin without an error.
NothingLeft == cap.pc = "off" \/ (cap.pc = "done" /\ ~cap.broken)

\* What a step of the runtime does to the invariant.
Proceeds ==
    /\ sv' \in Runtime /\ (sv.stop => sv'.stop) /\ sv.pc # "off" /\ sv'.pc # "off"
    /\ sv'.pc \in {"recovering", "measuring"} => sv.pc \in {"recovering", "measuring"}
    /\ sv'.status = "RUNNING" => sv.status = "RUNNING"
    /\ file'.status = "RUNNING" => file.status = "RUNNING" \/ sv.status = "RUNNING"
    /\ "SERVICE_STARTED" \in events => "SERVICE_STARTED" \in events'
    /\ sv'.pc = "cleanup" /\ ~sv'.err => NothingLeft
    /\ "SERVICE_STOPPED" \in events' =>
          sv'.pc = "over" /\ sv'.heart \notin {"on", "failed"} /\ NothingLeft

LEMMA SameTables ==
    ASSUME UNCHANGED <<rc, pt>>, TablesOK
    PROVE  TablesOK' /\ CollectorSpools' = CollectorSpools
           /\ \A k \in ProductKeys : (Working(k)' <=> Working(k))
                                     /\ (Retiring(k)' <=> Retiring(k))
    BY DEF TablesOK, Working, Retiring, Next1, CollectorSpools

LEMMA ProceedingKeeps ==
    ASSUME ServiceInv, Proceeds, UNCHANGED <<cap, rc, pt, dir>>
    PROVE  ServiceInv'
<1>1. /\ ServiceTypeOK /\ StartOK /\ BeforeOK /\ TablesOK /\ CaptureOK /\ EndOK
    BY DEF ServiceInv
<1>2. ServiceTypeOK'
    BY <1>1 DEF ServiceTypeOK, Proceeds
<1>3. StartOK'
    BY <1>1 DEF StartOK, Proceeds
<1>4. BeforeOK'
    BY <1>1 DEF BeforeOK, Proceeds
<1>5. TablesOK'
    BY <1>1, SameTables
<1>6. CaptureOK'
    BY <1>1, SameTables DEF CaptureOK, Proceeds
<1>7. EndOK'
    BY <1>1 DEF EndOK, Proceeds, NothingLeft
<1> QED
    BY <1>2, <1>3, <1>4, <1>5, <1>6, <1>7 DEF ServiceInv

LEMMA PublishProceeds ==
    ASSUME ServiceInv, sv.pc \notin {"off", "over"}, PublishFailure(sv)
    PROVE  Proceeds
<1>1. sv \in Runtime /\ EndOK
    BY DEF ServiceInv, ServiceTypeOK
<1>2. /\ sv' \in Runtime /\ sv'.pc = "cleanup" /\ sv'.err /\ sv'.stop
      /\ sv'.status = "FAILED"
    BY <1>1 DEF PublishFailure, Runtime
<1>3. \/ events' = events \cup {"SERVICE_FAILED"} /\ file'.status = "FAILED"
      \/ UNCHANGED <<events, file>>
    BY <1>1 DEF PublishFailure, Document, Runtime
<1> QED
    BY <1>1, <1>2, <1>3 DEF Proceeds, EndOK

LEMMA ReturnsProceeds ==
    ASSUME ServiceInv, sv.pc \in {"recovering", "measuring"}, Returns(sv)
    PROVE  Proceeds
<1>1. sv \in Runtime /\ EndOK /\ NothingLeft
    BY DEF ServiceInv, ServiceTypeOK, BeforeOK, NothingLeft
<1>2. /\ sv' \in Runtime /\ sv'.pc = "cleanup" /\ sv'.stop = sv.stop
      /\ sv'.status = sv.status
    BY <1>1 DEF Returns, Runtime
<1> QED
    BY <1>1, <1>2 DEF Proceeds, EndOK, Returns

LEMMA RecoveredKeeps == ASSUME ServiceInv, Recovered PROVE ServiceInv'
<1>1. sv \in Runtime /\ EndOK /\ sv.pc = "recovering"
    BY DEF ServiceInv, ServiceTypeOK, Recovered
<1>2. CASE sv' = [sv EXCEPT !.pc = "measuring"] /\ UNCHANGED <<events, file>>
    <2>1. sv' \in Runtime /\ sv'.pc = "measuring" /\ sv'.stop = sv.stop
          /\ sv'.status = sv.status
        BY <1>1, <1>2 DEF Runtime
    <2>2. Proceeds
        BY <1>1, <1>2, <2>1 DEF Proceeds, EndOK
    <2> QED
        BY <2>2, ProceedingKeeps DEF Recovered
<1> QED
    BY <1>1, <1>2, PublishProceeds, ReturnsProceeds, ProceedingKeeps DEF Recovered

LEMMA RequestStopKeeps == ASSUME ServiceInv, RequestStop PROVE ServiceInv'
<1>1. sv \in Runtime /\ EndOK
    BY DEF ServiceInv, ServiceTypeOK
<1>2. sv' \in Runtime /\ sv'.pc = sv.pc /\ sv'.stop /\ sv'.status = "STOPPING"
      /\ sv.pc \notin {"off", "cleanup", "over"}
    BY <1>1 DEF RequestStop, Runtime
<1>3. Proceeds
    BY <1>1, <1>2 DEF Proceeds, EndOK, RequestStop
<1> QED
    BY <1>3, ProceedingKeeps DEF RequestStop

LEMMA HeartbeatKeeps == ASSUME ServiceInv, Heartbeat PROVE ServiceInv'
<1>1. sv \in Runtime /\ EndOK /\ BeforeOK /\ sv.heart = "on" /\ UNCHANGED events
    BY DEF ServiceInv, ServiceTypeOK, Heartbeat
<1>2. sv.pc # "off" /\ "SERVICE_STOPPED" \notin events
    BY <1>1 DEF BeforeOK, EndOK
<1>3. /\ sv' \in Runtime /\ sv'.pc = sv.pc /\ (sv.stop => sv'.stop)
      /\ sv'.status = sv.status /\ sv'.err = sv.err
    BY <1>1 DEF Heartbeat, Runtime
<1>4. file'.status \in {file.status, sv.status}
    BY DEF Heartbeat, Document
<1>5. Proceeds
    BY <1>1, <1>2, <1>3, <1>4 DEF Proceeds, EndOK, NothingLeft
<1> QED
    BY <1>5, ProceedingKeeps DEF Heartbeat

LEMMA GaugeKeeps == ASSUME ServiceInv, Gauge PROVE ServiceInv'
<1>1. sv \in Runtime /\ EndOK /\ BeforeOK /\ sv.gauge = "on" /\ UNCHANGED events
    BY DEF ServiceInv, ServiceTypeOK, Gauge
<1>2. sv.pc # "off"
    BY <1>1 DEF BeforeOK
<1>3. /\ sv' \in Runtime /\ sv'.pc = sv.pc /\ sv.stop = sv'.stop
      /\ sv'.status = sv.status /\ sv'.err = sv.err /\ sv'.heart = sv.heart
    BY <1>1 DEF Gauge, Runtime
<1>4. file'.status \in {file.status, sv.status}
    BY DEF Gauge, Document
<1>5. Proceeds
    BY <1>1, <1>2, <1>3, <1>4 DEF Proceeds, EndOK, NothingLeft
<1> QED
    BY <1>5, ProceedingKeeps DEF Gauge

LEMMA WakesKeeps == ASSUME ServiceInv, Wakes PROVE ServiceInv'
<1>1. sv \in Runtime /\ EndOK /\ sv.pc = "running"
    BY DEF ServiceInv, ServiceTypeOK, Wakes
<1>2. CASE PublishFailure(sv)
    BY <1>1, <1>2, PublishProceeds, ProceedingKeeps DEF Wakes
<1>3. CASE ~PublishFailure(sv)
    <2>1. /\ sv' = IF sv.gauge = "reached"
                   THEN [sv EXCEPT !.pc = "awaiting", !.hard = TRUE, !.stop = TRUE,
                                   !.status = "STOPPING"]
                   ELSE [sv EXCEPT !.pc = "awaiting"]
          /\ UNCHANGED <<events, file>>
        BY <1>3 DEF Wakes
    <2>2. /\ sv' \in Runtime /\ sv'.pc = "awaiting" /\ (sv.stop => sv'.stop)
          /\ sv'.status \in {"STOPPING", sv.status}
        BY <1>1, <2>1 DEF Runtime
    <2>3. Proceeds
        BY <1>1, <2>1, <2>2 DEF Proceeds, EndOK
    <2> QED
        BY <2>3, ProceedingKeeps DEF Wakes
<1> QED
    BY <1>2, <1>3

LEMMA CaptureAwaitedKeeps == ASSUME ServiceInv, CaptureAwaited PROVE ServiceInv'
<1>1. sv \in Runtime /\ EndOK /\ sv.pc = "awaiting"
    BY DEF ServiceInv, ServiceTypeOK, CaptureAwaited
<1>2. CASE PublishFailure(sv)
    BY <1>1, <1>2, PublishProceeds, ProceedingKeeps DEF CaptureAwaited
<1>3. CASE ~PublishFailure(sv)
    <2>1. /\ sv' = [sv EXCEPT !.pc = "cleanup"] /\ UNCHANGED file
          /\ events' \in {events, events \cup {"DISK_EMERGENCY_STOP"}}
          /\ NothingLeft
        BY <1>3 DEF CaptureAwaited, HardStop, NothingLeft
    <2>2. /\ sv' \in Runtime /\ sv'.pc = "cleanup" /\ sv'.stop = sv.stop
          /\ sv'.status = sv.status
        BY <1>1, <2>1 DEF Runtime
    <2>3. Proceeds
        BY <1>1, <2>1, <2>2 DEF Proceeds, EndOK
    <2> QED
        BY <2>3, ProceedingKeeps DEF CaptureAwaited
<1> QED
    BY <1>2, <1>3

\* The finally block records a stop when there was no error.
LEMMA CleansUpKeeps == ASSUME ServiceInv, CleansUp PROVE ServiceInv'
<1>1. sv \in Runtime /\ EndOK /\ sv.pc = "cleanup" /\ UNCHANGED <<cap, rc, pt, dir>>
    BY DEF ServiceInv, ServiceTypeOK, CleansUp
<1>2. CASE ~sv.stop
    <2>1. sv' = [sv EXCEPT !.stop = TRUE] /\ UNCHANGED <<events, file>>
        BY <1>2 DEF CleansUp
    <2>2. /\ sv' \in Runtime /\ sv'.pc = "cleanup" /\ sv'.stop
          /\ sv'.status = sv.status /\ sv'.err = sv.err
        BY <1>1, <2>1 DEF Runtime
    <2>3. Proceeds
        BY <1>1, <2>1, <2>2 DEF Proceeds, EndOK, NothingLeft
    <2> QED
        BY <1>1, <2>3, ProceedingKeeps
<1>3. CASE sv.stop /\ sv.heart = "failed" /\ ~sv.err
    <2>1. PublishFailure(sv)
        BY <1>3 DEF CleansUp
    <2> QED
        BY <1>1, <2>1, PublishProceeds, ProceedingKeeps
<1>4. CASE sv.stop /\ (sv.heart = "failed" => sv.err)
    <2> DEFINE status == IF sv.err THEN sv.status ELSE "STOPPED"
    <2>1. /\ sv' = [sv EXCEPT !.pc = "over", !.status = status] /\ sv.heart # "on"
          /\ \/ sv.err /\ UNCHANGED <<events, file>>
             \/ ~sv.err /\ events' = events \cup {"SERVICE_STOPPED"}
                /\ file' = Document([sv EXCEPT !.status = "STOPPED"])
        BY <1>4 DEF CleansUp
    <2>2. status \in {sv.status, "STOPPED"}
        OBVIOUS
    <2> HIDE DEF status
    <2>3. /\ sv' \in Runtime /\ sv'.pc = "over" /\ sv'.stop = sv.stop
          /\ sv'.status = status /\ sv'.err = sv.err /\ sv'.heart = sv.heart
        BY <1>1, <2>1, <2>2 DEF Runtime
    <2>4. ~sv.err => file'.status = "STOPPED"
        BY <1>1, <2>1 DEF Document, Runtime
    <2>5. Proceeds
        BY <1>1, <1>4, <2>1, <2>2, <2>3, <2>4 DEF Proceeds, EndOK, NothingLeft
    <2> QED
        BY <1>1, <2>5, ProceedingKeeps
<1> QED
    BY <1>2, <1>3, <1>4

LEMMA DiskFillsKeeps == ASSUME ServiceInv, DiskFills PROVE ServiceInv'
<1>1. UNCHANGED <<sv, cap, rc, pt, dir, file, events>>
    BY DEF DiskFills
<1>2. TablesOK' /\ CollectorSpools' = CollectorSpools
      /\ \A k \in ProductKeys : (Working(k)' <=> Working(k))
                                /\ (Retiring(k)' <=> Retiring(k))
    BY <1>1, SameTables DEF ServiceInv
<1> QED
    BY <1>1, <1>2
    DEF ServiceInv, ServiceTypeOK, StartOK, BeforeOK, CaptureOK, EndOK

\* The state file is replaced before anything else happens.
LEMMA StartKeeps == ASSUME ServiceInv, Start PROVE ServiceInv'
<1>1. /\ sv \in Runtime /\ sv.pc = "off" /\ cap.pc = "off" /\ UNCHANGED <<cap, rc, pt, dir>>
      /\ TablesOK /\ CaptureOK /\ BeforeOK /\ ServiceTypeOK
    BY DEF ServiceInv, ServiceTypeOK, BeforeOK, Start
<1>2. /\ sv' \in Runtime /\ sv'.pc = "recovering" /\ sv'.status = "STARTING" /\ ~sv'.err
      /\ file'.status = "STARTING" /\ events' = {}
    BY DEF Start, NoRuntime, Runtime
<1>3. TablesOK' /\ CollectorSpools' = CollectorSpools
    BY <1>1, SameTables
<1> QED
    BY <1>1, <1>2, <1>3
    DEF ServiceInv, ServiceTypeOK, StartOK, BeforeOK, CaptureOK, EndOK

\* A process that is gone leaves its file and nothing else.
LEMMA ProcessEndsKeeps == ASSUME ServiceInv, ProcessEnds PROVE ServiceInv'
<1>1. /\ sv' = NoRuntime /\ cap' = NoCapture /\ rc' = NoReconcile /\ events' = {}
      /\ pt' = [k \in ProductKeys |-> NoProduct]
      /\ dir' = [k \in ProductKeys |-> [status |-> "UNKNOWN", ver |-> 0]]
    BY DEF ProcessEnds
<1>2. /\ sv' \in Runtime /\ sv'.pc = "off" /\ sv'.status = "STARTING" /\ sv'.heart = "off"
      /\ sv'.gauge = "off"
    BY <1>1 DEF NoRuntime, Runtime
<1>3. /\ cap' \in Capture /\ cap'.pc = "off" /\ ~cap'.err /\ ~cap'.cleanup
      /\ ~cap'.broken /\ cap'.left = {}
    BY <1>1 DEF NoCapture, Capture
<1>4. rc' \in [pc : {"none", "wire", "sync", "await", "failed"}, todo : SUBSET ProductKeys]
      /\ rc'.pc = "none"
    BY <1>1 DEF NoReconcile
<1>5. NoProduct \in Product /\ NoProduct.task = "none" /\ ~NoProduct.coll
    BY DEF NoProduct, Product
<1>6. ServiceTypeOK'
    BY <1>1, <1>2, <1>3, <1>4, <1>5 DEF ServiceTypeOK
<1> QED
    BY <1>1, <1>2, <1>3, <1>4, <1>5, <1>6
    DEF ServiceInv, StartOK, BeforeOK, TablesOK, CaptureOK, EndOK, Working

\* Capture begins with the record of the start.
LEMMA MeasuredKeeps == ASSUME ServiceInv, Measured PROVE ServiceInv'
<1>1. /\ sv \in Runtime /\ EndOK /\ sv.pc = "measuring" /\ cap.pc = "off" /\ NothingLeft
      /\ UNCHANGED <<rc, pt, dir>>
    BY DEF ServiceInv, ServiceTypeOK, BeforeOK, Measured, NothingLeft
<1>2. CASE PublishFailure(sv) /\ UNCHANGED cap
    BY <1>1, <1>2, PublishProceeds, ProceedingKeeps
<1>3. CASE Returns(sv) /\ UNCHANGED cap
    BY <1>1, <1>3, ReturnsProceeds, ProceedingKeeps
<1>4. CASE /\ sv' = [sv EXCEPT !.pc = "cleanup", !.status = "STOPPING"]
           /\ events' = HardStop(events) /\ UNCHANGED <<file, cap>>
    <2>1. /\ sv' \in Runtime /\ sv'.pc = "cleanup" /\ sv'.stop = sv.stop
          /\ sv'.status = "STOPPING"
        BY <1>1, <1>4 DEF Runtime
    <2>2. Proceeds
        BY <1>1, <1>4, <2>1 DEF Proceeds, EndOK, HardStop
    <2> QED
        BY <1>1, <1>4, <2>2, ProceedingKeeps
<1>5. CASE /\ sv' = [sv EXCEPT !.pc = "running", !.status = "RUNNING", !.gauge = "on"]
           /\ cap' = [NoCapture EXCEPT !.pc = "loop"]
           /\ events' = events \cup {"SERVICE_STARTED"}
    <2>1. sv' \in Runtime /\ sv'.pc = "running" /\ sv'.stop = sv.stop /\ sv'.err = sv.err
        BY <1>1, <1>5 DEF Runtime
    <2>2. /\ cap' \in Capture /\ cap'.pc = "loop" /\ ~cap'.err /\ ~cap'.cleanup
          /\ ~cap'.broken /\ cap'.left = {}
        BY <1>5 DEF NoCapture, Capture
    <2>3. TablesOK'
        BY <1>1, SameTables DEF ServiceInv
    <2>4. ServiceTypeOK'
        BY <1>1, <2>1, <2>2 DEF ServiceInv, ServiceTypeOK
    <2> QED
        BY <1>1, <1>5, <2>1, <2>2, <2>3, <2>4
        DEF ServiceInv, StartOK, BeforeOK, CaptureOK, EndOK
<1> QED
    BY <1>2, <1>3, <1>4, <1>5 DEF Measured

-----------------------------------------------------------------------------
(* Service: steps of the capture. *)

\* What is left to show of a step that only capture takes.
LEMMA CapturingKeeps ==
    ASSUME ServiceInv, UNCHANGED <<sv, file>>,
           events' \in {events, events \cup {"CORE_MARKET_TERMINAL_FAILURE"}},
           cap.pc # "off", cap'.pc # "off", cap'.pc = "loop" => cap' = cap,
           cap.pc = "done" => cap' = cap,
           ServiceTypeOK', TablesOK', CaptureOK'
    PROVE  ServiceInv'
<1>1. StartOK /\ BeforeOK /\ EndOK /\ ServiceTypeOK
    BY DEF ServiceInv
<1>2. StartOK' /\ BeforeOK'
    BY <1>1 DEF StartOK, BeforeOK
<1>3. EndOK'
    BY <1>1 DEF EndOK
<1> QED
    BY <1>2, <1>3 DEF ServiceInv

LEMMA TaskRuns ==
    ASSUME ServiceInv, NEW k \in ProductKeys, pt[k].task # "none" \/ pt[k].coll
    PROVE  cap.pc # "off"
    BY DEF ServiceInv, BeforeOK, NoProduct

LEMMA PollRuns == ASSUME ServiceInv, rc.pc # "none" PROVE cap.pc # "off"
    BY DEF ServiceInv, BeforeOK

\* A product's task ends: it is still in the tables when it failed.
LEMMA ProductEndsKeeps ==
    ASSUME ServiceInv, NEW k \in ProductKeys, ProductEnds(k)
    PROVE  ServiceInv'
<1>1. ServiceTypeOK /\ TablesOK /\ CaptureOK
    BY DEF ServiceInv
<1>2. /\ pt[k].task = "run" /\ UNCHANGED <<sv, cap, rc, dir, file, events>>
    BY DEF ProductEnds
<1>3. PICK t \in {"ended", "failed"} : pt' = [pt EXCEPT ![k].task = t]
    BY DEF ProductEnds
<1>4. /\ pt' \in [ProductKeys -> Product] /\ pt'[k].task = t
      /\ \A j \in ProductKeys : /\ pt'[j].coll = pt[j].coll /\ pt'[j].listed = pt[j].listed
                                /\ pt'[j].spool = pt[j].spool
                                /\ j # k => pt'[j] = pt[j]
    BY <1>1, <1>3 DEF ServiceTypeOK, Product
<1>5. \A j \in ProductKeys : (Working(j)' => Working(j)) /\ (Retiring(j)' <=> Retiring(j))
    BY <1>2, <1>4 DEF Working, Retiring, Next1
<1>6. CollectorSpools' = CollectorSpools
    BY <1>4 DEF CollectorSpools
<1>7. ServiceTypeOK'
    BY <1>1, <1>2, <1>4 DEF ServiceTypeOK
<1>8. TablesOK'
    BY <1>1, <1>4, <1>5 DEF TablesOK
<1>9. CaptureOK'
    BY <1>1, <1>2, <1>5, <1>6 DEF CaptureOK
<1>10. cap.pc # "off"
    BY <1>2, TaskRuns
<1> QED
    BY <1>2, <1>7, <1>8, <1>9, <1>10, CapturingKeeps

\* A step of the poll that leaves the products alone.
LEMMA PollingKeeps ==
    ASSUME ServiceInv, UNCHANGED <<sv, cap, pt, file, events>>, cap.pc # "off",
           ServiceTypeOK', rc.pc \notin {"await", "failed"},
           rc'.pc \in {"none", "wire", "sync"}, rc'.pc = "none" \/ rc.pc # "none" \/ cap.pc = "loop"
    PROVE  ServiceInv'
<1>1. TablesOK /\ CaptureOK
    BY DEF ServiceInv
<1>2. /\ \A k \in ProductKeys : (Working(k)' <=> Working(k)) /\ ~Retiring(k)
      /\ CollectorSpools' = CollectorSpools
    BY DEF Working, Retiring, CollectorSpools
<1>3. TablesOK'
    BY <1>1, <1>2 DEF TablesOK
<1>4. CaptureOK'
    BY <1>1, <1>2 DEF CaptureOK
<1> QED
    BY <1>3, <1>4, CapturingKeeps

LEMMA PollDirectoryKeeps == ASSUME ServiceInv, PollDirectory PROVE ServiceInv'
<1>1. ServiceTypeOK' /\ rc'.pc = "wire"
    BY DEF ServiceInv, ServiceTypeOK, PollDirectory
<1> QED
    BY <1>1, PollingKeeps DEF PollDirectory

LEMMA ReconcileBeginsKeeps == ASSUME ServiceInv, ReconcileBegins PROVE ServiceInv'
<1>1. ServiceTypeOK /\ rc.pc = "wire" /\ UNCHANGED <<sv, cap, pt, file, events>>
    BY DEF ServiceInv, ReconcileBegins
<1>2. rc'.pc = "sync"
      /\ rc' \in [pc : {"none", "wire", "sync", "await", "failed"}, todo : SUBSET ProductKeys]
    BY DEF ReconcileBegins
<1>3. dir' \in [ProductKeys -> [status : ListedStatuses \cup {"UNKNOWN", "MISSING"},
                                ver : 0..1]]
    <2> DEFINE Entry == [status : ListedStatuses \cup {"UNKNOWN", "MISSING"}, ver : 0..1]
    <2>1. PICK listed \in SUBSET ProductKeys :
             \E doc \in [listed -> [status : ListedStatuses, ver : 0..1]] :
                dir' = Applied(dir, doc)
        BY DEF ReconcileBegins
    <2>2. PICK doc \in [listed -> [status : ListedStatuses, ver : 0..1]] :
             dir' = Applied(dir, doc)
        BY <2>1
    <2>3. dir \in [ProductKeys -> Entry]
        BY <1>1 DEF ServiceTypeOK
    <2>4. ASSUME NEW e \in Entry PROVE [e EXCEPT !.status = "MISSING"] \in Entry
        OBVIOUS
    <2>5. ASSUME NEW k \in listed
          PROVE  [status |-> doc[k].status, ver |-> doc[k].ver] \in Entry
        <3>1. doc[k] \in [status : ListedStatuses, ver : 0..1]
            OBVIOUS
        <3> QED
            BY <3>1
    <2> HIDE DEF Entry
    <2>6. Applied(dir, doc) \in [ProductKeys -> Entry]
        BY <2>3, <2>4, <2>5 DEF Applied
    <2> QED
        BY <2>2, <2>6 DEF Entry
<1>4. ServiceTypeOK'
    BY <1>1, <1>2, <1>3 DEF ServiceTypeOK
<1> QED
    BY <1>1, <1>2, <1>4, PollRuns, PollingKeeps

LEMMA ReconcileEndsKeeps == ASSUME ServiceInv, ReconcileEnds PROVE ServiceInv'
<1>1. ServiceTypeOK' /\ rc'.pc = "none"
    BY DEF ServiceInv, ServiceTypeOK, ReconcileEnds, NoReconcile
<1> QED
    BY <1>1, PollRuns, PollingKeeps DEF ReconcileEnds

\* The poll takes the products in their order.
LEMMA NextIsToDo ==
    ASSUME ServiceTypeOK, rc.todo # {}
    PROVE  Next1 \in ProductKeys
<1>1. rc.todo \in SUBSET Nat
    BY ServiceAssumption DEF ServiceTypeOK, ProductKeys
<1>2. PICK n \in rc.todo : \A m \in rc.todo : ~(<<m, n>> \in OpToRel(<, Nat))
    BY <1>1, NatLessThanWellFounded, WFMin
<1>3. \A m \in rc.todo : n <= m
    <2> SUFFICES ASSUME NEW m \in rc.todo PROVE n <= m
        OBVIOUS
    <2>1. <<m, n>> \in Nat \X Nat /\ ~(<<m, n>>[1] < <<m, n>>[2])
        BY <1>1, <1>2 DEF OpToRel
    <2> QED
        BY <1>1, <2>1
<1>4. Min(rc.todo) \in rc.todo
    BY <1>3 DEF Min
<1> QED
    BY <1>4 DEF Next1, ServiceTypeOK

\* reconcile: a product is retired, kept, refused or admitted; admitted only while
\* nobody has asked for a stop.
LEMMA ReconcileKeyKeeps == ASSUME ServiceInv, ReconcileKey PROVE ServiceInv'
<1>1. /\ ServiceTypeOK /\ TablesOK /\ CaptureOK
      /\ rc.pc = "sync" /\ UNCHANGED <<sv, cap, dir, file, events>> /\ cap.pc # "off"
    BY PollRuns DEF ServiceInv, ReconcileKey
<1>2. PICK k \in ProductKeys : k = Next1
    BY <1>1, NextIsToDo DEF ReconcileKey
<1>3. CASE rc' = Skips(k) /\ UNCHANGED pt
    <2>1. ServiceTypeOK' /\ rc'.pc = "sync"
        BY <1>1, <1>3 DEF ServiceTypeOK, Skips
    <2> QED
        BY <1>1, <1>3, <2>1, PollingKeeps
<1>4. CASE /\ pt[k].coll
           /\ pt' = [pt EXCEPT ![k].stop = TRUE, ![k].listed = FALSE]
           /\ rc' = [rc EXCEPT !.pc = "await"]
    <2>1. /\ pt' \in [ProductKeys -> Product]
          /\ \A j \in ProductKeys : /\ pt'[j].task = pt[j].task /\ pt'[j].coll = pt[j].coll
                                    /\ pt'[j].spool = pt[j].spool
                                    /\ j # k => pt'[j] = pt[j]
        <3> DEFINE p == [pt[k] EXCEPT !.stop = TRUE, !.listed = FALSE]
        <3>1. pt \in [ProductKeys -> Product] /\ pt[k] \in Product
            BY <1>1 DEF ServiceTypeOK
        <3>2. pt' = [pt EXCEPT ![k] = p]
            BY <1>4, <3>1
        <3>3. p \in Product /\ p.task = pt[k].task /\ p.coll = pt[k].coll
              /\ p.spool = pt[k].spool
            BY <3>1 DEF Product
        <3> HIDE DEF p
        <3> QED
            BY <3>1, <3>2, <3>3
    <2>2. rc' \in [pc : {"none", "wire", "sync", "await", "failed"}, todo : SUBSET ProductKeys]
          /\ rc'.pc = "await" /\ Next1' = k
        BY <1>1, <1>2, <1>4 DEF ServiceTypeOK, Next1
    <2>3. /\ \A j \in ProductKeys : (Working(j)' <=> Working(j)) /\ ~Retiring(j)
          /\ Retiring(k)' /\ CollectorSpools' = CollectorSpools
        BY <1>1, <2>1, <2>2 DEF Working, Retiring, CollectorSpools
    <2>4. ServiceTypeOK'
        BY <1>1, <2>1, <2>2 DEF ServiceTypeOK
    <2>5. TablesOK'
        BY <1>1, <2>1, <2>3 DEF TablesOK
    <2>6. CaptureOK'
        BY <1>1, <2>2, <2>3 DEF CaptureOK
    <2> QED
        BY <1>1, <2>4, <2>5, <2>6, CapturingKeeps
<1>5. CASE /\ ~pt[k].coll /\ ~Refused(k)
           /\ rc' = Skips(k) /\ pt' = [pt EXCEPT ![k] = Admitted(k)]
    <2>1. ~sv.stop
        BY <1>5 DEF Refused
    <2>2. dir[k].ver \in 0..1
        BY <1>1 DEF ServiceTypeOK
    <2>3. Admitted(k) \in Product /\ Admitted(k).coll /\ Admitted(k).listed
        BY <2>2 DEF Admitted, Product
    <2>4. /\ pt' \in [ProductKeys -> Product] /\ pt'[k] = Admitted(k)
          /\ \A j \in ProductKeys : j # k => pt'[j] = pt[j]
        BY <1>1, <1>5, <2>3 DEF ServiceTypeOK
    <2>5. rc' \in [pc : {"none", "wire", "sync", "await", "failed"}, todo : SUBSET ProductKeys]
          /\ rc'.pc = "sync"
        BY <1>1, <1>5 DEF ServiceTypeOK, Skips
    <2>6. ServiceTypeOK'
        BY <1>1, <2>4, <2>5 DEF ServiceTypeOK
    <2>7. TablesOK'
        BY <1>1, <2>3, <2>4 DEF TablesOK, Working, Retiring
    <2>8. cap.pc \notin {"sealing", "done"}
        BY <1>1 DEF CaptureOK
    <2>9. CaptureOK'
        BY <1>1, <2>1, <2>8 DEF CaptureOK
    <2> QED
        BY <1>1, <2>6, <2>7, <2>9, CapturingKeeps
<1> QED
    BY <1>2, <1>3, <1>4, <1>5 DEF ReconcileKey

\* reconcile: the retired task leaves the tables when it ended well.
LEMMA ReconcileAwaitsKeeps == ASSUME ServiceInv, ReconcileAwaits PROVE ServiceInv'
<1>1. /\ ServiceTypeOK /\ TablesOK /\ CaptureOK
      /\ rc.pc = "await" /\ UNCHANGED <<sv, cap, dir, file, events>> /\ cap.pc # "off"
    BY PollRuns DEF ServiceInv, ReconcileAwaits
<1>2. rc \in [pc : {"none", "wire", "sync", "await", "failed"}, todo : SUBSET ProductKeys]
    BY <1>1 DEF ServiceTypeOK
<1>3. cap.pc \notin {"sealing", "done"}
    BY <1>1 DEF CaptureOK
<1>4. CASE rc' = [rc EXCEPT !.pc = "failed"] /\ UNCHANGED pt
    <2>1. ServiceTypeOK' /\ rc'.pc = "failed"
        BY <1>1, <1>2, <1>4 DEF ServiceTypeOK
    <2>2. TablesOK'
        BY <1>1, <1>4, <2>1 DEF TablesOK, Working, Retiring
    <2>3. CaptureOK'
        BY <1>1, <1>3, <2>1 DEF CaptureOK, Retiring
    <2> QED
        BY <1>1, <2>1, <2>2, <2>3, CapturingKeeps
<1>5. CASE /\ pt[Next1].task = "ended"
           /\ pt' = [pt EXCEPT ![Next1].coll = FALSE]
           /\ rc' = [rc EXCEPT !.pc = "sync"]
    <2>1. /\ pt' \in [ProductKeys -> Product]
          /\ \A j \in ProductKeys : /\ pt'[j].task = pt[j].task
                                    /\ pt'[j].listed = pt[j].listed
                                    /\ pt'[j].coll => pt[j].coll /\ j # Next1
                                    /\ j # Next1 => pt'[j].coll = pt[j].coll
        <3>1. pt \in [ProductKeys -> Product]
            BY <1>1 DEF ServiceTypeOK
        <3>2. PICK k : k = Next1
            OBVIOUS
        <3>3. CASE k \in ProductKeys
            <4> DEFINE p == [pt[k] EXCEPT !.coll = FALSE]
            <4>1. pt' = [pt EXCEPT ![k] = p]
                BY <1>5, <3>1, <3>2, <3>3
            <4>2. p \in Product /\ p.task = pt[k].task /\ p.listed = pt[k].listed /\ ~p.coll
                BY <3>1, <3>3 DEF Product
            <4> HIDE DEF p
            <4> QED
                BY <3>1, <3>2, <3>3, <4>1, <4>2
        <3>4. CASE k \notin ProductKeys
            BY <1>5, <3>1, <3>2, <3>4
        <3> QED
            BY <3>3, <3>4
    <2>2. rc' \in [pc : {"none", "wire", "sync", "await", "failed"}, todo : SUBSET ProductKeys]
          /\ rc'.pc = "sync"
        BY <1>2, <1>5
    <2>3. \A j \in ProductKeys : /\ Working(j)' <=> Working(j)
                                 /\ Working(j) => j # Next1
                                 /\ Retiring(j) <=> j = Next1
        BY <1>1, <1>5, <2>1 DEF Working, Retiring
    <2>4. ServiceTypeOK'
        BY <1>1, <2>1, <2>2 DEF ServiceTypeOK
    <2>5. TablesOK'
        BY <1>1, <2>1, <2>3 DEF TablesOK
    <2>6. CaptureOK'
        BY <1>1, <1>3, <2>3 DEF CaptureOK
    <2> QED
        BY <1>1, <2>4, <2>5, <2>6, CapturingKeeps
<1> QED
    BY <1>4, <1>5 DEF ReconcileAwaits

\* SelectedAssetCapture.run: the loop ends by a stop, or with an error.
LEMMA LoopEndsKeeps == ASSUME ServiceInv, LoopEnds PROVE ServiceInv'
<1>1. /\ ServiceTypeOK /\ TablesOK /\ CaptureOK /\ BeforeOK
      /\ cap \in Capture /\ cap.pc = "loop" /\ UNCHANGED <<sv, rc, dir, file>>
    BY DEF ServiceInv, ServiceTypeOK, LoopEnds
<1>2. PICK c \in {cap, [cap EXCEPT !.err = TRUE]} :
         StopsChildren(c) /\ (c = cap => sv.stop)
    <2>1. [cap EXCEPT !.err = TRUE] # cap
        BY <1>1 DEF BeforeOK, Capture
    <2> QED
        BY <2>1 DEF LoopEnds
<1>3. c \in Capture /\ c.left = {} /\ (~c.err => sv.stop)
    BY <1>1, <1>2 DEF BeforeOK, Capture
<1>4. cap' \in Capture /\ cap'.pc = "stopping" /\ cap'.left = {} /\ (~cap'.err => sv.stop)
    BY <1>2, <1>3 DEF StopsChildren, Capture
<1>5. /\ pt' \in [ProductKeys -> Product]
      /\ \A j \in ProductKeys : /\ pt'[j].task = pt[j].task /\ pt'[j].coll = pt[j].coll
                                /\ pt'[j].listed = pt[j].listed
    <2>1. ASSUME NEW j \in ProductKeys
          PROVE  /\ pt'[j] \in Product /\ pt'[j].task = pt[j].task
                 /\ pt'[j].coll = pt[j].coll /\ pt'[j].listed = pt[j].listed
        <3>1. pt[j] \in Product
            BY <1>1 DEF ServiceTypeOK
        <3>2. pt'[j] = [pt[j] EXCEPT !.stop = pt[j].stop \/ pt[j].listed]
            BY <1>2 DEF StopsChildren
        <3> QED
            BY <3>1, <3>2 DEF Product
    <2> QED
        BY <1>2, <2>1 DEF StopsChildren
<1>6. ServiceTypeOK'
    BY <1>1, <1>4, <1>5 DEF ServiceTypeOK
<1>7. TablesOK'
    BY <1>1, <1>5 DEF TablesOK, Working, Retiring, Next1
<1>8. CaptureOK'
    BY <1>1, <1>4 DEF CaptureOK
<1>9. events' \in {events, events \cup {"CORE_MARKET_TERMINAL_FAILURE"}}
    BY DEF LoopEnds
<1> QED
    BY <1>1, <1>4, <1>6, <1>7, <1>8, <1>9, CapturingKeeps

\* A step of run that leaves the products alone.
LEMMA CapSteps ==
    ASSUME ServiceInv, UNCHANGED <<sv, rc, pt, dir, file>>,
           events' \in {events, events \cup {"CORE_MARKET_TERMINAL_FAILURE"}},
           cap.pc \in {"stopping", "gather", "sealing"}, cap'.pc \notin {"off", "loop"},
           cap' \in Capture, CaptureOK'
    PROVE  ServiceInv'
<1>1. ServiceTypeOK' /\ TablesOK'
    BY SameTables DEF ServiceInv, ServiceTypeOK
<1> QED
    BY <1>1, CapturingKeeps

LEMMA GathersKeeps == ASSUME ServiceInv, Gathers PROVE ServiceInv'
<1>1. /\ TablesOK /\ CaptureOK /\ cap \in Capture
      /\ cap.pc = "stopping" /\ UNCHANGED <<sv, rc, pt, dir, file, events>>
    BY DEF ServiceInv, ServiceTypeOK, Gathers
<1>2. Listed \in SUBSET ProductKeys
    BY DEF Listed
<1>3. /\ cap' \in Capture /\ cap'.pc = "gather" /\ cap'.awaited = Listed
      /\ cap'.err = cap.err /\ cap'.cleanup = cap.cleanup /\ cap'.left = cap.left
    BY <1>1, <1>2 DEF Gathers, Capture
<1>4. \A k \in ProductKeys : /\ Working(k)' <=> Working(k)
                             /\ Retiring(k)' <=> Retiring(k)
                             /\ Working(k) => k \in Listed \/ Retiring(k)
    BY <1>1, SameTables DEF TablesOK, Listed
<1>5. CaptureOK'
    BY <1>1, <1>3, <1>4 DEF CaptureOK
<1> QED
    BY <1>1, <1>3, <1>5, CapSteps

\* Everything that was awaited has ended: what failed is an error of the cleanup.
LEMMA GatherEndsKeeps == ASSUME ServiceInv, GatherEnds PROVE ServiceInv'
<1>1. /\ CaptureOK /\ cap \in Capture /\ cap.pc = "gather"
      /\ UNCHANGED <<sv, rc, pt, dir, file>> /\ rc.pc \in {"none", "failed"}
    BY DEF ServiceInv, ServiceTypeOK, GatherEnds
<1> DEFINE cleanup == cap.cleanup \/ rc.pc = "failed" \/ Drained # {}
<1>2. cleanup \in BOOLEAN /\ cap' = [cap EXCEPT !.pc = "sealing", !.cleanup = cleanup]
    BY <1>1 DEF GatherEnds, Capture
<1>3. ~cleanup /\ ~cap.err => \A k \in ProductKeys : ~Working(k)
    <2> SUFFICES ASSUME ~cleanup, ~cap.err, NEW k \in ProductKeys, Working(k) PROVE FALSE
        OBVIOUS
    <2>1. k \in cap.awaited
        BY <1>1 DEF CaptureOK, Retiring
    <2>2. pt[k].task = "failed"
        BY <2>1 DEF GatherEnds, Working
    <2> QED
        BY <2>1, <2>2 DEF Drained
<1> HIDE DEF cleanup
<1>4. /\ cap' \in Capture /\ cap'.pc = "sealing" /\ cap'.err = cap.err
      /\ cap'.cleanup = cleanup /\ cap'.left = cap.left
    BY <1>1, <1>2 DEF Capture
<1>5. \A k \in ProductKeys : Working(k)' <=> Working(k)
    BY <1>1 DEF Working
<1>6. cap.cleanup => cleanup
    BY DEF cleanup
<1>7. CaptureOK'
    BY <1>1, <1>3, <1>4, <1>5, <1>6 DEF CaptureOK
<1>8. events' \in {events, events \cup {"CORE_MARKET_TERMINAL_FAILURE"}}
    BY DEF GatherEnds
<1> QED
    BY <1>1, <1>4, <1>7, <1>8, CapSteps

\* close_and_seal of the spools: what does not seal is an error of the cleanup.
LEMMA SealsKeeps == ASSUME ServiceInv, Seals PROVE ServiceInv'
<1>1. /\ CaptureOK /\ cap \in Capture /\ cap.pc = "sealing"
      /\ UNCHANGED <<sv, rc, pt, dir, file, events>>
    BY DEF ServiceInv, ServiceTypeOK, Seals
<1>2. PICK k \in ProductKeys : SealSpool(k)
    BY DEF Seals, CollectorSpools
<1>3. cap.sealed \cup {k} \in SUBSET ProductKeys /\ cap.left \cup {k} \in SUBSET ProductKeys
    BY <1>1 DEF Capture
<1>4. /\ cap' \in Capture /\ cap'.pc = "sealing" /\ cap'.err = cap.err
      /\ cap.cleanup => cap'.cleanup
      /\ cap'.left # cap.left => cap'.cleanup
    BY <1>1, <1>2, <1>3 DEF SealSpool, Capture
<1>5. \A j \in ProductKeys : Working(j)' <=> Working(j)
    BY <1>1 DEF Working
<1>6. CaptureOK'
    BY <1>1, <1>4, <1>5 DEF CaptureOK
<1> QED
    BY <1>1, <1>4, <1>6, CapSteps

LEMMA CaptureEndsKeeps == ASSUME ServiceInv, CaptureEnds PROVE ServiceInv'
<1>1. /\ CaptureOK /\ cap \in Capture /\ cap.pc = "sealing"
      /\ UNCHANGED <<sv, rc, pt, dir, file, events>>
      /\ CollectorSpools \subseteq cap.sealed \cup cap.left
    BY DEF ServiceInv, ServiceTypeOK, CaptureEnds
<1>2. PICK b \in BOOLEAN : /\ cap' = [cap EXCEPT !.pc = "done", !.broken = b]
                           /\ cap.err \/ cap.cleanup => b
    BY <1>1 DEF CaptureEnds, Capture
<1>3. /\ cap' \in Capture /\ cap'.pc = "done" /\ cap'.err = cap.err /\ cap'.broken = b
      /\ cap'.cleanup = cap.cleanup /\ cap'.left = cap.left /\ cap'.sealed = cap.sealed
    BY <1>1, <1>2 DEF Capture
<1>4. /\ CollectorSpools' = CollectorSpools
      /\ \A j \in ProductKeys : Working(j)' <=> Working(j)
    BY <1>1 DEF Working, CollectorSpools
<1>5. CaptureOK'
    BY <1>1, <1>2, <1>3, <1>4 DEF CaptureOK
<1> QED
    BY <1>1, <1>3, <1>5, CapSteps

-----------------------------------------------------------------------------
(* Service: the theorem. *)

LEMMA ServiceBegins == ServiceInit => ServiceInv
<1> SUFFICES ASSUME ServiceInit PROVE ServiceInv
    OBVIOUS
<1>1. /\ sv \in Runtime /\ sv.pc = "off" /\ sv.status = "STARTING" /\ sv.heart = "off"
      /\ sv.gauge = "off"
    BY DEF ServiceInit, NoRuntime, Runtime
<1>2. /\ cap \in Capture /\ cap.pc = "off" /\ ~cap.err /\ ~cap.cleanup /\ ~cap.broken
      /\ cap.left = {}
    BY DEF ServiceInit, NoCapture, Capture
<1>3. rc \in [pc : {"none", "wire", "sync", "await", "failed"}, todo : SUBSET ProductKeys]
      /\ rc.pc = "none"
    BY DEF ServiceInit, NoReconcile
<1>4. NoProduct \in Product /\ NoProduct.task = "none" /\ ~NoProduct.coll
    BY DEF NoProduct, Product
<1>5. pt = [k \in ProductKeys |-> NoProduct] /\ events = {}
    BY DEF ServiceInit
<1>6. ServiceTypeOK
    BY <1>1, <1>2, <1>3, <1>4, <1>5 DEF ServiceInit, ServiceTypeOK
<1> QED
    BY <1>1, <1>2, <1>3, <1>4, <1>5, <1>6
    DEF ServiceInv, StartOK, BeforeOK, TablesOK, CaptureOK, EndOK, Working

LEMMA ServiceSteps == ServiceInv /\ [ServiceNext]_svvars => ServiceInv'
<1> SUFFICES ASSUME ServiceInv, [ServiceNext]_svvars PROVE ServiceInv'
    OBVIOUS
<1>1. CASE \/ Start \/ Recovered \/ Measured \/ RequestStop \/ Heartbeat \/ Gauge
           \/ Wakes \/ CaptureAwaited \/ CleansUp \/ ProcessEnds \/ DiskFills
    BY <1>1, StartKeeps, RecoveredKeeps, MeasuredKeeps, RequestStopKeeps, HeartbeatKeeps,
       GaugeKeeps, WakesKeeps, CaptureAwaitedKeeps, CleansUpKeeps, ProcessEndsKeeps,
       DiskFillsKeeps
<1>2. CASE \/ \E k \in ProductKeys : ProductEnds(k)
           \/ PollDirectory \/ ReconcileBegins \/ ReconcileKey \/ ReconcileAwaits
           \/ ReconcileEnds
    BY <1>2, ProductEndsKeeps, PollDirectoryKeeps, ReconcileBeginsKeeps, ReconcileKeyKeeps,
       ReconcileAwaitsKeeps, ReconcileEndsKeeps
<1>3. CASE LoopEnds \/ Gathers \/ GatherEnds \/ Seals \/ CaptureEnds
    BY <1>3, LoopEndsKeeps, GathersKeeps, GatherEndsKeeps, SealsKeeps, CaptureEndsKeeps
<1>4. CASE UNCHANGED svvars
    <2>1. UNCHANGED <<sv, cap, rc, pt, dir, file, events>>
        BY <1>4 DEF svvars
    <2>2. TablesOK' /\ CollectorSpools' = CollectorSpools
          /\ \A k \in ProductKeys : (Working(k)' <=> Working(k))
                                    /\ (Retiring(k)' <=> Retiring(k))
        BY <2>1, SameTables DEF ServiceInv
    <2> QED
        BY <2>1, <2>2 DEF ServiceInv, ServiceTypeOK, StartOK, BeforeOK, CaptureOK, EndOK
<1> QED
    BY <1>1, <1>2, <1>3, <1>4 DEF ServiceNext

LEMMA ServiceInvImplies == ASSUME ServiceInv PROVE StatusIsTrue
<1>1. /\ StartOK /\ BeforeOK /\ TablesOK /\ CaptureOK /\ EndOK
      /\ pt \in [ProductKeys -> Product]
    BY DEF ServiceInv, ServiceTypeOK
<1>2. ReadyIsAlive
    BY <1>1 DEF ReadyIsAlive, ReadyVerdict, StartOK
<1>3. ASSUME "SERVICE_STOPPED" \in events, cap.pc = "off"
      PROVE  /\ ~cap.err /\ CollectorSpools \subseteq cap.sealed
             /\ \A k \in ProductKeys : pt[k].task \notin {"run", "failed"}
    BY <1>1, <1>3 DEF BeforeOK, NoProduct, CollectorSpools
<1>4. ASSUME "SERVICE_STOPPED" \in events, cap.pc = "done", ~cap.broken
      PROVE  /\ ~cap.err /\ CollectorSpools \subseteq cap.sealed
             /\ \A k \in ProductKeys : pt[k].task \notin {"run", "failed"}
    BY <1>1, <1>4 DEF CaptureOK, Working
<1>5. CleanStopIsClean
    BY <1>1, <1>3, <1>4 DEF CleanStopIsClean, EndOK
<1> QED
    BY <1>2, <1>5 DEF StatusIsTrue

\* ServiceRuntime.run, _publish_failure and SelectedAssetCapture.run with its poll: a
\* recorded stop hides no failed task, no unsealed spool and no running capture, and
\* readiness is read only of a process that has started its capture, for any number
\* of products, polls, failures and processes.
THEOREM StatusStaysTrue == ServiceSpec => []StatusIsTrue
<1>1. ServiceInv => StatusIsTrue
    BY ServiceInvImplies
<1> QED
    BY <1>1, ServiceBegins, ServiceSteps, PTL DEF ServiceSpec

-----------------------------------------------------------------------------
(* Capacity: the inductive invariants. *)

\* What an observer may hold: a disk that was there, or nothing read yet.
Pairs == Disks \cup {<<0, 0>>}

Observation == [pc : {"idle", "reading", "read", "recorded"}, at : Nat, disk : Pairs]

StopTypeOK ==
    /\ profile \in {"none", "vps"} /\ instant \in Nat /\ disk \in Pairs
    /\ DOMAIN samples \subseteq Nat /\ \A t \in DOMAIN samples : samples[t] \in Pairs
    /\ obs \in [Observers -> Observation]
    /\ capture \in [sealed : BOOLEAN, running : BOOLEAN]
    /\ emergency \in [stops : SUBSET Nat, gaps : SUBSET Nat]
    /\ coord = [pc |-> coord.pc, known |-> coord.known, decision |-> coord.decision]

Low(d) == d[2] <= Reserve(d[1])

\* Whatever was read or recorded as low as the reserve was really on the disk.
LowIsReached ==
    /\ Low(disk) => reached
    /\ \A o \in Observers : obs[o].pc # "idle" /\ Low(obs[o].disk) => reached
    /\ \A t \in DOMAIN samples : Low(samples[t]) => reached

\* What a round of the coordinator has done when it comes to a step.
RoundOK ==
    /\ coord.pc \in {"idle", "suspend", "look", "seal", "stop", "record", "gap", "done"}
    /\ coord.pc # "idle" => /\ coord.decision.total \in Nat /\ coord.decision.free \in Nat
                            /\ coord.decision.at \in Nat
                            /\ HardStopEligible(coord.decision) => reached
    /\ coord.pc \in {"look", "seal", "stop", "record", "gap"} => HardStopEligible(coord.decision)
    /\ coord.pc \in {"seal", "stop"} => (coord.known <=> emergency.stops # {})
    /\ coord.pc \in {"stop", "record", "gap"} => capture.sealed
    /\ coord.pc \in {"record", "gap"} => ~capture.running
    /\ coord.pc = "record" => emergency.stops = {}
    /\ coord.pc = "gap" => emergency.stops = {coord.decision.at}
    /\ coord.pc = "done" /\ HardStopEligible(coord.decision)
         /\ coord.decision.free <= EmergencyLevel(coord.decision.total)
         => capture.sealed /\ ~capture.running /\ emergency.stops # {}

OnRecord ==
    /\ obs["monitor"].pc = "recorded" => obs["monitor"].at \in DOMAIN samples
    /\ ~capture.running \/ emergency.stops # {} => reached
    /\ \A x, y \in emergency.stops : x = y
    /\ emergency.gaps \subseteq emergency.stops

StopInv == StopTypeOK /\ LowIsReached /\ RoundOK /\ OnRecord

Severities == {"none", "OK", "WARNING", "CRITICAL", "EMERGENCY"}

AlertInv ==
    /\ alert \in [state : Severities, events : Seq([from : Severities, to : Severities])]
    /\ samples = <<>> <=> alert.events = <<>>
    /\ samples = <<>> => alert.state = "none"
    /\ samples # <<>> => alert.state = SpaceSeverity(latest)
                         /\ alert.events[Len(alert.events)].to = alert.state
    /\ \A i \in 1..Len(alert.events) : alert.events[i].to # alert.events[i].from
    /\ \A i \in 1..(Len(alert.events) - 1) :
          alert.events[i].to = alert.events[i + 1].from

-----------------------------------------------------------------------------
LEMMA GreatestIs ==
    ASSUME NEW S \in SUBSET Nat, S # {}, NEW n \in Nat, \A x \in S : x <= n
    PROVE  Max(S) \in S /\ \A y \in S : y <= Max(S)
<1> DEFINE T == {n - x : x \in S}
<1>1. T \in SUBSET Nat /\ T # {}
    <2>1. \A x \in S : x \in Nat /\ n - x \in Nat
        OBVIOUS
    <2> QED
        BY <2>1
<1>2. PICK d \in T : \A m \in T : ~(<<m, d>> \in OpToRel(<, Nat))
    BY <1>1, NatLessThanWellFounded, WFMin
<1>3. \A m \in T : d <= m
    <2> SUFFICES ASSUME NEW m \in T PROVE d <= m
        OBVIOUS
    <2>1. <<m, d>> \in Nat \X Nat /\ ~(<<m, d>>[1] < <<m, d>>[2])
        BY <1>1, <1>2 DEF OpToRel
    <2> QED
        BY <2>1
<1>4. PICK x \in S : d = n - x
    BY <1>2
<1>5. \A y \in S : n - x <= n - y
    BY <1>3, <1>4
<1>6. \A y \in S : x >= y
    <2> SUFFICES ASSUME NEW y \in S PROVE x >= y
        OBVIOUS
    <2>1. x \in Nat /\ y \in Nat /\ n - x <= n - y
        BY <1>5
    <2> QED
        BY <2>1
<1>7. Max(S) \in S /\ \A y \in S : Max(S) >= y
    BY <1>6 DEF Max
<1> QED
    BY <1>7

LEMMA PairIs == ASSUME NEW d \in Pairs PROVE d[1] \in Nat /\ d[2] \in Nat
BY CapacityAssumption DEF Pairs

LEMMA ReserveIs ==
    ASSUME NEW total \in Nat
    PROVE  Reserve(total) \in Int /\ EmergencyLevel(total) \in Int
<1> DEFINE a == (total * 2) \div 100
           b == Rotation * 2
<1>1. a \in Int /\ b \in Int /\ (total * 5) \div 100 \in Int
    BY CapacityAssumption
<1> HIDE DEF a, b
<1>2. \E x \in {5, a, b} : \A y \in {5, a, b} : x >= y
    BY <1>1
<1>3. Max({5, a, b}) \in {5, a, b}
    BY <1>2 DEF Max
<1> QED
    BY <1>1, <1>3 DEF Reserve, HardReserve, EmergencyLevel, LargerOf, Level, a, b

LEMMA BucketIs == ASSUME NEW t \in Nat PROVE Bucketed(t) \in Nat
<1>1. t % Bucket \in Nat /\ t % Bucket <= t
    BY CapacityAssumption
<1> QED
    BY <1>1 DEF Bucketed

\* A disk as low as the policy's reserve and the emergency level is an emergency.
LEMMA DueIsEmergency ==
    ASSUME NEW times, NEW now, profile \in {"none", "vps"},
           Decide(times, now).free \in Nat,
           HardStopEligible(Decide(times, now)),
           Decide(times, now).free <= EmergencyLevel(Decide(times, now).total)
    PROVE  EmergencyState(Decide(times, now))
<1> DEFINE current == samples[Max({t \in DOMAIN samples : t <= now})]
           rates == RateOf(times, now)
           eta == Eta(now, current[2], Level["HARD_RESERVE"], rates)
<1> HIDE DEF current, rates
<1>1. /\ Decide(times, now).free = current[2] /\ Decide(times, now).total = current[1]
      /\ Decide(times, now).state
           = IF profile = "vps" THEN Worse(ClassifyAbsolute(current[2]), ClassifyEta(eta, now))
                                ELSE SpaceSeverity(current)
    BY DEF Decide, current, rates
<1>2. CASE profile = "vps"
    <2>1. current[2] \in Nat /\ current[2] <= 10
        BY <1>1, <1>2 DEF HardStopEligible, Reserve, Level
    <2>2. ClassifyEta(eta, now) = "HARD_RESERVE"
        BY <2>1 DEF ClassifyEta, Eta, Level
    <2>3. ClassifyAbsolute(current[2]) = "HARD_RESERVE"
        <3>1. /\ DOMAIN Level = {"HARD_RESERVE", "EMERGENCY", "CRITICAL", "WARNING"}
              /\ Level["HARD_RESERVE"] = 10 /\ Level["EMERGENCY"] = 12
              /\ Level["CRITICAL"] = 14 /\ Level["WARNING"] = 18
            BY DEF Level
        <3>2. \A s \in DOMAIN Level : Level[s] <= 10 => s = "HARD_RESERVE"
            BY <3>1
        <3>3. \A s \in DOMAIN Level : 10 <= Level[s] /\ current[2] <= Level[s]
            BY <2>1, <3>1
        <3>4. \E s \in DOMAIN Level :
                /\ current[2] <= Level[s]
                /\ \A t \in DOMAIN Level : current[2] <= Level[t] => Level[s] <= Level[t]
            BY <3>1, <3>3
        <3> QED
            BY <3>1, <3>2, <3>3, <3>4 DEF ClassifyAbsolute
    <2>4. Decide(times, now).state = "HARD_RESERVE"
        BY <1>1, <1>2, <2>2, <2>3 DEF Worse
    <2> QED
        BY <1>2, <2>4 DEF EmergencyState
<1>3. CASE profile # "vps"
    BY <1>1, <1>3 DEF EmergencyState, SpaceSeverity
<1> QED
    BY <1>2, <1>3

\* The monitor's decision is about a sample.
LEMMA DecisionIsSample ==
    ASSUME StopInv, obs["monitor"].pc = "recorded", NEW times
    PROVE  LET d == Decide(times, obs["monitor"].at)
           IN  /\ d.total \in Nat /\ d.free \in Nat /\ d.at \in Nat
               /\ HardStopEligible(d) => reached
<1> DEFINE now == obs["monitor"].at
           S == {t \in DOMAIN samples : t <= now}
           d == Decide(times, now)
<1>1. now \in DOMAIN samples /\ now \in Nat /\ S \in SUBSET Nat /\ now \in S
    BY DEF StopInv, OnRecord, StopTypeOK
<1>2. Max(S) \in S
    BY <1>1, GreatestIs
<1>3. samples[Max(S)] \in Pairs /\ (Low(samples[Max(S)]) => reached)
    BY <1>2 DEF StopInv, StopTypeOK, LowIsReached
<1>4. d.total = samples[Max(S)][1] /\ d.free = samples[Max(S)][2] /\ d.at = now
    BY DEF Decide
<1> QED
    BY <1>1, <1>3, <1>4, PairIs DEF HardStopEligible, Low

-----------------------------------------------------------------------------
(* Observing. *)

LEMMA MovesKeepsStops == ASSUME StopInv, DiskMoves PROVE StopInv'
<1>1. UNCHANGED <<profile, samples, obs, coord, capture, emergency>>
    BY DEF DiskMoves
<1>2. instant' \in Nat /\ disk' \in Pairs
    BY DEF DiskMoves, StopInv, StopTypeOK, Pairs
<1>3. (reached => reached') /\ (Low(disk)' => reached')
    BY <1>1 DEF DiskMoves, StopInv, StopTypeOK, Low, Reserve
<1>4. StopTypeOK'
    BY <1>1, <1>2, <1>3 DEF StopInv, StopTypeOK
<1>5. LowIsReached'
    BY <1>1, <1>3 DEF StopInv, LowIsReached, Low, Reserve
<1>6. RoundOK'
    BY <1>1, <1>3 DEF StopInv, RoundOK, HardStopEligible, Reserve
<1>7. OnRecord'
    BY <1>1, <1>3 DEF StopInv, OnRecord
<1> QED
    BY <1>4, <1>5, <1>6, <1>7 DEF StopInv

\* What a step of an observer has to respect.
LEMMA ObserverKeeps ==
    ASSUME StopInv, NEW o \in Observers, NEW next \in Observation, ObsGo(o, next),
           next.pc # "idle" /\ Low(next.disk) => reached,
           o = "monitor" => next.pc # "recorded",
           UNCHANGED <<profile, instant, disk, samples, coord, capture, emergency, reached>>
    PROVE  StopInv'
<1>1. /\ obs' \in [Observers -> Observation] /\ obs'[o] = next
      /\ \A u \in Observers : u # o => obs'[u] = obs[u]
    BY DEF StopInv, StopTypeOK, ObsGo
<1>2. StopTypeOK'
    BY <1>1 DEF StopInv, StopTypeOK
<1>3. LowIsReached'
    BY <1>1 DEF StopInv, LowIsReached, Low, Reserve
<1>4. RoundOK'
    BY DEF StopInv, RoundOK, HardStopEligible, Reserve
<1>5. OnRecord'
    BY <1>1 DEF StopInv, OnRecord, Observers
<1> QED
    BY <1>2, <1>3, <1>4, <1>5 DEF StopInv

LEMMA BeginKeepsStops ==
    ASSUME StopInv, NEW o \in Observers, BeginObservation(o) PROVE StopInv'
<1> DEFINE at == IF o = "command" THEN Bucketed(instant) ELSE instant
           next == [pc |-> "reading", disk |-> disk, at |-> at]
<1>1. at \in Nat
    BY BucketIs DEF StopInv, StopTypeOK
<1> HIDE DEF at
<1>2. next \in Observation /\ next.pc = "reading" /\ next.disk = disk
    BY <1>1 DEF Observation, StopInv, StopTypeOK
<1>3. ObsGo(o, next)
    BY DEF BeginObservation, at
<1>4. Low(next.disk) => reached
    BY <1>2 DEF StopInv, LowIsReached
<1> HIDE DEF next
<1>5. UNCHANGED <<profile, instant, disk, samples, coord, capture, emergency, reached>>
    BY DEF BeginObservation
<1> QED
    BY <1>2, <1>3, <1>4, <1>5, ObserverKeeps

LEMMA EndKeepsStops ==
    ASSUME StopInv, NEW o \in Observers, EndObservation(o) PROVE StopInv'
<1> DEFINE next == IF o = "recorder"
                     THEN [obs[o] EXCEPT !.pc = "read", !.at = Bucketed(instant)]
                     ELSE [obs[o] EXCEPT !.pc = "read", !.disk = disk]
<1>1. /\ Bucketed(instant) \in Nat /\ disk \in Pairs /\ obs[o] \in Observation
      /\ obs[o].pc = "reading" /\ (Low(obs[o].disk) => reached) /\ (Low(disk) => reached)
    BY BucketIs DEF StopInv, StopTypeOK, LowIsReached, EndObservation
<1>2. /\ next \in Observation /\ next.pc = "read" /\ next.disk \in {obs[o].disk, disk}
    BY <1>1 DEF Observation
<1>3. ObsGo(o, next)
    BY DEF EndObservation
<1> HIDE DEF next
<1>4. Low(next.disk) => reached
    BY <1>1, <1>2
<1>5. UNCHANGED <<profile, instant, disk, samples, coord, capture, emergency, reached>>
    BY DEF EndObservation
<1> QED
    BY <1>2, <1>3, <1>4, <1>5, ObserverKeeps

LEMMA RecordKeepsStops ==
    ASSUME StopInv, NEW o \in Observers, RecordSample(o) PROVE StopInv'
<1> DEFINE next == IF o = "monitor" THEN [obs[o] EXCEPT !.pc = "recorded"] ELSE Resting
<1>1. /\ obs[o] \in Observation /\ obs[o].pc = "read" /\ obs[o].at \in Nat
      /\ obs[o].disk \in Pairs /\ (Low(obs[o].disk) => reached)
    BY DEF StopInv, StopTypeOK, LowIsReached, RecordSample, Observation
<1>2. /\ next \in Observation /\ (next.pc # "idle" => o = "monitor")
      /\ o = "monitor" => next.at = obs[o].at /\ next.disk = obs[o].disk
    BY <1>1 DEF Observation, Resting, Pairs
<1>3. ObsGo(o, next)
    BY DEF RecordSample
<1> HIDE DEF next
<1>4. UNCHANGED <<profile, instant, disk, coord, capture, emergency, reached>>
    BY DEF RecordSample
<1>5. /\ obs' \in [Observers -> Observation] /\ obs'[o] = next
      /\ \A u \in Observers : u # o => obs'[u] = obs[u]
    BY <1>2, <1>3 DEF StopInv, StopTypeOK, ObsGo
<1>6. /\ DOMAIN samples' = DOMAIN samples \cup {obs[o].at}
      /\ \A t \in DOMAIN samples' : samples'[t] = obs[o].disk
                                      \/ (t \in DOMAIN samples /\ samples'[t] = samples[t])
    <2>1. CASE obs[o].at \in DOMAIN samples
        <3>1. samples' = samples
            BY <2>1 DEF RecordSample
        <3> QED
            BY <2>1, <3>1
    <2>2. CASE obs[o].at \notin DOMAIN samples
        <3>1. samples' = [t \in DOMAIN samples \cup {obs[o].at} |->
                            IF t = obs[o].at THEN obs[o].disk ELSE samples[t]]
            BY <2>2 DEF RecordSample
        <3> QED
            BY <3>1
    <2> QED
        BY <2>1, <2>2
<1>7. StopTypeOK'
    BY <1>1, <1>4, <1>5, <1>6 DEF StopInv, StopTypeOK
<1>8. LowIsReached'
    BY <1>1, <1>2, <1>4, <1>5, <1>6 DEF StopInv, LowIsReached, Low, Reserve
<1>9. RoundOK'
    BY <1>4 DEF StopInv, RoundOK, HardStopEligible, Reserve
<1>10. OnRecord'
    <2>1. obs'["monitor"].pc = "recorded" => obs'["monitor"].at \in DOMAIN samples'
        BY <1>2, <1>5, <1>6 DEF StopInv, OnRecord, Observers
    <2> QED
        BY <1>4, <2>1 DEF StopInv, OnRecord
<1> QED
    BY <1>7, <1>8, <1>9, <1>10 DEF StopInv

-----------------------------------------------------------------------------
(* The coordinator. *)

\* A step of the coordinator leaves disk, samples and readings as they are.
LEMMA CoordinatorKeeps ==
    ASSUME StopInv, UNCHANGED <<profile, instant, disk, samples, obs, reached>>,
           capture' \in [sealed : BOOLEAN, running : BOOLEAN],
           emergency' \in [stops : SUBSET Nat, gaps : SUBSET Nat],
           coord' = [pc |-> coord'.pc, known |-> coord'.known, decision |-> coord'.decision],
           ~capture'.running \/ emergency'.stops # {} => reached,
           \A x, y \in emergency'.stops : x = y,
           emergency'.gaps \subseteq emergency'.stops,
           RoundOK'
    PROVE  StopInv'
<1>1. StopTypeOK'
    BY DEF StopInv, StopTypeOK
<1>2. LowIsReached'
    BY DEF StopInv, LowIsReached, Low, Reserve
<1>3. OnRecord'
    BY DEF StopInv, OnRecord
<1> QED
    BY <1>1, <1>2, <1>3 DEF StopInv

LEMMA ApplyKeepsStops == ASSUME StopInv, Apply PROVE StopInv'
<1> DEFINE now == obs["monitor"].at
           d == Decide(ReadSet(now), now)
           pc == IF EmergencyState(d) THEN "suspend" ELSE "done"
<1>1. /\ obs["monitor"].pc = "recorded"
      /\ coord' = [coord EXCEPT !.decision = d, !.pc = pc]
      /\ ObsGo("monitor", Resting)
      /\ UNCHANGED <<profile, instant, disk, samples, capture, emergency, reached>>
    BY DEF Apply
<1>2. d.total \in Nat /\ d.free \in Nat /\ d.at \in Nat /\ (HardStopEligible(d) => reached)
    BY <1>1, DecisionIsSample
<1>3. /\ pc \in {"suspend", "done"}
      /\ pc = "done" /\ HardStopEligible(d) => ~(d.free <= EmergencyLevel(d.total))
    BY <1>2, DueIsEmergency DEF StopInv, StopTypeOK
<1> HIDE DEF d, pc
<1>4. coord' = [pc |-> pc, known |-> coord.known, decision |-> d]
    <2> DEFINE c == [coord EXCEPT !.decision = d]
    <2>1. c = [pc |-> coord.pc, known |-> coord.known, decision |-> d]
        BY DEF StopInv, StopTypeOK
    <2>2. coord' = [c EXCEPT !.pc = pc]
        BY <1>1
    <2> HIDE DEF c
    <2> QED
        BY <2>1, <2>2
<1>5. coord'.pc = pc /\ coord'.decision = d
    BY <1>4
<1>6. Resting \in Observation /\ Resting.pc = "idle"
    BY DEF Resting, Observation, Pairs
<1>7. /\ obs' \in [Observers -> Observation] /\ obs'["monitor"].pc = "idle"
      /\ \A u \in Observers : u # "monitor" => obs'[u] = obs[u]
    BY <1>1, <1>6 DEF StopInv, StopTypeOK, ObsGo, Observers
<1>8. StopTypeOK'
    BY <1>1, <1>4, <1>7 DEF StopInv, StopTypeOK
<1>9. LowIsReached'
    BY <1>1, <1>7 DEF StopInv, LowIsReached, Low, Reserve
<1>10. RoundOK'
    BY <1>1, <1>2, <1>3, <1>5 DEF RoundOK, HardStopEligible, Reserve
<1>11. OnRecord'
    BY <1>1, <1>7 DEF StopInv, OnRecord
<1> QED
    BY <1>8, <1>9, <1>10, <1>11 DEF StopInv

\* A new value of one field, the other two as before.
LEMMA CoordChanges ==
    ASSUME StopInv
    PROVE  /\ \A pc : CoordGoes(pc) => /\ coord'.pc = pc /\ coord'.known = coord.known
                                       /\ coord'.decision = coord.decision
                                       /\ coord' = [pc |-> coord'.pc, known |-> coord'.known,
                                                    decision |-> coord'.decision]
BY DEF StopInv, StopTypeOK, CoordGoes

LEMMA CoordSteps ==
    ASSUME StopInv, \/ SuspendNonCore \/ LookForStop \/ SealActive \/ StopCollectors
                    \/ RecordStop \/ OpenGap \/ NextRound
    PROVE  StopInv'
<1>1. /\ UNCHANGED <<profile, instant, disk, samples, obs, reached>>
    BY DEF SuspendNonCore, LookForStop, SealActive, StopCollectors, RecordStop, OpenGap, NextRound
<1>2. /\ capture \in [sealed : BOOLEAN, running : BOOLEAN]
      /\ emergency \in [stops : SUBSET Nat, gaps : SUBSET Nat]
      /\ coord = [pc |-> coord.pc, known |-> coord.known, decision |-> coord.decision]
      /\ (~capture.running \/ emergency.stops # {} => reached)
      /\ (\A x, y \in emergency.stops : x = y) /\ emergency.gaps \subseteq emergency.stops
    BY DEF StopInv, StopTypeOK, OnRecord
<1>3. CASE SuspendNonCore
    <2>1. UNCHANGED <<capture, emergency>> /\ coord.pc = "suspend"
        BY <1>3 DEF SuspendNonCore
    <2>2. /\ coord'.pc = IF HardStopEligible(coord.decision) THEN "look" ELSE "done"
          /\ coord'.known = coord.known /\ coord'.decision = coord.decision
          /\ coord' = [pc |-> coord'.pc, known |-> coord'.known, decision |-> coord'.decision]
        BY <1>3, CoordChanges DEF SuspendNonCore
    <2>3. RoundOK'
        BY <1>1, <2>1, <2>2 DEF StopInv, RoundOK, HardStopEligible, Reserve
    <2> QED
        BY <1>1, <1>2, <2>1, <2>2, <2>3, CoordinatorKeeps
<1>4. CASE LookForStop
    <2>1. /\ UNCHANGED <<capture, emergency>> /\ coord.pc = "look"
          /\ coord' = [coord EXCEPT !.pc = "seal", !.known = emergency.stops # {}]
        BY <1>4 DEF LookForStop
    <2>2. /\ coord'.pc = "seal" /\ (coord'.known <=> emergency.stops # {})
          /\ coord'.decision = coord.decision
          /\ coord' = [pc |-> coord'.pc, known |-> coord'.known, decision |-> coord'.decision]
        BY <1>2, <2>1
    <2>3. RoundOK'
        BY <1>1, <2>1, <2>2 DEF StopInv, RoundOK, HardStopEligible, Reserve
    <2> QED
        BY <1>1, <1>2, <2>1, <2>2, <2>3, CoordinatorKeeps
<1>5. CASE SealActive
    <2>1. /\ UNCHANGED emergency /\ coord.pc = "seal"
          /\ capture' = [capture EXCEPT !.sealed = TRUE]
        BY <1>5 DEF SealActive
    <2>2. /\ coord'.pc = "stop" /\ coord'.known = coord.known
          /\ coord'.decision = coord.decision
          /\ coord' = [pc |-> coord'.pc, known |-> coord'.known, decision |-> coord'.decision]
        BY <1>5, CoordChanges DEF SealActive
    <2>3. /\ capture' \in [sealed : BOOLEAN, running : BOOLEAN] /\ capture'.sealed
          /\ capture'.running = capture.running
        BY <1>2, <2>1
    <2>4. RoundOK'
        BY <1>1, <2>1, <2>2, <2>3 DEF StopInv, RoundOK, HardStopEligible, Reserve
    <2> QED
        BY <1>1, <1>2, <2>1, <2>2, <2>3, <2>4, CoordinatorKeeps
<1>6. CASE StopCollectors
    <2>1. /\ UNCHANGED emergency /\ coord.pc = "stop"
          /\ capture' = [capture EXCEPT !.running = FALSE]
        BY <1>6 DEF StopCollectors
    <2>2. /\ coord'.pc = IF coord.known THEN "done" ELSE "record"
          /\ coord'.known = coord.known /\ coord'.decision = coord.decision
          /\ coord' = [pc |-> coord'.pc, known |-> coord'.known, decision |-> coord'.decision]
        BY <1>6, CoordChanges DEF StopCollectors
    <2>3. /\ capture' \in [sealed : BOOLEAN, running : BOOLEAN] /\ ~capture'.running
          /\ capture'.sealed = capture.sealed
        BY <1>2, <2>1
    <2>4. reached
        BY <2>1 DEF StopInv, RoundOK
    <2>5. RoundOK'
        BY <1>1, <2>1, <2>2, <2>3 DEF StopInv, RoundOK, HardStopEligible, Reserve
    <2> QED
        BY <1>1, <1>2, <2>1, <2>2, <2>3, <2>4, <2>5, CoordinatorKeeps
<1>7. CASE RecordStop
    <2>1. /\ UNCHANGED capture /\ coord.pc = "record"
          /\ emergency' = [emergency EXCEPT !.stops = @ \cup {coord.decision.at}]
        BY <1>7 DEF RecordStop
    <2>2. /\ coord'.pc = "gap" /\ coord'.known = coord.known
          /\ coord'.decision = coord.decision
          /\ coord' = [pc |-> coord'.pc, known |-> coord'.known, decision |-> coord'.decision]
        BY <1>7, CoordChanges DEF RecordStop
    <2>3. reached /\ emergency.stops = {} /\ coord.decision.at \in Nat
        BY <2>1 DEF StopInv, RoundOK
    <2>4. /\ emergency' \in [stops : SUBSET Nat, gaps : SUBSET Nat]
          /\ emergency'.stops = {coord.decision.at} /\ emergency'.gaps = emergency.gaps
        BY <1>2, <2>1, <2>3
    <2>5. RoundOK'
        BY <1>1, <2>1, <2>2, <2>4 DEF StopInv, RoundOK, HardStopEligible, Reserve
    <2> QED
        BY <1>1, <1>2, <2>1, <2>2, <2>3, <2>4, <2>5, CoordinatorKeeps
<1>8. CASE OpenGap
    <2>1. /\ UNCHANGED capture /\ coord.pc = "gap"
          /\ emergency' = [emergency EXCEPT !.gaps = @ \cup {coord.decision.at}]
        BY <1>8 DEF OpenGap
    <2>2. /\ coord'.pc = "done" /\ coord'.known = coord.known
          /\ coord'.decision = coord.decision
          /\ coord' = [pc |-> coord'.pc, known |-> coord'.known, decision |-> coord'.decision]
        BY <1>8, CoordChanges DEF OpenGap
    <2>3. emergency.stops = {coord.decision.at} /\ coord.decision.at \in Nat
        BY <2>1 DEF StopInv, RoundOK
    <2>4. /\ emergency' \in [stops : SUBSET Nat, gaps : SUBSET Nat]
          /\ emergency'.stops = emergency.stops
          /\ emergency'.gaps = emergency.gaps \cup {coord.decision.at}
        BY <1>2, <2>1, <2>3
    <2>5. RoundOK'
        BY <1>1, <2>1, <2>2, <2>3, <2>4 DEF StopInv, RoundOK, HardStopEligible, Reserve
    <2> QED
        BY <1>1, <1>2, <2>1, <2>2, <2>3, <2>4, <2>5, CoordinatorKeeps
<1>9. CASE NextRound
    <2>1. /\ UNCHANGED emergency
          /\ coord' = [pc |-> "idle", known |-> FALSE, decision |-> None]
          /\ capture' = [capture EXCEPT !.sealed = FALSE]
        BY <1>9 DEF NextRound
    <2>2. coord'.pc = "idle"
          /\ coord' = [pc |-> coord'.pc, known |-> coord'.known, decision |-> coord'.decision]
        BY <2>1
    <2>3. /\ capture' \in [sealed : BOOLEAN, running : BOOLEAN]
          /\ capture'.running = capture.running
        BY <1>2, <2>1
    <2>4. RoundOK'
        BY <2>2 DEF RoundOK
    <2> QED
        BY <1>1, <1>2, <2>1, <2>2, <2>3, <2>4, CoordinatorKeeps
<1> QED
    BY <1>3, <1>4, <1>5, <1>6, <1>7, <1>8, <1>9

LEMMA RestartKeepsStops == ASSUME StopInv, RestartCapture PROVE StopInv'
<1>1. /\ UNCHANGED <<profile, instant, disk, samples, emergency, reached>>
      /\ obs' = [o \in Observers |-> IF o = "command" THEN obs[o] ELSE Resting]
      /\ coord' = [pc |-> "idle", known |-> FALSE, decision |-> None]
      /\ capture' = [sealed |-> FALSE, running |-> TRUE]
    BY DEF RestartCapture
<1>2. Resting \in Observation /\ Resting.pc = "idle"
    BY DEF Resting, Observation, Pairs
<1>3. /\ obs' \in [Observers -> Observation] /\ obs'["monitor"].pc = "idle"
      /\ \A u \in Observers : obs'[u] = obs[u] \/ obs'[u].pc = "idle"
    BY <1>1, <1>2 DEF StopInv, StopTypeOK, Observers
<1>4. /\ coord'.pc = "idle"
      /\ coord' = [pc |-> coord'.pc, known |-> coord'.known, decision |-> coord'.decision]
      /\ capture' \in [sealed : BOOLEAN, running : BOOLEAN] /\ capture'.running
    BY <1>1
<1>5. StopTypeOK'
    BY <1>1, <1>3, <1>4 DEF StopInv, StopTypeOK
<1>6. LowIsReached'
    BY <1>1, <1>3 DEF StopInv, LowIsReached, Low, Reserve
<1>7. RoundOK'
    BY <1>4 DEF RoundOK
<1>8. OnRecord'
    BY <1>1, <1>3, <1>4 DEF StopInv, OnRecord
<1> QED
    BY <1>5, <1>6, <1>7, <1>8 DEF StopInv

LEMMA StopBegins == CapInit => StopInv
<1> SUFFICES ASSUME CapInit PROVE StopInv
    OBVIOUS
<1>1. DOMAIN samples = {} /\ disk \in Pairs /\ profile \in {"none", "vps"} /\ instant = 1
    BY CapacityAssumption DEF CapInit, Pairs
<1>2. /\ Resting \in Observation /\ Resting.pc = "idle"
      /\ obs \in [Observers -> Observation] /\ \A o \in Observers : obs[o].pc = "idle"
    BY DEF CapInit, Resting, Observation, Pairs
<1>3. /\ capture \in [sealed : BOOLEAN, running : BOOLEAN] /\ capture.running
      /\ emergency \in [stops : SUBSET Nat, gaps : SUBSET Nat]
      /\ emergency.stops = {} /\ emergency.gaps = {} /\ coord.pc = "idle"
      /\ coord = [pc |-> coord.pc, known |-> coord.known, decision |-> coord.decision]
    BY DEF CapInit
<1>4. Low(disk) => reached
    BY DEF CapInit, Low
<1>5. StopTypeOK
    BY <1>1, <1>2, <1>3, <1>4 DEF StopTypeOK
<1>6. LowIsReached
    BY <1>1, <1>2, <1>4 DEF LowIsReached
<1>7. RoundOK
    BY <1>3 DEF RoundOK
<1>8. OnRecord
    BY <1>2, <1>3 DEF OnRecord, Observers
<1> QED
    BY <1>5, <1>6, <1>7, <1>8 DEF StopInv

LEMMA StopSteps == StopInv /\ [CapNext]_capvars => StopInv'
<1> SUFFICES ASSUME StopInv, [CapNext]_capvars PROVE StopInv'
    OBVIOUS
<1>1. CASE UNCHANGED capvars
    BY <1>1 DEF capvars, StopInv, StopTypeOK, LowIsReached, RoundOK, OnRecord, Low,
                HardStopEligible, Reserve
<1> QED
    BY <1>1, MovesKeepsStops, BeginKeepsStops, EndKeepsStops, RecordKeepsStops,
       ApplyKeepsStops, CoordSteps, RestartKeepsStops DEF CapNext

LEMMA StopIsSound == StopInv => StopIsEarnedAndComplete
<1> SUFFICES ASSUME StopInv PROVE StopIsEarnedAndComplete
    OBVIOUS
<1>1. Cardinality(emergency.stops) <= 1
    <2>1. CASE emergency.stops = {}
        BY <2>1, FS_EmptySet
    <2>2. CASE emergency.stops # {}
        <3>1. PICK x \in emergency.stops : TRUE
            BY <2>2
        <3>2. emergency.stops = {x}
            BY <3>1 DEF StopInv, OnRecord
        <3>3. Cardinality({x}) = 1
            BY FS_Singleton
        <3> QED
            BY <3>2, <3>3
    <2> QED
        BY <2>1, <2>2
<1>2. ASSUME coord.pc = "done",
             coord.decision.free <= Min({Reserve(coord.decision.total),
                                         EmergencyLevel(coord.decision.total)})
      PROVE  capture.sealed /\ ~capture.running /\ emergency.stops # {}
    <2> DEFINE r == Reserve(coord.decision.total)
               e == EmergencyLevel(coord.decision.total)
    <2>1. coord.decision.total \in Nat /\ coord.decision.free \in Nat
        BY <1>2 DEF StopInv, RoundOK
    <2>2. r \in Int /\ e \in Int
        BY <2>1, ReserveIs
    <2>3. Min({r, e}) <= r /\ Min({r, e}) <= e /\ Min({r, e}) \in Int
        <3> HIDE DEF r, e
        <3> QED
            BY <2>2 DEF Min
    <2>4. HardStopEligible(coord.decision) /\ coord.decision.free <= e
        <3>1. coord.decision.free <= r /\ coord.decision.free <= e
            <4> DEFINE m == Min({r, e})
            <4>1. coord.decision.free <= m
                BY <1>2
            <4>2. m <= r /\ m <= e /\ m \in Int
                BY <2>3
            <4> HIDE DEF r, e, m
            <4> QED
                BY <2>1, <2>2, <4>1, <4>2
        <3> QED
            BY <3>1 DEF HardStopEligible
    <2> QED
        BY <1>2, <2>4 DEF StopInv, RoundOK
<1> QED
    BY <1>1, <1>2 DEF StopInv, OnRecord, StopIsEarnedAndComplete

-----------------------------------------------------------------------------
(* The alerts. *)

LEMMA SeverityIs == ASSUME NEW d PROVE SpaceSeverity(d) \in Severities \ {"none"}
BY DEF SpaceSeverity, Severities

LEMMA AlertBegins == CapInit => AlertInv
<1> SUFFICES ASSUME CapInit PROVE AlertInv
    OBVIOUS
<1>1. /\ samples = <<>> /\ alert.events = <<>> /\ alert.state = "none"
      /\ alert = [state |-> "none", events |-> <<>>]
    BY DEF CapInit, None
<1>2. alert \in [state : Severities, events : Seq([from : Severities, to : Severities])]
    <2>1. ASSUME NEW R PROVE <<>> \in Seq(R)
        OBVIOUS
    <2>2. "none" \in Severities
        BY DEF Severities
    <2> QED
        BY <1>1, <2>1, <2>2
<1>3. Len(alert.events) = 0
    BY <1>1
<1> QED
    BY <1>1, <1>2, <1>3 DEF AlertInv

LEMMA AlertRecords ==
    ASSUME AlertInv, NEW o \in Observers, RecordSample(o) PROVE AlertInv'
<1> DEFINE severity == SpaceSeverity(obs[o].disk)
           e == [from |-> alert.state, to |-> severity]
<1>1. CASE UNCHANGED <<samples, alert, latest>>
    BY <1>1 DEF AlertInv
<1>2. CASE /\ samples' = [t \in DOMAIN samples \cup {obs[o].at} |->
                             IF t = obs[o].at THEN obs[o].disk ELSE samples[t]]
           /\ alert' = Alerted(o) /\ latest' = obs[o].disk
    <2>1. samples' # <<>>
        <3>1. obs[o].at \in DOMAIN samples'
            BY <1>2
        <3>2. DOMAIN <<>> = {}
            OBVIOUS
        <3> QED
            BY <3>1, <3>2
    <2>2. severity \in Severities /\ SpaceSeverity(latest)' = severity
        BY <1>2, SeverityIs DEF SpaceSeverity, EmergencyLevel, LargerOf
    <2>3. /\ alert.state \in Severities /\ alert.events \in Seq([from : Severities, to : Severities])
        BY DEF AlertInv
    <2>4. CASE severity = alert.state /\ samples # <<>>
        <3>1. alert' = alert
            BY <1>2, <2>4 DEF Alerted
        <3> QED
            BY <2>1, <2>2, <2>4, <3>1 DEF AlertInv
    <2>5. CASE severity # alert.state
        <3>1. alert' = [state |-> severity, events |-> Append(alert.events, e)]
            BY <1>2, <2>5 DEF Alerted
        <3> HIDE DEF severity
        <3>2. e \in [from : Severities, to : Severities] /\ e.from = alert.state /\ e.to = severity
            BY <2>2, <2>3
        <3> HIDE DEF e
        <3> DEFINE n == Len(alert.events)
        <3>3. /\ Append(alert.events, e) \in Seq([from : Severities, to : Severities])
              /\ Len(Append(alert.events, e)) = n + 1 /\ n \in Nat
              /\ Append(alert.events, e)[n + 1] = e
              /\ \A i \in 1..n : Append(alert.events, e)[i] = alert.events[i]
            BY <2>3, <3>2
        <3>4. /\ alert'.state = severity /\ alert'.events = Append(alert.events, e)
              /\ alert' \in [state : Severities, events : Seq([from : Severities, to : Severities])]
            BY <2>2, <3>1, <3>3
        <3>5. /\ Len(alert'.events) = n + 1 /\ alert'.events[n + 1] = e
              /\ \A i \in 1..n : alert'.events[i] = alert.events[i]
            BY <3>3, <3>4
        <3>6. alert'.events # <<>>
            BY <3>3, <3>5
        <3>7. \A i \in 1..(n + 1) : alert'.events[i].to # alert'.events[i].from
            BY <2>5, <3>2, <3>3, <3>5 DEF AlertInv, n
        <3>8. n > 0 => alert.events[n].to = alert.state
            BY <2>3 DEF AlertInv
        <3>9. ASSUME NEW i \in 1..n PROVE alert'.events[i].to = alert'.events[i + 1].from
            <4>1. CASE i = n
                BY <3>2, <3>3, <3>5, <3>8, <4>1
            <4>2. CASE i # n
                <5>1. i \in 1..(n - 1) /\ i + 1 \in 1..n
                    BY <3>3, <4>2
                <5> QED
                    BY <3>5, <5>1 DEF AlertInv
            <4> QED
                BY <4>1, <4>2
        <3>10. (n + 1) - 1 = n
            BY <3>3
        <3> HIDE DEF n
        <3> QED
            BY <2>1, <2>2, <3>2, <3>4, <3>5, <3>6, <3>7, <3>9, <3>10 DEF AlertInv
    <2>6. CASE severity = alert.state /\ samples = <<>>
        BY <2>6, SeverityIs DEF AlertInv
    <2> QED
        BY <2>4, <2>5, <2>6
<1> QED
    BY <1>1, <1>2 DEF RecordSample

LEMMA AlertSteps == AlertInv /\ [CapNext]_capvars => AlertInv'
<1> SUFFICES ASSUME AlertInv, [CapNext]_capvars PROVE AlertInv'
    OBVIOUS
<1>1. ASSUME UNCHANGED <<samples, alert, latest>> PROVE AlertInv'
    BY <1>1 DEF AlertInv, SpaceSeverity, EmergencyLevel, LargerOf
<1>2. ASSUME NEW o \in Observers, BeginObservation(o) \/ EndObservation(o) PROVE AlertInv'
    BY <1>1, <1>2 DEF BeginObservation, EndObservation
<1>3. ASSUME \/ DiskMoves \/ Apply \/ SuspendNonCore \/ LookForStop \/ SealActive
             \/ StopCollectors \/ RecordStop \/ OpenGap \/ NextRound \/ RestartCapture
      PROVE  AlertInv'
    BY <1>1, <1>3 DEF DiskMoves, Apply, SuspendNonCore, LookForStop, SealActive,
                      StopCollectors, RecordStop, OpenGap, NextRound, RestartCapture
<1>4. CASE UNCHANGED capvars
    BY <1>1, <1>4 DEF capvars
<1> QED
    BY <1>2, <1>3, <1>4, AlertRecords DEF CapNext

LEMMA AlertIsSound == AlertInv => AlertsFollow
<1> SUFFICES ASSUME AlertInv PROVE AlertsFollow
    OBVIOUS
<1>1. alert.events \in Seq([from : Severities, to : Severities]) /\ Len(alert.events) \in Nat
    BY DEF AlertInv
<1>2. Last(alert.events) = alert.events[Len(alert.events)]
    BY DEF Last
<1>3. ASSUME NEW i \in 1..(Len(alert.events) - 1) PROVE i \in 1..Len(alert.events)
    BY <1>1
<1> QED
    BY <1>2, <1>3 DEF AlertInv, AlertsFollow

-----------------------------------------------------------------------------
(* The forecast. *)

LEMMA GreatestIsOne ==
    ASSUME NEW S \in SUBSET Nat, NEW m \in S, \A y \in S : y <= m
    PROVE  Max(S) = m
<1>1. Max(S) \in S /\ \A y \in S : y <= Max(S)
    BY GreatestIs
<1>2. Max(S) \in Nat /\ m \in Nat /\ m <= Max(S) /\ Max(S) <= m
    BY <1>1
<1> QED
    BY <1>2

\* The bounded read holds all that a window of the policy selects: its inside, and the
\* anchor before it, which is the last sample of all that are as old.
LEMMA ReadSetIsEnough ==
    ASSUME DOMAIN samples \subseteq Nat, NEW now \in Nat, NEW w \in Windows
    PROVE  WindowSamples(ReadSet(now), now, w) = WindowSamples(DOMAIN samples, now, w)
<1> DEFINE longest == Max(Windows)
           cutoff == now - w
           all == {t \in DOMAIN samples : t <= cutoff}
           read == {t \in ReadSet(now) : t <= cutoff}
           before == {t \in DOMAIN samples : t <= now - longest}
<1>1. longest \in Nat /\ w \in Nat /\ w > 0 /\ w <= longest
    <2>1. PICK v \in Windows : \A u \in Windows : u <= v
        BY CapacityAssumption
    <2>2. Windows \in SUBSET Nat /\ longest = v
        BY <2>1, CapacityAssumption, GreatestIsOne
    <2> QED
        BY <2>1, <2>2, CapacityAssumption
<1> HIDE DEF longest
<1>2. ReadSet(now) = {t \in DOMAIN samples : now - longest < t /\ t <= now}
                       \cup (IF before = {} THEN {} ELSE {Max(before)})
    BY DEF ReadSet, longest
<1>3. before # {} => Max(before) \in before /\ \A y \in before : y <= Max(before)
    <2> SUFFICES ASSUME before # {} PROVE Max(before) \in before
                                          /\ \A y \in before : y <= Max(before)
        OBVIOUS
    <2>1. before \in SUBSET Nat /\ \A y \in before : y <= now
        BY <1>1
    <2> QED
        BY <2>1, GreatestIs
<1>4. ReadSet(now) \subseteq DOMAIN samples
    BY <1>2, <1>3
<1>5. ASSUME NEW t \in DOMAIN samples, cutoff < t, t <= now PROVE t \in ReadSet(now)
    <2>1. t \in Nat /\ now - longest < t
        BY <1>1, <1>5
    <2> QED
        BY <1>2, <1>5, <2>1
<1>6. ASSUME all # {} PROVE Max(all) \in read /\ Max(read) = Max(all)
    <2>1. all \in SUBSET Nat /\ \A y \in all : y <= now
        BY <1>1
    <2>2. Max(all) \in all /\ \A y \in all : y <= Max(all)
        BY <1>6, <2>1, GreatestIs
    <2>3. Max(all) \in ReadSet(now)
        <3>1. CASE now - longest < Max(all)
            <4>1. Max(all) <= now /\ Max(all) \in DOMAIN samples
                BY <2>1, <2>2
            <4> QED
                BY <1>2, <3>1, <4>1
        <3>2. CASE ~(now - longest < Max(all))
            <4>1. Max(all) \in before
                BY <1>1, <2>1, <2>2, <3>2
            <4>2. before \subseteq all
                BY <1>1
            <4>3. Max(before) \in before /\ Max(all) <= Max(before) /\ Max(before) <= Max(all)
                BY <1>3, <2>2, <4>1, <4>2
            <4>4. Max(before) \in Nat /\ Max(all) \in Nat
                BY <2>1, <2>2, <4>2, <4>3
            <4>5. Max(before) = Max(all)
                BY <4>3, <4>4
            <4> QED
                BY <1>2, <4>1, <4>5
        <3> QED
            BY <3>1, <3>2
    <2>4. Max(all) \in read
        BY <2>2, <2>3
    <2>5. read \in SUBSET Nat /\ \A y \in read : y <= Max(all)
        BY <1>4, <2>1, <2>2
    <2> QED
        BY <2>4, <2>5, GreatestIsOne
<1>7. all = {} => read = {}
    BY <1>4
<1>8. {t \in ReadSet(now) : cutoff < t /\ t <= now}
        = {t \in DOMAIN samples : cutoff < t /\ t <= now}
    BY <1>4, <1>5
<1>9. {t \in read : t = Max(read) /\ (cutoff - t) * 5 <= w}
        = {t \in all : t = Max(all) /\ (cutoff - t) * 5 <= w}
    <2>1. CASE all = {}
        BY <1>7, <2>1
    <2>2. CASE all # {}
        <3>1. read \subseteq all /\ Max(all) \in read /\ Max(read) = Max(all)
            BY <1>4, <1>6, <2>2
        <3> HIDE DEF all, read
        <3> QED
            BY <3>1
    <2> QED
        BY <2>1, <2>2
<1> QED
    BY <1>8, <1>9 DEF WindowSamples

LEMMA ForecastFollows == StopInv => ForecastIsExact
<1> SUFFICES ASSUME StopInv, NEW now \in 1..MaxInstant
             PROVE  Decide(ReadSet(now), now) = Decide(DOMAIN samples, now)
    BY DEF ForecastIsExact
<1>1. DOMAIN samples \subseteq Nat /\ now \in Nat
    BY DEF StopInv, StopTypeOK
<1>2. ASSUME NEW w \in Windows
      PROVE  WindowRate(ReadSet(now), now, w) = WindowRate(DOMAIN samples, now, w)
    BY <1>1, ReadSetIsEnough DEF WindowRate
<1>3. RateOf(ReadSet(now), now) = RateOf(DOMAIN samples, now)
    BY <1>2 DEF RateOf
<1> QED
    BY <1>3 DEF Decide

\* Forecasts from the bounded read decide as the whole history would; the alert events
\* lead, each from where the last one ended, to the state of the sample recorded last; and
\* capture is stopped for space only when the disk has really been as low as the reserve,
\* with everything sealed, the collectors stopped and one event on record when the
\* coordinator is done, through any kills and restarts, for all disks, policies, rotations,
\* windows and bounds.
THEOREM CapacityStaysSound == CapSpec => []CapacityIsSound
<1>1. CapInit => StopInv /\ AlertInv
    BY StopBegins, AlertBegins
<1>2. StopInv /\ AlertInv /\ [CapNext]_capvars => (StopInv /\ AlertInv)'
    BY StopSteps, AlertSteps
<1>3. StopInv /\ AlertInv => CapacityIsSound
    BY ForecastFollows, StopIsSound, AlertIsSound DEF CapacityIsSound
<1> QED
    BY <1>1, <1>2, <1>3, PTL DEF CapSpec
=============================================================================
