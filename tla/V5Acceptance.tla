----------------------------- MODULE V5Acceptance -----------------------------
(***************************************************************************)
(* The fifth generation of acceptance evidence (service/acceptance_v5_*.py *)
(* and storage/acceptance_delta.py).  A timed stage follows three append-  *)
(* only ledgers of the Catalog with cursors: each observation reads the    *)
(* process first (V5Begins), the ledgers in one read transaction later     *)
(* (V5Snapshot) and the files last, in a worker that may run out of time   *)
(* (V5Observe), and publishes what it acknowledged with the continuation   *)
(* it will go on from.  The first reading of the process is T0.  After the *)
(* target the services are stopped, a corpus is frozen between two probes  *)
(* and two backups, and a full audit rereads every chunk, is resumable,    *)
(* and is verified by a second full reading before its root is published.  *)
(*                                                                         *)
(* The recorder, the archive worker and the disk move between any two of   *)
(* these steps.  A chunk is a number, its bytes are good or bad per copy,  *)
(* the connection change at its first frame is "same", "marked" or         *)
(* "silent".  The readiness episodes and clock rules of a sample are those *)
(* of module Acceptance; here a sample is always ready.                    *)
(***************************************************************************)
EXTENDS Integers, Sequences, FiniteSets, SequencesExt, FiniteSetsExt

CONSTANTS V5Chunks,        \* chunks that may exist, 1 .. V5Chunks
          V5Baselines,     \* pairs: steps of its life that chunk 1 has behind it at the
                           \* baseline audit, and when the stage is set up
          ReferenceCap,    \* causal_reference_cap of the delta policy
          PageCap,         \* rows of one family in one observation
          V5Duration,      \* STAGE_DURATION_NS, in ticks
          MaxV5Moves,      \* moves of recorder, archive worker and disk before the target
          MaxLateMoves,    \* such moves after it, the sanctioned stop not counted
          MaxV5Docs,       \* observations of the stage, its start included
          MaxV5Kills       \* kills of the observer or the auditor

ASSUME V5ChunksAssumption == V5Chunks \in Nat \ {0}
ASSUME V5BaselinesAssumption == \A b \in V5Baselines : b[1] \in 0..8 /\ b[2] \in b[1]..8
ASSUME V5BoundsAssumption == /\ ReferenceCap \in Nat /\ PageCap \in Nat \ {0} /\ V5Duration \in Nat
                             /\ MaxV5Moves \in Nat /\ MaxLateMoves \in Nat
                             /\ MaxV5Docs \in Nat /\ MaxV5Kills \in Nat

VARIABLES vw,      \* Catalog ledgers, files and services
          vo,      \* the observer process
          vdocs,   \* published stage-start and samples
          vtarget, \* published stage-target, or NoTarget
          vt       \* terminal corpus, audit and final

v5vars == <<vw, vo, vdocs, vtarget, vt>>

Families == <<"oper", "chunk", "arch">>
Fams == {"oper", "chunk", "arch"}
Life == <<"ACTIVE", "SEALING", "SEALED", "ARCHIVE_COPYING", "ARCHIVE_VERIFYING",
          "ARCHIVED_VERIFIED", "LOCAL_DELETE_PENDING", "LOCAL_DELETED">>
ArchiveSteps == {Life[i] : i \in 4..8}
Backlog == {Life[i] : i \in 4..7}
Unsealed == {"ACTIVE", "SEALING"}
NoTarget == [result |-> "none"]

Row(c, from, to) == [c |-> c, from |-> from, to |-> to]

-----------------------------------------------------------------------------
(* Reading the ledgers up to a high-water mark.                              *)

HighWater(log) == [f \in Fams |-> Len(log[f])]

ChunkState(log, hw, c) ==
    LET ids == {i \in 1..hw["chunk"] : log["chunk"][i].c = c}
    IN  IF ids = {} THEN "none" ELSE log["chunk"][Max(ids)].to

OpenChunks(log, hw) == {c \in 1..V5Chunks : ChunkState(log, hw, c) \in Unsealed}

ArchiveBacklog(log, hw) ==
    [s \in Backlog |-> Cardinality({c \in 1..V5Chunks : ChunkState(log, hw, c) = s})]

\* The rows that one row refers to: the whole life cycle of its archive
\* transaction, or the two events of its discontinuity.
Companions(log, hw, f, id) ==
    LET c == log[f][id].c IN
    IF f = "oper"
    THEN {<<"oper", i>> : i \in {k \in 1..hw["oper"] :
             c # 0 /\ log["oper"][k].c = c}}
    ELSE {<<"arch", i>> : i \in {k \in 1..hw["arch"] : log["arch"][k].c = c}}
         \cup {<<"chunk", i>> : i \in {k \in 1..hw["chunk"] :
             log["chunk"][k].c = c /\ log["chunk"][k].to \in ArchiveSteps}}

\* An archive step is one event and one transition; a snapshot that has one
\* without the other leaves the row pending.
Corroborated(log, hw, f, id) ==
    f = "oper" \/ LET refs == Companions(log, hw, f, id) IN
        Cardinality({r \in refs : r[1] = "arch"})
          = Cardinality({r \in refs : r[1] = "chunk"})

-----------------------------------------------------------------------------
(* Initial states: a baseline audit of a quiescent world has passed, and     *)
(* recorder and archive worker have gone on since.                           *)

BaselineLog(k) ==
    [oper |-> <<>>,
     chunk |-> [i \in 1..k |-> Row(1, IF i = 1 THEN "none" ELSE Life[i-1], Life[i])],
     arch |-> [i \in 1..(IF k > 3 THEN k - 3 ELSE 0) |->
                 Row(1, IF i = 1 THEN "none" ELSE Life[i+2], Life[i+3])]]

EmptyContinuation(log) ==
    [processed |-> HighWater(log), seen |-> HighWater(log), refs |-> {}, gap |-> 0,
     counts |-> ArchiveBacklog(log, HighWater(log)), found |-> {}]

FreshObserver(log) ==
    [pc |-> "off", live |-> [inv |-> 0, t |-> 0], snap |-> HighWater(log),
     cont |-> EmptyContinuation(log)]

FreshAudit ==
    [pc |-> "idle", cert |-> 0, high |-> <<>>, mans |-> {}, corpus |-> FALSE,
     shards |-> <<>>, memory |-> <<>>, verified |-> {}, hurt |-> {},
     root |-> "none", final |-> "none", kills |-> 0]

V5Init ==
    \E b \in V5Baselines :
        LET base == BaselineLog(b[1])
            k == b[2]
        IN
        /\ vw = [log |-> BaselineLog(k), base |-> HighWater(base),
                 old |-> {c \in {1} : b[1] > 0},
                 local |-> {c \in {1} : k \in 3..7}, man |-> {c \in {1} : k > 2},
                 edge |-> [c \in 1..V5Chunks |-> "same"], bad |-> {}, gap |-> 0,
                 gaps |-> 0, svc |-> TRUE, inv |-> 1, t |-> 0,
                 n |-> IF b[1] = k THEN 0 ELSE MaxV5Moves - 1]
        /\ vo = FreshObserver(base)
        /\ vdocs = <<>>
        /\ vtarget = NoTarget
        /\ vt = FreshAudit

-----------------------------------------------------------------------------
(* The world: recorder, archive worker, disk, clock.                         *)

Moved(w) == [w EXCEPT !.n = @ + 1]
Append1(log, f, row) == [log EXCEPT ![f] = Append(@, row)]
Now(c) == ChunkState(vw.log, HighWater(vw.log), c)
Becomes(next) == vw' = next /\ UNCHANGED <<vo, vdocs, vtarget, vt>>
World(next) ==
    /\ vw.n < MaxV5Moves + (IF vtarget = NoTarget THEN 0 ELSE MaxLateMoves)
    /\ Becomes(Moved(next))

\* The first frame of a chunk on another connection completes the open gap;
\* with no gap recorded the change is silent.
RecorderOpens(c, edge) ==
    /\ vw.svc /\ Now(c) = "none" /\ \A d \in 1..(c - 1) : Now(d) # "none"
    /\ vw.gap # 0 <=> edge = "marked"
    /\ World([vw EXCEPT
         !.log = LET l == Append1(vw.log, "chunk", Row(c, "none", "ACTIVE"))
                 IN IF vw.gap = 0 THEN l ELSE Append1(l, "oper", Row(vw.gap, "", "completed")),
         !.gap = 0, !.edge[c] = edge,
         !.old = IF vo.pc = "off" THEN @ \cup {c} ELSE @])

Sealed(w, c) ==
    [w EXCEPT !.log = Append1(@, "chunk", Row(c, "SEALING", "SEALED")),
              !.local = @ \cup {c}, !.man = @ \cup {c}]

RecorderSeals(c) ==
    /\ vw.svc
    /\ \/ /\ Now(c) = "ACTIVE"
          /\ World([vw EXCEPT !.log = Append1(@, "chunk", Row(c, "ACTIVE", "SEALING"))])
       \/ Now(c) = "SEALING" /\ Becomes(Sealed(vw, c))

V5GapStarts ==
    /\ vw.svc /\ vw.gap = 0
    /\ World([vw EXCEPT !.log = Append1(@, "oper", Row(vw.gaps + 1, "", "started")),
                        !.gap = vw.gaps + 1, !.gaps = @ + 1])

\* An event names its instant: before T0 of the stage, or since then.
Era == IF vo.pc = "off" THEN "before" ELSE "since"

\* A stop seals what is open and says so; a kill does neither.
RecorderStops ==
    /\ vw.svc /\ OpenChunks(vw.log, HighWater(vw.log)) = {}
    /\ LET stopped == [vw EXCEPT !.svc = FALSE, !.log = Append1(@, "oper", Row(0, Era, "stopped"))]
       IN  \/ vtarget = NoTarget /\ World(stopped)
           \/ vtarget # NoTarget /\ Becomes(stopped)

RecorderDies == vw.svc /\ World([vw EXCEPT !.svc = FALSE])

RecorderStarts == ~vw.svc /\ World([vw EXCEPT !.svc = TRUE, !.inv = @ + 1])

\* The archive worker, by its timer or by hand: one event and one transition
\* in one transaction; the file goes between the last two.
ArchiveMoves(c) ==
    \E i \in 4..8 :
        /\ Now(c) = Life[i - 1]
        /\ i = 8 => c \notin vw.local
        /\ World([vw EXCEPT !.log = Append1(
               Append1(@, "chunk", Row(c, Life[i - 1], Life[i])),
               "arch", Row(c, IF i = 4 THEN "none" ELSE Life[i - 1], Life[i]))])

ArchiveUnlinks(c) ==
    /\ Now(c) = "LOCAL_DELETE_PENDING" /\ c \in vw.local
    /\ Becomes([vw EXCEPT !.local = @ \ {c}])

DiskDamages(c, copy) ==
    /\ copy = "local" => c \in vw.local
    /\ copy = "archive" => Now(c) \in {Life[i] : i \in 6..8}
    /\ <<c, copy>> \notin vw.bad
    /\ World([vw EXCEPT !.bad = @ \cup {<<c, copy>>}])

\* Time counts from T0 of the stage to its target.
V5Tick ==
    /\ vw.t < V5Duration /\ vo.pc # "off" /\ vtarget = NoTarget
    /\ vw' = [vw EXCEPT !.t = @ + 1]
    /\ UNCHANGED <<vo, vdocs, vtarget, vt>>

-----------------------------------------------------------------------------
(* Raw qualification.                                                        *)

\* scan_raw and qualify_unit: what a worker finds now about a chunk whose
\* state is the one of the frozen snapshot.
QualifyUnit(w, state, c) ==
    LET archived == state \in {Life[i] : i \in 6..8} IN
    IF (c \in w.local /\ <<c, "local">> \in w.bad)
         \/ (archived /\ <<c, "archive">> \in w.bad)
    THEN "error"
    ELSE IF c \in w.local \/ state \in {"LOCAL_DELETE_PENDING", "LOCAL_DELETED"}
    THEN "ok"
    ELSE "pending"

-----------------------------------------------------------------------------
(* The online observer.                                                      *)

\* expanded_pages: an entry with its row and the rows that it names.
Expanded(log, hw, e) ==
    [f |-> e.f, id |-> e.id, unit |-> e.unit, row |-> log[e.f][e.id],
     refs |-> Companions(log, hw, e.f, e.id)]

\* One acknowledged row: its references are added, its own is discharged.
AckRow(cont, e) ==
    LET row == e.row
        known == {r \in e.refs : r[2] > cont.processed[r[1]] /\ r # <<e.f, e.id>>}
    IN  [cont EXCEPT
           !.processed[e.f] = e.id,
           !.refs = (@ \ {<<e.f, e.id>>}) \cup known,
           !.counts = IF e.f # "arch" THEN @ ELSE
               [s \in Backlog |-> @[s] - (IF s = row.from THEN 1 ELSE 0)
                                       + (IF s = row.to THEN 1 ELSE 0)],
           !.gap = IF e.f # "oper" \/ row.c = 0 THEN @
                   ELSE IF row.to = "started" THEN row.c ELSE 0,
           !.found = @ \cup (IF row.to = "stopped" /\ row.from = "since" THEN {"terminal_event"}
                             ELSE {})
                       \cup (IF e.unit = "silent" THEN {"unmarked_reconnect"} ELSE {})]

\* replay_delta: the acknowledged rows of each family in turn.
ReplayPage(log, high, cont, page) ==
    LET replay[i \in 0..Len(page)] ==
            IF i = 0 THEN cont
            ELSE IF page[i].status = "acknowledged"
                 THEN AckRow(replay[i - 1], Expanded(log, high, page[i]))
            ELSE replay[i - 1]
    IN  replay[Len(page)]

ReplayDelta(log, cont, high, pages) ==
    LET oper == ReplayPage(log, high, cont, pages["oper"])
        chunk == ReplayPage(log, high, oper, pages["chunk"])
    IN  [ReplayPage(log, high, chunk, pages["arch"]) EXCEPT !.seen = high]

\* advance_reconnect: what a qualified chunk says about the connection.
ReconnectOf(w, c) ==
    IF w.edge[c] = "silent" /\ c \notin w.old THEN "silent" ELSE "explained"

EntryOf(w, hw, f, id) ==
    LET row == w.log[f][id]
        raw == IF f = "chunk" /\ row.to = "SEALED"
               THEN QualifyUnit(w, ChunkState(w.log, hw, row.c), row.c) ELSE "ok"
    IN  [f |-> f, id |-> id, unit |-> IF f = "chunk" /\ row.to = "SEALED" /\ raw = "ok"
                                     THEN ReconnectOf(w, row.c) ELSE "none",
         status |-> IF raw = "error" THEN "error"
                    ELSE IF raw = "ok" /\ Corroborated(w.log, hw, f, id)
                    THEN "acknowledged" ELSE "pending"]

PageSkipsPending(w, hw, cont, f, cut) ==
    SelectSeq([i \in 1..(Min({hw[f], cont.processed[f] + cut}) - cont.processed[f]) |->
                  EntryOf(w, hw, f, cont.processed[f] + i)],
              LAMBDA e : e.status # "pending")

\* A page ends with the first row that is not acknowledged, or where the
\* time or the bytes of the observation run out.
PageOf(w, hw, cont, f, cut) ==
    LET upto == Min({hw[f], cont.processed[f] + cut})
        all == [i \in 1..(upto - cont.processed[f]) |->
                  EntryOf(w, hw, f, cont.processed[f] + i)]
        stops == {i \in DOMAIN all : all[i].status # "acknowledged"}
    IN  SubSeq(all, 1, Min(stops \cup {Len(all)}))

\* causal_prefixes: advance the family whose next row leaves the fewest
\* references, and keep the furthest positions within the cap.
WalkStep(log, hw, pages, fams, s) ==
    LET ready == {f \in fams : s.pos[f] < Len(pages[f])
                     /\ pages[f][s.pos[f] + 1].status = "acknowledged"}
        acked(f) == AckRow(s.cont, Expanded(log, hw, pages[f][s.pos[f] + 1]))
        left(f) == acked(f).refs
        rank(f) == CHOOSE i \in 1..3 : Families[i] = f
        best == CHOOSE f \in ready :
                    /\ \A g \in ready : Cardinality(left(f)) <= Cardinality(left(g))
                    /\ \A g \in ready : Cardinality(left(f)) = Cardinality(left(g))
                         => rank(f) <= rank(g)
        pos == [s.pos EXCEPT ![best] = @ + 1]
    IN  IF ready = {} THEN s
        ELSE [cont |-> acked(best), pos |-> pos,
              check |-> IF Cardinality(left(best)) <= ReferenceCap THEN pos ELSE s.check]

Walk(log, hw, pages, cont, fams) ==
    LET zero == [f \in Fams |-> 0]
        total == Len(pages["oper"]) + Len(pages["chunk"]) + Len(pages["arch"])
        walk[i \in 0..total] == IF i = 0 THEN [cont |-> cont, pos |-> zero, check |-> zero]
                                ELSE WalkStep(log, hw, pages, fams, walk[i - 1])
    IN  walk[total].check

CausalPrefixes(log, hw, pages, cont) ==
    LET sum(p) == p["oper"] + p["chunk"] + p["arch"]
        among(fams) == Walk(log, hw, pages, cont, fams)
        both == among(Fams)
        apart == {among({"oper"}), among({"chunk", "arch"})}
        positions == IF sum(both) > 0 THEN both
                     ELSE CHOOSE p \in apart : \A q \in apart : sum(q) <= sum(p)
    IN  [f \in Fams |->
            LET k == positions[f] IN
            SubSeq(pages[f], 1, IF k < Len(pages[f])
                                  /\ pages[f][k + 1].status # "acknowledged"
                                THEN k + 1 ELSE k)]

LastDoc == vdocs[Len(vdocs)]

\* _replay_live, the parts that are not module Acceptance's.
LiveFindings(w, live, first, previous, cont, high, complete) ==
    previous
    \cup (IF live.inv # first THEN {"process_incarnation_changed"} ELSE {})
    \cup (IF complete /\ cont.processed["arch"] = high["arch"]
               /\ cont.counts # ArchiveBacklog(w.log, high)
          THEN {"archive_aggregate_disagreement"} ELSE {})
    \cup cont.found

\* start or sample, and _live: the clock and the process that runs are read.  An
\* observation of a service that is down fails.
V5Begins ==
    /\ Len(vdocs) < MaxV5Docs /\ vtarget = NoTarget
    /\ vo.pc = IF vdocs = <<>> THEN "off" ELSE "idle"
    /\ \/ vw.svc /\ vo' = [vo EXCEPT !.pc = "begun", !.live = [inv |-> vw.inv, t |-> vw.t]]
       \/ ~vw.svc /\ vdocs # <<>> /\ vo' = [vo EXCEPT !.pc = "failed"]
    /\ UNCHANGED <<vw, vdocs, vtarget, vt>>

\* capture_snapshot: all three high-waters, pages and companions come from
\* one read transaction.
SnapshotOf(w) == HighWater(w.log)

V5Snapshot ==
    /\ vo.pc = "begun"
    /\ vo' = [vo EXCEPT !.pc = "snapped", !.snap = SnapshotOf(vw)]
    /\ UNCHANGED <<vw, vdocs, vtarget, vt>>

\* Where an observation stops: in the family cut[1], after cut[2] of its rows;
\* the families after it are still read when it was the bytes that ran out.
Cuts == {<<3, PageCap, FALSE>>} \cup (1..3) \X (0..(PageCap - 1)) \X BOOLEAN

Taken(cut, f) ==
    LET i == CHOOSE k \in 1..3 : Families[k] = f IN
    IF i < cut[1] \/ (i > cut[1] /\ cut[3]) THEN PageCap
    ELSE IF i = cut[1] THEN cut[2] ELSE 0

\* _delta after its snapshot, _observe and the publication.  A worker that
\* finds damaged bytes fails the observation: nothing is published.
V5Observe(pages, complete) ==
    LET cont == vo.cont
        high == IF complete THEN vo.snap ELSE cont.seen
        next == ReplayDelta(vw.log, cont, high, pages)
        first == vdocs = <<>>
    IN  /\ Cardinality(next.refs) <= ReferenceCap
        /\ vo' = [vo EXCEPT !.pc = "idle", !.cont = next]
        /\ vdocs' = Append(vdocs,
             [high |-> high, pages |-> pages, cont |-> next, complete |-> complete,
              pending |-> ~complete \/ next.processed # high,
              t |-> vo.live.t, inv |-> vo.live.inv,
              found |-> LiveFindings(vw, vo.live, IF first THEN vo.live.inv ELSE vdocs[1].inv,
                                     IF first THEN {} ELSE LastDoc.found,
                                     next, high, complete)])
        /\ UNCHANGED <<vw, vtarget, vt>>

\* The worker reads the files of the selected rows.
ReadPages(cut) == [f \in Fams |-> PageOf(vw, vo.snap, vo.cont, f, Taken(cut, f))]

Fails(raw) == \E f \in DOMAIN raw : \E i \in DOMAIN raw[f] : raw[f][i].status = "error"

V5Observes ==
    /\ vo.pc = "snapped"
    /\ \/ \E raw \in {ReadPages(cut) : cut \in Cuts} :
            IF Fails(raw)
            THEN vo' = [vo EXCEPT !.pc = "failed"] /\ UNCHANGED <<vw, vdocs, vtarget, vt>>
            ELSE V5Observe(CausalPrefixes(vw.log, vo.snap, raw, vo.cont), TRUE)
       \/ V5Observe([f \in Fams |-> <<>>], FALSE)

\* online_result and derive_target.
TargetOf(doc) ==
    LET found == doc.found
            \cup (IF doc.pending \/ doc.cont.refs # {} THEN {"target_delta_pending"} ELSE {})
            \cup (IF doc.cont.gap # 0 THEN {"unresolved_discontinuity"} ELSE {})
        soft == {"acceptance_observation_gap", "target_delta_pending", "duration_short"}
    IN  [result |-> IF found \ soft # {} THEN "FAIL"
                    ELSE IF found # {} \/ doc.t - vdocs[1].t < V5Duration THEN "INCOMPLETE"
                    ELSE "PASS_CANDIDATE",
         found |-> found, high |-> doc.high, processed |-> doc.cont.processed]

\* finalize of the timed stage: the last sample, once it is late enough.
V5Target ==
    /\ vo.pc = "idle" /\ vtarget = NoTarget /\ Len(vdocs) > 1
    /\ LastDoc.t - vdocs[1].t >= V5Duration
    /\ vtarget' = TargetOf(LastDoc)
    /\ vw' = [vw EXCEPT !.n = MaxV5Moves]
    /\ UNCHANGED <<vo, vdocs, vt>>

\* replay_online and resume: the continuation is computed again from the
\* published pages.
BasePrefix == [f \in Fams |-> SubSeq(vw.log[f], 1, vw.base[f])]

ReplayOnline ==
    LET replay[d \in 0..Len(vdocs)] ==
            IF d = 0 THEN EmptyContinuation(BasePrefix)
            ELSE ReplayDelta(vw.log, replay[d - 1], vdocs[d].high, vdocs[d].pages)
    IN  replay[Len(vdocs)]

V5ObserverDies ==
    /\ vt.kills < MaxV5Kills /\ vo.pc \in {"begun", "snapped", "idle"} /\ vtarget = NoTarget
    /\ vo' = [vo EXCEPT !.pc = "dead"]
    /\ vt' = [vt EXCEPT !.kills = @ + 1]
    /\ UNCHANGED <<vw, vdocs, vtarget>>

V5Resume ==
    /\ vo.pc \in {"dead", "failed"} /\ vdocs # <<>> /\ vtarget = NoTarget
    /\ vw.svc /\ vw.inv = vdocs[1].inv
    /\ vo' = [vo EXCEPT !.pc = "idle", !.cont = ReplayOnline]
    /\ UNCHANGED <<vw, vdocs, vtarget, vt>>

-----------------------------------------------------------------------------
(* The terminal corpus and audit.                                            *)

\* quiescence_probe: the services are inactive and no partial is left.
Quiet(w) == ~w.svc /\ OpenChunks(w.log, HighWater(w.log)) = {}

Aborted == [vt EXCEPT !.pc = "aborted"]

\* freeze_corpus: probe, backup, manifests, probe, second backup.
FreezeProbe ==
    /\ vt.pc = "idle" /\ ~vt.corpus /\ vtarget # NoTarget /\ Quiet(vw)
    /\ vt' = [vt EXCEPT !.pc = "backup", !.cert = vw.inv]
    /\ UNCHANGED <<vw, vo, vdocs, vtarget>>

FreezeCatalog ==
    /\ vt.pc = "backup"
    /\ vt' = [vt EXCEPT !.pc = "manifests", !.high = HighWater(vw.log)]
    /\ UNCHANGED <<vw, vo, vdocs, vtarget>>

FreezeManifests ==
    /\ vt.pc = "manifests"
    /\ vt' = [vt EXCEPT !.pc = "reprobe", !.mans = vw.man]
    /\ UNCHANGED <<vw, vo, vdocs, vtarget>>

SameCertificate(w, t) == Quiet(w) /\ w.inv = t.cert

FreezeReprobe ==
    /\ vt.pc = "reprobe"
    /\ vt' = IF SameCertificate(vw, vt) THEN [vt EXCEPT !.pc = "rebackup"] ELSE Aborted
    /\ UNCHANGED <<vw, vo, vdocs, vtarget>>

FreezePublish ==
    /\ vt.pc = "rebackup"
    /\ vt' = IF HighWater(vw.log) = vt.high
             THEN [vt EXCEPT !.pc = "ready", !.corpus = TRUE] ELSE Aborted
    /\ UNCHANGED <<vw, vo, vdocs, vtarget>>

\* One record of the audit: the proof of a chunk against its frozen state.
Proof(w, t, c) == <<c, QualifyUnit(w, ChunkState(w.log, t.high, c), c)>>

Remaining(t) == t.mans \ {p[1] : p \in Range(t.memory)}

\* run_audit: the published prefix is taken as it is, the rest is read now.
AuditBegins ==
    /\ vt.pc = "ready" /\ vt.root = "none"
    /\ vt' = IF SameCertificate(vw, vt) THEN [vt EXCEPT !.pc = "audit", !.memory = vt.shards] ELSE vt
    /\ UNCHANGED <<vw, vo, vdocs, vtarget>>

AuditUnit ==
    /\ vt.pc = "audit" /\ Remaining(vt) # {}
    /\ LET item == Proof(vw, vt, Min(Remaining(vt))) IN
       \E publish \in BOOLEAN :
         /\ publish => SameCertificate(vw, vt)
         /\ vt' = [vt EXCEPT !.memory = Append(@, item),
                             !.shards = IF publish THEN Append(vt.memory, item) ELSE @]
    /\ UNCHANGED <<vw, vo, vdocs, vtarget>>

\* _check_online_row, _transitions, _chunks, _raw_locations.
OnlineOmits(t) ==
    \E f \in Fams :
      \E id \in (vw.base[f] + 1)..vtarget.processed[f] :
        ~\E d \in DOMAIN vdocs : \E i \in DOMAIN vdocs[d].pages[f] :
            vdocs[d].pages[f][i].id = id /\ vdocs[d].pages[f][i].status = "acknowledged"

AuditFindings(t, proofs) ==
    (IF \E p \in Range(proofs) : p[2] # "ok" THEN {"raw_or_archive_integrity_failure"} ELSE {})
    \cup (IF \E c \in 1..V5Chunks : ChunkState(vw.log, t.high, c) \in Unsealed
          THEN {"unfinished_chunk_at_quiescence"} ELSE {})
    \cup (IF {c \in 1..V5Chunks : ChunkState(vw.log, t.high, c) \notin Unsealed \cup {"none"}}
               # t.mans THEN {"catalog_manifest_disagreement"} ELSE {})
    \cup (IF OnlineOmits(t) THEN {"online_delta_omission"} ELSE {})
    \cup (IF \E p \in Range(proofs) : p[2] = "ok" /\ ReconnectOf(vw, p[1]) = "silent"
          THEN {"unmarked_reconnect"} ELSE {})

\* The last shard is flushed, then everything is read again from nothing.
VerifyBegins ==
    /\ vt.pc = "audit" /\ Remaining(vt) = {}
    /\ vt' = IF SameCertificate(vw, vt)
             THEN [vt EXCEPT !.pc = "verify", !.shards = vt.memory, !.verified = {},
                             !.hurt = vw.bad]
             ELSE [vt EXCEPT !.pc = "ready"]
    /\ UNCHANGED <<vw, vo, vdocs, vtarget>>

VerifyFromCache(w, t, i) == t.shards[i]

\* verify_audit rereads Raw: cached proofs are for completed stages only.
VerifyProof(w, t, i) == Proof(w, t, t.shards[i][1])

VerifyUnit ==
    /\ vt.pc = "verify" /\ Cardinality(vt.verified) < Len(vt.shards)
    /\ LET i == Cardinality(vt.verified) + 1 IN
       vt' = IF VerifyProof(vw, vt, i) = vt.shards[i]
             THEN [vt EXCEPT !.verified = @ \cup {i}]
             ELSE [vt EXCEPT !.pc = "ready"]
    /\ UNCHANGED <<vw, vo, vdocs, vtarget>>

PublishRoot ==
    /\ vt.pc = "verify" /\ Cardinality(vt.verified) = Len(vt.shards)
    /\ vt' = [vt EXCEPT !.pc = "ready",
                        !.root = IF AuditFindings(vt, vt.shards) = {}
                                 THEN "PASS_CANDIDATE" ELSE "FAIL"]
    /\ UNCHANGED <<vw, vo, vdocs, vtarget>>

\* final_document: eligible with no finding, online or terminal.
PublishFinal ==
    /\ vt.pc = "ready" /\ vt.root # "none" /\ vt.final = "none"
    /\ vt' = [vt EXCEPT !.final =
                IF vt.root = "PASS_CANDIDATE" /\ vtarget.result = "PASS_CANDIDATE"
                     /\ vtarget.found = {} THEN "eligible" ELSE "not"]
    /\ UNCHANGED <<vw, vo, vdocs, vtarget>>

AuditorDies ==
    /\ vt.kills < MaxV5Kills /\ vt.pc \in {"audit", "verify"}
    /\ vt' = [vt EXCEPT !.pc = "ready", !.memory = <<>>, !.kills = @ + 1]
    /\ UNCHANGED <<vw, vo, vdocs, vtarget>>

-----------------------------------------------------------------------------
V5Next ==
    \/ \E c \in 1..V5Chunks :
          \/ \E edge \in {"same", "marked", "silent"} : RecorderOpens(c, edge)
          \/ RecorderSeals(c)
          \/ ArchiveMoves(c)
          \/ ArchiveUnlinks(c)
          \/ \E copy \in {"local", "archive"} : DiskDamages(c, copy)
    \/ V5GapStarts \/ RecorderStops \/ RecorderDies \/ RecorderStarts \/ V5Tick
    \/ V5Begins
    \/ V5Snapshot
    \/ V5Observes
    \/ V5Target \/ V5ObserverDies \/ V5Resume
    \/ FreezeProbe \/ FreezeCatalog \/ FreezeManifests \/ FreezeReprobe \/ FreezePublish
    \/ AuditBegins \/ AuditUnit \/ VerifyBegins \/ VerifyUnit \/ PublishRoot \/ PublishFinal
    \/ AuditorDies

V5Spec == V5Init /\ [][V5Next]_v5vars

-----------------------------------------------------------------------------
(* Properties.                                                               *)

\* The acknowledged rows of a document, and of all that are published.
AckedIn(doc) ==
    UNION {{Expanded(vw.log, doc.high, doc.pages[f][i]) :
              i \in {k \in DOMAIN doc.pages[f] : doc.pages[f][k].status = "acknowledged"}} :
           f \in Fams}

AckedEntries == UNION {AckedIn(vdocs[d]) : d \in DOMAIN vdocs}

\* The cursors of an observer stand for exactly the rows behind them, however
\* the pages were cut, whatever the archive worker retired between a snapshot
\* and the reading of the files, and across kills and resumptions: no row is
\* skipped, every sealed chunk behind the cursor was read and judged, what is
\* still referred to is what the acknowledged rows named and no cursor has
\* reached, and the backlog and the open gap are those of the prefix
\* (acceptance_v5_delta.py, replay_delta; acceptance_v5_online.py, _delta).
CursorIsExact ==
    vdocs # <<>> =>
      LET cont == LastDoc.cont
          done == cont.processed
          gaps == {i \in (vw.base["oper"] + 1)..done["oper"] : vw.log["oper"][i].c # 0}
          ends == {c \in 1..V5Chunks : \E i \in 1..done["arch"] : vw.log["arch"][i].c = c}
          last(c) == vw.log["arch"][Max({i \in 1..done["arch"] : vw.log["arch"][i].c = c})].to
      IN  /\ \A f \in Fams : \A id \in (vw.base[f] + 1)..done[f] :
                \E e \in AckedEntries :
                   /\ e.f = f /\ e.id = id
                   /\ f = "chunk" /\ e.row.to = "SEALED" =>
                        e.unit = ReconnectOf(vw, e.row.c)
          /\ cont.refs = {r \in UNION {e.refs : e \in AckedEntries} : r[2] > done[r[1]]}
          /\ Cardinality(cont.refs) <= ReferenceCap
          /\ \A s \in Backlog : cont.counts[s] = Cardinality({c \in ends : last(c) = s})
          /\ gaps # {} => (cont.gap # 0 <=> vw.log["oper"][Max(gaps)].to = "started")
          /\ vo.pc \in {"idle", "begun", "snapped"} => vo.cont = cont

\* An eligible stage was a good one.  Nothing that was damaged when the final
\* reading began is passed, not even by an audit that was interrupted and
\* resumed from proofs taken before the damage; no connection changed without
\* evidence; of the rows since the baseline audit each was acknowledged and each
\* gap was closed by the target; no service stop names an instant since T0; and
\* every document saw the same process (acceptance_v5_finalize.py, run_audit,
\* verify_audit and final_document).
V5EligibleIsTrue ==
    vt.final = "eligible" =>
      /\ \A c \in vt.mans : LET state == ChunkState(vw.log, vt.high, c) IN
            /\ <<c, "archive">> \in vt.hurt => state \notin {Life[i] : i \in 6..8}
            /\ <<c, "local">> \in vt.hurt => c \notin vw.local
            /\ vw.edge[c] = "silent" => c \in vw.old
      /\ vt.mans = {c \in 1..V5Chunks : ChunkState(vw.log, vt.high, c) # "none"}
      /\ vtarget.processed = vtarget.high
      /\ \A i \in (vw.base["oper"] + 1)..vtarget.high["oper"] :
            LET row == vw.log["oper"][i] IN
            /\ row.to = "stopped" => row.from # "since"
            /\ row.to = "started" => \E k \in (i + 1)..vtarget.high["oper"] :
                                        vw.log["oper"][k].c = row.c
      /\ \A d \in DOMAIN vdocs : vdocs[d].inv = vdocs[1].inv

=============================================================================
