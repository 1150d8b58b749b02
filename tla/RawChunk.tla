------------------------------ MODULE RawChunk ------------------------------
(***************************************************************************)
(* The life of the Raw chunks of one stream, from the first byte of the    *)
(* partial file to the SEALED row of the Catalog: RawChunkWriter and       *)
(* StreamSpool (spool/writer.py, spool/stream.py), the seal protocol       *)
(* (spool/seal.py), startup recovery (spool/recovery.py) and the chunk     *)
(* tables of the Catalog (storage/catalog/chunks.py).                      *)
(*                                                                         *)
(* Every action is one step between two durable effects, so that a kill of *)
(* the process (or a fatal I/O error, which ends it) and a power loss can  *)
(* fall between any two of them.  A kill keeps the page cache and every    *)
(* committed Catalog transaction.  A power loss keeps what was fsynced; of *)
(* the Catalog, whose routine commits run with synchronous=NORMAL, it may  *)
(* drop any suffix of the commits since the last full barrier: `stable` is *)
(* the set of Catalog contents a power loss may leave.                     *)
(***************************************************************************)
EXTENDS Naturals, Sequences

CONSTANTS
    Chunks,          \* chunk identifiers (uuid4 values, never reused)
    NoChunk,         \* no writer, no seal in progress
    Gaps,            \* discontinuity identifiers (gap_id)
    NoGap,           \* a seal without a reconnect intent
    MaxFrames,       \* bound on the frames of one chunk
    MaxKills,        \* bound on process deaths
    MaxPowerLosses   \* bound on power losses

ASSUME ChunkAssumption == NoChunk \notin Chunks
ASSUME GapAssumption == NoGap \notin Gaps
ASSUME BoundAssumption ==
    MaxFrames \in Nat /\ MaxKills \in Nat /\ MaxPowerLosses \in Nat

VARIABLES
    \* the disk
    part,      \* data/active: the partial file of each chunk
    art,       \* data/sealed: the compressed artifact of each chunk
    man,       \* data/manifests: the manifest of each chunk
    \* the Catalog
    cat,       \* committed content, as every connection reads it
    stable,    \* the contents a power loss may leave
    \* the recorder process
    proc,      \* "down", "recovering", "running" or "blocked"
    wr,        \* the chunk StreamSpool._writer is bound to
    gap,       \* the unfinished gap the stream's collector remembers
    job,       \* the seal in progress
    rec,       \* the phase of recover_storage and what it has left to visit
    \* history, for the properties only
    hist,      \* see HistType
    kills, losses

disk == <<part, art, man>>
catalog == <<cat, stable>>
process == <<proc, wr, gap, job, rec>>
vars == <<part, art, man, cat, stable, proc, wr, gap, job, rec, hist, kills,
          losses>>

-----------------------------------------------------------------------------
(* Files. *)

\* A frame either carries the sequence_gap capture flag or it does not.
Frame == {"plain", "sequence_gap"}

\* "creating": the header is being written and is not yet fsynced;
\* "stub": the file exists and has no decodable header; "moved": it is in
\* data/quarantine.  `sync` frames are known durable.  `tail` is what
\* scan_chunk would meet after the intact frames: nothing, an incomplete
\* frame, or bytes that fail the checksum.
PartFile == [st : {"absent", "creating", "stub", "file", "moved"},
             frames : Seq(Frame), sync : Nat, tail : {"clean", "torn", "bad"}]

NoPart == [st |-> "absent", frames |-> << >>, sync |-> 0, tail |-> "clean"]

NewPart == [NoPart EXCEPT !.st = "file"]

\* An artifact is identified by the frames it decompresses to; a manifest by
\* the frames it describes and its two claims about them.
NoArt == [present |-> FALSE, frames |-> << >>]
ArtFile == [present : BOOLEAN, frames : Seq(Frame)]
NoMan == [present |-> FALSE, frames |-> << >>, gap |-> FALSE, complete |-> FALSE]
ManFile == [present : BOOLEAN, frames : Seq(Frame), gap : BOOLEAN, complete : BOOLEAN]

RECONNECT_GAP_FLAG == "reconnect_gap"
ForcedFlags == {RECONNECT_GAP_FLAG}
INCOMPLETE_FLAGS == {"recovered_tail", "sequence_gap", RECONNECT_GAP_FLAG}

FrameFlags(fs) == IF \E i \in 1..Len(fs) : fs[i] = "sequence_gap"
                  THEN {"sequence_gap"} ELSE {}

\* Mutant: the caller's forced flags are not merged.
ManifestIgnoringForced(fs, recovered, forced) ==
    [present |-> TRUE, frames |-> fs, gap |-> FrameFlags(fs) # {},
     complete |-> FrameFlags(fs) = {} /\ ~recovered]

\* _manifest: the flags of the frames, of a recovered tail and of the caller.
Manifest(fs, recovered, forced) ==
    LET flags == FrameFlags(fs) \cup forced
                   \cup (IF recovered THEN {"recovered_tail"} ELSE {})
    IN  [present |-> TRUE, frames |-> fs,
         gap |-> flags \cap {"sequence_gap", RECONNECT_GAP_FLAG} # {},
         complete |-> flags \cap INCOMPLETE_FLAGS = {}]

-----------------------------------------------------------------------------
(* The Catalog. *)

ChunkState == {"NONE", "ACTIVE", "RECOVERED", "SEALING", "SEALED", "QUARANTINED"}

ALLOWED_TRANSITIONS ==
    [NONE |-> {}, ACTIVE |-> {"RECOVERED", "SEALING", "QUARANTINED"},
     RECOVERED |-> {"SEALING", "QUARANTINED"},
     SEALING |-> {"SEALED", "QUARANTINED"}, SEALED |-> {}, QUARANTINED |-> {}]

\* `forced` and `intent` are the flags and the gap identity in the evidence of
\* the latest SEALING transition; `recovered` is set when there is a RECOVERED
\* transition.
Row == [st : ChunkState, forced : SUBSET ForcedFlags,
        intent : Gaps \cup {NoGap}, recovered : BOOLEAN]

NoRow == [st |-> "NONE", forced |-> {}, intent |-> NoGap, recovered |-> FALSE]

\* `intents`: the gaps named by any SEALING transition ever recorded;
\* `started`, `completed`: the STREAM_DISCONTINUITY events.
CatalogType == [row : [Chunks -> Row], intents : SUBSET Gaps,
                started : SUBSET Gaps, completed : SUBSET Gaps]

Open == cat.started \ cat.completed

\* Mutant: a transaction readers see and no later start ever finds.
CommitLost(c) == cat' = c /\ UNCHANGED stable

\* _transaction without force_sync: visible at once, durable later.
Commit(c) == /\ cat' = c
             /\ stable' = stable \cup {c}

WithRow(k, c, r) == [k EXCEPT !.row = [@ EXCEPT ![c] = r]]

\* The Catalog after the transition of c to a state.
Moved(k, c, to) == WithRow(k, c, [k.row[c] EXCEPT !.st = to])

\* register_active is INSERT OR IGNORE.
Registered(c) == IF cat.row[c].st = "NONE" THEN Moved(cat, c, "ACTIVE") ELSE cat

\* The Catalog after a SEALING transition with its evidence.
SealingRow(c, forced, g) ==
    [WithRow(cat, c, [cat.row[c] EXCEPT !.st = "SEALING", !.forced = forced, !.intent = g])
        EXCEPT !.intents = @ \cup ({g} \ {NoGap})]

CanMove(c, to) == to = cat.row[c].st \/ to \in ALLOWED_TRANSITIONS[cat.row[c].st]

-----------------------------------------------------------------------------
(* The process. *)

Steps == {"marker", "markerheader", "sealing", "artifact", "manifest",
          "commit", "unlink"}

ActiveJob == [chunk : Chunks, forced : SUBSET ForcedFlags,
              intent : Gaps \cup {NoGap}, step : Steps]

NoJob == [chunk |-> NoChunk, forced |-> {}, intent |-> NoGap, step |-> "idle"]

Job == ActiveJob \cup {NoJob}

Phases == {"none", "partials", "events", "reseal", "cleanup", "reconcile"}

\* `cur` is the chunk whose tail was truncated (or whose QUARANTINED or SEALED
\* row was committed) and whose second step is still to come.
Recovery == [phase : Phases, todo : SUBSET Chunks, cur : Chunks \cup {NoChunk}]

NoRecovery == [phase |-> "none", todo |-> {}, cur |-> NoChunk]

HistType == [appended : [Chunks -> Seq(Frame)],  \* every frame written to c
             acked : [Chunks -> Nat],            \* synced_record_count of c
             cut : [Chunks -> BOOLEAN],          \* sealed at a forced boundary
             minted : SUBSET Chunks,             \* identifiers uuid4 has produced
             gaps : SUBSET Gaps]

Init ==
    /\ part = [c \in Chunks |-> NoPart]
    /\ art = [c \in Chunks |-> NoArt]
    /\ man = [c \in Chunks |-> NoMan]
    /\ cat = [row |-> [c \in Chunks |-> NoRow], intents |-> {},
              started |-> {}, completed |-> {}]
    /\ stable = {cat}
    /\ proc = "down"
    /\ wr = NoChunk
    /\ gap = NoGap
    /\ job = NoJob
    /\ rec = NoRecovery
    /\ hist = [appended |-> [c \in Chunks |-> << >>],
               acked |-> [c \in Chunks |-> 0],
               cut |-> [c \in Chunks |-> FALSE],
               minted |-> {}, gaps |-> {}]
    /\ kills = 0
    /\ losses = 0

Idle == proc = "running" /\ job = NoJob

(***************************************************************************)
(* RawChunkWriter.__init__: O_EXCL creation and header write, then fsync   *)
(* of file and directory and register_active.                              *)
(***************************************************************************)
CreatePartial(c) ==
    /\ Idle /\ wr = NoChunk /\ c \notin hist.minted
    /\ wr' = c
    /\ part' = [part EXCEPT ![c].st = "creating"]
    /\ hist' = [hist EXCEPT !.minted = @ \cup {c}]
    /\ UNCHANGED <<art, man, catalog, proc, gap, job, rec, kills, losses>>

OpenWriter ==
    /\ Idle /\ wr # NoChunk /\ part[wr].st = "creating"
    /\ part' = [part EXCEPT ![wr] = NewPart]
    /\ Commit(Registered(wr))
    /\ UNCHANGED <<art, man, process, hist, kills, losses>>

WriterOpen == Idle /\ wr # NoChunk /\ part[wr].st = "file"

\* append / append_batch: all bytes are written, then the frame is counted.
AppendFrame(f) ==
    /\ WriterOpen /\ Len(part[wr].frames) < MaxFrames
    /\ part' = [part EXCEPT ![wr].frames = Append(@, f)]
    /\ hist' = [hist EXCEPT !.appended[wr] = Append(@, f)]
    /\ UNCHANGED <<art, man, catalog, process, kills, losses>>

\* sync / sync_if_due: fsync, then synced_record_count catches up.
Synced(c) == /\ part' = [part EXCEPT ![c].sync = Len(part[c].frames)]
             /\ hist' = [hist EXCEPT !.acked[c] = Len(part[c].frames)]

SyncWriter ==
    /\ WriterOpen /\ part[wr].sync < Len(part[wr].frames)
    /\ Synced(wr)
    /\ UNCHANGED <<art, man, catalog, process, kills, losses>>

(***************************************************************************)
(* The STREAM_DISCONTINUITY events of the stream's collector, whose own    *)
(* protocol is module Reconnect.  It knows at most one unfinished gap: the *)
(* one it minted at a boundary, or the open one it restored at its start.  *)
(* STARTED is committed before, during or after the boundary's seal.       *)
(***************************************************************************)
Current(g) == /\ gap = g \/ (gap = NoGap /\ g \notin hist.gaps)
              /\ gap' = g

StartGap(g) ==
    /\ proc = "running" /\ g \notin cat.started
    /\ Current(g)
    /\ Commit([cat EXCEPT !.started = @ \cup {g}])
    /\ hist' = [hist EXCEPT !.gaps = @ \cup {g}]
    /\ UNCHANGED <<disk, proc, wr, job, rec, kills, losses>>

CompleteGap ==
    /\ proc = "running" /\ gap \in Open /\ job = NoJob
    /\ Commit([cat EXCEPT !.completed = @ \cup {gap}])
    /\ gap' = NoGap
    /\ UNCHANGED <<disk, proc, wr, job, rec, hist, kills, losses>>

(***************************************************************************)
(* StreamSpool._seal_current with a writer: rotation and shutdown pass     *)
(* neither flags nor intent, a reconnect boundary passes its gap and,      *)
(* unless the boundary frame itself is marked, reconnect_gap.              *)
(* _take_clean_seal_evidence fsyncs and closes the file first.             *)
(***************************************************************************)
SealWriter(forced, g) ==
    /\ WriterOpen /\ part[wr].frames # << >>
    /\ \/ g = NoGap /\ forced = {} /\ UNCHANGED gap
       \/ /\ g # NoGap /\ Current(g)
          /\ forced = {} => part[wr].frames[Len(part[wr].frames)] = "sequence_gap"
    /\ part' = [part EXCEPT ![wr].sync = Len(part[wr].frames)]
    /\ hist' = [hist EXCEPT !.acked[wr] = Len(part[wr].frames),
                            !.cut[wr] = g # NoGap,
                            !.gaps = @ \cup ({g} \ {NoGap})]
    /\ job' = [chunk |-> wr, forced |-> forced, intent |-> g, step |-> "sealing"]
    /\ wr' = NoChunk
    /\ UNCHANGED <<art, man, catalog, proc, rec, kills, losses>>

(***************************************************************************)
(* StreamSpool._seal_current at a boundary with no writer: the marker's    *)
(* ACTIVE and SEALING rows are committed with the intent, then the header  *)
(* is created, then the empty chunk is sealed.                             *)
(***************************************************************************)
RegisterMarker(c, g) ==
    /\ Idle /\ wr = NoChunk /\ c \notin hist.minted
    /\ Current(g)
    /\ Commit(SealingRow(c, ForcedFlags, g))
    /\ job' = [chunk |-> c, forced |-> ForcedFlags, intent |-> g, step |-> "marker"]
    /\ hist' = [hist EXCEPT !.minted = @ \cup {c}, !.cut[c] = TRUE,
                            !.gaps = @ \cup {g}]
    /\ UNCHANGED <<disk, proc, wr, rec, kills, losses>>

CreateMarker ==
    /\ job.step = "marker"
    /\ part' = [part EXCEPT ![job.chunk].st = "creating"]
    /\ job' = [job EXCEPT !.step = "markerheader"]
    /\ UNCHANGED <<art, man, catalog, proc, wr, gap, rec, hist, kills, losses>>

OpenMarker ==
    /\ job.step = "markerheader"
    /\ part' = [part EXCEPT ![job.chunk] = NewPart]
    /\ Commit(Registered(job.chunk))
    /\ job' = [job EXCEPT !.step = "sealing"]
    /\ UNCHANGED <<art, man, proc, wr, gap, rec, hist, kills, losses>>

(***************************************************************************)
(* _seal_verified: SEALING with its evidence, artifact, manifest, SEALED,  *)
(* unlink.  A re-seal keeps the durable flags and accepts an existing      *)
(* artifact or manifest only if it says what would be written now.         *)
(***************************************************************************)
Expected(c) == Manifest(part[c].frames, cat.row[c].recovered, job.forced)

SealSealing ==
    LET c == job.chunk IN
    /\ job.step = "sealing"
    /\ \/ /\ cat.row[c].st \in {"ACTIVE", "RECOVERED"}
          /\ Commit(SealingRow(c, job.forced, job.intent))
          /\ job' = [job EXCEPT !.step = "artifact"]
       \/ /\ cat.row[c].st = "SEALING"
          /\ NoGap \in {job.intent, cat.row[c].intent} \/ job.intent = cat.row[c].intent
          /\ job' = [job EXCEPT !.step = "artifact", !.forced = @ \cup cat.row[c].forced]
          /\ UNCHANGED catalog
    /\ UNCHANGED <<disk, proc, wr, gap, rec, hist, kills, losses>>

\* Mutant: SEALED is committed as soon as the artifact is in place.
SealArtifactThenCommit ==
    LET c == job.chunk IN
    /\ job.step = "artifact"
    /\ art' = [art EXCEPT ![c] = [present |-> TRUE, frames |-> part[c].frames]]
    /\ job' = [job EXCEPT !.step = "commit"]
    /\ UNCHANGED <<part, man, catalog, proc, wr, gap, rec, hist, kills, losses>>

SealArtifact ==
    LET c == job.chunk IN
    /\ job.step = "artifact"
    /\ art[c].present => art[c].frames = part[c].frames
    /\ art' = [art EXCEPT ![c] = [present |-> TRUE, frames |-> part[c].frames]]
    /\ job' = [job EXCEPT !.step = "manifest"]
    /\ UNCHANGED <<part, man, catalog, proc, wr, gap, rec, hist, kills, losses>>

SealManifest ==
    LET c == job.chunk IN
    /\ job.step = "manifest"
    /\ man[c].present => man[c] = Expected(c)
    /\ man' = [man EXCEPT ![c] = Expected(c)]
    /\ job' = [job EXCEPT !.step = "commit"]
    /\ UNCHANGED <<part, art, catalog, proc, wr, gap, rec, hist, kills, losses>>

SealCommit ==
    LET c == job.chunk IN
    /\ job.step = "commit" /\ CanMove(c, "SEALED")
    /\ Commit(Moved(cat, c, "SEALED"))
    /\ job' = [job EXCEPT !.step = "unlink"]
    /\ UNCHANGED <<disk, proc, wr, gap, rec, hist, kills, losses>>

SealUnlink ==
    /\ job.step = "unlink"
    /\ part' = [part EXCEPT ![job.chunk] = NoPart]
    /\ job' = NoJob
    /\ rec' = [rec EXCEPT !.todo = @ \ {job.chunk}]
    /\ UNCHANGED <<art, man, catalog, proc, wr, gap, hist, kills, losses>>

\* _validate_existing_manifest raises: the manifest on disk makes other claims
\* than the ones derived now.  In startup recovery the error ends the start.
ManifestContradiction ==
    /\ job.step = "manifest"
    /\ man[job.chunk].present /\ man[job.chunk] # Expected(job.chunk)

ResealRaises ==
    /\ proc = "recovering" /\ ManifestContradiction
    /\ proc' = "blocked" /\ job' = NoJob /\ rec' = NoRecovery
    /\ UNCHANGED <<disk, catalog, wr, gap, hist, kills, losses>>

-----------------------------------------------------------------------------
(* recover_storage, run at every start before the collectors. *)

Files(st) == {c \in Chunks : part[c].st \in st}

\* Mutant: the intents of chunks that reached SEALED are overlooked.
UnresolvedStillSealing ==
    {g \in cat.intents \ (cat.started \cup cat.completed) :
        \E c \in Chunks : cat.row[c].st = "SEALING" /\ cat.row[c].intent = g}

\* Phase A: a gap named by a durable seal intent without STARTED is safe to
\* materialise only if it is the only unfinished gap.
Unresolved == cat.intents \ (cat.started \cup cat.completed)
Eligible(k) == \A g, h \in (k.intents \cup k.started) \ k.completed : g = h

StartProcess ==
    /\ proc = "down" /\ Eligible(cat)
    /\ proc' = "recovering"
    /\ rec' = [NoRecovery EXCEPT !.phase = "partials", !.todo = Files({"file", "stub"})]
    /\ UNCHANGED <<disk, catalog, wr, gap, job, hist, kills, losses>>

Visiting(ph, c) == rec.phase = ph /\ rec.cur = NoChunk /\ job = NoJob /\ c \in rec.todo
Done(c) == rec' = [rec EXCEPT !.todo = @ \ {c}]

\* recover_partials, by what scan_chunk reports.
RecoverStub(c) ==
    /\ Visiting("partials", c) /\ part[c].st = "stub"
    /\ part' = [part EXCEPT ![c].st = "moved"]
    /\ Done(c)
    /\ UNCHANGED <<art, man, catalog, proc, wr, gap, job, hist, kills, losses>>

RecoverClean(c) ==
    /\ Visiting("partials", c) /\ part[c].st = "file" /\ part[c].tail = "clean"
    /\ Commit(Registered(c))
    /\ Done(c)
    /\ UNCHANGED <<disk, proc, wr, gap, job, hist, kills, losses>>

\* Mutants: the cut is one frame short; the file is scanned again, uncut.
TruncateOneFrameMore(c) ==
    /\ Visiting("partials", c) /\ part[c].st = "file" /\ part[c].tail = "torn"
    /\ Commit(Registered(c))
    /\ LET n == Len(part[c].frames)  k == IF n = 0 THEN 0 ELSE n - 1
       IN  part' = [part EXCEPT ![c].tail = "clean", ![c].sync = k,
                                ![c].frames = SubSeq(@, 1, k)]
    /\ rec' = [rec EXCEPT !.cur = c]
    /\ UNCHANGED <<art, man, proc, wr, gap, job, hist, kills, losses>>

TruncateNothing(c) ==
    /\ Visiting("partials", c) /\ part[c].st = "file" /\ part[c].tail = "torn"
    /\ Commit(Registered(c))
    /\ UNCHANGED <<disk, process, hist, kills, losses>>

TruncateTail(c) ==
    /\ Visiting("partials", c) /\ part[c].st = "file" /\ part[c].tail = "torn"
    /\ Commit(Registered(c))
    /\ part' = [part EXCEPT ![c].tail = "clean", ![c].sync = Len(part[c].frames)]
    /\ rec' = [rec EXCEPT !.cur = c]
    /\ UNCHANGED <<art, man, proc, wr, gap, job, hist, kills, losses>>

MarkRecovered ==
    LET c == rec.cur IN
    /\ rec.phase = "partials" /\ c # NoChunk /\ part[c].tail = "clean"
    /\ CanMove(c, "RECOVERED")
    /\ Commit(WithRow(cat, c, [cat.row[c] EXCEPT !.st = "RECOVERED", !.recovered = TRUE]))
    /\ rec' = [rec EXCEPT !.cur = NoChunk, !.todo = @ \ {c}]
    /\ UNCHANGED <<disk, proc, wr, gap, job, hist, kills, losses>>

QuarantineRow(c) ==
    LET r == Registered(c) IN
    /\ Visiting("partials", c) /\ part[c].st = "file" /\ part[c].tail = "bad"
    /\ r.row[c].st \in {"ACTIVE", "RECOVERED", "SEALING", "QUARANTINED"}
    /\ Commit(Moved(r, c, "QUARANTINED"))
    /\ rec' = [rec EXCEPT !.cur = c]
    /\ UNCHANGED <<disk, proc, wr, gap, job, hist, kills, losses>>

MoveQuarantined ==
    LET c == rec.cur IN
    /\ rec.phase = "partials" /\ c # NoChunk /\ part[c].tail = "bad"
    /\ part' = [part EXCEPT ![c].st = "moved"]
    /\ rec' = [rec EXCEPT !.cur = NoChunk, !.todo = @ \ {c}]
    /\ UNCHANGED <<art, man, catalog, proc, wr, gap, job, hist, kills, losses>>

\* _apply_legacy_decisions: STARTED with the gap_id of the durable intent.
MaterializeStarted(g) ==
    /\ rec.phase = "events" /\ g \in Unresolved
    /\ Commit([cat EXCEPT !.started = @ \cup {g}])
    /\ UNCHANGED <<disk, process, hist, kills, losses>>

\* Mutant: every clean partial is sealed.
EveryPartial == Files({"file"})

\* Rows left SEALING whose partial exists.
SealingPartials == {c \in Files({"file"}) : cat.row[c].st = "SEALING"}

\* seal_partial on each of them, with the flags _derived_seal_flags
\* finds: the durable ones, and reconnect_gap while a gap is open.
Reseal(c) ==
    /\ Visiting("reseal", c)
    /\ job' = [chunk |-> c, intent |-> NoGap, step |-> "sealing",
               forced |-> cat.row[c].forced \cup (IF Open = {} THEN {} ELSE ForcedFlags)]
    /\ UNCHANGED <<disk, catalog, proc, wr, gap, rec, hist, kills, losses>>

\* _cleanup_retained_source: only an exact duplicate of a SEALED bundle goes.
Duplicate(c) == /\ art[c].present /\ art[c].frames = part[c].frames
                /\ man[c].present /\ man[c].frames = part[c].frames

CleanupRetained(c) ==
    /\ Visiting("cleanup", c)
    /\ IF cat.row[c].st = "SEALED"
       THEN Duplicate(c) /\ part' = [part EXCEPT ![c] = NoPart]
       ELSE UNCHANGED part
    /\ Done(c)
    /\ UNCHANGED <<art, man, catalog, proc, wr, gap, job, hist, kills, losses>>

\* reconcile_sealed: one Catalog transition of one manifest's loop.
ReconcileManifest(c) ==
    /\ Visiting("reconcile", c) /\ art[c].present /\ art[c].frames = man[c].frames
    /\ \/ /\ cat.row[c].st = "NONE"
          /\ Commit(Registered(c))
          /\ UNCHANGED rec
       \/ /\ cat.row[c].st \in {"ACTIVE", "RECOVERED"}
          /\ Commit(SealingRow(c, {}, NoGap))
          /\ UNCHANGED rec
       \/ /\ cat.row[c].st = "SEALING"
          /\ Commit(Moved(cat, c, "SEALED"))
          /\ rec' = [rec EXCEPT !.cur = IF part[c].st = "file" THEN c ELSE NoChunk]
       \/ /\ cat.row[c].st = "SEALED"
          /\ Done(c)
          /\ UNCHANGED catalog
    /\ UNCHANGED <<disk, proc, wr, gap, job, hist, kills, losses>>

\* ... and _cleanup_retained_source after the SEALED commit.
UnlinkReconciled ==
    LET c == rec.cur IN
    /\ rec.phase = "reconcile" /\ c # NoChunk /\ Duplicate(c)
    /\ part' = [part EXCEPT ![c] = NoPart]
    /\ rec' = [rec EXCEPT !.cur = NoChunk]
    /\ UNCHANGED <<art, man, catalog, proc, wr, gap, job, hist, kills, losses>>

PhaseAfter == [partials |-> "events", events |-> "reseal", reseal |-> "cleanup",
               cleanup |-> "reconcile"]

\* What a phase visits: read when the phase begins.
Visits(ph) == IF ph = "reseal" THEN SealingPartials
              ELSE IF ph = "cleanup" THEN Files({"file"})
              ELSE IF ph = "reconcile" THEN {c \in Chunks : man[c].present}
              ELSE {}

NextPhase ==
    /\ proc = "recovering" /\ job = NoJob
    /\ rec.cur = NoChunk /\ rec.todo = {}
    /\ rec.phase = "events" => Unresolved = {}
    /\ \/ /\ rec.phase \in DOMAIN PhaseAfter
          /\ rec' = [rec EXCEPT !.phase = PhaseAfter[rec.phase],
                                !.todo = Visits(PhaseAfter[rec.phase])]
          /\ UNCHANGED <<proc, gap>>
       \/ /\ rec.phase = "reconcile"
          /\ rec' = NoRecovery /\ proc' = "running"
          /\ gap' \in IF Open = {} THEN {NoGap} ELSE Open
    /\ UNCHANGED <<disk, catalog, wr, job, hist, kills, losses>>

-----------------------------------------------------------------------------
(* The end of a process. *)

Ended == wr' = NoChunk /\ gap' = NoGap /\ job' = NoJob /\ rec' = NoRecovery /\ proc' = "down"

\* A stop after close_and_seal, or launchd's restart of a blocked start.
Exit ==
    /\ proc = "blocked" \/ (Idle /\ wr = NoChunk)
    /\ Ended
    /\ UNCHANGED <<disk, catalog, hist, kills, losses>>

\* A kill may fall inside the write of a header or of a frame.
KillOutcomes(c) ==
    IF part[c].st = "creating" THEN {[NoPart EXCEPT !.st = "stub"], NewPart}
    ELSE IF c = wr THEN {part[c], [part[c] EXCEPT !.tail = "torn"]} ELSE {part[c]}

Kill ==
    /\ proc \in {"recovering", "running"} /\ kills < MaxKills
    /\ \E f \in [Chunks -> UNION {KillOutcomes(c) : c \in Chunks}] :
          (\A c \in Chunks : f[c] \in KillOutcomes(c)) /\ part' = f
    /\ Ended
    /\ kills' = kills + 1
    /\ UNCHANGED <<art, man, catalog, hist, losses>>

\* A power loss keeps the fsynced frames; what follows them, a frame being
\* written included, may be gone, cut short or garbage.  What it leaves is on
\* the disk and stays.
Cut(p, k, t) == [p EXCEPT !.frames = SubSeq(@, 1, k), !.sync = k, !.tail = t]

LossOutcomes(c) ==
    LET p == part[c] IN
    IF p.st \in {"creating", "stub"} THEN {NoPart, [NoPart EXCEPT !.st = "stub"], NewPart}
    ELSE IF p.st = "file" /\ p.tail # "bad"
               /\ (c = wr \/ p.tail = "torn" \/ p.sync < Len(p.frames))
         THEN {Cut(p, k, t) : k \in p.sync..Len(p.frames), t \in {"clean", "torn", "bad"}}
         ELSE {p}

PowerLoss ==
    /\ losses < MaxPowerLosses
    /\ \E f \in [Chunks -> UNION {LossOutcomes(c) : c \in Chunks}] :
          (\A c \in Chunks : f[c] \in LossOutcomes(c)) /\ part' = f
    /\ cat' \in stable
    /\ stable' = {cat'}
    /\ Ended
    /\ losses' = losses + 1
    /\ UNCHANGED <<art, man, hist, kills>>

-----------------------------------------------------------------------------
Writing ==
    \/ \E c \in Chunks : CreatePartial(c)
    \/ OpenWriter
    \/ \E f \in Frame : AppendFrame(f)
    \/ SyncWriter
    \/ \E g \in Gaps : StartGap(g)
    \/ CompleteGap

Sealing ==
    \/ \E forced \in SUBSET ForcedFlags, g \in Gaps \cup {NoGap} : SealWriter(forced, g)
    \/ \E c \in Chunks, g \in Gaps : RegisterMarker(c, g)
    \/ CreateMarker \/ OpenMarker
    \/ SealSealing \/ SealArtifact \/ SealManifest \/ SealCommit \/ SealUnlink

Recovering ==
    \/ StartProcess \/ NextPhase \/ MarkRecovered \/ MoveQuarantined
    \/ ResealRaises \/ UnlinkReconciled
    \/ \E c \in Chunks : \/ RecoverStub(c) \/ RecoverClean(c) \/ TruncateTail(c)
                         \/ QuarantineRow(c) \/ Reseal(c) \/ CleanupRetained(c)
                         \/ ReconcileManifest(c)
    \/ \E g \in Gaps : MaterializeStarted(g)

Next == Writing \/ Sealing \/ Recovering \/ Exit \/ Kill \/ PowerLoss

Spec == Init /\ [][Next]_vars

\* launchd restarts the process and nothing in recover_storage waits for
\* another actor, so a start that is not killed keeps taking steps.
FairSpec == Spec /\ WF_vars(Recovering \/ Sealing)

-----------------------------------------------------------------------------
(* Properties. *)

\* Every variable has its type, and the Catalog its readers see is one that a
\* power loss may leave: no commit is visible that no later start can find.
TypeOK ==
    /\ part \in [Chunks -> PartFile]
    /\ art \in [Chunks -> ArtFile]
    /\ man \in [Chunks -> ManFile]
    /\ cat \in CatalogType
    /\ stable \subseteq CatalogType /\ cat \in stable
    /\ proc \in {"down", "recovering", "running", "blocked"}
    /\ wr \in Chunks \cup {NoChunk}
    /\ gap \in Gaps \cup {NoGap}
    /\ job \in Job
    /\ rec \in Recovery
    /\ hist \in HistType
    /\ kills \in 0..MaxKills /\ losses \in 0..MaxPowerLosses

\* A frame reported as synchronized (synced_record_count, the basis of
\* PersistenceProgress) stays readable, in place and unchanged, whatever the
\* process, recovery or the power supply does: in the partial, in the
\* quarantined copy, or in an artifact that a manifest describes.
Holds(fs, c) == /\ Len(fs) >= hist.acked[c]
                /\ SubSeq(fs, 1, hist.acked[c]) = SubSeq(hist.appended[c], 1, hist.acked[c])

SyncedFramesSurvive ==
    \A c \in Chunks :
        \/ part[c].st \in {"absent", "creating", "stub"} /\ hist.acked[c] = 0
        \/ part[c].st \in {"file", "moved"} /\ Holds(part[c].frames, c)
        \/ art[c].present /\ man[c].present /\ Holds(art[c].frames, c)

\* A manifest that claims complete=true describes every frame the writer put
\* into the chunk, and its chunk was not closed at a reconnect boundary: no
\* crash, rollback of the Catalog, tail truncation or re-seal turns an
\* interval that is not provably whole into a complete one (seal.py).
CompleteIsHonest ==
    \A c \in Chunks : man[c].present /\ man[c].complete =>
        man[c].frames = hist.appended[c] /\ ~hist.cut[c]

\* In the Catalog as it is and in every content a power loss may leave, a
\* SEALED row has its artifact and its manifest on disk and they agree: the
\* two are durable before the commit that names them.
SealedRowHasBundle ==
    \A k \in stable, c \in Chunks : k.row[c].st = "SEALED" =>
        art[c].present /\ man[c].present /\ art[c].frames = man[c].frames

\* Its inductive form.  A manifest is only written over its own artifact and
\* neither is ever removed here; the seal has the artifact before it writes
\* the manifest and the manifest before it commits; nobody touches the
\* partial under a seal; reconcile_sealed visits only manifests on disk.
ManifestOverArtifact ==
    \A c \in Chunks : man[c].present => art[c].present /\ art[c].frames = man[c].frames

SealedHasManifest ==
    \A k \in stable, c \in Chunks : k.row[c].st = "SEALED" => man[c].present

SealInOrder ==
    /\ job.step = "manifest" =>
          art[job.chunk].present /\ art[job.chunk].frames = part[job.chunk].frames
    /\ job.step = "commit" => man[job.chunk].present

RecoveryAlone ==
    /\ rec.cur # NoChunk => job = NoJob
    /\ rec.phase = "reconcile" => \A c \in rec.todo : man[c].present
    /\ proc # "recovering" => rec = NoRecovery

BundleInv ==
    ManifestOverArtifact /\ SealedHasManifest /\ SealInOrder /\ RecoveryAlone

\* Phase A of recover_storage never meets two unfinished gaps of one stream,
\* whichever suffix of the Catalog's commits a power loss drops: STARTED,
\* COMPLETED and SEALING intents are committed in an order every prefix of
\* which can be resumed.
EveryRollbackEligible == \A k \in stable : Eligible(k)

\* Once recovery is over, a row still SEALING is an empty boundary marker whose
\* header never reached the disk, and its gap is recorded: no data waits
\* behind it.
StuckSealingIsMarker ==
    Idle => \A c \in Chunks : cat.row[c].st = "SEALING" =>
        /\ hist.appended[c] = << >> /\ ~man[c].present
        /\ cat.row[c].intent \in cat.started \cup cat.completed

\* Whatever a crash or a power loss leaves, a start can act on it and leaves no
\* data behind: every suffix of the Catalog that may be lost can be resumed, and
\* what recovery does not finish is an empty marker whose gap is recorded
\* (recover_storage).
RecoveryIsPossible == EveryRollbackEligible /\ StuckSealingIsMarker

\* Recovery never begins a seal of its own: a row it moves to SEALING already
\* has its manifest.  A clean orphan partial, which no durable evidence proves
\* whole, is kept as it is and never sealed (recovery.py).
RecoveryNeverSealsOrphan ==
    [][\A c \in Chunks :
          proc = "recovering" /\ proc' = "recovering"
          /\ cat.row[c].st # "SEALING" /\ cat'.row[c].st = "SEALING" => man[c].present]_vars

\* A start that is killed only finitely often ends: the stream is running, or
\* the start was refused.
StartupEnds == proc = "down" ~> proc \in {"running", "blocked"}

\* recovery.py: "recovery can be repeated safely".  A re-seal would then never
\* find that the manifest on disk contradicts the one it derives.  The code does
\* not keep it (RawChunkReseal.cfg).
ResealAgreesWithManifest == ~(proc = "recovering" /\ ManifestContradiction)
=============================================================================
