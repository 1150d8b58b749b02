--------------------------- MODULE RawChunk_proofs ---------------------------
(* Theorems about RawChunk, for every number of chunks, gaps, frames, kills  *)
(* and power losses: its types, that sealed rows have bundles, and what      *)
(* becomes of the frames: synchronized frames survive, a manifest that       *)
(* claims to be complete is, and a start never meets a state it cannot       *)
(* resume or leaves data behind.                                             *)
EXTENDS RawChunk, SequenceTheorems, TLAPS

(* Typing of the values the actions build. *)

LEMMA FileTypes ==
    /\ NoPart \in PartFile /\ NewPart \in PartFile
    /\ [NoPart EXCEPT !.st = "stub"] \in PartFile
    /\ NoArt \in ArtFile /\ NoMan \in ManFile
<1>1. << >> \in Seq(Frame)
    OBVIOUS
<1>2. NoPart \in PartFile /\ NoArt \in ArtFile /\ NoMan \in ManFile
    BY <1>1 DEF NoPart, PartFile, NoArt, ArtFile, NoMan, ManFile
<1> QED
    BY <1>2 DEF NewPart, PartFile

LEMMA JobTypes == NoJob \in Job /\ NoRecovery \in Recovery
    BY DEF Job, NoRecovery, Recovery, Phases

LEMMA ActiveJobs == ASSUME job \in Job, job.step \in Steps PROVE job \in ActiveJob
    BY DEF Job, NoJob, Steps

LEMMA WithRowType ==
    ASSUME NEW k \in CatalogType, NEW c \in Chunks, NEW r \in Row
    PROVE  WithRow(k, c, r) \in CatalogType
    BY DEF WithRow, CatalogType

LEMMA MovedType ==
    ASSUME NEW k \in CatalogType, NEW c \in Chunks, NEW to \in ChunkState
    PROVE  Moved(k, c, to) \in CatalogType
<1>1. k.row[c] \in Row
    BY DEF CatalogType
<1>2. [k.row[c] EXCEPT !.st = to] \in Row
    BY <1>1 DEF Row
<1> QED
    BY <1>2, WithRowType DEF Moved

LEMMA RegisteredType ==
    ASSUME cat \in CatalogType, NEW c \in Chunks
    PROVE  Registered(c) \in CatalogType
    BY MovedType DEF Registered, ChunkState

LEMMA SealingRowType ==
    ASSUME cat \in CatalogType, NEW c \in Chunks, NEW forced \in SUBSET ForcedFlags,
           NEW g \in Gaps \cup {NoGap}
    PROVE  SealingRow(c, forced, g) \in CatalogType
<1> DEFINE r == [cat.row[c] EXCEPT !.st = "SEALING", !.forced = forced, !.intent = g]
<1>1. r \in Row
    <2>1. cat.row[c] \in Row
        BY DEF CatalogType
    <2> QED
        BY <2>1 DEF Row, ChunkState
<1>2. WithRow(cat, c, r) \in CatalogType
    BY <1>1, WithRowType
<1> HIDE DEF r
<1>3. [WithRow(cat, c, r) EXCEPT !.intents = @ \cup ({g} \ {NoGap})] \in CatalogType
    BY <1>2 DEF CatalogType
<1> QED
    BY <1>3 DEF SealingRow, r

LEMMA CommitType ==
    ASSUME TypeOK, NEW k \in CatalogType, Commit(k)
    PROVE  cat' \in CatalogType /\ stable' \subseteq CatalogType /\ cat' \in stable'
    BY DEF Commit, TypeOK

LEMMA HistTypes ==
    ASSUME hist \in HistType, NEW c \in Chunks
    PROVE  /\ \A fs \in Seq(Frame) : [hist EXCEPT !.appended[c] = fs] \in HistType
           /\ \A n \in Nat : [hist EXCEPT !.acked[c] = n] \in HistType
           /\ \A S \in SUBSET Chunks : [hist EXCEPT !.minted = S] \in HistType
           /\ \A S \in SUBSET Gaps : [hist EXCEPT !.gaps = S] \in HistType
<1>1. hist.appended \in [Chunks -> Seq(Frame)] /\ hist.acked \in [Chunks -> Nat]
    BY DEF HistType
<1>2. \A fs \in Seq(Frame) : [hist.appended EXCEPT ![c] = fs] \in [Chunks -> Seq(Frame)]
    BY <1>1
<1>3. \A n \in Nat : [hist.acked EXCEPT ![c] = n] \in [Chunks -> Nat]
    BY <1>1
<1>4. \A fs \in Seq(Frame) : [hist EXCEPT !.appended[c] = fs] \in HistType
    BY <1>2 DEF HistType
<1>5. \A n \in Nat : [hist EXCEPT !.acked[c] = n] \in HistType
    BY <1>3 DEF HistType
<1> QED
    BY <1>4, <1>5 DEF HistType

LEMMA InitTypeOK == Init => TypeOK
<1> SUFFICES ASSUME Init PROVE TypeOK
    OBVIOUS
<1> USE ChunkAssumption, GapAssumption, BoundAssumption
<1>1. << >> \in Seq(Frame)
    OBVIOUS
<1>3. NoRow \in Row
    BY DEF NoRow, Row, ChunkState, ForcedFlags
<1>4. cat \in CatalogType
    BY <1>3 DEF Init, CatalogType
<1>6. hist \in HistType
    BY <1>1 DEF Init, HistType
<1> QED
    BY FileTypes, JobTypes, <1>4, <1>6 DEF Init, TypeOK

LEMMA WritingTypeOK == ASSUME TypeOK, Writing PROVE TypeOK'
<1>1. ASSUME NEW c \in Chunks, CreatePartial(c) PROVE TypeOK'
    <2>1. part' \in [Chunks -> PartFile]
        BY <1>1 DEF TypeOK, CreatePartial, PartFile
    <2>2. hist' \in HistType
        <3>1. hist.minted \cup {c} \in SUBSET Chunks
            BY DEF TypeOK, HistType
        <3> QED
            BY <1>1, <3>1, HistTypes DEF TypeOK, CreatePartial
    <2> QED
        BY <1>1, <2>1, <2>2 DEF TypeOK, CreatePartial, catalog
<1>2. CASE OpenWriter
    <2>1. wr \in Chunks
        BY <1>2 DEF TypeOK, OpenWriter
    <2>2. Registered(wr) \in CatalogType
        BY <2>1, RegisteredType DEF TypeOK
    <2>3. part' \in [Chunks -> PartFile]
        BY <1>2, FileTypes DEF TypeOK, OpenWriter
    <2>4. cat' \in CatalogType /\ stable' \subseteq CatalogType /\ cat' \in stable'
        BY <1>2, <2>2, CommitType DEF OpenWriter
    <2> QED
        BY <1>2, <2>3, <2>4 DEF TypeOK, OpenWriter, process
<1>3. ASSUME NEW f \in Frame, AppendFrame(f) PROVE TypeOK'
    <2>1. wr \in Chunks
        BY <1>3 DEF TypeOK, AppendFrame, WriterOpen
    <2>2. part' \in [Chunks -> PartFile]
        <3>1. part[wr] \in PartFile /\ Append(part[wr].frames, f) \in Seq(Frame)
            BY <2>1 DEF TypeOK, PartFile
        <3>2. [part[wr] EXCEPT !.frames = Append(part[wr].frames, f)] \in PartFile
            BY <3>1 DEF PartFile
        <3>3. part' = [part EXCEPT ![wr] = [part[wr] EXCEPT !.frames = Append(part[wr].frames, f)]]
            BY <1>3 DEF AppendFrame
        <3> QED
            BY <2>1, <3>2, <3>3 DEF TypeOK
    <2>3. Append(hist.appended[wr], f) \in Seq(Frame)
        BY <2>1 DEF TypeOK, HistType
    <2>4. hist' \in HistType
        BY <1>3, <2>1, <2>3, HistTypes DEF TypeOK, AppendFrame
    <2> QED
        BY <1>3, <2>2, <2>4 DEF TypeOK, AppendFrame, catalog, process
<1>4. CASE SyncWriter
    <2>1. wr \in Chunks
        BY <1>4 DEF TypeOK, SyncWriter, WriterOpen
    <2>2. Len(part[wr].frames) \in Nat
        BY <2>1 DEF TypeOK, PartFile
    <2>3. part' \in [Chunks -> PartFile]
        BY <1>4, <2>1, <2>2 DEF TypeOK, SyncWriter, Synced, PartFile
    <2>4. hist' \in HistType
        BY <1>4, <2>1, <2>2, HistTypes DEF TypeOK, SyncWriter, Synced
    <2> QED
        BY <1>4, <2>3, <2>4 DEF TypeOK, SyncWriter, catalog, process
<1>5. ASSUME NEW g \in Gaps, StartGap(g) PROVE TypeOK'
    <2>1. [cat EXCEPT !.started = @ \cup {g}] \in CatalogType
        BY DEF TypeOK, CatalogType
    <2>2. cat' \in CatalogType /\ stable' \subseteq CatalogType /\ cat' \in stable'
        BY <1>5, <2>1, CommitType DEF StartGap
    <2>3. hist' \in HistType
        BY <1>5 DEF TypeOK, StartGap, HistType
    <2> QED
        BY <1>5, <2>2, <2>3 DEF TypeOK, StartGap, Current, disk
<1>6. CASE CompleteGap
    <2>1. [cat EXCEPT !.completed = @ \cup {gap}] \in CatalogType
        BY <1>6 DEF TypeOK, CatalogType, CompleteGap, Open
    <2>2. cat' \in CatalogType /\ stable' \subseteq CatalogType /\ cat' \in stable'
        BY <1>6, <2>1, CommitType DEF CompleteGap
    <2> QED
        BY <1>6, <2>2 DEF TypeOK, CompleteGap, disk
<1> QED
    BY <1>1, <1>2, <1>3, <1>4, <1>5, <1>6 DEF Writing

LEMMA SealingTypeOK == ASSUME TypeOK, Sealing PROVE TypeOK'
<1>1. ASSUME NEW forced \in SUBSET ForcedFlags, NEW g \in Gaps \cup {NoGap},
             SealWriter(forced, g)
      PROVE  TypeOK'
    <2>1. wr \in Chunks
        BY <1>1 DEF TypeOK, SealWriter, WriterOpen
    <2>2. Len(part[wr].frames) \in Nat
        BY <2>1 DEF TypeOK, PartFile
    <2>3. part' \in [Chunks -> PartFile]
        BY <1>1, <2>1, <2>2 DEF TypeOK, SealWriter, PartFile
    <2>4. hist' \in HistType
        BY <1>1, <2>1, <2>2 DEF TypeOK, SealWriter, HistType
    <2>5. job' \in Job
        BY <1>1, <2>1 DEF SealWriter, Job, ActiveJob, Steps
    <2>6. gap' \in Gaps \cup {NoGap}
        BY <1>1 DEF TypeOK, SealWriter, Current
    <2> QED
        BY <1>1, <2>3, <2>4, <2>5, <2>6 DEF TypeOK, SealWriter, catalog
<1>2. ASSUME NEW c \in Chunks, NEW g \in Gaps, RegisterMarker(c, g) PROVE TypeOK'
    <2>1. SealingRow(c, ForcedFlags, g) \in CatalogType
        BY SealingRowType DEF TypeOK
    <2>2. cat' \in CatalogType /\ stable' \subseteq CatalogType /\ cat' \in stable'
        BY <1>2, <2>1, CommitType DEF RegisterMarker
    <2>3. job' \in Job
        BY <1>2 DEF RegisterMarker, Job, ActiveJob, Steps
    <2>4. hist' \in HistType
        BY <1>2 DEF TypeOK, RegisterMarker, HistType
    <2> QED
        BY <1>2, <2>2, <2>3, <2>4 DEF TypeOK, RegisterMarker, Current, disk
<1>3. CASE CreateMarker
    <2>1. job \in ActiveJob
        BY <1>3, ActiveJobs DEF TypeOK, CreateMarker, Steps
    <2>2. part' \in [Chunks -> PartFile]
        BY <1>3 DEF TypeOK, CreateMarker, PartFile
    <2>3. job' \in Job
        BY <1>3, <2>1 DEF CreateMarker, Job, ActiveJob, Steps
    <2> QED
        BY <1>3, <2>2, <2>3 DEF TypeOK, CreateMarker, catalog
<1>4. CASE OpenMarker
    <2>1. job \in ActiveJob
        BY <1>4, ActiveJobs DEF TypeOK, OpenMarker, Steps
    <2>2. cat' \in CatalogType /\ stable' \subseteq CatalogType /\ cat' \in stable'
        BY <1>4, <2>1, RegisteredType, CommitType DEF OpenMarker, TypeOK, ActiveJob
    <2>3. part' \in [Chunks -> PartFile]
        BY <1>4, FileTypes DEF TypeOK, OpenMarker
    <2>4. job' \in Job
        BY <1>4, <2>1 DEF OpenMarker, Job, ActiveJob, Steps
    <2> QED
        BY <1>4, <2>2, <2>3, <2>4 DEF TypeOK, OpenMarker
<1>5. CASE SealSealing
    <2>1. job \in ActiveJob
        BY <1>5, ActiveJobs DEF TypeOK, SealSealing, Steps
    <2>2. cat.row[job.chunk] \in Row
        BY <2>1 DEF TypeOK, CatalogType, ActiveJob
    <2>3. SealingRow(job.chunk, job.forced, job.intent) \in CatalogType
        BY <2>1, <2>2, SealingRowType DEF TypeOK, ActiveJob, Row
    <2>4. cat' \in CatalogType /\ stable' \subseteq CatalogType /\ cat' \in stable'
        BY <1>5, <2>3, CommitType DEF SealSealing, catalog, TypeOK
    <2>5. job' \in Job
        <3>1. [job EXCEPT !.step = "artifact"] \in ActiveJob
            BY <2>1 DEF ActiveJob, Steps
        <3>2. job.forced \cup cat.row[job.chunk].forced \in SUBSET ForcedFlags
            BY <2>1, <2>2 DEF ActiveJob, Row
        <3>3. [job EXCEPT !.step = "artifact",
                          !.forced = @ \cup cat.row[job.chunk].forced] \in ActiveJob
            BY <2>1, <3>2 DEF ActiveJob, Steps
        <3> QED
            BY <1>5, <3>1, <3>3 DEF SealSealing, Job
    <2> QED
        BY <1>5, <2>4, <2>5 DEF TypeOK, SealSealing, disk
<1>6. CASE SealArtifact
    <2>1. job \in ActiveJob
        BY <1>6, ActiveJobs DEF TypeOK, SealArtifact, Steps
    <2>2. part[job.chunk].frames \in Seq(Frame)
        BY <2>1 DEF TypeOK, ActiveJob, PartFile
    <2>3. art' \in [Chunks -> ArtFile]
        BY <1>6, <2>2 DEF TypeOK, SealArtifact, ArtFile
    <2>4. job' \in Job
        BY <1>6, <2>1 DEF SealArtifact, Job, ActiveJob, Steps
    <2> QED
        BY <1>6, <2>3, <2>4 DEF TypeOK, SealArtifact, catalog
<1>7. CASE SealManifest
    <2>1. job \in ActiveJob
        BY <1>7, ActiveJobs DEF TypeOK, SealManifest, Steps
    <2>2. part[job.chunk].frames \in Seq(Frame)
        BY <2>1 DEF TypeOK, ActiveJob, PartFile
    <2>3. Expected(job.chunk) \in ManFile
        BY <2>2 DEF Expected, Manifest, ManFile
    <2>4. man' \in [Chunks -> ManFile]
        BY <1>7, <2>3 DEF TypeOK, SealManifest
    <2>5. job' \in Job
        BY <1>7, <2>1 DEF SealManifest, Job, ActiveJob, Steps
    <2> QED
        BY <1>7, <2>4, <2>5 DEF TypeOK, SealManifest, catalog
<1>8. CASE SealCommit
    <2>1. job \in ActiveJob
        BY <1>8, ActiveJobs DEF TypeOK, SealCommit, Steps
    <2>2. Moved(cat, job.chunk, "SEALED") \in CatalogType
        BY <2>1, MovedType DEF TypeOK, ActiveJob, ChunkState
    <2>3. cat' \in CatalogType /\ stable' \subseteq CatalogType /\ cat' \in stable'
        BY <1>8, <2>2, CommitType DEF SealCommit
    <2>4. job' \in Job
        BY <1>8, <2>1 DEF SealCommit, Job, ActiveJob, Steps
    <2> QED
        BY <1>8, <2>3, <2>4 DEF TypeOK, SealCommit, disk
<1>9. CASE SealUnlink
    <2>1. part' \in [Chunks -> PartFile]
        BY <1>9, FileTypes DEF TypeOK, SealUnlink
    <2>2. rec' \in Recovery
        BY <1>9 DEF TypeOK, SealUnlink, Recovery
    <2> QED
        BY <1>9, <2>1, <2>2, JobTypes DEF TypeOK, SealUnlink, catalog
<1> QED
    BY <1>1, <1>2, <1>3, <1>4, <1>5, <1>6, <1>7, <1>8, <1>9 DEF Sealing

LEMMA RecoveringTypeOK == ASSUME TypeOK, Recovering PROVE TypeOK'
<1>1. CASE StartProcess
    <2>1. rec' \in Recovery
        BY <1>1 DEF StartProcess, NoRecovery, Recovery, Phases, Files
    <2> QED
        BY <1>1, <2>1 DEF TypeOK, StartProcess, disk, catalog
<1>2. CASE NextPhase
    <2>1. rec' \in Recovery
        <3>1. CASE rec.phase = "reconcile"
            BY <1>2, <3>1, JobTypes DEF NextPhase, PhaseAfter
        <3>2. CASE rec.phase \in DOMAIN PhaseAfter
            <4>1. PhaseAfter[rec.phase] \in Phases
                BY <3>2 DEF PhaseAfter, Phases
            <4>2. Visits(PhaseAfter[rec.phase]) \subseteq Chunks
                BY DEF Visits, SealingPartials, Files
            <4> QED
                BY <1>2, <3>2, <4>1, <4>2 DEF TypeOK, NextPhase, Recovery, PhaseAfter
        <3> QED
            BY <1>2, <3>1, <3>2 DEF NextPhase
    <2>2. gap' \in Gaps \cup {NoGap}
        BY <1>2 DEF TypeOK, NextPhase, Open, CatalogType
    <2> QED
        BY <1>2, <2>1, <2>2 DEF TypeOK, NextPhase, disk, catalog
<1>3. CASE MarkRecovered
    <2>1. rec.cur \in Chunks
        BY <1>3 DEF TypeOK, MarkRecovered, Recovery
    <2>2. [cat.row[rec.cur] EXCEPT !.st = "RECOVERED", !.recovered = TRUE] \in Row
        <3>1. cat.row[rec.cur] \in Row
            BY <2>1 DEF TypeOK, CatalogType
        <3> QED
            BY <3>1 DEF Row, ChunkState
    <2>3. cat' \in CatalogType /\ stable' \subseteq CatalogType /\ cat' \in stable'
        BY <1>3, <2>1, <2>2, WithRowType, CommitType DEF TypeOK, MarkRecovered
    <2>4. rec' \in Recovery
        BY <1>3 DEF TypeOK, MarkRecovered, Recovery
    <2> QED
        BY <1>3, <2>3, <2>4 DEF TypeOK, MarkRecovered, disk
<1>4. CASE MoveQuarantined
    <2>1. part' \in [Chunks -> PartFile]
        <3>1. rec.cur \in Chunks
            BY <1>4 DEF TypeOK, MoveQuarantined, Recovery
        <3>2. [part[rec.cur] EXCEPT !.st = "moved"] \in PartFile
            BY <3>1 DEF TypeOK, PartFile
        <3>3. part' = [part EXCEPT ![rec.cur] = [part[rec.cur] EXCEPT !.st = "moved"]]
            BY <1>4 DEF MoveQuarantined
        <3> QED
            BY <3>1, <3>2, <3>3 DEF TypeOK
    <2>2. rec' \in Recovery
        BY <1>4 DEF TypeOK, MoveQuarantined, Recovery
    <2> QED
        BY <1>4, <2>1, <2>2 DEF TypeOK, MoveQuarantined, catalog
<1>5. CASE ResealRaises
    BY <1>5, JobTypes DEF TypeOK, ResealRaises, disk, catalog
<1>6. CASE UnlinkReconciled
    <2>1. part' \in [Chunks -> PartFile]
        BY <1>6, FileTypes DEF TypeOK, UnlinkReconciled
    <2>2. rec' \in Recovery
        BY <1>6 DEF TypeOK, UnlinkReconciled, Recovery
    <2> QED
        BY <1>6, <2>1, <2>2 DEF TypeOK, UnlinkReconciled, catalog
<1>7. ASSUME NEW c \in Chunks, RecoverStub(c) PROVE TypeOK'
    <2>1. part' \in [Chunks -> PartFile]
        BY <1>7 DEF TypeOK, RecoverStub, PartFile
    <2>2. rec' \in Recovery
        BY <1>7 DEF TypeOK, RecoverStub, Done, Recovery
    <2> QED
        BY <1>7, <2>1, <2>2 DEF TypeOK, RecoverStub, catalog
<1>8. ASSUME NEW c \in Chunks, RecoverClean(c) PROVE TypeOK'
    <2>1. cat' \in CatalogType /\ stable' \subseteq CatalogType /\ cat' \in stable'
        BY <1>8, RegisteredType, CommitType DEF TypeOK, RecoverClean
    <2>2. rec' \in Recovery
        BY <1>8 DEF TypeOK, RecoverClean, Done, Recovery
    <2> QED
        BY <1>8, <2>1, <2>2 DEF TypeOK, RecoverClean, disk
<1>9. ASSUME NEW c \in Chunks, TruncateTail(c) PROVE TypeOK'
    <2>1. cat' \in CatalogType /\ stable' \subseteq CatalogType /\ cat' \in stable'
        BY <1>9, RegisteredType, CommitType DEF TypeOK, TruncateTail
    <2>2. Len(part[c].frames) \in Nat
        BY DEF TypeOK, PartFile
    <2>3. part' \in [Chunks -> PartFile]
        BY <1>9, <2>2 DEF TypeOK, TruncateTail, PartFile
    <2>4. rec' \in Recovery
        BY <1>9 DEF TypeOK, TruncateTail, Recovery
    <2> QED
        BY <1>9, <2>1, <2>3, <2>4 DEF TypeOK, TruncateTail
<1>10. ASSUME NEW c \in Chunks, QuarantineRow(c) PROVE TypeOK'
    <2>1. Moved(Registered(c), c, "QUARANTINED") \in CatalogType
        BY RegisteredType, MovedType DEF TypeOK, ChunkState
    <2>2. cat' \in CatalogType /\ stable' \subseteq CatalogType /\ cat' \in stable'
        BY <1>10, <2>1, CommitType DEF QuarantineRow
    <2>3. rec' \in Recovery
        BY <1>10 DEF TypeOK, QuarantineRow, Recovery
    <2> QED
        BY <1>10, <2>2, <2>3 DEF TypeOK, QuarantineRow, disk
<1>11. ASSUME NEW c \in Chunks, Reseal(c) PROVE TypeOK'
    <2>1. cat.row[c] \in Row
        BY DEF TypeOK, CatalogType
    <2>2. job' \in Job
        BY <1>11, <2>1 DEF Reseal, Job, ActiveJob, Steps, Row
    <2> QED
        BY <1>11, <2>2 DEF TypeOK, Reseal, disk, catalog
<1>12. ASSUME NEW c \in Chunks, CleanupRetained(c) PROVE TypeOK'
    <2>1. part' \in [Chunks -> PartFile]
        BY <1>12, FileTypes DEF TypeOK, CleanupRetained
    <2>2. rec' \in Recovery
        BY <1>12 DEF TypeOK, CleanupRetained, Done, Recovery
    <2> QED
        BY <1>12, <2>1, <2>2 DEF TypeOK, CleanupRetained, catalog
<1>13. ASSUME NEW c \in Chunks, ReconcileManifest(c) PROVE TypeOK'
    <2>1. cat.row[c] \in Row
        BY DEF TypeOK, CatalogType
    <2>2. SealingRow(c, {}, NoGap) \in CatalogType
        BY <2>1, SealingRowType DEF TypeOK, Row
    <2>3. Moved(cat, c, "SEALED") \in CatalogType
        BY MovedType DEF TypeOK, ChunkState
    <2>4. cat' \in CatalogType /\ stable' \subseteq CatalogType /\ cat' \in stable'
        BY <1>13, <2>2, <2>3, RegisteredType, CommitType
        DEF TypeOK, ReconcileManifest, catalog
    <2>5. rec' \in Recovery
        BY <1>13 DEF TypeOK, ReconcileManifest, Done, Recovery
    <2> QED
        BY <1>13, <2>4, <2>5 DEF TypeOK, ReconcileManifest, disk
<1>14. ASSUME NEW g \in Gaps, MaterializeStarted(g) PROVE TypeOK'
    <2>1. [cat EXCEPT !.started = @ \cup {g}] \in CatalogType
        BY DEF TypeOK, CatalogType
    <2>2. cat' \in CatalogType /\ stable' \subseteq CatalogType /\ cat' \in stable'
        BY <1>14, <2>1, CommitType DEF MaterializeStarted
    <2> QED
        BY <1>14, <2>2 DEF TypeOK, MaterializeStarted, disk, process
<1> QED
    BY <1>1, <1>2, <1>3, <1>4, <1>5, <1>6, <1>7, <1>8, <1>9, <1>10, <1>11, <1>12,
       <1>13, <1>14 DEF Recovering

LEMMA EndingTypeOK == ASSUME TypeOK, Exit \/ Kill \/ PowerLoss PROVE TypeOK'
<1> USE BoundAssumption
<1>1. CASE Exit
    BY <1>1, JobTypes DEF TypeOK, Exit, Ended, disk, catalog
<1>2. CASE Kill
    <2>1. ASSUME NEW c \in Chunks PROVE KillOutcomes(c) \subseteq PartFile
        <3>1. part[c] \in PartFile
            BY DEF TypeOK
        <3>2. [part[c] EXCEPT !.tail = "torn"] \in PartFile
            BY <3>1 DEF PartFile
        <3> QED
            BY <3>1, <3>2, FileTypes DEF KillOutcomes
    <2>2. part' \in [Chunks -> PartFile]
        BY <1>2, <2>1 DEF Kill
    <2> QED
        BY <1>2, <2>2, JobTypes DEF TypeOK, Kill, Ended, catalog
<1>3. CASE PowerLoss
    <2>1. ASSUME NEW c \in Chunks PROVE LossOutcomes(c) \subseteq PartFile
        <3>1. part[c] \in PartFile /\ part[c].frames \in Seq(Frame) /\ part[c].sync \in Nat
              /\ Len(part[c].frames) \in Nat
            BY DEF TypeOK, PartFile
        <3>2. ASSUME NEW k \in part[c].sync..Len(part[c].frames),
                     NEW t \in {"clean", "torn", "bad"}
              PROVE  Cut(part[c], k, t) \in PartFile
            <4>1. k \in Nat /\ k <= Len(part[c].frames)
                BY <3>1, <3>2
            <4>2. SubSeq(part[c].frames, 1, k) \in Seq(Frame)
                BY <3>1, <4>1, SubSeqProperties
            <4> QED
                BY <3>1, <4>1, <4>2 DEF PartFile, Cut
        <3>3. {Cut(part[c], k, t) :
                  k \in part[c].sync..Len(part[c].frames), t \in {"clean", "torn", "bad"}}
                 \subseteq PartFile
            BY <3>2
        <3>4. {NoPart, [NoPart EXCEPT !.st = "stub"], NewPart} \subseteq PartFile
            BY FileTypes
        <3> QED
            BY <3>1, <3>3, <3>4 DEF LossOutcomes
    <2>2. part' \in [Chunks -> PartFile]
        BY <1>3, <2>1 DEF PowerLoss
    <2>3. cat' \in CatalogType /\ stable' \subseteq CatalogType /\ cat' \in stable'
        BY <1>3 DEF TypeOK, PowerLoss
    <2> QED
        BY <1>3, <2>2, <2>3, JobTypes DEF TypeOK, PowerLoss, Ended
<1> QED
    BY <1>1, <1>2, <1>3

LEMMA StutterTypeOK == ASSUME TypeOK, UNCHANGED vars PROVE TypeOK'
    BY DEF TypeOK, vars

\* The type invariant holds in every behaviour: files, Catalog contents, the
\* contents a power loss may leave, and the process keep their types.
THEOREM TypeCorrect == Spec => []TypeOK
<1>1. TypeOK /\ [Next]_vars => TypeOK'
    BY WritingTypeOK, SealingTypeOK, RecoveringTypeOK, EndingTypeOK, StutterTypeOK DEF Next
<1> QED
    BY InitTypeOK, <1>1, PTL DEF Spec

-----------------------------------------------------------------------------
(* SEALED rows and their bundles. *)

LEMMA WithRowState ==
    ASSUME NEW k \in CatalogType, NEW c \in Chunks, NEW r, NEW d \in Chunks
    PROVE  WithRow(k, c, r).row[d] = IF d = c THEN r ELSE k.row[d]
    BY DEF WithRow, CatalogType

LEMMA MovedState ==
    ASSUME NEW k \in CatalogType, NEW c \in Chunks, NEW to, NEW d \in Chunks
    PROVE  Moved(k, c, to).row[d].st = IF d = c THEN to ELSE k.row[d].st
<1>1. k.row[c] \in Row
    BY DEF CatalogType
<1>2. [k.row[c] EXCEPT !.st = to].st = to
    BY <1>1 DEF Row
<1>3. Moved(k, c, to).row[d] = IF d = c THEN [k.row[c] EXCEPT !.st = to] ELSE k.row[d]
    BY WithRowState DEF Moved
<1> QED
    BY <1>2, <1>3

LEMMA RegisteredState ==
    ASSUME cat \in CatalogType, NEW c \in Chunks, NEW d \in Chunks
    PROVE  Registered(c).row[d].st = "SEALED" => cat.row[d].st = "SEALED"
    BY MovedState DEF Registered

LEMMA SealingRowState ==
    ASSUME cat \in CatalogType, NEW c \in Chunks, NEW forced, NEW g, NEW d \in Chunks
    PROVE  SealingRow(c, forced, g).row[d].st =
              IF d = c THEN "SEALING" ELSE cat.row[d].st
<1> DEFINE r == [cat.row[c] EXCEPT !.st = "SEALING", !.forced = forced, !.intent = g]
<1>0. r.st = "SEALING"
    <2>1. cat.row[c] \in Row
        BY DEF CatalogType
    <2> QED
        BY <2>1 DEF Row
<1>1. WithRow(cat, c, r).row[d] = IF d = c THEN r ELSE cat.row[d]
    BY WithRowState
<1>2. SealingRow(c, forced, g).row = WithRow(cat, c, r).row
    BY DEF SealingRow, WithRow, CatalogType
<1> QED
    BY <1>0, <1>1, <1>2

\* A commit that marks no row SEALED without a manifest keeps SealedHasManifest.
LEMMA CommitSealed ==
    ASSUME SealedHasManifest, NEW k, Commit(k),
           \A d \in Chunks : man[d].present => man'[d].present,
           \A d \in Chunks : k.row[d].st = "SEALED" => man'[d].present
    PROVE  SealedHasManifest'
    BY DEF SealedHasManifest, Commit

LEMMA KeepSealed ==
    ASSUME TypeOK, SealedHasManifest, NEW k, Commit(k), UNCHANGED man,
           \A d \in Chunks : k.row[d].st = "SEALED" => cat.row[d].st = "SEALED"
    PROVE  SealedHasManifest'
    BY CommitSealed DEF SealedHasManifest, TypeOK

LEMMA InitBundle == Init => BundleInv
    BY DEF Init, BundleInv, ManifestOverArtifact, SealedHasManifest, SealInOrder,
           RecoveryAlone, NoMan, NoRow, NoJob, NoRecovery

LEMMA WritingBundle == ASSUME TypeOK, BundleInv, Writing PROVE BundleInv'
<1> USE DEF BundleInv
<1>1. ASSUME NEW c \in Chunks, CreatePartial(c) PROVE BundleInv'
    BY <1>1 DEF CreatePartial, Idle, NoJob, catalog, ManifestOverArtifact,
                SealedHasManifest, SealInOrder, RecoveryAlone
<1>2. CASE OpenWriter
    <2>1. SealedHasManifest'
        BY <1>2, KeepSealed, RegisteredState DEF OpenWriter, TypeOK
    <2> QED
        BY <1>2, <2>1 DEF OpenWriter, Idle, NoJob, process, ManifestOverArtifact,
                          SealInOrder, RecoveryAlone
<1>3. ASSUME NEW f \in Frame, AppendFrame(f) PROVE BundleInv'
    BY <1>3 DEF AppendFrame, WriterOpen, Idle, NoJob, catalog, process,
                ManifestOverArtifact, SealedHasManifest, SealInOrder, RecoveryAlone
<1>4. CASE SyncWriter
    BY <1>4 DEF SyncWriter, WriterOpen, Idle, NoJob, catalog, process,
                ManifestOverArtifact, SealedHasManifest, SealInOrder, RecoveryAlone
<1>5. ASSUME NEW g \in Gaps, StartGap(g) PROVE BundleInv'
    <2>1. [cat EXCEPT !.started = @ \cup {g}].row = cat.row
        BY DEF TypeOK, CatalogType
    <2>2. SealedHasManifest'
        BY <1>5, <2>1, KeepSealed DEF StartGap, disk
    <2> QED
        BY <1>5, <2>2 DEF StartGap, disk, ManifestOverArtifact, SealInOrder, RecoveryAlone
<1>6. CASE CompleteGap
    <2>1. [cat EXCEPT !.completed = @ \cup {gap}].row = cat.row
        BY DEF TypeOK, CatalogType
    <2>2. SealedHasManifest'
        BY <1>6, <2>1, KeepSealed DEF CompleteGap, disk
    <2> QED
        BY <1>6, <2>2 DEF CompleteGap, disk, ManifestOverArtifact, SealInOrder, RecoveryAlone
<1> QED
    BY <1>1, <1>2, <1>3, <1>4, <1>5, <1>6 DEF Writing

LEMMA SealingBundle == ASSUME TypeOK, BundleInv, Sealing PROVE BundleInv'
<1> USE DEF BundleInv
<1>1. ASSUME NEW forced \in SUBSET ForcedFlags, NEW g \in Gaps \cup {NoGap},
             SealWriter(forced, g)
      PROVE  BundleInv'
    <2>1. rec = NoRecovery
        BY <1>1 DEF SealWriter, WriterOpen, Idle, RecoveryAlone
    <2> QED
        BY <1>1, <2>1 DEF SealWriter, WriterOpen, Idle, NoRecovery, catalog,
              ManifestOverArtifact, SealedHasManifest, SealInOrder, RecoveryAlone
<1>2. ASSUME NEW c \in Chunks, NEW g \in Gaps, RegisterMarker(c, g) PROVE BundleInv'
    <2>1. rec = NoRecovery
        BY <1>2 DEF RegisterMarker, Idle, RecoveryAlone
    <2>2. SealedHasManifest'
        <3>1. \A d \in Chunks : SealingRow(c, ForcedFlags, g).row[d].st = "SEALED"
                                 => cat.row[d].st = "SEALED"
            <4> TAKE d \in Chunks
            <4>1. SealingRow(c, ForcedFlags, g).row[d].st =
                     IF d = c THEN "SEALING" ELSE cat.row[d].st
                BY SealingRowState DEF TypeOK
            <4> QED
                BY <4>1
        <3>2. Commit(SealingRow(c, ForcedFlags, g)) /\ UNCHANGED man
            BY <1>2 DEF RegisterMarker, disk
        <3> QED
            BY <3>1, <3>2, KeepSealed
    <2> QED
        BY <1>2, <2>1, <2>2 DEF RegisterMarker, Idle, NoRecovery, disk,
              ManifestOverArtifact, SealInOrder, RecoveryAlone
<1>3. CASE CreateMarker
    <2>1. job \in ActiveJob
        BY <1>3, ActiveJobs DEF TypeOK, CreateMarker, Steps
    <2>2. rec.cur = NoChunk /\ job'.step = "markerheader"
        BY <1>3, <2>1 DEF CreateMarker, RecoveryAlone, NoJob, ActiveJob
    <2> QED
        BY <1>3, <2>2 DEF CreateMarker, catalog, ManifestOverArtifact,
              SealedHasManifest, SealInOrder, RecoveryAlone
<1>4. CASE OpenMarker
    <2>1. job \in ActiveJob
        BY <1>4, ActiveJobs DEF TypeOK, OpenMarker, Steps
    <2>2. rec.cur = NoChunk /\ job'.step = "sealing"
        BY <1>4, <2>1 DEF OpenMarker, RecoveryAlone, NoJob, ActiveJob
    <2>3. SealedHasManifest'
        BY <1>4, <2>1, KeepSealed, RegisteredState DEF OpenMarker, TypeOK, ActiveJob
    <2> QED
        BY <1>4, <2>2, <2>3 DEF OpenMarker, ManifestOverArtifact, SealInOrder, RecoveryAlone
<1>5. CASE SealSealing
    <2>1. job \in ActiveJob
        BY <1>5, ActiveJobs DEF TypeOK, SealSealing, Steps
    <2>2. rec.cur = NoChunk /\ job'.step = "artifact"
        <3>1. rec.cur = NoChunk
            BY <1>5 DEF SealSealing, RecoveryAlone, NoJob
        <3>2. [job EXCEPT !.step = "artifact"].step = "artifact"
            BY <2>1 DEF ActiveJob
        <3>3. [job EXCEPT !.step = "artifact", !.forced = @ \cup cat.row[job.chunk].forced].step
                 = "artifact"
            BY <2>1 DEF ActiveJob
        <3> QED
            BY <1>5, <3>1, <3>2, <3>3 DEF SealSealing
    <2>3. SealedHasManifest'
        <3>1. CASE Commit(SealingRow(job.chunk, job.forced, job.intent))
            BY <1>5, <2>1, <3>1, KeepSealed, SealingRowState
            DEF SealSealing, TypeOK, ActiveJob, disk
        <3>2. CASE UNCHANGED catalog
            BY <1>5, <3>2 DEF SealSealing, catalog, disk, SealedHasManifest
        <3> QED
            BY <1>5, <3>1, <3>2 DEF SealSealing
    <2> QED
        BY <1>5, <2>2, <2>3 DEF SealSealing, disk, ManifestOverArtifact, SealInOrder,
              RecoveryAlone
<1>6. CASE SealArtifact
    <2>1. job \in ActiveJob
        BY <1>6, ActiveJobs DEF TypeOK, SealArtifact, Steps
    <2>2. rec.cur = NoChunk /\ job'.step = "manifest" /\ job'.chunk = job.chunk
        BY <1>6, <2>1 DEF SealArtifact, RecoveryAlone, NoJob, ActiveJob
    <2>3. art'[job.chunk] = [present |-> TRUE, frames |-> part[job.chunk].frames]
        BY <1>6, <2>1 DEF SealArtifact, TypeOK, ActiveJob
    <2>4. ManifestOverArtifact'
        BY <1>6, <2>1, <2>3 DEF SealArtifact, TypeOK, ActiveJob, ManifestOverArtifact
    <2> QED
        BY <1>6, <2>2, <2>3, <2>4 DEF SealArtifact, catalog, SealedHasManifest,
              SealInOrder, RecoveryAlone
<1>7. CASE SealManifest
    <2>1. job \in ActiveJob
        BY <1>7, ActiveJobs DEF TypeOK, SealManifest, Steps
    <2>2. rec.cur = NoChunk /\ job'.step = "commit" /\ job'.chunk = job.chunk
        BY <1>7, <2>1 DEF SealManifest, RecoveryAlone, NoJob, ActiveJob
    <2>3. man'[job.chunk].present /\ man'[job.chunk].frames = part[job.chunk].frames
        BY <1>7, <2>1 DEF SealManifest, TypeOK, ActiveJob, Expected, Manifest
    <2>4. ManifestOverArtifact'
        BY <1>7, <2>1, <2>3 DEF SealManifest, SealInOrder, TypeOK, ActiveJob,
              ManifestOverArtifact
    <2>5. \A d \in Chunks : man[d].present => man'[d].present
        BY <1>7, <2>3 DEF SealManifest, TypeOK
    <2> QED
        BY <1>7, <2>2, <2>3, <2>4, <2>5 DEF SealManifest, catalog, SealedHasManifest,
              SealInOrder, RecoveryAlone, TypeOK, Recovery
<1>8. CASE SealCommit
    <2>1. job \in ActiveJob
        BY <1>8, ActiveJobs DEF TypeOK, SealCommit, Steps
    <2>2. rec.cur = NoChunk /\ job'.step = "unlink"
        BY <1>8, <2>1 DEF SealCommit, RecoveryAlone, NoJob, ActiveJob
    <2>3. \A d \in Chunks : Moved(cat, job.chunk, "SEALED").row[d].st = "SEALED"
                               => man[d].present
        BY <1>8, <2>1, MovedState DEF SealCommit, SealInOrder, SealedHasManifest, TypeOK,
              ActiveJob
    <2>4. SealedHasManifest'
        BY <1>8, <2>3, CommitSealed DEF SealCommit, disk
    <2> QED
        BY <1>8, <2>2, <2>4 DEF SealCommit, disk, ManifestOverArtifact, SealInOrder,
              RecoveryAlone
<1>9. CASE SealUnlink
    <2>1. rec.cur = rec'.cur /\ rec.phase = rec'.phase /\ rec'.todo \subseteq rec.todo
        BY <1>9 DEF SealUnlink, TypeOK, Recovery
    <2>2. rec = NoRecovery => rec' = NoRecovery
        BY <1>9 DEF SealUnlink, NoRecovery
    <2> QED
        BY <1>9, <2>1, <2>2 DEF SealUnlink, catalog, NoJob, ManifestOverArtifact,
              SealedHasManifest, SealInOrder, RecoveryAlone
<1> QED
    BY <1>1, <1>2, <1>3, <1>4, <1>5, <1>6, <1>7, <1>8, <1>9 DEF Sealing

LEMMA RecoveringBundle == ASSUME TypeOK, BundleInv, Recovering PROVE BundleInv'
<1> USE DEF BundleInv
<1>1. CASE StartProcess
    <2>1. rec = NoRecovery
        BY <1>1 DEF StartProcess, RecoveryAlone
    <2>2. rec'.cur = NoChunk /\ rec'.phase = "partials"
        BY <1>1 DEF StartProcess, NoRecovery
    <2> QED
        BY <1>1, <2>2 DEF StartProcess, disk, catalog, ManifestOverArtifact,
              SealedHasManifest, SealInOrder, RecoveryAlone
<1>2. CASE NextPhase
    <2>1. RecoveryAlone'
        <3>1. CASE rec.phase = "reconcile"
            BY <1>2, <3>1 DEF NextPhase, PhaseAfter, RecoveryAlone, NoRecovery
        <3>2. CASE rec.phase \in DOMAIN PhaseAfter
            <4>1. rec'.cur = NoChunk /\ rec'.phase = PhaseAfter[rec.phase]
                  /\ rec'.todo = Visits(PhaseAfter[rec.phase])
                BY <1>2, <3>2 DEF NextPhase, PhaseAfter, TypeOK, Recovery
            <4>2. proc' = "recovering" /\ UNCHANGED man
                BY <1>2, <3>2 DEF NextPhase, PhaseAfter, disk
            <4> QED
                BY <4>1, <4>2 DEF RecoveryAlone, Visits
        <3> QED
            BY <1>2, <3>1, <3>2 DEF NextPhase
    <2> QED
        BY <1>2, <2>1 DEF NextPhase, disk, catalog, ManifestOverArtifact,
              SealedHasManifest, SealInOrder
<1>3. CASE MarkRecovered
    <2>1. rec.cur \in Chunks
        BY <1>3 DEF TypeOK, MarkRecovered, Recovery
    <2>2. [cat.row[rec.cur] EXCEPT !.st = "RECOVERED", !.recovered = TRUE].st = "RECOVERED"
        BY <2>1 DEF TypeOK, CatalogType, Row
    <2> DEFINE r == [cat.row[rec.cur] EXCEPT !.st = "RECOVERED", !.recovered = TRUE]
    <2>3. \A d \in Chunks : WithRow(cat, rec.cur, r).row[d].st = "SEALED"
                               => cat.row[d].st = "SEALED"
        <3> TAKE d \in Chunks
        <3>1. WithRow(cat, rec.cur, r).row[d] = IF d = rec.cur THEN r ELSE cat.row[d]
            BY <2>1, WithRowState DEF TypeOK
        <3> QED
            BY <2>2, <3>1
    <2>4. SealedHasManifest'
        BY <1>3, <2>3, KeepSealed DEF MarkRecovered, disk
    <2>5. rec'.cur = NoChunk /\ rec'.phase = "partials"
        BY <1>3 DEF MarkRecovered, TypeOK, Recovery
    <2>6. proc = "recovering"
        BY <1>3 DEF MarkRecovered, RecoveryAlone, NoRecovery
    <2> QED
        BY <1>3, <2>4, <2>5, <2>6 DEF MarkRecovered, disk, ManifestOverArtifact,
              SealInOrder, RecoveryAlone
<1>4. CASE MoveQuarantined
    <2>1. rec'.cur = NoChunk /\ rec'.phase = "partials"
        BY <1>4 DEF MoveQuarantined, TypeOK, Recovery
    <2>2. proc = "recovering" /\ job = NoJob
        BY <1>4 DEF MoveQuarantined, RecoveryAlone, NoRecovery
    <2> QED
        BY <1>4, <2>1, <2>2 DEF MoveQuarantined, catalog, NoJob, ManifestOverArtifact,
              SealedHasManifest, SealInOrder, RecoveryAlone
<1>5. CASE ResealRaises
    BY <1>5 DEF ResealRaises, disk, catalog, NoJob, NoRecovery, ManifestOverArtifact,
                SealedHasManifest, SealInOrder, RecoveryAlone
<1>6. CASE UnlinkReconciled
    <2>1. rec'.cur = NoChunk /\ rec'.todo = rec.todo
        BY <1>6 DEF UnlinkReconciled, TypeOK, Recovery
    <2>2. proc = "recovering" /\ job = NoJob
        BY <1>6 DEF UnlinkReconciled, RecoveryAlone, NoRecovery
    <2> QED
        BY <1>6, <2>1, <2>2 DEF UnlinkReconciled, catalog, NoJob, ManifestOverArtifact,
              SealedHasManifest, SealInOrder, RecoveryAlone
<1>7. ASSUME NEW c \in Chunks, RecoverStub(c) PROVE BundleInv'
    <2>1. rec'.cur = NoChunk /\ rec'.phase = "partials" /\ proc = "recovering"
        BY <1>7 DEF RecoverStub, Visiting, Done, TypeOK, Recovery, RecoveryAlone, NoRecovery
    <2> QED
        BY <1>7, <2>1 DEF RecoverStub, Visiting, catalog, NoJob, ManifestOverArtifact,
              SealedHasManifest, SealInOrder, RecoveryAlone
<1>8. ASSUME NEW c \in Chunks, RecoverClean(c) PROVE BundleInv'
    <2>1. rec'.cur = NoChunk /\ rec'.phase = "partials" /\ proc = "recovering"
        BY <1>8 DEF RecoverClean, Visiting, Done, TypeOK, Recovery, RecoveryAlone, NoRecovery
    <2>2. SealedHasManifest'
        BY <1>8, KeepSealed, RegisteredState DEF RecoverClean, TypeOK, disk
    <2> QED
        BY <1>8, <2>1, <2>2 DEF RecoverClean, disk, ManifestOverArtifact, SealInOrder,
              RecoveryAlone
<1>9. ASSUME NEW c \in Chunks, TruncateTail(c) PROVE BundleInv'
    <2>1. rec'.phase = "partials" /\ proc = "recovering"
        BY <1>9 DEF TruncateTail, Visiting, TypeOK, Recovery, RecoveryAlone, NoRecovery
    <2>2. SealedHasManifest'
        BY <1>9, KeepSealed, RegisteredState DEF TruncateTail, TypeOK
    <2> QED
        BY <1>9, <2>1, <2>2 DEF TruncateTail, Visiting, NoJob, ManifestOverArtifact,
              SealInOrder, RecoveryAlone
<1>10. ASSUME NEW c \in Chunks, QuarantineRow(c) PROVE BundleInv'
    <2>1. rec'.phase = "partials" /\ proc = "recovering"
        BY <1>10 DEF QuarantineRow, Visiting, TypeOK, Recovery, RecoveryAlone, NoRecovery
    <2>2. \A d \in Chunks : Moved(Registered(c), c, "QUARANTINED").row[d].st = "SEALED"
                               => cat.row[d].st = "SEALED"
        BY MovedState, RegisteredState, RegisteredType DEF TypeOK
    <2>3. SealedHasManifest'
        BY <1>10, <2>2, KeepSealed DEF QuarantineRow, disk
    <2> QED
        BY <1>10, <2>1, <2>3 DEF QuarantineRow, Visiting, disk, NoJob,
              ManifestOverArtifact, SealInOrder, RecoveryAlone
<1>11. ASSUME NEW c \in Chunks, Reseal(c) PROVE BundleInv'
    BY <1>11 DEF Reseal, Visiting, disk, catalog, ManifestOverArtifact,
                 SealedHasManifest, SealInOrder, RecoveryAlone
<1>12. ASSUME NEW c \in Chunks, CleanupRetained(c) PROVE BundleInv'
    <2>1. rec'.cur = NoChunk /\ rec'.phase = "cleanup" /\ proc = "recovering"
        BY <1>12 DEF CleanupRetained, Visiting, Done, TypeOK, Recovery, RecoveryAlone,
              NoRecovery
    <2> QED
        BY <1>12, <2>1 DEF CleanupRetained, Visiting, catalog, NoJob,
              ManifestOverArtifact, SealedHasManifest, SealInOrder, RecoveryAlone
<1>13. ASSUME NEW c \in Chunks, ReconcileManifest(c) PROVE BundleInv'
    <2>1. proc = "recovering" /\ man[c].present /\ UNCHANGED <<part, art, man, job, proc>>
        BY <1>13 DEF ReconcileManifest, Visiting, disk, RecoveryAlone, NoRecovery
    <2>2. job = NoJob /\ rec.phase = "reconcile" /\ rec'.todo \subseteq rec.todo
        BY <1>13 DEF ReconcileManifest, Visiting, Done, TypeOK, Recovery
    <2>3. SealedHasManifest'
        <3>1. CASE Commit(Registered(c))
            BY <2>1, <3>1, KeepSealed, RegisteredState DEF TypeOK
        <3>2. CASE Commit(SealingRow(c, {}, NoGap))
            <4>1. \A d \in Chunks :
                     SealingRow(c, {}, NoGap).row[d].st = "SEALED"
                        => cat.row[d].st = "SEALED"
                BY SealingRowState DEF TypeOK
            <4> QED
                BY <2>1, <3>2, <4>1, KeepSealed
        <3>3. CASE Commit(Moved(cat, c, "SEALED"))
            <4>1. \A d \in Chunks : Moved(cat, c, "SEALED").row[d].st = "SEALED"
                                       => man[d].present
                BY <2>1, MovedState DEF TypeOK, SealedHasManifest
            <4> QED
                BY <2>1, <3>3, <4>1, CommitSealed
        <3>4. CASE UNCHANGED catalog
            BY <2>1, <3>4 DEF catalog, SealedHasManifest
        <3> QED
            BY <1>13, <3>1, <3>2, <3>3, <3>4 DEF ReconcileManifest
    <2> QED
        BY <2>1, <2>2, <2>3 DEF NoJob, ManifestOverArtifact, SealInOrder, RecoveryAlone
<1>14. ASSUME NEW g \in Gaps, MaterializeStarted(g) PROVE BundleInv'
    <2>1. [cat EXCEPT !.started = @ \cup {g}].row = cat.row
        BY DEF TypeOK, CatalogType
    <2>2. SealedHasManifest'
        BY <1>14, <2>1, KeepSealed DEF MaterializeStarted, disk
    <2> QED
        BY <1>14, <2>2 DEF MaterializeStarted, disk, process, ManifestOverArtifact,
              SealInOrder, RecoveryAlone
<1> QED
    BY <1>1, <1>2, <1>3, <1>4, <1>5, <1>6, <1>7, <1>8, <1>9, <1>10, <1>11, <1>12,
       <1>13, <1>14 DEF Recovering

LEMMA EndingBundle ==
    ASSUME TypeOK, BundleInv, Exit \/ Kill \/ PowerLoss PROVE BundleInv'
<1> USE DEF BundleInv, Ended, NoJob, NoRecovery, ManifestOverArtifact,
            SealedHasManifest, SealInOrder, RecoveryAlone
<1>1. CASE Exit
    BY <1>1 DEF Exit, disk, catalog
<1>2. CASE Kill
    BY <1>2 DEF Kill, catalog
<1>3. CASE PowerLoss
    BY <1>3 DEF PowerLoss
<1> QED
    BY <1>1, <1>2, <1>3

LEMMA StutterBundle == ASSUME BundleInv, UNCHANGED vars PROVE BundleInv'
    BY DEF BundleInv, vars, ManifestOverArtifact, SealedHasManifest, SealInOrder,
           RecoveryAlone

\* Whatever suffix of the Catalog's commits a power loss drops, and whatever
\* kill or restart interrupts the seal or its recovery, a SEALED row names an
\* artifact and a manifest that are on disk and agree.
THEOREM SealedRowsHaveBundles == Spec => []SealedRowHasBundle
<1>1. TypeOK /\ BundleInv /\ [Next]_vars => BundleInv'
    BY WritingBundle, SealingBundle, RecoveringBundle, EndingBundle, StutterBundle DEF Next
<1>2. BundleInv => SealedRowHasBundle
    BY DEF BundleInv, ManifestOverArtifact, SealedHasManifest, SealedRowHasBundle
<1> QED
    BY InitBundle, TypeCorrect, <1>1, <1>2, PTL DEF Spec
-----------------------------------------------------------------------------

(* The inductive invariant. *)

Prefix(s, t) == Len(s) <= Len(t) /\ \A i \in 1..Len(s) : s[i] = t[i]

Bundled(c) == art[c].present /\ man[c].present /\ Holds(art[c].frames, c)

\* Of one chunk's files: the partial holds a prefix of what was written, what
\* was acknowledged is synced in it or is in the bundle, and an identifier not
\* yet drawn has no file.
FileOK(c) ==
    /\ hist.acked[c] <= Len(hist.appended[c])
    /\ Prefix(part[c].frames, hist.appended[c])
    /\ part[c].sync <= Len(part[c].frames)
    /\ part[c].st \in {"absent", "creating", "stub"} => part[c].frames = << >>
    /\ part[c].st \in {"creating", "stub"} => hist.appended[c] = << >>
    /\ part[c].st # "file" /\ part[c].tail = "clean" => part[c].frames = << >>
    /\ c \notin hist.minted =>
          /\ hist.appended[c] = << >> /\ part[c] = NoPart
          /\ ~art[c].present /\ ~man[c].present
    /\ hist.acked[c] <= part[c].sync \/ Bundled(c)

AllFiles == \A c \in Chunks : FileOK(c)

\* The partial is exactly what was written, synced, and nobody writes to it.
Whole(c) == /\ part[c].frames = hist.appended[c]
            /\ part[c].sync = Len(part[c].frames)
            /\ part[c].tail = "clean"
            /\ wr # c

\* A chunk closed at a reconnect boundary shows it, by a flag of the seal or by
\* a flag of one of its frames.
CutMarked(c, forced) ==
    hist.cut[c] => forced # {} \/ FrameFlags(hist.appended[c]) # {}

\* Of one row, in one content the Catalog may have: a chunk that is to be sealed
\* and has no manifest yet is whole, its boundary is marked, and if it is an
\* empty marker its gap is among the durable intents.
RowOK(k, c) ==
    /\ c \notin hist.minted => k.row[c].st = "NONE"
    /\ k.row[c].st = "SEALING" /\ ~man[c].present =>
          /\ Whole(c)
          /\ CutMarked(c, k.row[c].forced)
          /\ hist.appended[c] = << >> => k.row[c].intent \in k.intents

CatOK(k) == Eligible(k) /\ \A c \in Chunks : RowOK(k, c)

AllCats == \A k \in stable : CatOK(k)

\* The open partial.
WriterOK ==
    wr # NoChunk =>
        /\ proc = "running" /\ job = NoJob
        /\ wr \in hist.minted
        /\ part[wr].frames = hist.appended[wr] /\ part[wr].tail = "clean"
        /\ part[wr].st \in {"creating", "file"} /\ ~man[wr].present

\* The seal in progress.
JobOK ==
    job # NoJob =>
        /\ wr = NoChunk /\ proc \in {"running", "recovering"}
        /\ job.chunk \in hist.minted
        /\ ~man[job.chunk].present => Whole(job.chunk) /\ CutMarked(job.chunk, job.forced)
        /\ job.intent # NoGap => proc = "running" /\ gap = job.intent

JobSteps ==
    /\ job.step \in {"marker", "markerheader"} =>
          hist.appended[job.chunk] = << >> /\ cat.row[job.chunk].st = "SEALING"
    /\ job.step = "sealing" /\ ~man[job.chunk].present
       /\ hist.appended[job.chunk] = << >> =>
          job.intent \in Gaps \/ cat.row[job.chunk].st = "SEALING"
    /\ job.step \in {"manifest", "commit", "unlink"} =>
          art[job.chunk].present /\ art[job.chunk].frames = part[job.chunk].frames
    /\ job.step \in {"commit", "unlink"} => man[job.chunk].present
    /\ job.step = "unlink" => cat.row[job.chunk].st = "SEALED"

\* What a row left SEALING may be: an empty marker whose gap is recorded.
Stuck(c) == /\ hist.appended[c] = << >> /\ ~man[c].present
            /\ cat.row[c].intent \in cat.started \cup cat.completed

Settled(c) == cat.row[c].st = "SEALING" => Stuck(c)
HalfSettled(c) == cat.row[c].st = "SEALING" => Stuck(c) \/ man[c].present

\* The phases of recovery settle the rows one after the other.
RowsSettle ==
    /\ rec.phase = "reseal" => \A c \in Chunks \ rec.todo : HalfSettled(c)
    /\ rec.phase = "cleanup" => \A c \in Chunks : HalfSettled(c)
    /\ rec.phase = "reconcile" => \A c \in Chunks \ rec.todo : Settled(c)
    /\ proc = "running" => \A c \in Chunks \ {job.chunk} : Settled(c)

ResealOK ==
    /\ proc = "recovering" /\ job # NoJob => rec.phase = "reseal" /\ job.chunk \in rec.todo
    /\ rec.phase = "reseal" => \A c \in rec.todo :
          cat.row[c].st = "SEALING" \/ (c = job.chunk /\ job.step = "unlink")

\* The gaps that are not finished.
Unfinished(k) == (k.intents \cup k.started) \ k.completed

GapsOK ==
    /\ rec.phase \in {"reseal", "cleanup", "reconcile"} => Unresolved = {}
    /\ proc = "running" => Unfinished(cat) \subseteq {gap}

FrameInv ==
    /\ AllFiles /\ CompleteIsHonest /\ AllCats
    /\ WriterOK /\ JobOK /\ JobSteps
    /\ RowsSettle /\ ResealOK /\ GapsOK

-----------------------------------------------------------------------------
(* What the invariant needs to know of a step. *)

\* The step leaves the chunk's files and history alone.
Untouched(c) ==
    /\ part'[c] = part[c] /\ art'[c] = art[c] /\ man'[c] = man[c]
    /\ hist'.appended[c] = hist.appended[c] /\ hist'.acked[c] = hist.acked[c]
    /\ hist'.cut[c] = hist.cut[c]
    /\ c \in hist'.minted <=> c \in hist.minted

AllUntouched == \A c \in Chunks : Untouched(c)
OthersUntouched(d) == \A c \in Chunks \ {d} : Untouched(c)

\* The step leaves a chunk that waits for its manifest as it is.
Steady(c) ==
    /\ c \in hist.minted => c \in hist'.minted
    /\ man[c].present => man'[c].present
    /\ c \in hist.minted /\ ~man'[c].present /\ Whole(c) =>
          /\ Whole(c)'
          /\ hist'.appended[c] = hist.appended[c] /\ hist'.cut[c] = hist.cut[c]

AllSteady == \A c \in Chunks : Steady(c)

LEMMA FileTyped ==
    ASSUME TypeOK, NEW c \in Chunks
    PROVE  /\ part[c] \in PartFile /\ part[c].frames \in Seq(Frame) /\ part[c].sync \in Nat
           /\ Len(part[c].frames) \in Nat
           /\ hist.appended[c] \in Seq(Frame) /\ Len(hist.appended[c]) \in Nat
           /\ hist.acked[c] \in Nat
    BY DEF TypeOK, PartFile, HistType

LEMMA NoPartFields ==
    /\ NoPart.st = "absent" /\ NoPart.frames = << >> /\ NoPart.sync = 0
    /\ NoPart.tail = "clean"
    /\ NewPart.st = "file" /\ NewPart.frames = << >> /\ NewPart.sync = 0
    /\ NewPart.tail = "clean"
    BY DEF NoPart, NewPart

LEMMA EmptyPrefix ==
    ASSUME NEW t \in Seq(Frame)
    PROVE  Prefix(<< >>, t) /\ Prefix(t, t) /\ (Prefix(t, << >>) => t = << >>)
<1>1. Len(t) \in Nat /\ Len(<< >>) = 0
    OBVIOUS
<1>2. ASSUME Len(t) <= 0 PROVE t = << >>
    BY <1>1, <1>2, EmptySeq
<1> QED
    BY <1>1, <1>2 DEF Prefix

LEMMA UntouchedFile ==
    ASSUME NEW c \in Chunks, FileOK(c), Untouched(c) PROVE FileOK(c)'
<1>1. Bundled(c) => Bundled(c)'
    BY DEF Untouched, Bundled, Holds
<1> QED
    BY <1>1 DEF FileOK, Untouched

Honest(c) == man[c].present /\ man[c].complete =>
                man[c].frames = hist.appended[c] /\ ~hist.cut[c]

LEMMA HonestByChunk == CompleteIsHonest <=> \A c \in Chunks : Honest(c)
    BY DEF CompleteIsHonest, Honest

LEMMA UntouchedHonest ==
    ASSUME NEW c \in Chunks, Honest(c), Untouched(c) PROVE Honest(c)'
    BY DEF Honest, Untouched

\* A step that touches no chunk, or one, keeps what is said of the others.
LEMMA FilesKept ==
    ASSUME AllFiles, CompleteIsHonest, AllUntouched
    PROVE  AllFiles' /\ CompleteIsHonest'
<1>1. \A c \in Chunks : FileOK(c)' /\ Honest(c)'
    BY UntouchedFile, UntouchedHonest, HonestByChunk DEF AllUntouched, AllFiles
<1>2. CompleteIsHonest'
    BY <1>1 DEF Honest, CompleteIsHonest
<1> QED
    BY <1>1, <1>2 DEF AllFiles

LEMMA OtherFilesKept ==
    ASSUME AllFiles, CompleteIsHonest, NEW d \in Chunks, OthersUntouched(d),
           FileOK(d)', Honest(d)'
    PROVE  AllFiles' /\ CompleteIsHonest'
<1>1. \A c \in Chunks : FileOK(c)' /\ Honest(c)'
    BY UntouchedFile, UntouchedHonest, HonestByChunk DEF OthersUntouched, AllFiles
<1>2. CompleteIsHonest'
    BY <1>1 DEF Honest, CompleteIsHonest
<1> QED
    BY <1>1, <1>2 DEF AllFiles

LEMMA UntouchedSteady ==
    ASSUME NEW c \in Chunks, Untouched(c), wr # c => wr' # c PROVE Steady(c)
    BY DEF Untouched, Steady, Whole

\* A steady step keeps what is said of every content of the Catalog.
LEMMA SteadyCats ==
    ASSUME NEW k, CatOK(k), AllSteady PROVE CatOK(k)'
<1>1. Eligible(k)'
    BY DEF CatOK, Eligible
<1>2. ASSUME NEW c \in Chunks PROVE RowOK(k, c)'
    <2>1. RowOK(k, c) /\ Steady(c)
        BY DEF CatOK, AllSteady
    <2>2. c \notin hist'.minted => k.row[c].st = "NONE"
        BY <2>1 DEF RowOK, Steady
    <2>3. ASSUME k.row[c].st = "SEALING", ~man'[c].present
          PROVE  /\ Whole(c)' /\ CutMarked(c, k.row[c].forced)'
                 /\ hist'.appended[c] = << >> => k.row[c].intent \in k.intents
        <3>1. c \in hist.minted /\ ~man[c].present
            BY <2>1, <2>3 DEF RowOK, Steady
        <3>2. Whole(c) /\ CutMarked(c, k.row[c].forced)
              /\ (hist.appended[c] = << >> => k.row[c].intent \in k.intents)
            BY <2>1, <2>3, <3>1 DEF RowOK
        <3>3. Whole(c)' /\ hist'.appended[c] = hist.appended[c] /\ hist'.cut[c] = hist.cut[c]
            BY <2>1, <2>3, <3>1, <3>2 DEF Steady
        <3> QED
            BY <3>2, <3>3 DEF CutMarked
    <2> QED
        BY <2>2, <2>3 DEF RowOK
<1> QED
    BY <1>1, <1>2 DEF CatOK

LEMMA CatsKept ==
    ASSUME AllCats, AllSteady, UNCHANGED catalog PROVE AllCats'
    BY SteadyCats DEF AllCats, catalog

LEMMA CatsCommitted ==
    ASSUME AllCats, AllSteady, NEW k, CatOK(k), Commit(k) PROVE AllCats'
    BY SteadyCats DEF AllCats, Commit

\* A commit that keeps the gaps and changes rows only to states that ask
\* nothing of the chunk.
RowsLeave(k) ==
    \A c \in Chunks : \/ k.row[c] = cat.row[c]
                      \/ k.row[c].st # "SEALING" /\ c \in hist.minted

SameGaps(k) == k.intents = cat.intents /\ k.started = cat.started
               /\ k.completed = cat.completed

LEMMA LeavingCatOK ==
    ASSUME CatOK(cat), NEW k, RowsLeave(k), SameGaps(k) PROVE CatOK(k)
    BY DEF CatOK, RowOK, RowsLeave, SameGaps, Eligible

\* A commit that records events only.
LEMMA EventCatOK ==
    ASSUME CatOK(cat), NEW k, k.row = cat.row, k.intents = cat.intents, Eligible(k)
    PROVE  CatOK(k)
    BY DEF CatOK, RowOK

LEMMA InUse == ASSUME TypeOK, AllCats PROVE CatOK(cat) /\ cat \in CatalogType
    BY DEF TypeOK, AllCats

\* A chunk whose row asks for a manifest it does not have is nobody's writer.
LEMMA SealingIsWhole ==
    ASSUME TypeOK, AllCats, NEW c \in Chunks, cat.row[c].st = "SEALING", ~man[c].present
    PROVE  /\ Whole(c) /\ CutMarked(c, cat.row[c].forced)
           /\ hist.appended[c] = << >> => cat.row[c].intent \in cat.intents
    BY InUse DEF CatOK, RowOK

LEMMA RowNeedsIdentifier ==
    ASSUME TypeOK, AllCats, NEW c \in Chunks, cat.row[c].st # "NONE"
    PROVE  c \in hist.minted
    BY InUse DEF CatOK, RowOK
-----------------------------------------------------------------------------
(* Lemmas on frames. *)

LEMMA PrefixSubSeq ==
    ASSUME NEW s \in Seq(Frame), NEW t \in Seq(Frame), Prefix(s, t),
           NEW n \in Nat, n <= Len(s)
    PROVE  SubSeq(s, 1, n) = SubSeq(t, 1, n)
<1>1. Len(s) \in Nat /\ Len(t) \in Nat /\ n <= Len(t)
    BY DEF Prefix
<1>2. \A i \in 1..n : s[i] \in Frame /\ t[i] \in Frame /\ s[i] = t[i]
    BY <1>1, ElementOfSeq DEF Prefix
<1>3. /\ SubSeq(s, 1, n) \in Seq(Frame) /\ SubSeq(t, 1, n) \in Seq(Frame)
      /\ Len(SubSeq(s, 1, n)) = n /\ Len(SubSeq(t, 1, n)) = n
      /\ \A i \in 1..n : SubSeq(s, 1, n)[i] = s[i] /\ SubSeq(t, 1, n)[i] = t[i]
    BY <1>2, SubSeqProperties
<1> QED
    BY <1>2, <1>3, SeqEqual

LEMMA SubSeqPrefix ==
    ASSUME NEW s \in Seq(Frame), NEW t \in Seq(Frame), Prefix(s, t),
           NEW n \in Nat, n <= Len(s)
    PROVE  /\ Prefix(SubSeq(s, 1, n), t) /\ Len(SubSeq(s, 1, n)) = n
           /\ SubSeq(s, 1, n) \in Seq(Frame)
<1>1. Len(s) \in Nat /\ Len(t) \in Nat /\ n <= Len(t)
    BY DEF Prefix
<1>2. \A i \in 1..n : s[i] \in Frame /\ s[i] = t[i]
    BY <1>1, ElementOfSeq DEF Prefix
<1>3. /\ SubSeq(s, 1, n) \in Seq(Frame) /\ Len(SubSeq(s, 1, n)) = n
      /\ \A i \in 1..n : SubSeq(s, 1, n)[i] = s[i]
    BY <1>2, SubSeqProperties
<1> QED
    BY <1>1, <1>2, <1>3 DEF Prefix

\* What is acknowledged and synced is held by the partial.
LEMMA SyncedHolds ==
    ASSUME TypeOK, NEW c \in Chunks, FileOK(c), hist.acked[c] <= part[c].sync
    PROVE  Holds(part[c].frames, c)
<1>1. hist.acked[c] <= Len(part[c].frames) /\ Prefix(part[c].frames, hist.appended[c])
    BY FileTyped DEF FileOK
<1> QED
    BY <1>1, FileTyped, PrefixSubSeq DEF Holds

LEMMA JobChunk ==
    ASSUME TypeOK, job.step \in Steps PROVE job \in ActiveJob /\ job.chunk \in Chunks
    BY ActiveJobs DEF TypeOK, ActiveJob

LEMMA InitFrame == Init => FrameInv
<1> SUFFICES ASSUME Init PROVE FrameInv
    OBVIOUS
<1>0. Len(<< >>) = 0
    OBVIOUS
<1>1. ASSUME NEW c \in Chunks PROVE FileOK(c)
    <2>1. /\ part[c] = NoPart /\ ~art[c].present /\ ~man[c].present
          /\ hist.appended[c] = << >> /\ hist.acked[c] = 0
        BY DEF Init, NoArt, NoMan
    <2>2. Prefix(<< >>, << >>)
        BY <1>0 DEF Prefix
    <2> QED
        BY <1>0, <2>1, <2>2, NoPartFields DEF FileOK
<1>2. CatOK(cat)
    BY DEF Init, CatOK, Eligible, RowOK, NoRow
<1>3. AllCats
    BY <1>2 DEF Init, AllCats
<1>4. CompleteIsHonest
    BY DEF Init, CompleteIsHonest, NoMan
<1> QED
    BY <1>1, <1>3, <1>4 DEF Init, FrameInv, AllFiles, WriterOK, JobOK, JobSteps, NoJob,
       RowsSettle, ResealOK, GapsOK, NoRecovery

-----------------------------------------------------------------------------
(* The files, under every action. *)

LEMMA WritingFiles == ASSUME TypeOK, FrameInv, Writing PROVE AllFiles' /\ CompleteIsHonest'
<1>0. /\ AllFiles /\ CompleteIsHonest /\ WriterOK
    BY DEF FrameInv
<1>h. /\ hist.appended \in [Chunks -> Seq(Frame)] /\ hist.acked \in [Chunks -> Nat]
      /\ part \in [Chunks -> PartFile] /\ hist \in HistType
    BY DEF TypeOK, HistType
<1>1. ASSUME NEW c \in Chunks, CreatePartial(c) PROVE AllFiles' /\ CompleteIsHonest'
    <2>1. /\ hist'.appended = hist.appended /\ hist'.acked = hist.acked
          /\ hist'.cut = hist.cut /\ hist'.minted = hist.minted \cup {c}
        BY <1>1, <1>h DEF CreatePartial, HistType
    <2>2. FileOK(c) /\ part[c] = NoPart /\ hist.appended[c] = << >>
        BY <1>0, <1>1 DEF CreatePartial, AllFiles, FileOK
    <2>3. /\ part'[c].st = "creating" /\ part'[c].frames = << >> /\ part'[c].sync = 0
        BY <1>1, <1>h, <2>2, NoPartFields DEF CreatePartial, PartFile
    <2>4. FileOK(c)'
        BY <1>1, <2>1, <2>2, <2>3, NoPartFields DEF CreatePartial, FileOK, Bundled, Holds
    <2>5. OthersUntouched(c)
        BY <1>1, <1>h, <2>1 DEF CreatePartial, OthersUntouched, Untouched
    <2>6. Honest(c)'
        BY <1>0, <1>1, <2>1, HonestByChunk DEF CreatePartial, Honest
    <2> QED
        BY <1>0, <2>4, <2>5, <2>6, OtherFilesKept
<1>2. CASE OpenWriter
    <2>0. wr \in Chunks
        BY <1>2 DEF OpenWriter, TypeOK
    <2>1. PICK c \in Chunks : c = wr
        BY <2>0
    <2>2. FileOK(c) /\ hist.appended[c] = << >> /\ c \in hist.minted
        BY <1>0, <1>2, <2>1 DEF OpenWriter, AllFiles, FileOK, WriterOK
    <2>3. part'[c] = NewPart
        BY <1>2, <1>h, <2>1 DEF OpenWriter
    <2>4. hist.acked[c] = 0 /\ Len(<< >>) = 0
        BY <2>2, FileTyped DEF FileOK
    <2>5. FileOK(c)'
        BY <1>2, <2>2, <2>3, <2>4, NoPartFields, EmptyPrefix DEF OpenWriter, FileOK, Prefix
    <2>6. OthersUntouched(c)
        BY <1>2, <1>h, <2>1 DEF OpenWriter, OthersUntouched, Untouched
    <2>7. Honest(c)'
        BY <1>0, <1>2, HonestByChunk DEF OpenWriter, Honest
    <2> QED
        BY <1>0, <2>5, <2>6, <2>7, OtherFilesKept
<1>3. ASSUME NEW f \in Frame, AppendFrame(f) PROVE AllFiles' /\ CompleteIsHonest'
    <2>0. wr \in Chunks
        BY <1>3 DEF AppendFrame, WriterOpen, TypeOK
    <2>1. PICK c \in Chunks : c = wr
        BY <2>0
    <2>2. FileOK(c) /\ part[c].frames = hist.appended[c] /\ c \in hist.minted
          /\ part[c].st = "file" /\ ~man[c].present
        BY <1>0, <1>3, <2>1 DEF AppendFrame, WriterOpen, AllFiles, WriterOK
    <2> DEFINE fs == Append(part[c].frames, f)
    <2>3. /\ part'[c].frames = fs /\ part'[c].st = "file" /\ part'[c].sync = part[c].sync
        BY <1>3, <1>h, <2>1, <2>2 DEF AppendFrame, PartFile
    <2>4. /\ hist'.appended = [hist.appended EXCEPT ![c] = Append(hist.appended[c], f)]
          /\ hist'.acked = hist.acked /\ hist'.cut = hist.cut /\ hist'.minted = hist.minted
        BY <1>3, <1>h, <2>1 DEF AppendFrame, HistType
    <2>5. hist'.appended[c] = fs
        BY <1>h, <2>2, <2>4
    <2>6. Prefix(fs, fs) /\ Len(fs) = Len(part[c].frames) + 1
        <3>1. part[c].frames \in Seq(Frame)
            BY FileTyped
        <3>2. fs \in Seq(Frame) /\ Len(fs) = Len(part[c].frames) + 1
            BY <3>1
        <3> HIDE DEF fs
        <3> QED
            BY <3>2, EmptyPrefix
    <2>7. hist.acked[c] <= part[c].sync
        BY <2>2 DEF FileOK, Bundled
    <2>8. hist.acked[c] <= Len(fs) /\ part[c].sync <= Len(fs)
        <3>1. hist.acked[c] <= Len(hist.appended[c]) /\ part[c].sync <= Len(part[c].frames)
            BY <2>2 DEF FileOK
        <3> QED
            BY <2>2, <2>6, <3>1, FileTyped
    <2> HIDE DEF fs
    <2>9. FileOK(c)'
        BY <1>3, <2>2, <2>3, <2>4, <2>5, <2>6, <2>7, <2>8 DEF AppendFrame, FileOK
    <2>10. OthersUntouched(c)
        BY <1>3, <1>h, <2>1, <2>4 DEF AppendFrame, OthersUntouched, Untouched
    <2>11. Honest(c)'
        BY <1>3, <2>2 DEF AppendFrame, Honest
    <2> QED
        BY <1>0, <2>9, <2>10, <2>11, OtherFilesKept
<1>4. CASE SyncWriter
    <2>0. wr \in Chunks
        BY <1>4 DEF SyncWriter, WriterOpen, TypeOK
    <2>1. PICK c \in Chunks : c = wr
        BY <2>0
    <2>2. FileOK(c) /\ c \in hist.minted /\ part[c].st = "file"
        BY <1>0, <1>4, <2>1 DEF SyncWriter, WriterOpen, AllFiles, WriterOK
    <2>3. /\ part'[c].frames = part[c].frames /\ part'[c].st = "file"
          /\ part'[c].sync = Len(part[c].frames)
        BY <1>4, <1>h, <2>1, <2>2 DEF SyncWriter, Synced, PartFile
    <2>4. /\ hist'.acked = [hist.acked EXCEPT ![c] = Len(part[c].frames)]
          /\ hist'.appended = hist.appended /\ hist'.cut = hist.cut
          /\ hist'.minted = hist.minted
        BY <1>4, <1>h, <2>1 DEF SyncWriter, Synced, HistType
    <2>5. hist'.acked[c] = Len(part[c].frames)
        BY <1>h, <2>4
    <2>6. FileOK(c)'
        BY <1>4, <2>2, <2>3, <2>4, <2>5, FileTyped DEF SyncWriter, FileOK, Prefix
    <2>7. OthersUntouched(c)
        BY <1>4, <1>h, <2>1, <2>4 DEF SyncWriter, Synced, OthersUntouched, Untouched
    <2>8. Honest(c)'
        BY <1>0, <1>4, <2>4, HonestByChunk DEF SyncWriter, Honest
    <2> QED
        BY <1>0, <2>6, <2>7, <2>8, OtherFilesKept
<1>5. ASSUME NEW g \in Gaps, StartGap(g) PROVE AllFiles' /\ CompleteIsHonest'
    BY <1>0, <1>5, <1>h, FilesKept DEF StartGap, AllUntouched, Untouched, disk, HistType
<1>6. CASE CompleteGap
    BY <1>0, <1>6, FilesKept DEF CompleteGap, AllUntouched, Untouched, disk
<1> QED
    BY <1>1, <1>2, <1>3, <1>4, <1>5, <1>6 DEF Writing
LEMMA SealingFiles == ASSUME TypeOK, FrameInv, Sealing PROVE AllFiles' /\ CompleteIsHonest'
<1>0. /\ AllFiles /\ CompleteIsHonest /\ WriterOK /\ JobOK /\ JobSteps
    BY DEF FrameInv
<1>h. /\ hist.appended \in [Chunks -> Seq(Frame)] /\ hist.acked \in [Chunks -> Nat]
      /\ hist.cut \in [Chunks -> BOOLEAN] /\ hist.minted \subseteq Chunks
      /\ part \in [Chunks -> PartFile] /\ art \in [Chunks -> ArtFile]
      /\ man \in [Chunks -> ManFile] /\ hist \in HistType
    BY DEF TypeOK, HistType
<1>1. ASSUME NEW forced \in SUBSET ForcedFlags, NEW g \in Gaps \cup {NoGap},
             SealWriter(forced, g)
      PROVE  AllFiles' /\ CompleteIsHonest'
    <2>0. wr \in Chunks
        BY <1>1 DEF SealWriter, WriterOpen, TypeOK
    <2>1. PICK c \in Chunks : c = wr
        BY <2>0
    <2>2. FileOK(c) /\ c \in hist.minted /\ part[c].st = "file" /\ ~man[c].present
        BY <1>0, <1>1, <2>1 DEF SealWriter, WriterOpen, AllFiles, WriterOK
    <2>3. /\ part'[c].frames = part[c].frames /\ part'[c].st = "file"
          /\ part'[c].sync = Len(part[c].frames)
        BY <1>1, <1>h, <2>1, <2>2 DEF SealWriter, PartFile
    <2>4. /\ hist'.acked = [hist.acked EXCEPT ![c] = Len(part[c].frames)]
          /\ hist'.cut = [hist.cut EXCEPT ![c] = (g # NoGap)]
          /\ hist'.appended = hist.appended /\ hist'.minted = hist.minted
        BY <1>1, <1>h, <2>1 DEF SealWriter, HistType
    <2>5. hist'.acked[c] = Len(part[c].frames)
        BY <1>h, <2>4
    <2>6. FileOK(c)'
        BY <1>1, <2>2, <2>3, <2>4, <2>5, FileTyped DEF SealWriter, FileOK, Prefix
    <2>7. OthersUntouched(c)
        BY <1>1, <1>h, <2>1, <2>4 DEF SealWriter, OthersUntouched, Untouched
    <2>8. Honest(c)'
        BY <1>1, <2>2 DEF SealWriter, Honest
    <2> QED
        BY <1>0, <2>6, <2>7, <2>8, OtherFilesKept
<1>2. ASSUME NEW c \in Chunks, NEW g \in Gaps, RegisterMarker(c, g)
      PROVE  AllFiles' /\ CompleteIsHonest'
    <2>1. /\ hist'.appended = hist.appended /\ hist'.acked = hist.acked
          /\ hist'.cut = [hist.cut EXCEPT ![c] = TRUE]
          /\ hist'.minted = hist.minted \cup {c}
        BY <1>2, <1>h DEF RegisterMarker, HistType
    <2>2. FileOK(c) /\ ~man[c].present /\ ~art[c].present
        BY <1>0, <1>2 DEF RegisterMarker, AllFiles, FileOK
    <2>3. FileOK(c)'
        BY <1>2, <2>1, <2>2 DEF RegisterMarker, disk, FileOK, Bundled
    <2>4. OthersUntouched(c)
        BY <1>2, <1>h, <2>1 DEF RegisterMarker, disk, OthersUntouched, Untouched
    <2>5. Honest(c)'
        BY <1>2, <2>2 DEF RegisterMarker, disk, Honest
    <2> QED
        BY <1>0, <2>3, <2>4, <2>5, OtherFilesKept
<1>3. CASE CreateMarker
    <2>0. job.chunk \in Chunks
        BY <1>3, JobChunk DEF CreateMarker, Steps
    <2>1. PICK c \in Chunks : c = job.chunk
        BY <2>0
    <2>2. FileOK(c) /\ hist.appended[c] = << >> /\ c \in hist.minted
        BY <1>0, <1>3, <2>1 DEF CreateMarker, AllFiles, JobOK, JobSteps, NoJob
    <2>3. part[c].frames = << >>
        BY <2>2, FileTyped, EmptyPrefix DEF FileOK
    <2>4. part'[c].st = "creating" /\ part'[c].frames = << >> /\ part'[c].sync = part[c].sync
        BY <1>3, <1>h, <2>1, <2>3 DEF CreateMarker, PartFile
    <2>5. FileOK(c)'
        BY <1>3, <2>2, <2>3, <2>4 DEF CreateMarker, FileOK, Bundled, Holds
    <2>6. OthersUntouched(c)
        BY <1>3, <1>h, <2>1 DEF CreateMarker, OthersUntouched, Untouched
    <2>7. Honest(c)'
        BY <1>0, <1>3, HonestByChunk DEF CreateMarker, Honest
    <2> QED
        BY <1>0, <2>5, <2>6, <2>7, OtherFilesKept
<1>4. CASE OpenMarker
    <2>0. job.chunk \in Chunks
        BY <1>4, JobChunk DEF OpenMarker, Steps
    <2>1. PICK c \in Chunks : c = job.chunk
        BY <2>0
    <2>2. FileOK(c) /\ hist.appended[c] = << >> /\ c \in hist.minted
        BY <1>0, <1>4, <2>1 DEF OpenMarker, AllFiles, JobOK, JobSteps, NoJob
    <2>3. part'[c] = NewPart
        BY <1>4, <1>h, <2>1 DEF OpenMarker
    <2>4. hist.acked[c] = 0 /\ Len(<< >>) = 0
        BY <2>2, FileTyped DEF FileOK
    <2>5. FileOK(c)'
        BY <1>4, <2>2, <2>3, <2>4, NoPartFields, EmptyPrefix DEF OpenMarker, FileOK, Prefix
    <2>6. OthersUntouched(c)
        BY <1>4, <1>h, <2>1 DEF OpenMarker, OthersUntouched, Untouched
    <2>7. Honest(c)'
        BY <1>0, <1>4, HonestByChunk DEF OpenMarker, Honest
    <2> QED
        BY <1>0, <2>5, <2>6, <2>7, OtherFilesKept
<1>5. CASE SealSealing
    BY <1>0, <1>5, FilesKept DEF SealSealing, AllUntouched, Untouched, disk
<1>6. CASE SealArtifact
    <2>0. job.chunk \in Chunks
        BY <1>6, JobChunk DEF SealArtifact, Steps
    <2>1. PICK c \in Chunks : c = job.chunk
        BY <2>0
    <2>2. FileOK(c) /\ c \in hist.minted
        BY <1>0, <1>6, <2>1 DEF SealArtifact, AllFiles, JobOK, NoJob
    <2>3. art'[c].present /\ art'[c].frames = part[c].frames
        BY <1>6, <1>h, <2>1 DEF SealArtifact
    <2>4. art[c].present => art[c].frames = part[c].frames
        BY <1>6, <2>1 DEF SealArtifact
    <2>5. FileOK(c)'
        BY <1>6, <2>2, <2>3, <2>4 DEF SealArtifact, FileOK, Bundled, Holds
    <2>6. OthersUntouched(c)
        BY <1>6, <1>h, <2>1 DEF SealArtifact, OthersUntouched, Untouched
    <2>7. Honest(c)'
        BY <1>0, <1>6, HonestByChunk DEF SealArtifact, Honest
    <2> QED
        BY <1>0, <2>5, <2>6, <2>7, OtherFilesKept
<1>7. CASE SealManifest
    <2>0. job.chunk \in Chunks /\ job \in ActiveJob
        BY <1>7, JobChunk DEF SealManifest, Steps
    <2>1. PICK c \in Chunks : c = job.chunk
        BY <2>0
    <2>2. FileOK(c) /\ Honest(c) /\ c \in hist.minted
          /\ (~man[c].present => Whole(c) /\ CutMarked(c, job.forced))
        BY <1>0, <1>7, <2>1, HonestByChunk DEF SealManifest, AllFiles, JobOK, NoJob
    <2>3. man'[c] = Expected(c) /\ (man[c].present => man'[c] = man[c])
        BY <1>7, <1>h, <2>1 DEF SealManifest
    <2>4. Expected(c).present
        BY DEF Expected, Manifest
    <2>5. FileOK(c)'
        BY <1>7, <2>2, <2>3, <2>4 DEF SealManifest, FileOK, Bundled, Holds
    <2>6. OthersUntouched(c)
        BY <1>7, <1>h, <2>1 DEF SealManifest, OthersUntouched, Untouched
    <2>7. ASSUME man[c].present PROVE Honest(c)'
        BY <1>7, <2>2, <2>3, <2>7 DEF SealManifest, Honest
    <2>8. ASSUME ~man[c].present PROVE Honest(c)'
        <3>1. Expected(c).frames = hist.appended[c]
            BY <2>2, <2>8 DEF Expected, Manifest, Whole
        <3>2. Expected(c).complete => FrameFlags(part[c].frames) = {} /\ job.forced = {}
            <4>1. FrameFlags(part[c].frames) \subseteq INCOMPLETE_FLAGS
                BY DEF FrameFlags, INCOMPLETE_FLAGS
            <4>2. job.forced \subseteq INCOMPLETE_FLAGS
                BY <2>0 DEF ActiveJob, ForcedFlags, INCOMPLETE_FLAGS
            <4> QED
                BY <4>1, <4>2 DEF Expected, Manifest
        <3>3. Expected(c).complete => ~hist.cut[c]
            BY <2>2, <2>8, <3>2 DEF CutMarked, Whole
        <3> QED
            BY <1>7, <2>3, <3>1, <3>3 DEF SealManifest, Honest
    <2>9. Honest(c)'
        BY <2>7, <2>8
    <2> QED
        BY <1>0, <2>5, <2>6, <2>9, OtherFilesKept
<1>8. CASE SealCommit
    BY <1>0, <1>8, FilesKept DEF SealCommit, AllUntouched, Untouched, disk
<1>9. CASE SealUnlink
    <2>0. job.chunk \in Chunks
        BY <1>9, JobChunk DEF SealUnlink, Steps
    <2>1. PICK c \in Chunks : c = job.chunk
        BY <2>0
    <2>2. FileOK(c) /\ c \in hist.minted /\ art[c].present /\ man[c].present
          /\ art[c].frames = part[c].frames
        BY <1>0, <1>9, <2>1 DEF SealUnlink, AllFiles, JobOK, JobSteps, NoJob
    <2>3. part'[c] = NoPart
        BY <1>9, <1>h, <2>1 DEF SealUnlink
    <2>4. Bundled(c)
        BY <2>2, SyncedHolds DEF FileOK, Bundled
    <2>5. FileOK(c)'
        BY <1>9, <2>2, <2>3, <2>4, NoPartFields, EmptyPrefix, FileTyped
        DEF SealUnlink, FileOK, Bundled, Holds
    <2>6. OthersUntouched(c)
        BY <1>9, <1>h, <2>1 DEF SealUnlink, OthersUntouched, Untouched
    <2>7. Honest(c)'
        BY <1>0, <1>9, HonestByChunk DEF SealUnlink, Honest
    <2> QED
        BY <1>0, <2>5, <2>6, <2>7, OtherFilesKept
<1> QED
    BY <1>1, <1>2, <1>3, <1>4, <1>5, <1>6, <1>7, <1>8, <1>9 DEF Sealing
\* _cleanup_retained_source removes only what the bundle has.
LEMMA RemovedFileOK ==
    ASSUME TypeOK, NEW c \in Chunks, FileOK(c), c \in hist.minted, Duplicate(c),
           part'[c] = NoPart, UNCHANGED <<art, man, hist>>
    PROVE  FileOK(c)'
<1>1. Bundled(c)
    BY SyncedHolds DEF FileOK, Bundled, Duplicate
<1>2. hist.acked[c] <= Len(hist.appended[c]) /\ Len(<< >>) = 0
    BY DEF FileOK
<1> QED
    BY <1>1, <1>2, NoPartFields, EmptyPrefix, FileTyped DEF FileOK, Bundled, Holds

LEMMA RecoveringFiles ==
    ASSUME TypeOK, BundleInv, FrameInv, Recovering PROVE AllFiles' /\ CompleteIsHonest'
<1>0. /\ AllFiles /\ CompleteIsHonest
    BY DEF FrameInv
<1>h. /\ part \in [Chunks -> PartFile] /\ rec \in Recovery
    BY DEF TypeOK
<1>1. CASE StartProcess
    BY <1>0, <1>1, FilesKept DEF StartProcess, AllUntouched, Untouched, disk
<1>2. CASE NextPhase
    BY <1>0, <1>2, FilesKept DEF NextPhase, AllUntouched, Untouched, disk
<1>3. CASE MarkRecovered
    BY <1>0, <1>3, FilesKept DEF MarkRecovered, AllUntouched, Untouched, disk
<1>4. CASE MoveQuarantined
    <2>0. rec.cur \in Chunks
        BY <1>4, <1>h DEF MoveQuarantined, Recovery
    <2>1. PICK c \in Chunks : c = rec.cur
        BY <2>0
    <2>2. FileOK(c) /\ part[c].tail = "bad"
        BY <1>0, <1>4, <2>1 DEF MoveQuarantined, AllFiles
    <2>3. c \in hist.minted
        BY <2>2, NoPartFields DEF FileOK
    <2>4. /\ part'[c].st = "moved" /\ part'[c].frames = part[c].frames
          /\ part'[c].sync = part[c].sync /\ part'[c].tail = "bad"
        BY <1>4, <1>h, <2>1, <2>2 DEF MoveQuarantined, PartFile
    <2>5. FileOK(c)'
        BY <1>4, <2>2, <2>3, <2>4 DEF MoveQuarantined, FileOK, Bundled, Holds, Prefix
    <2>6. OthersUntouched(c)
        BY <1>4, <1>h, <2>1 DEF MoveQuarantined, OthersUntouched, Untouched
    <2>7. Honest(c)'
        BY <1>0, <1>4, HonestByChunk DEF MoveQuarantined, Honest
    <2> QED
        BY <1>0, <2>5, <2>6, <2>7, OtherFilesKept
<1>5. CASE ResealRaises
    BY <1>0, <1>5, FilesKept DEF ResealRaises, AllUntouched, Untouched, disk
<1>6. CASE UnlinkReconciled
    <2>0. rec.cur \in Chunks
        BY <1>6, <1>h DEF UnlinkReconciled, Recovery
    <2>1. PICK c \in Chunks : c = rec.cur
        BY <2>0
    <2>2. FileOK(c) /\ Duplicate(c) /\ c \in hist.minted
        BY <1>0, <1>6, <2>1 DEF UnlinkReconciled, AllFiles, FileOK, Duplicate
    <2>3. part'[c] = NoPart /\ UNCHANGED <<art, man, hist>>
        BY <1>6, <1>h, <2>1 DEF UnlinkReconciled
    <2>4. FileOK(c)'
        BY <2>2, <2>3, RemovedFileOK
    <2>5. OthersUntouched(c)
        BY <1>6, <1>h, <2>1 DEF UnlinkReconciled, OthersUntouched, Untouched
    <2>6. Honest(c)'
        BY <1>0, <2>3, HonestByChunk DEF Honest
    <2> QED
        BY <1>0, <2>4, <2>5, <2>6, OtherFilesKept
<1>7. ASSUME NEW c \in Chunks, RecoverStub(c) PROVE AllFiles' /\ CompleteIsHonest'
    <2>1. FileOK(c) /\ part[c].st = "stub"
        BY <1>0, <1>7 DEF RecoverStub, AllFiles
    <2>2. c \in hist.minted /\ part[c].frames = << >> /\ hist.appended[c] = << >>
        BY <2>1, NoPartFields DEF FileOK
    <2>3. /\ part'[c].st = "moved" /\ part'[c].frames = part[c].frames
          /\ part'[c].sync = part[c].sync
        BY <1>7, <1>h DEF RecoverStub, PartFile
    <2>4. FileOK(c)'
        BY <1>7, <2>1, <2>2, <2>3 DEF RecoverStub, FileOK, Bundled, Holds, Prefix
    <2>5. OthersUntouched(c)
        BY <1>7, <1>h DEF RecoverStub, OthersUntouched, Untouched
    <2>6. Honest(c)'
        BY <1>0, <1>7, HonestByChunk DEF RecoverStub, Honest
    <2> QED
        BY <1>0, <2>4, <2>5, <2>6, OtherFilesKept
<1>8. ASSUME NEW c \in Chunks, RecoverClean(c) PROVE AllFiles' /\ CompleteIsHonest'
    BY <1>0, <1>8, FilesKept DEF RecoverClean, AllUntouched, Untouched, disk
<1>9. ASSUME NEW c \in Chunks, TruncateTail(c) PROVE AllFiles' /\ CompleteIsHonest'
    <2>1. FileOK(c) /\ part[c].st = "file" /\ part[c].tail = "torn"
        BY <1>0, <1>9 DEF TruncateTail, AllFiles
    <2>2. c \in hist.minted
        BY <2>1, NoPartFields DEF FileOK
    <2>3. /\ part'[c].st = "file" /\ part'[c].frames = part[c].frames
          /\ part'[c].sync = Len(part[c].frames)
        BY <1>9, <1>h, <2>1 DEF TruncateTail, PartFile
    <2>4. FileOK(c)'
        <3>1. UNCHANGED <<art, man, hist>>
            BY <1>9 DEF TruncateTail
        <3>2. hist.acked[c] <= Len(part[c].frames) \/ Bundled(c)'
            <4>1. part[c].sync <= Len(part[c].frames) /\ (hist.acked[c] <= part[c].sync \/ Bundled(c))
                BY <2>1 DEF FileOK
            <4> QED
                BY <3>1, <4>1, FileTyped DEF Bundled, Holds
        <3>3. Len(part[c].frames) <= Len(part[c].frames)
            BY FileTyped
        <3> QED
            BY <2>1, <2>2, <2>3, <3>1, <3>2, <3>3 DEF FileOK
    <2>5. OthersUntouched(c)
        BY <1>9, <1>h DEF TruncateTail, OthersUntouched, Untouched
    <2>6. Honest(c)'
        BY <1>0, <1>9, HonestByChunk DEF TruncateTail, Honest
    <2> QED
        BY <1>0, <2>4, <2>5, <2>6, OtherFilesKept
<1>10. ASSUME NEW c \in Chunks, QuarantineRow(c) PROVE AllFiles' /\ CompleteIsHonest'
    BY <1>0, <1>10, FilesKept DEF QuarantineRow, AllUntouched, Untouched, disk
<1>11. ASSUME NEW c \in Chunks, Reseal(c) PROVE AllFiles' /\ CompleteIsHonest'
    BY <1>0, <1>11, FilesKept DEF Reseal, AllUntouched, Untouched, disk
<1>12. ASSUME NEW c \in Chunks, CleanupRetained(c) PROVE AllFiles' /\ CompleteIsHonest'
    <2>1. UNCHANGED <<art, man, hist>>
        BY <1>12 DEF CleanupRetained
    <2>2. CASE UNCHANGED part
        BY <1>0, <2>1, <2>2, FilesKept DEF AllUntouched, Untouched
    <2>3. CASE cat.row[c].st = "SEALED"
        <3>1. Duplicate(c) /\ part' = [part EXCEPT ![c] = NoPart]
            BY <1>12, <2>3 DEF CleanupRetained
        <3>2. FileOK(c) /\ c \in hist.minted
            BY <1>0, <3>1 DEF AllFiles, FileOK, Duplicate
        <3>3. FileOK(c)'
            BY <1>h, <2>1, <3>1, <3>2, RemovedFileOK
        <3>4. OthersUntouched(c) /\ Honest(c)'
            BY <1>0, <1>h, <2>1, <3>1, HonestByChunk DEF OthersUntouched, Untouched, Honest
        <3> QED
            BY <1>0, <3>3, <3>4, OtherFilesKept
    <2> QED
        BY <1>12, <2>2, <2>3 DEF CleanupRetained
<1>13. ASSUME NEW c \in Chunks, ReconcileManifest(c) PROVE AllFiles' /\ CompleteIsHonest'
    BY <1>0, <1>13, FilesKept DEF ReconcileManifest, AllUntouched, Untouched, disk
<1>14. ASSUME NEW g \in Gaps, MaterializeStarted(g) PROVE AllFiles' /\ CompleteIsHonest'
    BY <1>0, <1>14, FilesKept DEF MaterializeStarted, AllUntouched, Untouched, disk
<1> QED
    BY <1>1, <1>2, <1>3, <1>4, <1>5, <1>6, <1>7, <1>8, <1>9, <1>10, <1>11, <1>12,
       <1>13, <1>14 DEF Recovering

\* A kill and a power loss leave what was synced, and of a whole file all.
Survives(c) ==
    /\ FileOK(c) => FileOK(c)'
    /\ FileOK(c) /\ Whole(c) => Whole(c)'

LEMMA StubFields ==
    LET p == [NoPart EXCEPT !.st = "stub"] IN
    p.st = "stub" /\ p.frames = << >> /\ p.sync = 0 /\ p.tail = "clean"
    BY DEF NoPart

\* What is left of a file whose header was not yet durable.
LEMMA EmptyFileOK ==
    ASSUME TypeOK, NEW c \in Chunks, FileOK(c), c \in hist.minted,
           hist.appended[c] = << >>,
           part'[c] \in {NoPart, NewPart, [NoPart EXCEPT !.st = "stub"]},
           UNCHANGED <<art, man, hist>>, wr' = NoChunk
    PROVE  FileOK(c)' /\ Whole(c)'
<1>1. part'[c].frames = << >> /\ part'[c].sync = 0 /\ part'[c].tail = "clean"
    BY NoPartFields, StubFields
<1>2. hist.acked[c] = 0 /\ Len(<< >>) = 0
    BY FileTyped DEF FileOK
<1>3. Prefix(<< >>, << >>)
    BY <1>2 DEF Prefix
<1> QED
    BY <1>1, <1>2, <1>3, ChunkAssumption DEF FileOK, Whole

LEMMA KillSurvives ==
    ASSUME TypeOK, WriterOK, NEW c \in Chunks, Kill PROVE Survives(c)
<1>1. part'[c] \in KillOutcomes(c) /\ UNCHANGED <<art, man, hist>> /\ wr' = NoChunk
    BY DEF Kill, Ended
<1>2. ASSUME FileOK(c), part[c].st = "creating" PROVE FileOK(c)' /\ Whole(c)'
    <2>1. c \in hist.minted /\ hist.appended[c] = << >>
        BY <1>2, NoPartFields DEF FileOK
    <2> QED
        BY <1>1, <1>2, <2>1, EmptyFileOK DEF KillOutcomes
<1>3. ASSUME FileOK(c), part'[c] = part[c]
      PROVE  FileOK(c)' /\ (Whole(c) => Whole(c)')
    BY <1>1, <1>3, ChunkAssumption DEF FileOK, Bundled, Holds, Whole
<1>4. ASSUME FileOK(c), c = wr, part[c].st # "creating",
             part'[c] = [part[c] EXCEPT !.tail = "torn"]
      PROVE  FileOK(c)' /\ ~Whole(c)
    <2>1. part[c].st = "file" /\ c \in hist.minted
        BY <1>4, ChunkAssumption DEF WriterOK
    <2>2. /\ part'[c].st = "file" /\ part'[c].frames = part[c].frames
          /\ part'[c].sync = part[c].sync
        BY <1>4, <2>1, FileTyped DEF PartFile
    <2> QED
        BY <1>1, <1>4, <2>1, <2>2 DEF FileOK, Bundled, Holds, Whole
<1> QED
    BY <1>1, <1>2, <1>3, <1>4 DEF KillOutcomes, Survives

LEMMA LossSurvives ==
    ASSUME TypeOK, NEW c \in Chunks, PowerLoss PROVE Survives(c)
<1>1. part'[c] \in LossOutcomes(c) /\ UNCHANGED <<art, man, hist>> /\ wr' = NoChunk
    BY DEF PowerLoss, Ended
<1>2. ASSUME FileOK(c), part[c].st \in {"creating", "stub"} PROVE FileOK(c)' /\ Whole(c)'
    <2>1. c \in hist.minted /\ hist.appended[c] = << >>
        BY <1>2, NoPartFields DEF FileOK
    <2> QED
        BY <1>1, <1>2, <2>1, EmptyFileOK DEF LossOutcomes
<1>3. ASSUME FileOK(c), part'[c] = part[c]
      PROVE  FileOK(c)' /\ (Whole(c) => Whole(c)')
    BY <1>1, <1>3, ChunkAssumption DEF FileOK, Bundled, Holds, Whole
<1>4. ASSUME FileOK(c), part[c].st = "file",
             c = wr \/ part[c].tail = "torn" \/ part[c].sync < Len(part[c].frames),
             NEW n \in part[c].sync..Len(part[c].frames), NEW t \in {"clean", "torn", "bad"},
             part'[c] = Cut(part[c], n, t)
      PROVE  FileOK(c)' /\ ~Whole(c)
    <2>1. c \in hist.minted
        BY <1>4, NoPartFields DEF FileOK
    <2>2. n \in Nat /\ n <= Len(part[c].frames) /\ part[c].sync <= n
        BY FileTyped
    <2>3. /\ part'[c].st = "file" /\ part'[c].frames = SubSeq(part[c].frames, 1, n)
          /\ part'[c].sync = n
        BY <1>4, FileTyped DEF Cut, PartFile
    <2>4. Prefix(part'[c].frames, hist.appended[c]) /\ Len(part'[c].frames) = n
        BY <1>4, <2>2, <2>3, FileTyped, SubSeqPrefix DEF FileOK
    <2>5. hist.acked[c] <= part[c].sync => hist.acked[c] <= n
        BY <2>2, FileTyped
    <2>6. ~Whole(c)
        BY <1>4, FileTyped DEF Whole
    <2>7. Bundled(c) => Bundled(c)'
        BY <1>1 DEF Bundled, Holds
    <2>8. hist.acked[c] <= n \/ Bundled(c)
        BY <1>4, <2>5 DEF FileOK
    <2>9. part'[c].sync <= Len(part'[c].frames)
        BY <2>2, <2>3, <2>4
    <2>10. UNCHANGED hist
        BY <1>1
    <2>11. FileOK(c)'
        BY <1>4, <2>1, <2>3, <2>4, <2>7, <2>8, <2>9, <2>10 DEF FileOK
    <2> QED
        BY <2>6, <2>11
<1> QED
    BY <1>1, <1>2, <1>3, <1>4 DEF LossOutcomes, Survives

LEMMA EndingFiles ==
    ASSUME TypeOK, FrameInv, Exit \/ Kill \/ PowerLoss PROVE AllFiles' /\ CompleteIsHonest'
<1>0. /\ AllFiles /\ CompleteIsHonest /\ WriterOK
    BY DEF FrameInv
<1>1. CASE Exit
    BY <1>0, <1>1, FilesKept DEF Exit, AllUntouched, Untouched, disk
<1>2. CASE Kill
    <2>1. AllFiles'
        BY <1>0, <1>2, KillSurvives DEF AllFiles, Survives
    <2> QED
        BY <1>0, <1>2, <2>1 DEF Kill, CompleteIsHonest
<1>3. CASE PowerLoss
    <2>1. AllFiles'
        BY <1>0, <1>3, LossSurvives DEF AllFiles, Survives
    <2> QED
        BY <1>0, <1>3, <2>1 DEF PowerLoss, CompleteIsHonest
<1> QED
    BY <1>1, <1>2, <1>3
-----------------------------------------------------------------------------
(* The Catalog contents the actions build. *)

LEMMA WithRowGaps ==
    ASSUME NEW k \in CatalogType, NEW c \in Chunks, NEW r
    PROVE  /\ WithRow(k, c, r).intents = k.intents
           /\ WithRow(k, c, r).started = k.started
           /\ WithRow(k, c, r).completed = k.completed
    BY DEF WithRow, CatalogType

LEMMA MovedLeaves ==
    ASSUME cat \in CatalogType, NEW c \in Chunks, c \in hist.minted,
           NEW to \in ChunkState \ {"SEALING"}
    PROVE  RowsLeave(Moved(cat, c, to)) /\ SameGaps(Moved(cat, c, to))
<1>1. ASSUME NEW d \in Chunks
      PROVE  Moved(cat, c, to).row[d] = cat.row[d]
                \/ (Moved(cat, c, to).row[d].st # "SEALING" /\ d \in hist.minted)
    <2>1. CASE d = c
        BY <2>1, MovedState
    <2>2. CASE d # c
        BY <2>2, WithRowState DEF Moved
    <2> QED
        BY <2>1, <2>2
<1>2. SameGaps(Moved(cat, c, to))
    BY WithRowGaps DEF Moved, SameGaps
<1> QED
    BY <1>1, <1>2 DEF RowsLeave

LEMMA RegisteredLeaves ==
    ASSUME cat \in CatalogType, NEW c \in Chunks, c \in hist.minted
    PROVE  RowsLeave(Registered(c)) /\ SameGaps(Registered(c))
<1>1. CASE cat.row[c].st = "NONE"
    BY <1>1, MovedLeaves DEF Registered, ChunkState
<1>2. CASE cat.row[c].st # "NONE"
    BY <1>2 DEF Registered, RowsLeave, SameGaps
<1> QED
    BY <1>1, <1>2

LEMMA RegisteredCatOK ==
    ASSUME TypeOK, AllCats, NEW c \in Chunks, c \in hist.minted
    PROVE  CatOK(Registered(c))
    BY InUse, RegisteredLeaves, LeavingCatOK

LEMMA MovedCatOK ==
    ASSUME TypeOK, AllCats, NEW c \in Chunks, c \in hist.minted,
           NEW to \in ChunkState \ {"SEALING"}
    PROVE  CatOK(Moved(cat, c, to))
    BY InUse, MovedLeaves, LeavingCatOK

LEMMA SealingRowFields ==
    ASSUME cat \in CatalogType, NEW c \in Chunks, NEW forced, NEW g
    PROVE  /\ \A d \in Chunks \ {c} : SealingRow(c, forced, g).row[d] = cat.row[d]
           /\ SealingRow(c, forced, g).row[c].st = "SEALING"
           /\ SealingRow(c, forced, g).row[c].forced = forced
           /\ SealingRow(c, forced, g).row[c].intent = g
           /\ SealingRow(c, forced, g).intents = cat.intents \cup ({g} \ {NoGap})
           /\ SealingRow(c, forced, g).started = cat.started
           /\ SealingRow(c, forced, g).completed = cat.completed
<1> DEFINE r == [cat.row[c] EXCEPT !.st = "SEALING", !.forced = forced, !.intent = g]
           k == WithRow(cat, c, r)
<1>1. r.st = "SEALING" /\ r.forced = forced /\ r.intent = g
    <2>1. cat.row[c] \in Row
        BY DEF CatalogType
    <2> QED
        BY <2>1 DEF Row
<1>2. \A d \in Chunks : k.row[d] = IF d = c THEN r ELSE cat.row[d]
    BY WithRowState
<1>3. /\ k.intents = cat.intents /\ k.started = cat.started
      /\ k.completed = cat.completed
    BY WithRowGaps
<1>4. SealingRow(c, forced, g) = [k EXCEPT !.intents = k.intents \cup ({g} \ {NoGap})]
    BY DEF SealingRow
<1>5. DOMAIN k = {"row", "intents", "started", "completed"}
    BY DEF WithRow, CatalogType
<1> HIDE DEF r, k
<1>6. /\ SealingRow(c, forced, g).row = k.row
      /\ SealingRow(c, forced, g).intents = k.intents \cup ({g} \ {NoGap})
      /\ SealingRow(c, forced, g).started = k.started
      /\ SealingRow(c, forced, g).completed = k.completed
    BY <1>4, <1>5
<1> QED
    BY <1>1, <1>2, <1>3, <1>6

\* The gaps of a Catalog that gets one more intent or event are still one.
LEMMA OneGap ==
    ASSUME NEW k, NEW g, Unfinished(k) \subseteq {g} PROVE Eligible(k)
    BY DEF Unfinished, Eligible

LEMMA SealingRowEligible ==
    ASSUME TypeOK, AllCats, NEW c \in Chunks, NEW forced, NEW g \in Gaps \cup {NoGap},
           g = NoGap \/ Unfinished(cat) \subseteq {g}
    PROVE  Eligible(SealingRow(c, forced, g))
<1>1. cat \in CatalogType /\ Eligible(cat)
    BY InUse DEF CatOK
<1>2. /\ SealingRow(c, forced, g).intents = cat.intents \cup ({g} \ {NoGap})
      /\ SealingRow(c, forced, g).started = cat.started
      /\ SealingRow(c, forced, g).completed = cat.completed
    BY <1>1, SealingRowFields
<1>3. CASE g = NoGap
    BY <1>1, <1>2, <1>3 DEF Eligible
<1>4. CASE Unfinished(cat) \subseteq {g}
    <2>1. Unfinished(SealingRow(c, forced, g)) \subseteq {g}
        BY <1>2, <1>4 DEF Unfinished
    <2> QED
        BY <2>1, OneGap
<1> QED
    BY <1>3, <1>4

LEMMA SealingRowCatOK ==
    ASSUME TypeOK, AllCats, NEW c \in Chunks, NEW forced, NEW g \in Gaps \cup {NoGap},
           c \in hist.minted,
           ~man[c].present => Whole(c) /\ CutMarked(c, forced),
           ~man[c].present /\ hist.appended[c] = << >> => g \in Gaps,
           g = NoGap \/ Unfinished(cat) \subseteq {g}
    PROVE  CatOK(SealingRow(c, forced, g))
<1>1. PICK k : k = SealingRow(c, forced, g)
    OBVIOUS
<1>2. cat \in CatalogType /\ CatOK(cat)
    BY InUse
<1>3. /\ \A d \in Chunks \ {c} : k.row[d] = cat.row[d]
      /\ k.row[c].st = "SEALING" /\ k.row[c].forced = forced /\ k.row[c].intent = g
      /\ k.intents = cat.intents \cup ({g} \ {NoGap})
    BY <1>1, <1>2, SealingRowFields
<1>4. ASSUME NEW d \in Chunks PROVE RowOK(k, d)
    <2>1. CASE d = c
        BY <1>3, <2>1, GapAssumption DEF RowOK
    <2>2. CASE d # c
        BY <1>2, <1>3, <2>2 DEF CatOK, RowOK
    <2> QED
        BY <2>1, <2>2
<1>5. Eligible(k)
    BY <1>1, SealingRowEligible
<1>6. CatOK(k)
    BY <1>4, <1>5 DEF CatOK
<1> QED
    BY <1>1, <1>6

-----------------------------------------------------------------------------
(* The rows, under every action. *)

WriterLeaves(d) == wr' = wr \/ wr' = NoChunk \/ wr' = d

LEMMA OthersSteady ==
    ASSUME NEW d \in Chunks, OthersUntouched(d), WriterLeaves(d), Steady(d) PROVE AllSteady
<1>1. ASSUME NEW c \in Chunks, c # d PROVE Steady(c)
    <2>1. wr # c => wr' # c
        BY <1>1, ChunkAssumption DEF WriterLeaves
    <2>2. Untouched(c)
        BY <1>1 DEF OthersUntouched
    <2> QED
        BY <2>1, <2>2, UntouchedSteady
<1> QED
    BY <1>1 DEF AllSteady

LEMMA QuietSteady ==
    ASSUME AllUntouched, wr' = wr \/ wr' = NoChunk PROVE AllSteady
<1>1. ASSUME NEW c \in Chunks PROVE Steady(c)
    BY UntouchedSteady, ChunkAssumption DEF AllUntouched
<1> QED
    BY <1>1 DEF AllSteady
LEMMA WritingCats == ASSUME TypeOK, FrameInv, Writing PROVE AllCats'
<1>0. /\ AllFiles /\ AllCats /\ WriterOK /\ GapsOK
    BY DEF FrameInv
<1>h. /\ hist.appended \in [Chunks -> Seq(Frame)] /\ hist.acked \in [Chunks -> Nat]
      /\ part \in [Chunks -> PartFile] /\ hist \in HistType
    BY DEF TypeOK, HistType
<1>c. CatOK(cat) /\ cat \in CatalogType
    BY <1>0, InUse
<1>1. ASSUME NEW c \in Chunks, CreatePartial(c) PROVE AllCats'
    <2>1. /\ hist'.appended = hist.appended /\ hist'.acked = hist.acked
          /\ hist'.cut = hist.cut /\ hist'.minted = hist.minted \cup {c}
        BY <1>1, <1>h DEF CreatePartial, HistType
    <2>2. OthersUntouched(c) /\ WriterLeaves(c) /\ Steady(c)
        BY <1>1, <1>h, <2>1
        DEF CreatePartial, OthersUntouched, Untouched, WriterLeaves, Steady
    <2>3. AllSteady
        BY <2>2, OthersSteady
    <2> QED
        BY <1>0, <1>1, <2>3, CatsKept DEF CreatePartial
<1>2. CASE OpenWriter
    <2>1. PICK c \in Chunks : c = wr
        BY <1>2 DEF OpenWriter, TypeOK
    <2>2. OthersUntouched(c) /\ WriterLeaves(c) /\ Steady(c)
        BY <1>2, <1>h, <2>1
        DEF OpenWriter, process, OthersUntouched, Untouched, WriterLeaves, Steady, Whole
    <2>3. AllSteady
        BY <2>2, OthersSteady
    <2>4. c \in hist.minted
        BY <1>0, <2>1, ChunkAssumption DEF WriterOK
    <2>5. CatOK(Registered(wr))
        BY <1>0, <2>1, <2>4, RegisteredCatOK
    <2> QED
        BY <1>0, <1>2, <2>3, <2>5, CatsCommitted DEF OpenWriter
<1>3. ASSUME NEW f \in Frame, AppendFrame(f) PROVE AllCats'
    <2>1. PICK c \in Chunks : c = wr
        BY <1>3 DEF AppendFrame, WriterOpen, TypeOK
    <2>2. /\ hist'.appended = [hist.appended EXCEPT ![c] = Append(hist.appended[c], f)]
          /\ hist'.acked = hist.acked /\ hist'.cut = hist.cut /\ hist'.minted = hist.minted
        BY <1>3, <1>h, <2>1 DEF AppendFrame, HistType
    <2>3. OthersUntouched(c) /\ WriterLeaves(c) /\ Steady(c)
        BY <1>3, <1>h, <2>1, <2>2
        DEF AppendFrame, process, OthersUntouched, Untouched, WriterLeaves, Steady, Whole
    <2>4. AllSteady
        BY <2>3, OthersSteady
    <2> QED
        BY <1>0, <1>3, <2>4, CatsKept DEF AppendFrame
<1>4. CASE SyncWriter
    <2>1. PICK c \in Chunks : c = wr
        BY <1>4 DEF SyncWriter, WriterOpen, TypeOK
    <2>2. /\ hist'.acked = [hist.acked EXCEPT ![c] = Len(part[c].frames)]
          /\ hist'.appended = hist.appended /\ hist'.cut = hist.cut
          /\ hist'.minted = hist.minted
        BY <1>4, <1>h, <2>1 DEF SyncWriter, Synced, HistType
    <2>3. OthersUntouched(c) /\ WriterLeaves(c) /\ Steady(c)
        BY <1>4, <1>h, <2>1, <2>2
        DEF SyncWriter, Synced, process, OthersUntouched, Untouched, WriterLeaves, Steady,
            Whole
    <2>4. AllSteady
        BY <2>3, OthersSteady
    <2> QED
        BY <1>0, <1>4, <2>4, CatsKept DEF SyncWriter
<1>5. ASSUME NEW g \in Gaps, StartGap(g) PROVE AllCats'
    <2>1. AllSteady
        BY <1>5, <1>h, QuietSteady DEF StartGap, AllUntouched, Untouched, disk, HistType
    <2>2. PICK k : k = [cat EXCEPT !.started = @ \cup {g}]
        OBVIOUS
    <2>3. /\ k.row = cat.row /\ k.intents = cat.intents
          /\ k.started = cat.started \cup {g} /\ k.completed = cat.completed
        BY <1>c, <2>2 DEF CatalogType
    <2>4. Unfinished(cat) \subseteq {g}
        BY <1>0, <1>5, <1>c, GapAssumption
        DEF StartGap, Current, GapsOK, Unfinished, CatalogType
    <2>5. Eligible(k)
        BY <2>3, <2>4, OneGap DEF Unfinished
    <2>6. CatOK(k)
        BY <1>c, <2>3, <2>5, EventCatOK
    <2> QED
        BY <1>0, <1>5, <2>1, <2>2, <2>6, CatsCommitted DEF StartGap
<1>6. CASE CompleteGap
    <2>1. AllSteady
        BY <1>6, QuietSteady DEF CompleteGap, AllUntouched, Untouched, disk
    <2>2. PICK k : k = [cat EXCEPT !.completed = @ \cup {gap}]
        OBVIOUS
    <2>3. /\ k.row = cat.row /\ k.intents = cat.intents
          /\ k.started = cat.started /\ k.completed = cat.completed \cup {gap}
        BY <1>c, <2>2 DEF CatalogType
    <2>4. Unfinished(cat) \subseteq {gap}
        BY <1>0, <1>6 DEF CompleteGap, GapsOK
    <2>5. Eligible(k)
        BY <2>3, <2>4 DEF Unfinished, Eligible
    <2>6. CatOK(k)
        BY <1>c, <2>3, <2>5, EventCatOK
    <2> QED
        BY <1>0, <1>6, <2>1, <2>2, <2>6, CatsCommitted DEF CompleteGap
<1> QED
    BY <1>1, <1>2, <1>3, <1>4, <1>5, <1>6 DEF Writing

LEMMA SealingCats == ASSUME TypeOK, FrameInv, Sealing PROVE AllCats'
<1>0. /\ AllFiles /\ AllCats /\ WriterOK /\ JobOK /\ JobSteps /\ GapsOK
    BY DEF FrameInv
<1>h. /\ hist.appended \in [Chunks -> Seq(Frame)] /\ hist.acked \in [Chunks -> Nat]
      /\ hist.cut \in [Chunks -> BOOLEAN] /\ hist.minted \subseteq Chunks
      /\ part \in [Chunks -> PartFile] /\ art \in [Chunks -> ArtFile]
      /\ man \in [Chunks -> ManFile] /\ hist \in HistType
    BY DEF TypeOK, HistType
<1>c. CatOK(cat) /\ cat \in CatalogType
    BY <1>0, InUse
<1>1. ASSUME NEW forced \in SUBSET ForcedFlags, NEW g \in Gaps \cup {NoGap},
             SealWriter(forced, g)
      PROVE  AllCats'
    <2>1. PICK c \in Chunks : c = wr
        BY <1>1 DEF SealWriter, WriterOpen, TypeOK
    <2>2. /\ hist'.acked = [hist.acked EXCEPT ![c] = Len(part[c].frames)]
          /\ hist'.cut = [hist.cut EXCEPT ![c] = (g # NoGap)]
          /\ hist'.appended = hist.appended /\ hist'.minted = hist.minted
        BY <1>1, <1>h, <2>1 DEF SealWriter, HistType
    <2>3. OthersUntouched(c) /\ WriterLeaves(c) /\ Steady(c)
        BY <1>1, <1>h, <2>1, <2>2
        DEF SealWriter, OthersUntouched, Untouched, WriterLeaves, Steady, Whole
    <2>4. AllSteady
        BY <2>3, OthersSteady
    <2> QED
        BY <1>0, <1>1, <2>4, CatsKept DEF SealWriter
<1>2. ASSUME NEW c \in Chunks, NEW g \in Gaps, RegisterMarker(c, g) PROVE AllCats'
    <2>1. /\ hist'.appended = hist.appended /\ hist'.acked = hist.acked
          /\ hist'.cut = [hist.cut EXCEPT ![c] = TRUE]
          /\ hist'.minted = hist.minted \cup {c}
        BY <1>2, <1>h DEF RegisterMarker, HistType
    <2>2. OthersUntouched(c) /\ WriterLeaves(c) /\ Steady(c)
        <3>1. UNCHANGED <<part, art, man, wr>>
            BY <1>2 DEF RegisterMarker, disk
        <3>2. OthersUntouched(c) /\ WriterLeaves(c)
            BY <1>h, <2>1, <3>1 DEF OthersUntouched, Untouched, WriterLeaves
        <3>3. c \notin hist.minted
            BY <1>2 DEF RegisterMarker
        <3> QED
            BY <3>1, <3>2, <3>3 DEF Steady
    <2>3. AllSteady
        BY <2>2, OthersSteady
    <2>4. PICK k : k = SealingRow(c, ForcedFlags, g)
        OBVIOUS
    <2>5. /\ \A d \in Chunks \ {c} : k.row[d] = cat.row[d]
          /\ k.row[c].st = "SEALING" /\ k.row[c].forced = ForcedFlags /\ k.row[c].intent = g
          /\ k.intents = cat.intents \cup ({g} \ {NoGap})
        BY <1>c, <2>4, SealingRowFields
    <2>6. ASSUME NEW d \in Chunks, d # c PROVE RowOK(k, d)'
        <3>1. RowOK(cat, d) /\ Untouched(d)
            BY <1>c, <2>2, <2>6 DEF CatOK, OthersUntouched
        <3>2. RowOK(k, d)
            BY <2>5, <2>6, <3>1 DEF RowOK
        <3>3. UNCHANGED wr
            BY <1>2 DEF RegisterMarker
        <3> QED
            BY <3>1, <3>2, <3>3 DEF RowOK, Untouched, Whole, CutMarked
    <2>7. RowOK(k, c)'
        <3>1. FileOK(c)
            BY <1>0 DEF AllFiles
        <3>2. part[c] = NoPart /\ hist.appended[c] = << >> /\ Len(<< >>) = 0
            BY <1>2, <3>1 DEF RegisterMarker, FileOK
        <3>3. Whole(c)'
            BY <1>2, <2>1, <3>2, NoPartFields, ChunkAssumption DEF RegisterMarker, Whole, disk
        <3>4. CutMarked(c, ForcedFlags)'
            BY DEF CutMarked, ForcedFlags
        <3>5. g \in k.intents
            BY <2>5, GapAssumption
        <3> QED
            BY <2>1, <2>5, <3>3, <3>4, <3>5 DEF RowOK
    <2>8. Eligible(k)
        <3>1. Unfinished(cat) \subseteq {g}
            BY <1>0, <1>2, <1>c, GapAssumption
            DEF RegisterMarker, Idle, Current, GapsOK, Unfinished, CatalogType
        <3> QED
            BY <1>0, <2>4, <3>1, SealingRowEligible
    <2>9. CatOK(k)'
        BY <2>6, <2>7, <2>8 DEF CatOK, Eligible
    <2>10. Commit(k)
        BY <1>2, <2>4 DEF RegisterMarker
    <2> QED
        BY <1>0, <2>3, <2>9, <2>10, SteadyCats DEF AllCats, Commit
<1>3. CASE CreateMarker
    <2>1. PICK c \in Chunks : c = job.chunk
        BY <1>3, JobChunk DEF CreateMarker, Steps
    <2>2. /\ part'[c].frames = part[c].frames /\ part'[c].sync = part[c].sync
          /\ part'[c].tail = part[c].tail
        BY <1>3, <1>h, <2>1 DEF CreateMarker, PartFile
    <2>3. OthersUntouched(c) /\ WriterLeaves(c)
        BY <1>3, <1>h, <2>1 DEF CreateMarker, OthersUntouched, Untouched, WriterLeaves
    <2>4. Steady(c)
        BY <1>3, <2>2 DEF CreateMarker, Steady, Whole
    <2>5. AllSteady
        BY <2>3, <2>4, OthersSteady
    <2> QED
        BY <1>0, <1>3, <2>5, CatsKept DEF CreateMarker
<1>4. CASE OpenMarker
    <2>1. PICK c \in Chunks : c = job.chunk
        BY <1>4, JobChunk DEF OpenMarker, Steps
    <2>2. hist.appended[c] = << >> /\ c \in hist.minted
        BY <1>0, <1>4, <2>1 DEF OpenMarker, JobOK, JobSteps, NoJob
    <2>3. part'[c] = NewPart
        BY <1>4, <1>h, <2>1 DEF OpenMarker
    <2>4. OthersUntouched(c) /\ WriterLeaves(c)
        BY <1>4, <1>h, <2>1 DEF OpenMarker, OthersUntouched, Untouched, WriterLeaves
    <2>5. Steady(c)
        BY <1>4, <2>2, <2>3, NoPartFields DEF OpenMarker, Steady, Whole
    <2>6. AllSteady
        BY <2>4, <2>5, OthersSteady
    <2>7. CatOK(Registered(job.chunk))
        BY <1>0, <2>1, <2>2, RegisteredCatOK
    <2> QED
        BY <1>0, <1>4, <2>6, <2>7, CatsCommitted DEF OpenMarker
<1>5. CASE SealSealing
    <2>1. AllSteady
        BY <1>5, QuietSteady DEF SealSealing, AllUntouched, Untouched, disk
    <2>2. CASE UNCHANGED catalog
        BY <1>0, <2>1, <2>2, CatsKept
    <2>3. CASE /\ cat.row[job.chunk].st \in {"ACTIVE", "RECOVERED"}
               /\ Commit(SealingRow(job.chunk, job.forced, job.intent))
        <3>0. job.chunk \in Chunks /\ job \in ActiveJob
            BY <1>5, JobChunk DEF SealSealing, Steps
        <3>1. /\ job.chunk \in hist.minted
              /\ ~man[job.chunk].present => Whole(job.chunk) /\ CutMarked(job.chunk, job.forced)
            BY <1>0, <1>5 DEF SealSealing, JobOK, NoJob
        <3>2. ~man[job.chunk].present /\ hist.appended[job.chunk] = << >> => job.intent \in Gaps
            BY <1>0, <1>5, <2>3 DEF SealSealing, JobSteps
        <3>3. job.intent = NoGap \/ Unfinished(cat) \subseteq {job.intent}
            BY <1>0, <1>5 DEF SealSealing, JobOK, NoJob, GapsOK
        <3>4. job.intent \in Gaps \cup {NoGap}
            BY <3>0 DEF ActiveJob
        <3>5. CatOK(SealingRow(job.chunk, job.forced, job.intent))
            BY <1>0, <3>0, <3>1, <3>2, <3>3, <3>4, SealingRowCatOK
        <3> QED
            BY <1>0, <2>1, <2>3, <3>5, CatsCommitted
    <2> QED
        BY <1>5, <2>2, <2>3 DEF SealSealing
<1>6. CASE SealArtifact
    <2>1. PICK c \in Chunks : c = job.chunk
        BY <1>6, JobChunk DEF SealArtifact, Steps
    <2>2. OthersUntouched(c) /\ WriterLeaves(c) /\ Steady(c)
        BY <1>6, <1>h, <2>1
        DEF SealArtifact, OthersUntouched, Untouched, WriterLeaves, Steady, Whole
    <2>3. AllSteady
        BY <2>2, OthersSteady
    <2> QED
        BY <1>0, <1>6, <2>3, CatsKept DEF SealArtifact
<1>7. CASE SealManifest
    <2>1. PICK c \in Chunks : c = job.chunk
        BY <1>7, JobChunk DEF SealManifest, Steps
    <2>2. man'[c].present
        BY <1>7, <1>h, <2>1 DEF SealManifest, Expected, Manifest
    <2>3. OthersUntouched(c) /\ WriterLeaves(c) /\ Steady(c)
        BY <1>7, <1>h, <2>1, <2>2
        DEF SealManifest, OthersUntouched, Untouched, WriterLeaves, Steady
    <2>4. AllSteady
        BY <2>3, OthersSteady
    <2> QED
        BY <1>0, <1>7, <2>4, CatsKept DEF SealManifest
<1>8. CASE SealCommit
    <2>1. AllSteady
        BY <1>8, QuietSteady DEF SealCommit, AllUntouched, Untouched, disk
    <2>2. job.chunk \in Chunks /\ job.chunk \in hist.minted
        BY <1>0, <1>8, JobChunk DEF SealCommit, Steps, JobOK, NoJob
    <2>3. CatOK(Moved(cat, job.chunk, "SEALED"))
        BY <1>0, <2>2, MovedCatOK DEF ChunkState
    <2> QED
        BY <1>0, <1>8, <2>1, <2>3, CatsCommitted DEF SealCommit
<1>9. CASE SealUnlink
    <2>1. PICK c \in Chunks : c = job.chunk
        BY <1>9, JobChunk DEF SealUnlink, Steps
    <2>2. man[c].present
        BY <1>0, <1>9, <2>1 DEF SealUnlink, JobSteps
    <2>3. OthersUntouched(c) /\ WriterLeaves(c) /\ Steady(c)
        BY <1>9, <1>h, <2>1, <2>2
        DEF SealUnlink, OthersUntouched, Untouched, WriterLeaves, Steady
    <2>4. AllSteady
        BY <2>3, OthersSteady
    <2> QED
        BY <1>0, <1>9, <2>4, CatsKept DEF SealUnlink
<1> QED
    BY <1>1, <1>2, <1>3, <1>4, <1>5, <1>6, <1>7, <1>8, <1>9 DEF Sealing
LEMMA FileNeedsIdentifier ==
    ASSUME AllFiles, NEW c \in Chunks, part[c].st # "absent" \/ part[c].tail # "clean"
                                        \/ man[c].present
    PROVE  c \in hist.minted
    BY NoPartFields DEF AllFiles, FileOK

LEMMA RecoveringCats == ASSUME TypeOK, BundleInv, FrameInv, Recovering PROVE AllCats'
<1>0. /\ AllFiles /\ AllCats /\ RecoveryAlone
    BY DEF FrameInv, BundleInv
<1>h. /\ part \in [Chunks -> PartFile] /\ rec \in Recovery
    BY DEF TypeOK
<1>c. CatOK(cat) /\ cat \in CatalogType
    BY <1>0, InUse
<1>1. CASE StartProcess
    <2>1. AllSteady
        BY <1>1, QuietSteady DEF StartProcess, AllUntouched, Untouched, disk
    <2> QED
        BY <1>0, <1>1, <2>1, CatsKept DEF StartProcess
<1>2. CASE NextPhase
    <2>1. AllSteady
        BY <1>2, QuietSteady DEF NextPhase, AllUntouched, Untouched, disk
    <2> QED
        BY <1>0, <1>2, <2>1, CatsKept DEF NextPhase
<1>3. CASE MarkRecovered
    <2>1. AllSteady
        BY <1>3, QuietSteady DEF MarkRecovered, AllUntouched, Untouched, disk
    <2>2. PICK c \in Chunks : c = rec.cur
        BY <1>3, <1>h DEF MarkRecovered, Recovery
    <2>3. c \in hist.minted
        <3>1. cat.row[c].st # "NONE"
            BY <1>3, <2>2 DEF MarkRecovered, CanMove, ALLOWED_TRANSITIONS
        <3> QED
            BY <1>0, <3>1, RowNeedsIdentifier
    <2> DEFINE r == [cat.row[c] EXCEPT !.st = "RECOVERED", !.recovered = TRUE]
    <2>4. r.st = "RECOVERED"
        <3>1. cat.row[c] \in Row
            BY <1>c DEF CatalogType
        <3> QED
            BY <3>1 DEF Row
    <2>5. Commit(WithRow(cat, c, r))
        BY <1>3, <2>2 DEF MarkRecovered
    <2> HIDE DEF r
    <2>6. RowsLeave(WithRow(cat, c, r)) /\ SameGaps(WithRow(cat, c, r))
        <3>1. ASSUME NEW d \in Chunks
              PROVE  WithRow(cat, c, r).row[d] = IF d = c THEN r ELSE cat.row[d]
            BY <1>c, WithRowState
        <3> QED
            BY <1>c, <2>3, <2>4, <3>1, WithRowGaps DEF RowsLeave, SameGaps
    <2>7. CatOK(WithRow(cat, c, r))
        BY <1>c, <2>6, LeavingCatOK
    <2> QED
        BY <1>0, <2>1, <2>5, <2>7, CatsCommitted
<1>4. CASE MoveQuarantined
    <2>1. PICK c \in Chunks : c = rec.cur
        BY <1>4, <1>h DEF MoveQuarantined, Recovery
    <2>2. OthersUntouched(c) /\ WriterLeaves(c) /\ Steady(c)
        BY <1>4, <1>h, <2>1
        DEF MoveQuarantined, OthersUntouched, Untouched, WriterLeaves, Steady, Whole
    <2>3. AllSteady
        BY <2>2, OthersSteady
    <2> QED
        BY <1>0, <1>4, <2>3, CatsKept DEF MoveQuarantined
<1>5. CASE ResealRaises
    <2>1. AllSteady
        BY <1>5, QuietSteady DEF ResealRaises, AllUntouched, Untouched, disk
    <2> QED
        BY <1>0, <1>5, <2>1, CatsKept DEF ResealRaises
<1>6. CASE UnlinkReconciled
    <2>1. PICK c \in Chunks : c = rec.cur
        BY <1>6, <1>h DEF UnlinkReconciled, Recovery
    <2>2. OthersUntouched(c) /\ WriterLeaves(c) /\ Steady(c)
        BY <1>6, <1>h, <2>1
        DEF UnlinkReconciled, Duplicate, OthersUntouched, Untouched, WriterLeaves, Steady
    <2>3. AllSteady
        BY <2>2, OthersSteady
    <2> QED
        BY <1>0, <1>6, <2>3, CatsKept DEF UnlinkReconciled
<1>7. ASSUME NEW c \in Chunks, RecoverStub(c) PROVE AllCats'
    <2>1. /\ part'[c].frames = part[c].frames /\ part'[c].sync = part[c].sync
          /\ part'[c].tail = part[c].tail
        BY <1>7, <1>h DEF RecoverStub, PartFile
    <2>2. OthersUntouched(c) /\ WriterLeaves(c)
        BY <1>7, <1>h DEF RecoverStub, OthersUntouched, Untouched, WriterLeaves
    <2>3. Steady(c)
        BY <1>7, <2>1 DEF RecoverStub, Steady, Whole
    <2>4. AllSteady
        BY <2>2, <2>3, OthersSteady
    <2> QED
        BY <1>0, <1>7, <2>4, CatsKept DEF RecoverStub
<1>8. ASSUME NEW c \in Chunks, RecoverClean(c) PROVE AllCats'
    <2>1. AllSteady
        BY <1>8, QuietSteady DEF RecoverClean, AllUntouched, Untouched, disk
    <2>2. CatOK(Registered(c))
        BY <1>0, <1>8, FileNeedsIdentifier, RegisteredCatOK DEF RecoverClean
    <2> QED
        BY <1>0, <1>8, <2>1, <2>2, CatsCommitted DEF RecoverClean
<1>9. ASSUME NEW c \in Chunks, TruncateTail(c) PROVE AllCats'
    <2>1. OthersUntouched(c) /\ WriterLeaves(c) /\ Steady(c)
        BY <1>9, <1>h
        DEF TruncateTail, OthersUntouched, Untouched, WriterLeaves, Steady, Whole
    <2>2. AllSteady
        BY <2>1, OthersSteady
    <2>3. CatOK(Registered(c))
        BY <1>0, <1>9, FileNeedsIdentifier, RegisteredCatOK DEF TruncateTail
    <2> QED
        BY <1>0, <1>9, <2>2, <2>3, CatsCommitted DEF TruncateTail
<1>10. ASSUME NEW c \in Chunks, QuarantineRow(c) PROVE AllCats'
    <2>1. AllSteady
        BY <1>10, QuietSteady DEF QuarantineRow, AllUntouched, Untouched, disk
    <2>2. c \in hist.minted
        BY <1>0, <1>10, FileNeedsIdentifier DEF QuarantineRow
    <2>3. PICK k : k = Moved(Registered(c), c, "QUARANTINED")
        OBVIOUS
    <2>4. CatOK(Registered(c)) /\ Registered(c) \in CatalogType
        BY <1>0, <1>c, <2>2, RegisteredCatOK, RegisteredType
    <2>5. ASSUME NEW d \in Chunks, d # c PROVE k.row[d] = Registered(c).row[d]
        BY <2>3, <2>4, <2>5, WithRowState DEF Moved
    <2>6. k.row[c].st = "QUARANTINED"
        BY <2>3, <2>4, MovedState
    <2>7. /\ k.intents = Registered(c).intents /\ k.started = Registered(c).started
          /\ k.completed = Registered(c).completed
        BY <2>3, <2>4, WithRowGaps DEF Moved
    <2>8. CatOK(k)
        <3>1. Eligible(k)
            BY <2>4, <2>7 DEF CatOK, Eligible
        <3>2. ASSUME NEW d \in Chunks PROVE RowOK(k, d)
            BY <2>2, <2>4, <2>5, <2>6, <2>7 DEF CatOK, RowOK
        <3> QED
            BY <3>1, <3>2 DEF CatOK
    <2> QED
        BY <1>0, <1>10, <2>1, <2>3, <2>8, CatsCommitted DEF QuarantineRow
<1>11. ASSUME NEW c \in Chunks, Reseal(c) PROVE AllCats'
    <2>1. AllSteady
        BY <1>11, QuietSteady DEF Reseal, AllUntouched, Untouched, disk
    <2> QED
        BY <1>0, <1>11, <2>1, CatsKept DEF Reseal
<1>12. ASSUME NEW c \in Chunks, CleanupRetained(c) PROVE AllCats'
    <2>1. OthersUntouched(c) /\ WriterLeaves(c) /\ Steady(c)
        BY <1>12, <1>h
        DEF CleanupRetained, Duplicate, OthersUntouched, Untouched, WriterLeaves, Steady,
            Whole
    <2>2. AllSteady
        BY <2>1, OthersSteady
    <2> QED
        BY <1>0, <1>12, <2>2, CatsKept DEF CleanupRetained
<1>13. ASSUME NEW c \in Chunks, ReconcileManifest(c) PROVE AllCats'
    <2>1. AllSteady
        BY <1>13, QuietSteady DEF ReconcileManifest, AllUntouched, Untouched, disk
    <2>2. man[c].present /\ c \in hist.minted
        BY <1>0, <1>13, FileNeedsIdentifier DEF ReconcileManifest, Visiting, RecoveryAlone
    <2>3. CatOK(Registered(c))
        BY <1>0, <2>2, RegisteredCatOK
    <2>4. CatOK(SealingRow(c, {}, NoGap))
        BY <1>0, <2>2, SealingRowCatOK
    <2>5. CatOK(Moved(cat, c, "SEALED"))
        BY <1>0, <2>2, MovedCatOK DEF ChunkState
    <2>6. \/ Commit(Registered(c)) \/ Commit(SealingRow(c, {}, NoGap))
          \/ Commit(Moved(cat, c, "SEALED")) \/ UNCHANGED catalog
        BY <1>13 DEF ReconcileManifest
    <2> QED
        BY <1>0, <2>1, <2>3, <2>4, <2>5, <2>6, CatsCommitted, CatsKept
<1>14. ASSUME NEW g \in Gaps, MaterializeStarted(g) PROVE AllCats'
    <2>1. AllSteady
        BY <1>14, QuietSteady DEF MaterializeStarted, AllUntouched, Untouched, disk, process
    <2>2. PICK k : k = [cat EXCEPT !.started = @ \cup {g}]
        OBVIOUS
    <2>3. /\ k.row = cat.row /\ k.intents = cat.intents
          /\ k.started = cat.started \cup {g} /\ k.completed = cat.completed
        BY <1>c, <2>2 DEF CatalogType
    <2>4. g \in cat.intents
        BY <1>14 DEF MaterializeStarted, Unresolved
    <2>5. Eligible(k)
        BY <1>c, <2>3, <2>4 DEF CatOK, Eligible
    <2>6. CatOK(k)
        BY <1>c, <2>3, <2>5, EventCatOK
    <2> QED
        BY <1>0, <1>14, <2>1, <2>2, <2>6, CatsCommitted DEF MaterializeStarted
<1> QED
    BY <1>1, <1>2, <1>3, <1>4, <1>5, <1>6, <1>7, <1>8, <1>9, <1>10, <1>11, <1>12,
       <1>13, <1>14 DEF Recovering

LEMMA EndingCats == ASSUME TypeOK, FrameInv, Exit \/ Kill \/ PowerLoss PROVE AllCats'
<1>0. /\ AllFiles /\ AllCats /\ WriterOK
    BY DEF FrameInv
<1>1. CASE Exit
    <2>1. AllSteady
        BY <1>1, QuietSteady DEF Exit, Ended, AllUntouched, Untouched, disk
    <2> QED
        BY <1>0, <1>1, <2>1, CatsKept DEF Exit
<1>2. CASE Kill
    <2>1. ASSUME NEW c \in Chunks PROVE Steady(c)
        BY <1>0, <1>2, KillSurvives DEF Kill, AllFiles, Survives, Steady
    <2> QED
        BY <1>0, <1>2, <2>1, CatsKept DEF Kill, AllSteady
<1>3. CASE PowerLoss
    <2>1. ASSUME NEW c \in Chunks PROVE Steady(c)
        BY <1>0, <1>3, LossSurvives DEF PowerLoss, AllFiles, Survives, Steady
    <2>2. \A k \in stable : CatOK(k)'
        BY <1>0, <2>1, SteadyCats DEF AllCats, AllSteady
    <2> QED
        BY <1>3, <2>2 DEF PowerLoss, AllCats
<1> QED
    BY <1>1, <1>2, <1>3
-----------------------------------------------------------------------------
(* The writer and the seal in progress, under every action. *)

ProcessOK == WriterOK /\ JobOK /\ JobSteps

LEMMA NoWriter == ASSUME wr' = NoChunk PROVE WriterOK'
    BY DEF WriterOK

LEMMA NoSeal == ASSUME job' = NoJob PROVE JobOK' /\ JobSteps'
    BY DEF JobOK, JobSteps, NoJob

LEMMA WritingProcess == ASSUME TypeOK, FrameInv, Writing PROVE ProcessOK'
<1>0. /\ AllFiles /\ WriterOK /\ JobOK /\ JobSteps
    BY DEF FrameInv
<1>h. /\ hist.appended \in [Chunks -> Seq(Frame)] /\ hist.acked \in [Chunks -> Nat]
      /\ part \in [Chunks -> PartFile] /\ hist \in HistType
    BY DEF TypeOK, HistType
<1> USE DEF ProcessOK
<1>1. ASSUME NEW c \in Chunks, CreatePartial(c) PROVE ProcessOK'
    <2>1. FileOK(c) /\ part[c] = NoPart /\ hist.appended[c] = << >> /\ ~man[c].present
        BY <1>0, <1>1 DEF CreatePartial, AllFiles, FileOK
    <2>2. part'[c].st = "creating" /\ part'[c].frames = << >> /\ part'[c].tail = "clean"
        BY <1>1, <1>h, <2>1, NoPartFields DEF CreatePartial, PartFile
    <2>3. hist'.appended = hist.appended /\ hist'.minted = hist.minted \cup {c}
        BY <1>1, <1>h DEF CreatePartial, HistType
    <2>4. WriterOK'
        BY <1>1, <2>1, <2>2, <2>3 DEF CreatePartial, Idle, WriterOK
    <2> QED
        BY <1>1, <2>4, NoSeal DEF CreatePartial, Idle
<1>2. CASE OpenWriter
    <2>1. PICK c \in Chunks : c = wr
        BY <1>2 DEF OpenWriter, TypeOK
    <2>2. part'[c] = NewPart /\ hist.appended[c] = << >>
        BY <1>0, <1>2, <1>h, <2>1 DEF OpenWriter, AllFiles, FileOK
    <2>3. WriterOK'
        BY <1>0, <1>2, <2>1, <2>2, NoPartFields DEF OpenWriter, process, WriterOK
    <2> QED
        BY <1>2, <2>3, NoSeal DEF OpenWriter, Idle, process
<1>3. ASSUME NEW f \in Frame, AppendFrame(f) PROVE ProcessOK'
    <2>1. PICK c \in Chunks : c = wr
        BY <1>3 DEF AppendFrame, WriterOpen, TypeOK
    <2>2. /\ hist'.appended[c] = Append(hist.appended[c], f) /\ hist'.minted = hist.minted
        BY <1>3, <1>h, <2>1 DEF AppendFrame, HistType
    <2>3. /\ part'[c].frames = Append(part[c].frames, f) /\ part'[c].st = part[c].st
          /\ part'[c].tail = part[c].tail
        BY <1>3, <1>h, <2>1 DEF AppendFrame, PartFile
    <2>4. WriterOK'
        BY <1>0, <1>3, <2>1, <2>2, <2>3 DEF AppendFrame, process, WriterOK
    <2> QED
        BY <1>3, <2>4, NoSeal DEF AppendFrame, WriterOpen, Idle, process
<1>4. CASE SyncWriter
    <2>1. PICK c \in Chunks : c = wr
        BY <1>4 DEF SyncWriter, WriterOpen, TypeOK
    <2>2. hist'.appended = hist.appended /\ hist'.minted = hist.minted
        BY <1>4, <1>h, <2>1 DEF SyncWriter, Synced, HistType
    <2>3. /\ part'[c].frames = part[c].frames /\ part'[c].st = part[c].st
          /\ part'[c].tail = part[c].tail
        BY <1>4, <1>h, <2>1 DEF SyncWriter, Synced, PartFile
    <2>4. WriterOK'
        BY <1>0, <1>4, <2>1, <2>2, <2>3 DEF SyncWriter, process, WriterOK
    <2> QED
        BY <1>4, <2>4, NoSeal DEF SyncWriter, WriterOpen, Idle, process
<1>5. ASSUME NEW g \in Gaps, StartGap(g) PROVE ProcessOK'
    <2>1. /\ hist'.appended = hist.appended /\ hist'.minted = hist.minted
          /\ hist'.cut = hist.cut
        BY <1>5, <1>h DEF StartGap, HistType
    <2>2. cat'.row = cat.row
        BY <1>5 DEF StartGap, Commit, TypeOK, CatalogType
    <2>3. WriterOK'
        BY <1>0, <1>5, <2>1 DEF StartGap, disk, WriterOK
    <2>4. JobSteps'
        BY <1>0, <1>5, <2>1, <2>2 DEF StartGap, disk, JobSteps
    <2>5. job # NoJob /\ job.intent # NoGap => gap' = job.intent
        BY <1>0, <1>5 DEF StartGap, Current, JobOK
    <2>6. JobOK'
        BY <1>0, <1>5, <2>1, <2>5 DEF StartGap, disk, JobOK, Whole, CutMarked
    <2> QED
        BY <2>3, <2>4, <2>6
<1>6. CASE CompleteGap
    <2>1. WriterOK'
        BY <1>0, <1>6 DEF CompleteGap, disk, WriterOK
    <2> QED
        BY <1>6, <2>1, NoSeal DEF CompleteGap
<1> QED
    BY <1>1, <1>2, <1>3, <1>4, <1>5, <1>6 DEF Writing

LEMMA ManifestOrWhole ==
    ASSUME JobOK, job.step \in Steps
    PROVE  /\ wr = NoChunk /\ job.chunk \in hist.minted
           /\ proc \in {"running", "recovering"}
           /\ ~man[job.chunk].present => Whole(job.chunk) /\ CutMarked(job.chunk, job.forced)
           /\ job.intent # NoGap => proc = "running" /\ gap = job.intent
    BY DEF JobOK, NoJob, Steps

\* A step of the seal that changes only the step.
LEMMA SealSteps ==
    ASSUME JobOK, job.step \in Steps, NEW c \in Chunks, c = job.chunk, Steady(c),
           job'.chunk = job.chunk, job'.intent = job.intent, job.forced \subseteq job'.forced,
           UNCHANGED <<wr, proc, gap>>
    PROVE  WriterOK' /\ JobOK'
<1>1. /\ wr = NoChunk /\ c \in hist.minted /\ proc \in {"running", "recovering"}
      /\ ~man[c].present => Whole(c) /\ CutMarked(c, job.forced)
      /\ job.intent # NoGap => proc = "running" /\ gap = job.intent
    BY ManifestOrWhole
<1>2. ~man'[c].present => Whole(c)' /\ CutMarked(c, job.forced)'
    BY <1>1 DEF Steady, CutMarked
<1>3. c \in hist'.minted
    BY <1>1 DEF Steady
<1>4. job'.chunk = c
    OBVIOUS
<1> QED
    BY <1>1, <1>2, <1>3, <1>4, NoWriter DEF JobOK

LEMMA SealingProcess == ASSUME TypeOK, BundleInv, FrameInv, Sealing PROVE ProcessOK'
<1>0. /\ AllFiles /\ AllCats /\ WriterOK /\ JobOK /\ JobSteps /\ ManifestOverArtifact
    BY DEF FrameInv, BundleInv
<1>h. /\ hist.appended \in [Chunks -> Seq(Frame)] /\ hist.acked \in [Chunks -> Nat]
      /\ hist.cut \in [Chunks -> BOOLEAN] /\ hist.minted \subseteq Chunks
      /\ part \in [Chunks -> PartFile] /\ art \in [Chunks -> ArtFile]
      /\ man \in [Chunks -> ManFile] /\ hist \in HistType
    BY DEF TypeOK, HistType
<1>c. cat \in CatalogType
    BY DEF TypeOK
<1> USE DEF ProcessOK
<1>1. ASSUME NEW forced \in SUBSET ForcedFlags, NEW g \in Gaps \cup {NoGap},
             SealWriter(forced, g)
      PROVE  ProcessOK'
    <2>1. PICK c \in Chunks : c = wr
        BY <1>1 DEF SealWriter, WriterOpen, TypeOK
    <2>2. /\ hist'.cut[c] = (g # NoGap) /\ hist'.appended = hist.appended
          /\ hist'.minted = hist.minted
        BY <1>1, <1>h, <2>1 DEF SealWriter, HistType
    <2>3. /\ part'[c].frames = part[c].frames /\ part'[c].sync = Len(part[c].frames)
          /\ part'[c].tail = part[c].tail
        BY <1>1, <1>h, <2>1 DEF SealWriter, PartFile
    <2>4. /\ c \in hist.minted /\ part[c].frames = hist.appended[c] /\ part[c].tail = "clean"
          /\ part[c].frames # << >>
        BY <1>0, <1>1, <2>1, ChunkAssumption DEF SealWriter, WriterOpen, WriterOK
    <2>5. Whole(c)'
        BY <1>1, <2>2, <2>3, <2>4, ChunkAssumption DEF SealWriter, Whole
    <2>6. CutMarked(c, forced)'
        <3>1. g # NoGap /\ forced = {} => FrameFlags(part[c].frames) # {}
            <4>1. Len(part[c].frames) \in 1..Len(part[c].frames)
                BY <1>h, <2>4, EmptySeq, FileTyped
            <4> QED
                BY <1>1, <2>1, <4>1 DEF SealWriter, FrameFlags
        <3> QED
            BY <2>2, <2>4, <3>1 DEF CutMarked
    <2>7. job'.chunk = c /\ job'.forced = forced /\ job'.intent = g /\ job'.step = "sealing"
        BY <1>1, <2>1 DEF SealWriter
    <2>8. g # NoGap => gap' = g
        BY <1>1 DEF SealWriter, Current
    <2>9. JobOK'
        BY <1>1, <2>2, <2>4, <2>5, <2>6, <2>7, <2>8
        DEF SealWriter, WriterOpen, Idle, JobOK
    <2>10. JobSteps'
        BY <2>2, <2>4, <2>7 DEF JobSteps
    <2> QED
        BY <1>1, <2>9, <2>10, NoWriter DEF SealWriter
<1>2. ASSUME NEW c \in Chunks, NEW g \in Gaps, RegisterMarker(c, g) PROVE ProcessOK'
    <2>1. hist'.appended = hist.appended /\ hist'.minted = hist.minted \cup {c}
        BY <1>2, <1>h DEF RegisterMarker, HistType
    <2>2. FileOK(c) /\ part[c] = NoPart /\ hist.appended[c] = << >> /\ Len(<< >>) = 0
        BY <1>0, <1>2 DEF RegisterMarker, AllFiles, FileOK
    <2>3. Whole(c)' /\ CutMarked(c, ForcedFlags)'
        BY <1>2, <2>1, <2>2, NoPartFields, ChunkAssumption
        DEF RegisterMarker, disk, Whole, CutMarked, ForcedFlags
    <2>4. job'.chunk = c /\ job'.forced = ForcedFlags /\ job'.intent = g /\ job'.step = "marker"
        BY <1>2 DEF RegisterMarker
    <2>5. cat'.row[c].st = "SEALING"
        BY <1>2, <1>c, SealingRowFields DEF RegisterMarker, Commit
    <2>6. JobOK'
        BY <1>2, <2>1, <2>3, <2>4 DEF RegisterMarker, Idle, Current, JobOK
    <2>7. JobSteps'
        BY <2>1, <2>2, <2>4, <2>5 DEF JobSteps
    <2> QED
        BY <1>2, <2>6, <2>7, NoWriter DEF RegisterMarker
<1>3. CASE CreateMarker
    <2>1. PICK c \in Chunks : c = job.chunk
        BY <1>3, JobChunk DEF CreateMarker, Steps
    <2>2. job \in ActiveJob /\ job.step = "marker"
        BY <1>3, JobChunk DEF CreateMarker, Steps
    <2>3. /\ part'[c].frames = part[c].frames /\ part'[c].sync = part[c].sync
          /\ part'[c].tail = part[c].tail
        BY <1>3, <1>h, <2>1 DEF CreateMarker, PartFile
    <2>4. Steady(c)
        BY <1>3, <2>3 DEF CreateMarker, Steady, Whole
    <2>5. /\ job'.chunk = job.chunk /\ job'.forced = job.forced
          /\ job'.intent = job.intent /\ job'.step = "markerheader"
        BY <1>3, <2>2 DEF CreateMarker, ActiveJob
    <2>6. WriterOK' /\ JobOK'
        BY <1>0, <1>3, <2>1, <2>2, <2>4, <2>5, SealSteps DEF CreateMarker, Steps
    <2>7. JobSteps'
        BY <1>0, <1>3, <2>2, <2>5 DEF CreateMarker, catalog, JobSteps
    <2> QED
        BY <2>6, <2>7
<1>4. CASE OpenMarker
    <2>1. PICK c \in Chunks : c = job.chunk
        BY <1>4, JobChunk DEF OpenMarker, Steps
    <2>2. job \in ActiveJob /\ job.step = "markerheader"
        BY <1>4, JobChunk DEF OpenMarker, Steps
    <2>3. hist.appended[c] = << >> /\ cat.row[c].st = "SEALING"
        BY <1>0, <2>1, <2>2 DEF JobSteps
    <2>4. part'[c] = NewPart
        BY <1>4, <1>h, <2>1 DEF OpenMarker
    <2>5. Steady(c)
        BY <1>4, <2>3, <2>4, NoPartFields DEF OpenMarker, Steady, Whole
    <2>6. /\ job'.chunk = job.chunk /\ job'.forced = job.forced
          /\ job'.intent = job.intent /\ job'.step = "sealing"
        BY <1>4, <2>2 DEF OpenMarker, ActiveJob
    <2>7. WriterOK' /\ JobOK'
        BY <1>0, <1>4, <2>1, <2>2, <2>5, <2>6, SealSteps DEF OpenMarker, Steps
    <2>8. cat' = cat
        BY <1>4, <2>1, <2>3 DEF OpenMarker, Commit, Registered
    <2>9. JobSteps'
        BY <2>1, <2>3, <2>6, <2>8 DEF JobSteps
    <2> QED
        BY <2>7, <2>9
<1>5. CASE SealSealing
    <2>1. PICK c \in Chunks : c = job.chunk
        BY <1>5, JobChunk DEF SealSealing, Steps
    <2>2. job \in ActiveJob /\ job.step = "sealing"
        BY <1>5, JobChunk DEF SealSealing, Steps
    <2>3. Steady(c)
        BY <1>5 DEF SealSealing, disk, Steady, Whole
    <2>4. /\ job'.chunk = job.chunk /\ job.forced \subseteq job'.forced
          /\ job'.intent = job.intent /\ job'.step = "artifact"
        <3>1. CASE job' = [job EXCEPT !.step = "artifact"]
            BY <2>2, <3>1 DEF ActiveJob
        <3>2. CASE job' = [job EXCEPT !.step = "artifact",
                                      !.forced = @ \cup cat.row[job.chunk].forced]
            BY <2>2, <3>2 DEF ActiveJob
        <3> QED
            BY <1>5, <3>1, <3>2 DEF SealSealing
    <2>5. WriterOK' /\ JobOK'
        BY <1>0, <1>5, <2>1, <2>2, <2>3, <2>4, SealSteps DEF SealSealing, Steps
    <2>6. JobSteps'
        BY <2>4 DEF JobSteps
    <2> QED
        BY <2>5, <2>6
<1>6. CASE SealArtifact
    <2>1. PICK c \in Chunks : c = job.chunk
        BY <1>6, JobChunk DEF SealArtifact, Steps
    <2>2. job \in ActiveJob /\ job.step = "artifact"
        BY <1>6, JobChunk DEF SealArtifact, Steps
    <2>3. Steady(c)
        BY <1>6 DEF SealArtifact, Steady, Whole
    <2>4. /\ job'.chunk = job.chunk /\ job'.forced = job.forced
          /\ job'.intent = job.intent /\ job'.step = "manifest"
        BY <1>6, <2>2 DEF SealArtifact, ActiveJob
    <2>5. WriterOK' /\ JobOK'
        BY <1>0, <1>6, <2>1, <2>2, <2>3, <2>4, SealSteps DEF SealArtifact, Steps
    <2>6. art'[c].present /\ art'[c].frames = part[c].frames
        BY <1>6, <1>h, <2>1 DEF SealArtifact
    <2>7. JobSteps'
        BY <1>6, <2>1, <2>4, <2>6 DEF SealArtifact, JobSteps
    <2> QED
        BY <2>5, <2>7
<1>7. CASE SealManifest
    <2>1. PICK c \in Chunks : c = job.chunk
        BY <1>7, JobChunk DEF SealManifest, Steps
    <2>2. job \in ActiveJob /\ job.step = "manifest"
        BY <1>7, JobChunk DEF SealManifest, Steps
    <2>3. man'[c].present
        BY <1>7, <1>h, <2>1 DEF SealManifest, Expected, Manifest
    <2>4. Steady(c)
        BY <1>7, <2>3 DEF SealManifest, Steady
    <2>5. /\ job'.chunk = job.chunk /\ job'.forced = job.forced
          /\ job'.intent = job.intent /\ job'.step = "commit"
        BY <1>7, <2>2 DEF SealManifest, ActiveJob
    <2>6. WriterOK' /\ JobOK'
        BY <1>0, <1>7, <2>1, <2>2, <2>4, <2>5, SealSteps DEF SealManifest, Steps
    <2>7. JobSteps'
        BY <1>0, <1>7, <2>1, <2>2, <2>3, <2>5 DEF SealManifest, JobSteps
    <2> QED
        BY <2>6, <2>7
<1>8. CASE SealCommit
    <2>1. PICK c \in Chunks : c = job.chunk
        BY <1>8, JobChunk DEF SealCommit, Steps
    <2>2. job \in ActiveJob /\ job.step = "commit"
        BY <1>8, JobChunk DEF SealCommit, Steps
    <2>3. Steady(c)
        BY <1>8 DEF SealCommit, disk, Steady, Whole
    <2>4. /\ job'.chunk = job.chunk /\ job'.forced = job.forced
          /\ job'.intent = job.intent /\ job'.step = "unlink"
        BY <1>8, <2>2 DEF SealCommit, ActiveJob
    <2>5. WriterOK' /\ JobOK'
        BY <1>0, <1>8, <2>1, <2>2, <2>3, <2>4, SealSteps DEF SealCommit, Steps
    <2>6. cat'.row[c].st = "SEALED"
        BY <1>8, <1>c, <2>1, MovedState DEF SealCommit, Commit
    <2>7. JobSteps'
        BY <1>0, <1>8, <2>1, <2>2, <2>4, <2>6 DEF SealCommit, disk, JobSteps
    <2> QED
        BY <2>5, <2>7
<1>9. CASE SealUnlink
    <2>1. wr = NoChunk
        BY <1>0, <1>9, ManifestOrWhole DEF SealUnlink, Steps
    <2> QED
        BY <1>9, <2>1, NoWriter, NoSeal DEF SealUnlink
<1> QED
    BY <1>1, <1>2, <1>3, <1>4, <1>5, <1>6, <1>7, <1>8, <1>9 DEF Sealing
\* Recovery has no writer and, but for the re-seal of a chunk, no seal.
LEMMA RecoveryQuiet ==
    ASSUME TypeOK, BundleInv, FrameInv
    PROVE  /\ proc # "running" => wr = NoChunk
           /\ rec.phase # "none" => proc = "recovering"
           /\ rec.phase \in {"partials", "events", "cleanup", "reconcile"} => job = NoJob
           /\ rec.cur # NoChunk => job = NoJob
           /\ proc \notin {"running", "recovering"} => job = NoJob
    BY DEF FrameInv, WriterOK, JobOK, BundleInv, RecoveryAlone, NoRecovery, ResealOK

LEMMA RecoveringProcess == ASSUME TypeOK, BundleInv, FrameInv, Recovering PROVE ProcessOK'
<1> USE DEF ProcessOK
<1>q. /\ proc # "running" => wr = NoChunk
      /\ rec.phase # "none" => proc = "recovering"
      /\ rec.phase \in {"partials", "events", "cleanup", "reconcile"} => job = NoJob
      /\ rec.cur # NoChunk => job = NoJob
      /\ proc \notin {"running", "recovering"} => job = NoJob
    BY RecoveryQuiet
<1>0. /\ AllCats /\ WriterOK /\ JobOK /\ JobSteps /\ ResealOK
    BY DEF FrameInv
<1>1. CASE StartProcess
    BY <1>1, <1>q, NoWriter, NoSeal DEF StartProcess
<1>2. CASE NextPhase
    BY <1>2, <1>q, NoWriter, NoSeal DEF NextPhase
<1>3. CASE MarkRecovered
    BY <1>3, <1>q, NoWriter, NoSeal DEF MarkRecovered
<1>4. CASE MoveQuarantined
    BY <1>4, <1>q, NoWriter, NoSeal DEF MoveQuarantined
<1>5. CASE ResealRaises
    BY <1>5, <1>q, NoWriter, NoSeal DEF ResealRaises
<1>6. CASE UnlinkReconciled
    BY <1>6, <1>q, NoWriter, NoSeal DEF UnlinkReconciled
<1>7. ASSUME NEW c \in Chunks, RecoverStub(c) PROVE ProcessOK'
    BY <1>7, <1>q, NoWriter, NoSeal DEF RecoverStub, Visiting
<1>8. ASSUME NEW c \in Chunks, RecoverClean(c) PROVE ProcessOK'
    BY <1>8, <1>q, NoWriter, NoSeal DEF RecoverClean, Visiting
<1>9. ASSUME NEW c \in Chunks, TruncateTail(c) PROVE ProcessOK'
    BY <1>9, <1>q, NoWriter, NoSeal DEF TruncateTail, Visiting
<1>10. ASSUME NEW c \in Chunks, QuarantineRow(c) PROVE ProcessOK'
    BY <1>10, <1>q, NoWriter, NoSeal DEF QuarantineRow, Visiting
<1>11. ASSUME NEW c \in Chunks, Reseal(c) PROVE ProcessOK'
    <2>1. wr = NoChunk /\ wr' = NoChunk /\ proc = "recovering"
        BY <1>11, <1>q DEF Reseal, Visiting
    <2>2. cat.row[c].st = "SEALING"
        BY <1>0, <1>11 DEF Reseal, Visiting, ResealOK, NoJob
    <2>3. c \in hist.minted
        BY <1>0, <2>2, RowNeedsIdentifier
    <2>4. ~man[c].present => Whole(c) /\ CutMarked(c, cat.row[c].forced)
        BY <1>0, <2>2, SealingIsWhole
    <2>5. /\ job'.chunk = c /\ job'.intent = NoGap /\ job'.step = "sealing"
          /\ cat.row[c].forced \subseteq job'.forced
        BY <1>11 DEF Reseal
    <2>6. ~man'[c].present => Whole(c)' /\ CutMarked(c, job.forced)'
        BY <1>11, <2>4, <2>5 DEF Reseal, disk, Whole, CutMarked
    <2>7. JobOK'
        BY <1>11, <2>1, <2>3, <2>5, <2>6 DEF Reseal, JobOK
    <2>8. JobSteps'
        BY <1>11, <2>2, <2>5 DEF Reseal, catalog, JobSteps
    <2> QED
        BY <2>1, <2>7, <2>8, NoWriter
<1>12. ASSUME NEW c \in Chunks, CleanupRetained(c) PROVE ProcessOK'
    BY <1>12, <1>q, NoWriter, NoSeal DEF CleanupRetained, Visiting
<1>13. ASSUME NEW c \in Chunks, ReconcileManifest(c) PROVE ProcessOK'
    BY <1>13, <1>q, NoWriter, NoSeal DEF ReconcileManifest, Visiting
<1>14. ASSUME NEW g \in Gaps, MaterializeStarted(g) PROVE ProcessOK'
    BY <1>14, <1>q, NoWriter, NoSeal DEF MaterializeStarted, process
<1> QED
    BY <1>1, <1>2, <1>3, <1>4, <1>5, <1>6, <1>7, <1>8, <1>9, <1>10, <1>11, <1>12,
       <1>13, <1>14 DEF Recovering

LEMMA EndingProcess == ASSUME Exit \/ Kill \/ PowerLoss PROVE ProcessOK'
<1>1. wr' = NoChunk /\ job' = NoJob
    BY DEF Exit, Kill, PowerLoss, Ended
<1> QED
    BY <1>1, NoWriter, NoSeal DEF ProcessOK

-----------------------------------------------------------------------------
(* Recovery and what it leaves, under every action. *)

RestOK == RowsSettle /\ ResealOK /\ GapsOK

LEMMA NoRecoveryPhase == NoRecovery.phase = "none" /\ NoRecovery.todo = {}
    BY DEF NoRecovery

LEMMA NoRecoveryRest ==
    ASSUME rec' = NoRecovery, proc' \notin {"running", "recovering"} PROVE RestOK'
    BY DEF RestOK, RowsSettle, ResealOK, GapsOK, NoRecovery

\* While the process runs, there is nothing else to show than that the rows not
\* being sealed are settled, and the gaps are one.
LEMMA RunningRest ==
    ASSUME rec' = NoRecovery, proc' = "running",
           \A c \in Chunks : c # job'.chunk => Settled(c)', (Unfinished(cat) \subseteq {gap})'
    PROVE  RestOK'
    BY DEF RestOK, RowsSettle, ResealOK, GapsOK, NoRecovery

\* A settled row stays settled while its manifest, its frames and the row do.
RowStays(c) ==
    /\ cat'.row[c] = cat.row[c] \/ cat'.row[c].st # "SEALING"
    /\ cat.started \cup cat.completed \subseteq cat'.started \cup cat'.completed
    /\ cat.row[c].st = "SEALING" /\ ~man[c].present =>
          ~man'[c].present /\ hist'.appended[c] = hist.appended[c]

LEMMA SettledStays == ASSUME NEW c, RowStays(c), Settled(c) PROVE Settled(c)'
    BY DEF RowStays, Settled, Stuck

LEMMA WritingRest == ASSUME TypeOK, BundleInv, FrameInv, Writing PROVE RestOK'
<1>0. /\ AllFiles /\ AllCats /\ WriterOK /\ JobOK /\ RowsSettle /\ GapsOK /\ RecoveryAlone
    BY DEF FrameInv, BundleInv
<1>c. cat \in CatalogType /\ hist \in HistType
    BY DEF TypeOK
<1>1. proc = "running" /\ UNCHANGED <<man, job, proc, rec>>
    BY DEF Writing, CreatePartial, OpenWriter, AppendFrame, SyncWriter, StartGap,
           CompleteGap, WriterOpen, Idle, process, disk
<1>2. rec' = NoRecovery /\ proc' = "running" /\ job' = job
    BY <1>0, <1>1 DEF RecoveryAlone
<1>3. \A c \in Chunks : c # job.chunk => Settled(c)
    BY <1>0, <1>1 DEF RowsSettle
<1>4. Unfinished(cat) \subseteq {gap}
    BY <1>0, <1>1 DEF GapsOK
<1>5. SUFFICES /\ \A c \in Chunks : RowStays(c)
               /\ (Unfinished(cat) \subseteq {gap})'
    BY <1>2, <1>3, SettledStays, RunningRest
<1>6. ASSUME NEW c \in Chunks, CreatePartial(c)
      PROVE  (\A d \in Chunks : RowStays(d)) /\ (Unfinished(cat) \subseteq {gap})'
    BY <1>4, <1>6, <1>c DEF CreatePartial, catalog, RowStays, HistType, Unfinished
<1>7. ASSUME OpenWriter
      PROVE  (\A d \in Chunks : RowStays(d)) /\ (Unfinished(cat) \subseteq {gap})'
    <2>1. PICK c \in Chunks : c = wr
        BY <1>7 DEF OpenWriter, TypeOK
    <2>2. c \in hist.minted
        BY <1>0, <2>1, ChunkAssumption DEF WriterOK
    <2>3. RowsLeave(cat') /\ SameGaps(cat')
        BY <1>7, <1>c, <2>1, <2>2, RegisteredLeaves DEF OpenWriter, Commit
    <2> QED
        BY <1>4, <1>7, <2>3 DEF OpenWriter, process, RowsLeave, SameGaps, RowStays, Unfinished
<1>8. ASSUME NEW f \in Frame, AppendFrame(f)
      PROVE  (\A d \in Chunks : RowStays(d)) /\ (Unfinished(cat) \subseteq {gap})'
    <2>1. \A d \in Chunks : d # wr => hist'.appended[d] = hist.appended[d]
        BY <1>8, <1>c DEF AppendFrame, HistType
    <2>2. \A d \in Chunks : cat.row[d].st = "SEALING" /\ ~man[d].present => d # wr
        BY <1>0, SealingIsWhole DEF Whole
    <2> QED
        BY <1>4, <1>8, <2>1, <2>2 DEF AppendFrame, catalog, process, RowStays, Unfinished
<1>9. ASSUME SyncWriter
      PROVE  (\A d \in Chunks : RowStays(d)) /\ (Unfinished(cat) \subseteq {gap})'
    BY <1>4, <1>9, <1>c DEF SyncWriter, Synced, catalog, process, RowStays, HistType, Unfinished
<1>10. ASSUME NEW g \in Gaps, StartGap(g)
       PROVE  (\A d \in Chunks : RowStays(d)) /\ (Unfinished(cat) \subseteq {gap})'
    <2>1. /\ cat'.row = cat.row /\ cat'.intents = cat.intents
          /\ cat'.started = cat.started \cup {g} /\ cat'.completed = cat.completed
        BY <1>10, <1>c DEF StartGap, Commit, CatalogType
    <2>2. hist'.appended = hist.appended
        BY <1>10, <1>c DEF StartGap, HistType
    <2>3. Unfinished(cat) \subseteq {g} /\ gap' = g
        BY <1>4, <1>10, <1>c, GapAssumption DEF StartGap, Current, Unfinished, CatalogType
    <2> QED
        BY <1>1, <2>1, <2>2, <2>3 DEF RowStays, Unfinished
<1>11. ASSUME CompleteGap
       PROVE  (\A d \in Chunks : RowStays(d)) /\ (Unfinished(cat) \subseteq {gap})'
    <2>1. /\ cat'.row = cat.row /\ cat'.intents = cat.intents
          /\ cat'.started = cat.started /\ cat'.completed = cat.completed \cup {gap}
        BY <1>11, <1>c DEF CompleteGap, Commit, CatalogType
    <2> QED
        BY <1>1, <1>4, <1>11, <2>1 DEF CompleteGap, RowStays, Unfinished
<1> QED
    BY <1>6, <1>7, <1>8, <1>9, <1>10, <1>11 DEF Writing
LEMMA HalfStays ==
    ASSUME NEW c, RowStays(c), man[c].present => man'[c].present, HalfSettled(c)
    PROVE  HalfSettled(c)'
    BY DEF RowStays, HalfSettled, Stuck

\* A step of a seal leaves the other chunks, and what it does to the gaps of the
\* Catalog leaves them one.
OthersStay(c) ==
    \A d \in Chunks \ {c} : /\ RowStays(d) /\ cat'.row[d] = cat.row[d]
                            /\ man[d].present => man'[d].present

LEMMA SealRest ==
    ASSUME TypeOK, RowsSettle, ResealOK, GapsOK, RecoveryAlone,
           NEW c \in Chunks, job.step \in Steps, c = job.chunk, job'.chunk = c,
           proc \in {"running", "recovering"}, OthersStay(c), UNCHANGED <<proc, rec>>,
           proc = "running" => (Unfinished(cat) \subseteq {gap})',
           proc = "recovering" => SameGaps(cat'),
           proc = "recovering" => cat'.row[c].st = "SEALING" \/ job'.step = "unlink"
    PROVE  RestOK'
<1>1. CASE proc = "running"
    <2>1. rec' = NoRecovery
        BY <1>1 DEF RecoveryAlone
    <2>2. \A d \in Chunks : d # job'.chunk => Settled(d)'
        BY <1>1, SettledStays DEF RowsSettle, OthersStay
    <2> QED
        BY <1>1, <2>1, <2>2, RunningRest
<1>2. CASE proc = "recovering"
    <2>1. rec.phase = "reseal" /\ c \in rec.todo
        BY <1>2 DEF ResealOK, NoJob, Steps
    <2>2. RowsSettle'
        BY <1>2, <2>1, HalfStays DEF RowsSettle, OthersStay
    <2>3. ResealOK'
        <3>1. rec.todo \subseteq Chunks
            BY DEF TypeOK, Recovery
        <3> QED
            BY <1>2, <2>1, <3>1 DEF ResealOK, OthersStay
    <2>4. GapsOK'
        BY <1>2, <2>1 DEF GapsOK, SameGaps, Unresolved
    <2> QED
        BY <2>2, <2>3, <2>4 DEF RestOK
<1> QED
    BY <1>1, <1>2

\* While a chunk waits for its manifest in recovery, its row is SEALING.
LEMMA ResealRow ==
    ASSUME FrameInv, proc = "recovering", job.step \in Steps
    PROVE  cat.row[job.chunk].st = "SEALING" \/ job.step = "unlink"
    BY DEF FrameInv, ResealOK, NoJob, Steps

LEMMA SealingRest == ASSUME TypeOK, BundleInv, FrameInv, Sealing PROVE RestOK'
<1>0. /\ AllFiles /\ AllCats /\ WriterOK /\ JobOK /\ JobSteps
      /\ RowsSettle /\ ResealOK /\ GapsOK /\ RecoveryAlone
    BY DEF FrameInv, BundleInv
<1>c. cat \in CatalogType /\ hist \in HistType /\ man \in [Chunks -> ManFile]
    BY DEF TypeOK
<1>p. job.step \in Steps => proc \in {"running", "recovering"}
    BY <1>0, ManifestOrWhole
<1>g. proc = "running" => Unfinished(cat) \subseteq {gap}
    BY <1>0 DEF GapsOK
<1>1. ASSUME NEW forced \in SUBSET ForcedFlags, NEW g \in Gaps \cup {NoGap},
             SealWriter(forced, g)
      PROVE  RestOK'
    <2>1. proc = "running" /\ job = NoJob /\ UNCHANGED <<man, cat, proc, rec>>
        BY <1>1 DEF SealWriter, WriterOpen, Idle, catalog
    <2>2. hist'.appended = hist.appended
        BY <1>1, <1>c DEF SealWriter, HistType
    <2>3. \A d \in Chunks : Settled(d)'
        <3>1. \A d \in Chunks : Settled(d) /\ RowStays(d)
            BY <1>0, <2>1, <2>2, ChunkAssumption DEF RowsSettle, NoJob, RowStays
        <3> QED
            BY <3>1, SettledStays
    <2>4. (Unfinished(cat) \subseteq {gap})'
        BY <1>1, <1>g, <1>c, <2>1, GapAssumption
        DEF SealWriter, Current, Unfinished, CatalogType
    <2> QED
        BY <1>0, <2>1, <2>3, <2>4, RunningRest DEF RecoveryAlone
<1>2. ASSUME NEW c \in Chunks, NEW g \in Gaps, RegisterMarker(c, g) PROVE RestOK'
    <2>1. proc = "running" /\ job = NoJob /\ UNCHANGED <<man, proc, rec>>
        BY <1>2 DEF RegisterMarker, Idle, disk
    <2>2. /\ hist'.appended = hist.appended /\ job'.chunk = c /\ gap' = g
        BY <1>2, <1>c DEF RegisterMarker, Current, HistType
    <2>3. /\ \A d \in Chunks \ {c} : cat'.row[d] = cat.row[d]
          /\ cat'.intents = cat.intents \cup ({g} \ {NoGap})
          /\ cat'.started = cat.started /\ cat'.completed = cat.completed
        BY <1>2, <1>c, SealingRowFields DEF RegisterMarker, Commit
    <2>4. \A d \in Chunks : d # c => Settled(d)'
        <3>1. \A d \in Chunks : d # c => Settled(d) /\ RowStays(d)
            BY <1>0, <2>1, <2>2, <2>3, ChunkAssumption DEF RowsSettle, NoJob, RowStays
        <3> QED
            BY <3>1, SettledStays
    <2>5. (Unfinished(cat) \subseteq {gap})'
        <3>1. Unfinished(cat) \subseteq {g}
            BY <1>2, <1>g, <1>c, <2>1, GapAssumption
            DEF RegisterMarker, Current, Unfinished, CatalogType
        <3> QED
            BY <2>2, <2>3, <3>1 DEF Unfinished
    <2> QED
        BY <1>0, <2>1, <2>2, <2>4, <2>5, RunningRest DEF RecoveryAlone
<1>3. CASE CreateMarker
    <2>1. PICK c \in Chunks : c = job.chunk
        BY <1>3, JobChunk DEF CreateMarker, Steps
    <2>2. job \in ActiveJob /\ job.step = "marker"
        BY <1>3, JobChunk DEF CreateMarker, Steps
    <2>3. job'.chunk = c /\ OthersStay(c) /\ SameGaps(cat') /\ UNCHANGED <<proc, rec, gap, cat>>
        BY <1>3, <2>1, <2>2 DEF CreateMarker, catalog, ActiveJob, OthersStay, RowStays, SameGaps
    <2>4. proc = "recovering" => cat'.row[c].st = "SEALING"
        BY <2>1, <2>2, <2>3, ResealRow DEF Steps
    <2>5. job.step \in Steps
        BY <2>2 DEF Steps
    <2> QED
        BY <1>0, <1>p, <1>g, <2>1, <2>3, <2>4, <2>5, SealRest
<1>4. CASE OpenMarker
    <2>1. PICK c \in Chunks : c = job.chunk
        BY <1>4, JobChunk DEF OpenMarker, Steps
    <2>2. job \in ActiveJob /\ job.step = "markerheader"
        BY <1>4, JobChunk DEF OpenMarker, Steps
    <2>3. cat.row[c].st = "SEALING"
        BY <1>0, <2>1, <2>2 DEF JobSteps
    <2>4. cat' = cat
        BY <1>4, <2>1, <2>3 DEF OpenMarker, Commit, Registered
    <2>5. job'.chunk = c /\ OthersStay(c) /\ SameGaps(cat') /\ UNCHANGED <<proc, rec, gap>>
        BY <1>4, <2>1, <2>2, <2>4 DEF OpenMarker, ActiveJob, OthersStay, RowStays, SameGaps
    <2>6. job.step \in Steps
        BY <2>2 DEF Steps
    <2> QED
        BY <1>0, <1>p, <1>g, <2>1, <2>3, <2>4, <2>5, <2>6, SealRest
<1>5. CASE SealSealing
    <2>1. PICK c \in Chunks : c = job.chunk
        BY <1>5, JobChunk DEF SealSealing, Steps
    <2>2. job \in ActiveJob /\ job.step = "sealing" /\ job.step \in Steps
        BY <1>5, JobChunk DEF SealSealing, Steps
    <2>3. job'.chunk = c /\ UNCHANGED <<proc, rec, gap, man, hist>>
        BY <1>5, <2>1, <2>2 DEF SealSealing, disk, ActiveJob
    <2>4. CASE UNCHANGED catalog
        <3>1. OthersStay(c) /\ SameGaps(cat')
            BY <2>3, <2>4 DEF catalog, OthersStay, RowStays, SameGaps
        <3>2. proc = "recovering" => cat'.row[c].st = "SEALING"
            BY <2>1, <2>2, <2>4, ResealRow DEF catalog
        <3> QED
            BY <1>0, <1>p, <1>g, <2>1, <2>2, <2>3, <2>4, <3>1, <3>2, SealRest DEF catalog
    <2>5. CASE /\ cat.row[c].st \in {"ACTIVE", "RECOVERED"}
               /\ Commit(SealingRow(c, job.forced, job.intent))
        <3>1. proc = "running"
            BY <1>p, <2>1, <2>2, <2>5, ResealRow
        <3>2. /\ \A d \in Chunks \ {c} : cat'.row[d] = cat.row[d]
              /\ cat'.intents = cat.intents \cup ({job.intent} \ {NoGap})
              /\ cat'.started = cat.started /\ cat'.completed = cat.completed
            BY <1>c, <2>5, SealingRowFields DEF Commit
        <3>3. OthersStay(c)
            BY <2>3, <3>2 DEF OthersStay, RowStays
        <3>4. job.intent = NoGap \/ gap = job.intent
            BY <1>0, <2>2, ManifestOrWhole
        <3>5. (Unfinished(cat) \subseteq {gap})'
            BY <1>g, <2>3, <3>1, <3>2, <3>4 DEF Unfinished
        <3> QED
            BY <1>0, <2>1, <2>2, <2>3, <3>1, <3>3, <3>5, SealRest
    <2> QED
        BY <1>5, <2>1, <2>4, <2>5 DEF SealSealing
<1>6. CASE SealArtifact
    <2>1. PICK c \in Chunks : c = job.chunk
        BY <1>6, JobChunk DEF SealArtifact, Steps
    <2>2. job \in ActiveJob /\ job.step = "artifact" /\ job.step \in Steps
        BY <1>6, JobChunk DEF SealArtifact, Steps
    <2>3. job'.chunk = c /\ OthersStay(c) /\ SameGaps(cat') /\ UNCHANGED <<proc, rec, gap, cat>>
        BY <1>6, <2>1, <2>2 DEF SealArtifact, catalog, ActiveJob, OthersStay, RowStays, SameGaps
    <2>4. proc = "recovering" => cat'.row[c].st = "SEALING"
        BY <2>1, <2>2, <2>3, ResealRow
    <2> QED
        BY <1>0, <1>p, <1>g, <2>1, <2>2, <2>3, <2>4, SealRest
<1>7. CASE SealManifest
    <2>1. PICK c \in Chunks : c = job.chunk
        BY <1>7, JobChunk DEF SealManifest, Steps
    <2>2. job \in ActiveJob /\ job.step = "manifest" /\ job.step \in Steps
        BY <1>7, JobChunk DEF SealManifest, Steps
    <2>3. \A d \in Chunks \ {c} : man'[d] = man[d]
        BY <1>7, <1>c, <2>1 DEF SealManifest
    <2>4. job'.chunk = c /\ OthersStay(c) /\ SameGaps(cat') /\ UNCHANGED <<proc, rec, gap, cat>>
        BY <1>7, <2>1, <2>2, <2>3
        DEF SealManifest, catalog, ActiveJob, OthersStay, RowStays, SameGaps
    <2>5. proc = "recovering" => cat'.row[c].st = "SEALING"
        BY <2>1, <2>2, <2>4, ResealRow
    <2> QED
        BY <1>0, <1>p, <1>g, <2>1, <2>2, <2>4, <2>5, SealRest
<1>8. CASE SealCommit
    <2>1. PICK c \in Chunks : c = job.chunk
        BY <1>8, JobChunk DEF SealCommit, Steps
    <2>2. job \in ActiveJob /\ job.step = "commit" /\ job.step \in Steps
        BY <1>8, JobChunk DEF SealCommit, Steps
    <2>3. job'.chunk = c /\ job'.step = "unlink" /\ UNCHANGED <<proc, rec, gap, man, hist>>
        BY <1>8, <2>1, <2>2 DEF SealCommit, disk, ActiveJob
    <2>4. /\ \A d \in Chunks \ {c} : cat'.row[d] = cat.row[d]
          /\ cat'.intents = cat.intents /\ cat'.started = cat.started
          /\ cat'.completed = cat.completed
        BY <1>8, <1>c, <2>1, WithRowState, WithRowGaps DEF SealCommit, Commit, Moved
    <2>5. OthersStay(c) /\ SameGaps(cat')
        BY <2>3, <2>4 DEF OthersStay, RowStays, SameGaps
    <2>6. proc = "running" => (Unfinished(cat) \subseteq {gap})'
        BY <1>g, <2>3, <2>4 DEF Unfinished
    <2> QED
        BY <1>0, <1>p, <2>1, <2>2, <2>3, <2>5, <2>6, SealRest
<1>9. CASE SealUnlink
    <2>1. PICK c \in Chunks : c = job.chunk
        BY <1>9, JobChunk DEF SealUnlink, Steps
    <2>2. cat.row[c].st = "SEALED" /\ job.step \in Steps
        BY <1>0, <1>9, <2>1 DEF SealUnlink, JobSteps, Steps
    <2>3. job' = NoJob /\ UNCHANGED <<cat, man, proc, gap, hist>>
        BY <1>9 DEF SealUnlink, catalog
    <2>4. \A d \in Chunks : RowStays(d)
        BY <2>3 DEF RowStays
    <2>5. Settled(c)' /\ HalfSettled(c)'
        BY <2>2, <2>3 DEF Settled, HalfSettled
    <2>6. CASE proc = "running"
        <3>1. rec' = NoRecovery
            BY <1>0, <1>9, <2>6, NoRecoveryPhase DEF SealUnlink, RecoveryAlone, NoRecovery
        <3>2. \A d \in Chunks : Settled(d)'
            BY <1>0, <2>1, <2>4, <2>5, <2>6, SettledStays DEF RowsSettle
        <3> QED
            BY <1>g, <2>3, <2>6, <3>1, <3>2, RunningRest
    <2>7. CASE proc = "recovering"
        <3>1. rec.phase = "reseal"
            BY <1>0, <2>2, <2>7 DEF ResealOK, NoJob, Steps
        <3>2. rec'.phase = "reseal" /\ rec'.todo = rec.todo \ {c}
            BY <1>9, <2>1, <3>1 DEF SealUnlink, TypeOK, Recovery
        <3>3. \A d \in Chunks \ rec'.todo : HalfSettled(d)'
            <4>1. \A d \in Chunks \ rec.todo : HalfSettled(d)
                BY <1>0, <3>1 DEF RowsSettle
            <4> QED
                BY <2>3, <2>4, <2>5, <3>2, <4>1, HalfStays
        <3>4. RowsSettle'
            BY <2>3, <2>7, <3>2, <3>3 DEF RowsSettle
        <3>5. ResealOK'
            BY <1>0, <2>1, <2>3, <3>1, <3>2 DEF ResealOK
        <3>6. GapsOK'
            BY <1>0, <2>3, <2>7, <3>1 DEF GapsOK, Unresolved
        <3> QED
            BY <3>4, <3>5, <3>6 DEF RestOK
    <2> QED
        BY <1>p, <2>2, <2>6, <2>7
<1> QED
    BY <1>1, <1>2, <1>3, <1>4, <1>5, <1>6, <1>7, <1>8, <1>9 DEF Sealing
\* Before the re-seals, recovery promises nothing of the rows.
LEMMA EarlyRest ==
    ASSUME rec'.phase \in {"partials", "events"}, proc' = "recovering", job' = NoJob
    PROVE  RestOK'
    BY DEF RestOK, RowsSettle, ResealOK, GapsOK

LEMMA PhaseOf ==
    ASSUME TypeOK, BundleInv, NEW ph \in Phases \ {"none"}, rec.phase = ph
    PROVE  proc = "recovering"
    BY DEF BundleInv, RecoveryAlone, NoRecovery

LEMMA NextPhaseRest == ASSUME TypeOK, BundleInv, FrameInv, NextPhase PROVE RestOK'
<1>0. /\ AllFiles /\ AllCats /\ RowsSettle /\ GapsOK /\ WriterOK
    BY DEF FrameInv
<1>1. /\ proc = "recovering" /\ job = NoJob /\ rec.todo = {} /\ rec.cur = NoChunk
      /\ UNCHANGED <<part, man, cat, job, hist>>
    BY DEF NextPhase, disk, catalog
<1>2. CASE rec.phase \in DOMAIN PhaseAfter
    <2>1. rec'.phase = PhaseAfter[rec.phase] /\ rec'.todo = Visits(PhaseAfter[rec.phase])
        BY <1>2 DEF NextPhase, PhaseAfter, TypeOK, Recovery
    <2>2. proc' = "recovering"
        BY <1>1, <1>2 DEF NextPhase, PhaseAfter
    <2>3. CASE rec.phase = "partials"
        BY <1>1, <2>1, <2>2, <2>3, EarlyRest DEF PhaseAfter
    <2>4. CASE rec.phase = "events"
        <3>1. rec'.phase = "reseal" /\ rec'.todo = SealingPartials /\ Unresolved = {}
            BY <2>1, <2>4 DEF NextPhase, PhaseAfter, Visits
        <3>2. ASSUME NEW c \in Chunks, c \notin SealingPartials PROVE HalfSettled(c)'
            <4>1. ASSUME cat.row[c].st = "SEALING", ~man[c].present PROVE Stuck(c)
                <5>1. /\ Whole(c)
                      /\ hist.appended[c] = << >> => cat.row[c].intent \in cat.intents
                    BY <1>0, <4>1, SealingIsWhole
                <5>2. part[c].st # "file"
                    BY <3>2, <4>1 DEF SealingPartials, Files
                <5>3. hist.appended[c] = << >>
                    BY <1>0, <5>1, <5>2 DEF Whole, AllFiles, FileOK
                <5> QED
                    BY <3>1, <4>1, <5>1, <5>3 DEF Stuck, Unresolved
            <4> QED
                BY <1>1, <4>1 DEF HalfSettled, Stuck
        <3>3. RowsSettle'
            BY <2>2, <3>1, <3>2 DEF RowsSettle
        <3>4. ResealOK'
            BY <1>1, <2>2, <3>1 DEF ResealOK, SealingPartials
        <3>5. GapsOK'
            BY <1>1, <2>2, <3>1 DEF GapsOK, Unresolved
        <3> QED
            BY <3>3, <3>4, <3>5 DEF RestOK
    <2>5. CASE rec.phase = "reseal"
        <3>1. rec'.phase = "cleanup" /\ Unresolved = {} /\ \A c \in Chunks : HalfSettled(c)
            BY <1>0, <1>1, <2>1, <2>5 DEF PhaseAfter, RowsSettle, GapsOK
        <3>2. \A c \in Chunks : HalfSettled(c)'
            BY <1>1, <3>1 DEF HalfSettled, Stuck
        <3>3. RowsSettle' /\ ResealOK' /\ GapsOK'
            BY <1>1, <2>2, <3>1, <3>2 DEF RowsSettle, ResealOK, GapsOK, Unresolved
        <3> QED
            BY <3>3 DEF RestOK
    <2>6. CASE rec.phase = "cleanup"
        <3>1. rec'.phase = "reconcile" /\ rec'.todo = {c \in Chunks : man[c].present}
            BY <2>1, <2>6 DEF PhaseAfter, Visits
        <3>2. Unresolved = {} /\ \A c \in Chunks : HalfSettled(c)
            BY <1>0, <2>6 DEF RowsSettle, GapsOK
        <3>3. ASSUME NEW c \in Chunks, ~man[c].present PROVE Settled(c)'
            BY <1>1, <3>2, <3>3 DEF HalfSettled, Settled, Stuck
        <3>4. RowsSettle' /\ ResealOK' /\ GapsOK'
            BY <1>1, <2>2, <3>1, <3>2, <3>3 DEF RowsSettle, ResealOK, GapsOK, Unresolved
        <3> QED
            BY <3>4 DEF RestOK
    <2> QED
        BY <1>2, <2>3, <2>4, <2>5, <2>6 DEF PhaseAfter
<1>3. CASE rec.phase = "reconcile"
    <2>1. rec' = NoRecovery /\ proc' = "running"
          /\ gap' \in IF Open = {} THEN {NoGap} ELSE Open
        BY <1>3 DEF NextPhase, PhaseAfter
    <2>2. \A c \in Chunks : Settled(c)'
        BY <1>0, <1>1, <1>3 DEF RowsSettle, Settled, Stuck
    <2>3. (Unfinished(cat) \subseteq {gap})'
        <3>1. Unfinished(cat) = Open
            BY <1>0, <1>3 DEF GapsOK, Unresolved, Unfinished, Open
        <3>2. Eligible(cat)
            BY <1>0, InUse DEF CatOK
        <3>3. \A g, h \in Open : g = h
            BY <3>1, <3>2 DEF Eligible, Unfinished
        <3> QED
            BY <1>1, <2>1, <3>1, <3>3 DEF Unfinished
    <2> QED
        BY <2>1, <2>2, <2>3, RunningRest
<1> QED
    BY <1>2, <1>3 DEF NextPhase

LEMMA RecoveringRest == ASSUME TypeOK, BundleInv, FrameInv, Recovering PROVE RestOK'
<1>q. /\ rec.phase # "none" => proc = "recovering"
      /\ rec.phase \in {"partials", "events", "cleanup", "reconcile"} => job = NoJob
      /\ rec.cur # NoChunk => job = NoJob
      /\ proc \notin {"running", "recovering"} => job = NoJob
    BY RecoveryQuiet
<1>0. /\ AllCats /\ RowsSettle /\ ResealOK /\ GapsOK
    BY DEF FrameInv
<1>h. rec \in Recovery /\ cat \in CatalogType
    BY DEF TypeOK
<1>1. CASE StartProcess
    <2>1. rec'.phase = "partials"
        BY <1>1 DEF StartProcess, NoRecovery
    <2> QED
        BY <1>1, <1>q, <2>1, EarlyRest DEF StartProcess
<1>2. CASE NextPhase
    BY <1>2, NextPhaseRest
<1>3. CASE MarkRecovered
    <2>1. rec'.phase = "partials"
        BY <1>3, <1>h DEF MarkRecovered, Recovery
    <2> QED
        BY <1>3, <1>q, <2>1, EarlyRest DEF MarkRecovered
<1>4. CASE MoveQuarantined
    <2>1. rec'.phase = "partials"
        BY <1>4, <1>h DEF MoveQuarantined, Recovery
    <2> QED
        BY <1>4, <1>q, <2>1, EarlyRest DEF MoveQuarantined
<1>5. CASE ResealRaises
    BY <1>5, NoRecoveryRest DEF ResealRaises
<1>6. CASE UnlinkReconciled
    <2>1. rec.phase = "reconcile" /\ rec'.phase = "reconcile" /\ rec'.todo = rec.todo
        BY <1>6, <1>h DEF UnlinkReconciled, Recovery
    <2>2. proc = "recovering" /\ job = NoJob /\ UNCHANGED <<man, cat, proc, job, hist>>
        BY <1>6, <1>q, <2>1 DEF UnlinkReconciled, catalog
    <2>3. RowsSettle' /\ ResealOK' /\ GapsOK'
        BY <1>0, <2>1, <2>2 DEF RowsSettle, ResealOK, GapsOK, Settled, Stuck, Unresolved
    <2> QED
        BY <2>3 DEF RestOK
<1>7. ASSUME NEW c \in Chunks, RecoverStub(c) PROVE RestOK'
    <2>1. rec'.phase = "partials"
        BY <1>7, <1>h DEF RecoverStub, Visiting, Done, Recovery
    <2> QED
        BY <1>7, <1>q, <2>1, EarlyRest DEF RecoverStub, Visiting
<1>8. ASSUME NEW c \in Chunks, RecoverClean(c) PROVE RestOK'
    <2>1. rec'.phase = "partials"
        BY <1>8, <1>h DEF RecoverClean, Visiting, Done, Recovery
    <2> QED
        BY <1>8, <1>q, <2>1, EarlyRest DEF RecoverClean, Visiting
<1>9. ASSUME NEW c \in Chunks, TruncateTail(c) PROVE RestOK'
    <2>1. rec'.phase = "partials"
        BY <1>9, <1>h DEF TruncateTail, Visiting, Recovery
    <2> QED
        BY <1>9, <1>q, <2>1, EarlyRest DEF TruncateTail, Visiting
<1>10. ASSUME NEW c \in Chunks, QuarantineRow(c) PROVE RestOK'
    <2>1. rec'.phase = "partials"
        BY <1>10, <1>h DEF QuarantineRow, Visiting, Recovery
    <2> QED
        BY <1>10, <1>q, <2>1, EarlyRest DEF QuarantineRow, Visiting
<1>11. ASSUME NEW c \in Chunks, Reseal(c) PROVE RestOK'
    <2>1. /\ rec.phase = "reseal" /\ c \in rec.todo /\ proc = "recovering" /\ job = NoJob
          /\ job'.chunk = c /\ UNCHANGED <<man, cat, proc, rec, hist>>
        BY <1>11, <1>q DEF Reseal, Visiting, disk, catalog
    <2>2. RowsSettle'
        BY <1>0, <2>1 DEF RowsSettle, HalfSettled, Stuck
    <2>3. ResealOK'
        BY <1>0, <2>1 DEF ResealOK, NoJob
    <2>4. GapsOK'
        BY <1>0, <2>1 DEF GapsOK, Unresolved
    <2> QED
        BY <2>2, <2>3, <2>4 DEF RestOK
<1>12. ASSUME NEW c \in Chunks, CleanupRetained(c) PROVE RestOK'
    <2>1. rec.phase = "cleanup" /\ rec'.phase = "cleanup"
        BY <1>12, <1>h DEF CleanupRetained, Visiting, Done, Recovery
    <2>2. proc = "recovering" /\ job = NoJob /\ UNCHANGED <<man, cat, proc, job, hist>>
        BY <1>12, <1>q, <2>1 DEF CleanupRetained, catalog
    <2>3. RowsSettle' /\ ResealOK' /\ GapsOK'
        BY <1>0, <2>1, <2>2 DEF RowsSettle, ResealOK, GapsOK, HalfSettled, Stuck, Unresolved
    <2> QED
        BY <2>3 DEF RestOK
<1>13. ASSUME NEW c \in Chunks, ReconcileManifest(c) PROVE RestOK'
    <2>1. rec.phase = "reconcile" /\ c \in rec.todo /\ rec'.phase = "reconcile"
        BY <1>13, <1>h DEF ReconcileManifest, Visiting, Done, Recovery
    <2>2. proc = "recovering" /\ job = NoJob /\ UNCHANGED <<man, proc, job, hist>>
        BY <1>13, <1>q, <2>1 DEF ReconcileManifest, disk
    <2>3. rec'.todo = rec.todo \/ (rec'.todo = rec.todo \ {c} /\ cat'.row[c].st = "SEALED")
        BY <1>13, <1>h DEF ReconcileManifest, Done, Recovery, catalog
    <2>4. /\ \A d \in Chunks \ {c} : cat'.row[d] = cat.row[d]
          /\ SameGaps(cat')
        <3>1. CASE Commit(Registered(c))
            BY <1>h, <3>1, WithRowState, WithRowGaps DEF Commit, Registered, Moved, SameGaps
        <3>2. CASE Commit(SealingRow(c, {}, NoGap))
            <4>1. /\ \A d \in Chunks \ {c} : SealingRow(c, {}, NoGap).row[d] = cat.row[d]
                  /\ SealingRow(c, {}, NoGap).intents = cat.intents \cup ({NoGap} \ {NoGap})
                  /\ SealingRow(c, {}, NoGap).started = cat.started
                  /\ SealingRow(c, {}, NoGap).completed = cat.completed
                BY <1>h, SealingRowFields
            <4> QED
                BY <3>2, <4>1 DEF Commit, SameGaps
        <3>3. CASE Commit(Moved(cat, c, "SEALED"))
            BY <1>h, <3>3, WithRowState, WithRowGaps DEF Commit, Moved, SameGaps
        <3>4. CASE UNCHANGED catalog
            BY <3>4 DEF catalog, SameGaps
        <3> QED
            BY <1>13, <3>1, <3>2, <3>3, <3>4 DEF ReconcileManifest
    <2>5. ASSUME NEW d \in Chunks \ rec'.todo PROVE Settled(d)'
        <3>1. CASE d = c
            BY <2>1, <2>3, <2>5, <3>1 DEF Settled
        <3>2. CASE d # c
            <4>1. Settled(d)
                BY <1>0, <2>1, <2>3, <2>5, <3>2 DEF RowsSettle
            <4>2. RowStays(d)
                BY <2>2, <2>4, <3>2 DEF RowStays, SameGaps
            <4> QED
                BY <4>1, <4>2, SettledStays
        <3> QED
            BY <3>1, <3>2
    <2>6. RowsSettle'
        BY <2>1, <2>2, <2>5 DEF RowsSettle
    <2>7. ResealOK' /\ GapsOK'
        BY <1>0, <2>1, <2>2, <2>4 DEF ResealOK, GapsOK, SameGaps, Unresolved
    <2> QED
        BY <2>6, <2>7 DEF RestOK
<1>14. ASSUME NEW g \in Gaps, MaterializeStarted(g) PROVE RestOK'
    BY <1>14, <1>q, EarlyRest DEF MaterializeStarted, process
<1> QED
    BY <1>1, <1>2, <1>3, <1>4, <1>5, <1>6, <1>7, <1>8, <1>9, <1>10, <1>11, <1>12,
       <1>13, <1>14 DEF Recovering

LEMMA EndingRest == ASSUME Exit \/ Kill \/ PowerLoss PROVE RestOK'
<1>1. rec' = NoRecovery /\ proc' = "down"
    BY DEF Exit, Kill, PowerLoss, Ended
<1> QED
    BY <1>1, NoRecoveryRest

-----------------------------------------------------------------------------
(* The theorems. *)

LEMMA StutterFrame == ASSUME FrameInv, UNCHANGED vars PROVE FrameInv'
<1>0. /\ AllFiles /\ CompleteIsHonest /\ AllCats /\ WriterOK /\ JobOK /\ JobSteps
      /\ RowsSettle /\ ResealOK /\ GapsOK
      /\ UNCHANGED <<part, art, man, cat, stable, proc, wr, gap, job, rec, hist>>
    BY DEF FrameInv, vars
<1>1. AllUntouched
    BY <1>0 DEF AllUntouched, Untouched
<1>2. AllFiles' /\ CompleteIsHonest'
    BY <1>0, <1>1, FilesKept
<1>3. AllCats'
    BY <1>0, <1>1, QuietSteady, CatsKept DEF catalog
<1>4. WriterOK' /\ JobSteps'
    BY <1>0 DEF WriterOK, JobSteps
<1>5. JobOK'
    BY <1>0 DEF JobOK, Whole, CutMarked
<1>6. RowsSettle'
    BY <1>0 DEF RowsSettle, Settled, HalfSettled, Stuck
<1>7. ResealOK' /\ GapsOK'
    BY <1>0 DEF ResealOK, GapsOK, Unresolved, Unfinished
<1> QED
    BY <1>2, <1>3, <1>4, <1>5, <1>6, <1>7 DEF FrameInv

IInv == TypeOK /\ BundleInv /\ FrameInv

LEMMA FrameStep == ASSUME TypeOK, BundleInv, FrameInv, [Next]_vars PROVE FrameInv'
<1>1. CASE Writing
    BY <1>1, WritingFiles, WritingCats, WritingProcess, WritingRest
    DEF FrameInv, ProcessOK, RestOK
<1>2. CASE Sealing
    BY <1>2, SealingFiles, SealingCats, SealingProcess, SealingRest
    DEF FrameInv, ProcessOK, RestOK
<1>3. CASE Recovering
    BY <1>3, RecoveringFiles, RecoveringCats, RecoveringProcess, RecoveringRest
    DEF FrameInv, ProcessOK, RestOK
<1>4. CASE Exit \/ Kill \/ PowerLoss
    BY <1>4, EndingFiles, EndingCats, EndingProcess, EndingRest
    DEF FrameInv, ProcessOK, RestOK
<1>5. CASE UNCHANGED vars
    BY <1>5, StutterFrame
<1> QED
    BY <1>1, <1>2, <1>3, <1>4, <1>5 DEF Next

LEMMA InvariantKept == Spec => []IInv
<1>1. Init => IInv
    BY InitTypeOK, InitBundle, InitFrame DEF IInv
<1>2. IInv /\ [Next]_vars => IInv'
    <2> SUFFICES ASSUME IInv, [Next]_vars PROVE IInv'
        OBVIOUS
    <2>1. TypeOK /\ BundleInv /\ FrameInv
        BY DEF IInv
    <2>2. TypeOK'
        BY <2>1, WritingTypeOK, SealingTypeOK, RecoveringTypeOK, EndingTypeOK, StutterTypeOK
        DEF Next
    <2>3. BundleInv'
        BY <2>1, WritingBundle, SealingBundle, RecoveringBundle, EndingBundle, StutterBundle
        DEF Next
    <2>4. FrameInv'
        BY <2>1, FrameStep
    <2> QED
        BY <2>2, <2>3, <2>4 DEF IInv
<1> QED
    BY <1>1, <1>2, PTL DEF Spec

LEMMA FramesHeld == ASSUME IInv PROVE SyncedFramesSurvive
<1> SUFFICES ASSUME NEW c \in Chunks
             PROVE  \/ part[c].st \in {"absent", "creating", "stub"} /\ hist.acked[c] = 0
                    \/ part[c].st \in {"file", "moved"} /\ Holds(part[c].frames, c)
                    \/ art[c].present /\ man[c].present /\ Holds(art[c].frames, c)
    BY DEF SyncedFramesSurvive
<1>1. TypeOK /\ FileOK(c)
    BY DEF IInv, FrameInv, AllFiles
<1>2. CASE Bundled(c)
    BY <1>2 DEF Bundled
<1>3. CASE hist.acked[c] <= part[c].sync
    <2>1. Holds(part[c].frames, c)
        BY <1>1, <1>3, SyncedHolds
    <2>2. CASE part[c].st \in {"absent", "creating", "stub"}
        <3>1. part[c].frames = << >> /\ Len(<< >>) = 0 /\ part[c].sync <= Len(part[c].frames)
            BY <1>1, <2>2 DEF FileOK
        <3>2. hist.acked[c] = 0
            BY <1>1, <1>3, <3>1, FileTyped
        <3> QED
            BY <2>2, <3>2
    <2>3. part[c].st \in {"absent", "creating", "stub", "file", "moved"}
        BY <1>1, FileTyped DEF PartFile
    <2> QED
        BY <2>1, <2>2, <2>3
<1> QED
    BY <1>1, <1>2, <1>3 DEF FileOK

\* Synchronized frames survive every kill, every power loss and every step of
\* recovery: what synced_record_count counted is in the partial, in the
\* quarantined copy or in a sealed bundle (spool/writer.py, spool/recovery.py).
THEOREM SyncedFramesAreKept == Spec => []SyncedFramesSurvive
<1>1. IInv => SyncedFramesSurvive
    BY FramesHeld
<1> QED
    BY <1>1, InvariantKept, PTL

\* A manifest with complete=true covers every frame written into its chunk, and
\* the chunk was not closed at a reconnect boundary (spool/seal.py, _manifest).
THEOREM CompleteManifestsAreHonest == Spec => []CompleteIsHonest
<1>1. IInv => CompleteIsHonest
    BY DEF IInv, FrameInv
<1> QED
    BY <1>1, InvariantKept, PTL

\* Every content of the Catalog a power loss may leave can be resumed, and what
\* recover_storage leaves in SEALING is an empty marker whose gap is recorded.
THEOREM RecoveryIsAlwaysPossible == Spec => []RecoveryIsPossible
<1>1. ASSUME IInv PROVE RecoveryIsPossible
    <2>1. EveryRollbackEligible
        BY <1>1 DEF IInv, FrameInv, AllCats, CatOK, EveryRollbackEligible
    <2>2. StuckSealingIsMarker
        <3>1. SUFFICES ASSUME Idle, NEW c \in Chunks, cat.row[c].st = "SEALING" PROVE Stuck(c)
            BY DEF StuckSealingIsMarker, Stuck
        <3> QED
            BY <1>1, <3>1, ChunkAssumption
            DEF IInv, FrameInv, RowsSettle, Settled, Idle, NoJob
    <2> QED
        BY <2>1, <2>2 DEF RecoveryIsPossible
<1> QED
    BY <1>1, InvariantKept, PTL
\* No row becomes SEALING between two states of one recovery, unless its
\* manifest exists.
NoOrphanSealed ==
    \A c \in Chunks :
        proc = "recovering" /\ proc' = "recovering"
        /\ cat.row[c].st # "SEALING" /\ cat'.row[c].st = "SEALING" => man[c].present

LEMMA RegisteredNotSealing ==
    ASSUME cat \in CatalogType, NEW c \in Chunks, NEW d \in Chunks
    PROVE  Registered(c).row[d].st = "SEALING" => cat.row[d].st = "SEALING"
    BY MovedState DEF Registered

LEMMA OrphanStep == ASSUME IInv, Next PROVE NoOrphanSealed
<1> SUFFICES ASSUME NEW c \in Chunks, proc = "recovering", proc' = "recovering",
                    cat.row[c].st # "SEALING", cat'.row[c].st = "SEALING"
             PROVE  man[c].present
    BY DEF NoOrphanSealed
<1>i. TypeOK /\ BundleInv /\ FrameInv /\ RecoveryAlone /\ cat \in CatalogType
    BY DEF IInv, BundleInv, TypeOK
<1>1. ~Writing
    BY DEF Writing, CreatePartial, OpenWriter, AppendFrame, SyncWriter, StartGap,
           CompleteGap, WriterOpen, Idle
<1>2. ASSUME Sealing PROVE FALSE
    <2>1. CASE SealSealing
        <3>1. cat.row[job.chunk].st = "SEALING"
            BY <1>i, <2>1, ResealRow DEF SealSealing, Steps
        <3> QED
            BY <2>1, <3>1 DEF SealSealing, catalog
    <2>2. CASE OpenMarker
        <3>1. job.chunk \in Chunks
            BY <1>i, <2>2, JobChunk DEF OpenMarker, Steps
        <3> QED
            BY <1>i, <2>2, <3>1, RegisteredNotSealing DEF OpenMarker, Commit
    <2>3. CASE SealCommit
        <3>1. job.chunk \in Chunks
            BY <1>i, <2>3, JobChunk DEF SealCommit, Steps
        <3> QED
            BY <1>i, <2>3, <3>1, MovedState DEF SealCommit, Commit
    <2> QED
        BY <1>2, <2>1, <2>2, <2>3
        DEF Sealing, SealWriter, RegisterMarker, CreateMarker, SealArtifact, SealManifest,
            SealUnlink, WriterOpen, Idle, catalog
<1>3. ASSUME Recovering PROVE man[c].present
    <2>1. CASE MarkRecovered
        <3>1. rec.cur \in Chunks /\ cat.row[rec.cur] \in Row
            BY <1>i, <2>1 DEF MarkRecovered, TypeOK, Recovery, CatalogType
        <3> DEFINE r == [cat.row[rec.cur] EXCEPT !.st = "RECOVERED", !.recovered = TRUE]
        <3>2. r.st = "RECOVERED"
            BY <3>1 DEF Row
        <3>3. cat'.row[c] = IF c = rec.cur THEN r ELSE cat.row[c]
            BY <1>i, <2>1, <3>1, WithRowState DEF MarkRecovered, Commit
        <3> QED
            BY <3>2, <3>3
    <2>2. ASSUME NEW d \in Chunks, RecoverClean(d) \/ TruncateTail(d) PROVE FALSE
        BY <1>i, <2>2, RegisteredNotSealing DEF RecoverClean, TruncateTail, Commit
    <2>3. ASSUME NEW d \in Chunks, QuarantineRow(d) PROVE FALSE
        <3>1. Registered(d) \in CatalogType
            BY <1>i, RegisteredType
        <3>2. cat'.row[c].st = IF c = d THEN "QUARANTINED" ELSE Registered(d).row[c].st
            BY <2>3, <3>1, MovedState DEF QuarantineRow, Commit
        <3> QED
            BY <1>i, <3>2, RegisteredNotSealing
    <2>4. ASSUME NEW d \in Chunks, ReconcileManifest(d) PROVE man[c].present
        <3>1. man[d].present
            BY <1>i, <2>4 DEF ReconcileManifest, Visiting, RecoveryAlone
        <3>2. c = d
            BY <1>i, <2>4, RegisteredNotSealing, SealingRowState, MovedState
            DEF ReconcileManifest, Commit, catalog
        <3> QED
            BY <3>1, <3>2
    <2>5. ASSUME NEW g \in Gaps, MaterializeStarted(g) PROVE FALSE
        BY <1>i, <2>5 DEF MaterializeStarted, Commit, CatalogType
    <2>6. ASSUME NEW d \in Chunks, RecoverStub(d) \/ Reseal(d) \/ CleanupRetained(d)
          PROVE  FALSE
        BY <2>6 DEF RecoverStub, Reseal, CleanupRetained, catalog
    <2>7. ASSUME StartProcess \/ NextPhase \/ MoveQuarantined \/ ResealRaises
                 \/ UnlinkReconciled
          PROVE  FALSE
        BY <2>7 DEF StartProcess, NextPhase, MoveQuarantined, ResealRaises,
                    UnlinkReconciled, catalog
    <2> QED
        BY <1>3, <2>1, <2>2, <2>3, <2>4, <2>5, <2>6, <2>7 DEF Recovering
<1>4. ~(Exit \/ Kill \/ PowerLoss)
    BY DEF Exit, Kill, PowerLoss, Ended
<1> QED
    BY <1>1, <1>2, <1>3, <1>4 DEF Next

\* Recovery never begins a seal of its own: a clean orphan partial is kept as it
\* is, and only a chunk whose manifest exists is moved to SEALING (recovery.py,
\* reconcile_sealed).
THEOREM OrphansAreKept == Spec => RecoveryNeverSealsOrphan
<1>1. IInv /\ [Next]_vars => [NoOrphanSealed]_vars
    BY OrphanStep
<1> QED
    BY <1>1, InvariantKept, PTL DEF Spec, RecoveryNeverSealsOrphan, NoOrphanSealed
=============================================================================
