---------------------------- MODULE BoundaryAudit ----------------------------
(***************************************************************************)
(* The audit of the sealed Raw of one WebSocket stream                     *)
(* (audit/reconnect_boundaries.py): every change of connection between two *)
(* frames is classified, once over the whole data root (audit_data_root)   *)
(* and once in increments that carry a compact continuation from one       *)
(* observation to the next (incremental_audit_data_root).  The recorder    *)
(* seals chunks and the archive deletes them while an observation runs.    *)
(*                                                                         *)
(* A frame is its connection, a sequence_gap marker and a blue/green       *)
(* overlap marker.  Chunks are numbered in the order of created_at.        *)
(***************************************************************************)
EXTENDS Integers, Sequences, FiniteSets, SequencesExt, FiniteSetsExt

CONSTANTS
    MaxChunks,   \* bound on sealed chunks
    MaxFrames,   \* bound on the frames of one chunk
    MaxAllFrames,\* bound on the frames of all chunks
    MaxMarks,    \* bound on evidence and deletions together: markers, manifest
                 \* flags, Catalog gaps, chunks whose Raw goes away
    Unknowable   \* no connection, no frame detail

VARIABLES
    sealed,   \* chunks: frames, flag of the manifest, row in the Catalog
    intervals,\* Catalog discontinuity intervals: old, new, at
    life,     \* of each chunk: state of its archive transaction, raw present
    view,     \* the running observation: pc, frozen rows, what the scan found
    cont,     \* continuation: members and the context of the stream
    out       \* what was emitted: transitions, losses, disagreements, unread

baVars == <<sealed, intervals, life, view, cont, out>>

NoView == [pc |-> "idle", rows |-> {}, states |-> << >>, members |-> {}, absent |-> {}]

BaInit ==
    /\ sealed = << >> /\ intervals = {} /\ life = << >> /\ view = NoView
    /\ cont = [members |-> {}, context |-> << >>]
    /\ out = [transitions |-> {}, losses |-> {}, disagreements |-> {}, unread |-> {}]

-----------------------------------------------------------------------------
(* Evidence on frames and manifests.  A scanned chunk is its number, its   *)
(* frames if they can be read, and of its manifest the set of connections, *)
(* the count of frames, the flag and whether any flag is set: a marker of  *)
(* any of the frames sets one too.                                         *)

Scanned(i, readable) ==
    LET frames == sealed[i].frames  flag == sealed[i].flag IN
    [id |-> i, readable |-> readable, frames |-> IF readable THEN frames ELSE << >>,
     conns |-> {frames[k].conn : k \in DOMAIN frames}, count |-> Len(frames), flag |-> flag,
     evidence |-> flag # "none" \/ \E k \in DOMAIN frames : frames[k].mark # "none"]

\* _zero_record_chunk.
ZeroRecord(c) == c.count = 0

\* _last_connection and _first_connection.
OnlyConnection(c) == IF Cardinality(c.conns) = 1 THEN CHOOSE x \in c.conns : TRUE ELSE Unknowable

LastConnection(c) == IF c.readable THEN Last(c.frames).conn ELSE OnlyConnection(c)

FirstConnection(c) == IF c.readable THEN Head(c.frames).conn ELSE OnlyConnection(c)

\* _marker_is_end_evidence: frame k is not the first frame of its connection.
MarkerIsEndEvidence(fs, k) == k > 1 /\ fs[k - 1].conn = fs[k].conn

\* _overlap_pair.
OverlapPair(f, g) == f.mark = "overlap" /\ g.mark = "overlap"

\* _catalog_gap_match: how the gaps of the Catalog identify the boundary o -> n.
CatalogGapMatch(gaps, o, n) ==
    LET exact == {g \in gaps : g.old = o /\ g.new = n /\ o # Unknowable}
        partial == {g \in gaps \ exact :
                       \/ g.old = o /\ o # Unknowable
                       \/ g.new = n /\ n # Unknowable}
        timed == {g \in gaps \ (exact \cup partial) : g.at = n}
    IN  IF Cardinality(exact) = 1 THEN "EXACT_PAIR"
        ELSE IF Cardinality(exact) > 1 THEN "AMBIGUOUS"
        ELSE IF Cardinality(partial) = 1 THEN "PARTIAL"
        ELSE IF Cardinality(partial) > 1 \/ Cardinality(timed) > 1 THEN "AMBIGUOUS"
        ELSE IF timed # {} THEN "TIME_ONLY" ELSE "NONE"

\* _manifest_gap_evidence and _manifest_overlap_evidence.
ManifestEvidence(c) == c.evidence

\* The kind of a boundary between two frames of one chunk.
IntraKind(fs, k) ==
    IF fs[k].mark = "gap" THEN "EXPLICIT"
    ELSE IF fs[k - 1].mark = "gap"
    THEN IF MarkerIsEndEvidence(fs, k - 1) THEN "EXPLICIT" ELSE "UNKNOWN"
    ELSE IF OverlapPair(fs[k - 1], fs[k]) THEN "OVERLAP"
    ELSE "UNMARKED"

\* _manifest_level_intra_kind: the chunk's frames are not readable.
ManifestLevelIntraKind(c) == IF ManifestEvidence(c) THEN "UNKNOWN" ELSE "UNMARKED"

\* _classify_inter_chunk: the boundary from c to d, with the frame-less chunks
\* of `mid` between them.
ClassifyInterChunk(gaps, c, d, mid) ==
    LET last == IF c.readable THEN Last(c.frames).mark ELSE "none"
        first == IF d.readable THEN Head(d.frames).mark ELSE "none"
        match == CatalogGapMatch(gaps, LastConnection(c), FirstConnection(d))
        between == {c, d} \cup Range(mid)
    IN  IF first = "gap" \/ d.flag = "process_boundary" THEN "EXPLICIT"
        ELSE IF last = "gap"
        THEN IF MarkerIsEndEvidence(c.frames, Len(c.frames)) THEN "EXPLICIT" ELSE "UNKNOWN"
        ELSE IF last = "overlap" /\ first = "overlap" THEN "OVERLAP"
        ELSE IF \/ Cardinality(c.conns) = 1 /\ c.flag = "reconnect_gap"
                \/ \E z \in Range(mid) : z.flag = "reconnect_gap"
                \/ match = "EXACT_PAIR" THEN "EXPLICIT"
        ELSE IF match # "NONE" \/ \E x \in between : ManifestEvidence(x) THEN "UNKNOWN"
        ELSE "UNMARKED"

\* The boundaries inside one chunk.
IntraTransitions(c) ==
    IF ~c.readable
    THEN IF Cardinality(c.conns) > 1
         THEN {[old |-> c.id, new |-> c.id, at |-> 0, kind |-> ManifestLevelIntraKind(c)]}
         ELSE {}
    ELSE {[old |-> c.id, new |-> c.id, at |-> k, kind |-> IntraKind(c.frames, k)] :
             k \in {n \in 2..Len(c.frames) : c.frames[n - 1].conn # c.frames[n].conn}}

\* The chunk that carries the next boundary's old connection, followed by the
\* frame-less chunks met since.
Nearest(near, c) ==
    IF ~ZeroRecord(c) THEN <<c>> ELSE IF near = << >> THEN near ELSE Append(near, c)

InterTransition(gaps, near, c) ==
    LET prev == Head(near)
        o == LastConnection(prev)  n == FirstConnection(c)
    IN  IF o # Unknowable /\ n # Unknowable /\ o # n
        THEN {[old |-> prev.id, new |-> c.id, at |-> 0,
               kind |-> ClassifyInterChunk(gaps, prev, c, Tail(near))]}
        ELSE {}

\* collect_transitions: the scan of one chunk, and of a list.
CollectChunk(gaps, emit, acc, c) ==
    [near |-> Nearest(acc.near, c),
     found |-> acc.found
        \cup (IF c.id \in emit THEN IntraTransitions(c) ELSE {})
        \cup (IF acc.near = << >> \/ ZeroRecord(c) THEN {}
              ELSE InterTransition(gaps, acc.near, c))]

CollectTransitions(gaps, chunks, emit) ==
    LET scan[k \in 0..Len(chunks)] ==
            IF k = 0 THEN [near |-> << >>, found |-> {}]
            ELSE CollectChunk(gaps, emit, scan[k - 1], chunks[k])
    IN  scan[Len(chunks)].found

-----------------------------------------------------------------------------
(* The recorder and the archive. *)

Touched == {i \in DOMAIN life : life[i].state # "none" \/ life[i].lost}

\* The frames of all chunks: chunk and place.
FramePlaces ==
    {p \in (DOMAIN sealed) \X (1..MaxFrames) : p[2] <= Len(sealed[p[1]].frames)}

Marks == Cardinality(intervals) + Cardinality(Touched)
         + Cardinality({i \in DOMAIN sealed : sealed[i].flag # "none"})
         + Cardinality({p \in FramePlaces : sealed[p[1]].frames[p[2]].mark # "none"})

AllFrames == Cardinality(FramePlaces)

\* The connection of the last sealed frame; 0 before there is one.
Tail0 == LET framed == {i \in DOMAIN sealed : sealed[i].frames # << >>} IN
         IF framed = {} THEN 0 ELSE Last(sealed[Max(framed)].frames).conn

\* Frames continue a connection or start the next one.
Wire(n) == {fs \in [1..n -> [conn : Tail0..(Tail0 + n), mark : {"none", "gap", "overlap"}]] :
                \A k \in 1..n : LET o == IF k = 1 THEN Tail0 ELSE fs[k - 1].conn IN
                                fs[k].conn = o + 1 \/ (o > 0 /\ fs[k].conn = o)}

\* A Catalog interval of the boundary o -> n: of both connections, of the old
\* one, or of neither.
Recorded(o, n) ==
    {{}} \cup IF o = 0 \/ o = n THEN {}
             ELSE {{[old |-> o, new |-> n, at |-> n]},
                   {[old |-> o, new |-> Unknowable, at |-> n]},
                   {[old |-> Unknowable, new |-> Unknowable, at |-> n]}}

\* A chunk is sealed and its manifest published; the Catalog may hold an
\* interval of the boundary before its first frame.
SealChunk ==
    /\ Len(sealed) < MaxChunks /\ \A i \in DOMAIN sealed : sealed[i].row
    /\ \E n \in 0..MaxFrames : \E fs \in Wire(n) :
       \E flag \in {"none", "reconnect_gap", "process_boundary"} :
       \E g \in IF n = 0 THEN {{}} ELSE Recorded(Tail0, fs[1].conn) :
          /\ n = 0 => flag # "process_boundary"
          /\ sealed' = Append(sealed, [frames |-> fs, flag |-> flag, row |-> FALSE])
          /\ intervals' = intervals \cup g
    /\ life' = Append(life, [state |-> "none", raw |-> TRUE, lost |-> FALSE])
    /\ Marks' <= MaxMarks /\ AllFrames' <= MaxAllFrames
    /\ UNCHANGED <<view, cont, out>>

\* The seal's Catalog transaction, after the manifest.
CommitRow ==
    /\ \E i \in DOMAIN sealed :
          /\ ~sealed[i].row
          /\ sealed' = [sealed EXCEPT ![i].row = TRUE]
    /\ UNCHANGED <<intervals, life, view, cont, out>>

\* ArchiveManager: copy, verified delete intent, unlink, terminal state.
ArchiveStep(i) ==
    /\ sealed[i].row
    /\ \/ /\ life[i].state = "none" /\ Marks < MaxMarks
          /\ life' = [life EXCEPT ![i].state = "COPYING"]
       \/ /\ life[i].state = "COPYING" /\ life[i].raw
          /\ life' = [life EXCEPT ![i].state = "LOCAL_DELETE_PENDING"]
       \/ /\ life[i].state = "LOCAL_DELETE_PENDING" /\ life[i].raw
          /\ life' = [life EXCEPT ![i].raw = FALSE]
       \/ /\ life[i].state = "LOCAL_DELETE_PENDING" /\ ~life[i].raw
          /\ life' = [life EXCEPT ![i].state = "LOCAL_DELETED"]
    /\ UNCHANGED <<sealed, intervals, view, cont, out>>

\* RemoteDeleter: pending authority, unlink, terminal state.
RemoteStep(i) ==
    /\ sealed[i].row
    /\ \/ /\ life[i].state = "none" /\ ~life[i].lost /\ Marks < MaxMarks
          /\ life' = [life EXCEPT ![i].state = "REMOTE_DELETE_PENDING"]
       \/ /\ life[i].state = "REMOTE_DELETE_PENDING" /\ life[i].raw
          /\ life' = [life EXCEPT ![i].raw = FALSE]
       \/ /\ life[i].state = "REMOTE_DELETE_PENDING" /\ ~life[i].raw
          /\ life' = [life EXCEPT ![i].state = "REMOTE_DELETED"]
    /\ UNCHANGED <<sealed, intervals, view, cont, out>>

\* Raw disappears without authority (an operator, the disk).
Vanish(i) ==
    /\ life[i].raw /\ life[i].state \in {"none", "COPYING"}
    /\ i \in Touched \/ Marks < MaxMarks
    /\ life' = [life EXCEPT ![i].raw = FALSE, ![i].lost = TRUE]
    /\ UNCHANGED <<sealed, intervals, view, cont, out>>

-----------------------------------------------------------------------------
(* One observation. *)

RowsNow == {i \in DOMAIN sealed : sealed[i].row}

\* _capture_catalog_boundary: the Catalog rows, before the scan.
CaptureCatalogBoundary ==
    /\ view.pc = "idle"
    /\ view' = [NoView EXCEPT !.pc = "scan", !.rows = RowsNow,
                              !.states = [i \in RowsNow |-> life[i].state]]
    /\ UNCHANGED <<sealed, intervals, life, cont, out>>

\* strict_manifest_inventory: every manifest, and whether its Raw is there.
StrictManifestInventory ==
    /\ view.pc = "scan"
    /\ view' = [view EXCEPT !.pc = "classify", !.members = DOMAIN sealed,
                            !.absent = {i \in DOMAIN sealed : ~life[i].raw}]
    /\ UNCHANGED <<sealed, intervals, life, cont, out>>

\* _boundary_local_delete_authorized: terminal already when the rows were frozen.
BoundaryLocalDeleteAuthorized(i) == view.states[i] = "LOCAL_DELETED"

\* _classify_missing_local_source: a fresh read of the exact chunk.  A deletion
\* is authorised when its external copy proves it: the volume is mounted, the
\* manifest is the archived one and validate_external_commit passes.
ClassifyMissingLocalSource(i, proven) ==
    IF life[i].state = "REMOTE_DELETED" THEN "AUTHORIZED_REMOTE_DELETE"
    ELSE IF life[i].state \in {"none", "REMOTE_DELETE_PENDING"} THEN "UNEXPLAINED_ABSENCE"
    ELSE IF life[i].state \in {"LOCAL_DELETE_PENDING", "LOCAL_DELETED"} /\ proven
    THEN "AUTHORIZED_LOCAL_DELETE" ELSE "UNKNOWN"

Classified(i, proven) ==
    IF BoundaryLocalDeleteAuthorized(i) THEN "AUTHORIZED_LOCAL_DELETE"
    ELSE ClassifyMissingLocalSource(i, proven)

\* The losses of an observation: the copies of `proven` were verified.
Losses(gone, proven) ==
    {[chunk |-> i, class |-> Classified(i, i \in proven), life |-> life[i],
      proven |-> i \in proven] : i \in gone}

\* _chunk_context_document: the last two frames are kept.
ContextDocument(c) == [c EXCEPT !.frames = SubSeq(@, Max({1, Len(@) - 1}), Len(@))]

\* Mutant: only the last frame is kept.
ContextOneFrame(context, c) ==
    Nearest(context, [c EXCEPT !.frames = SubSeq(@, Max({1, Len(@)}), Len(@))])

\* _updated_contexts, for one new chunk and for a list.
UpdatedContext(context, c) == Nearest(context, ContextDocument(c))

UpdatedContexts(context, chunks) ==
    LET updated[k \in 0..Len(chunks)] ==
            IF k = 0 THEN context ELSE UpdatedContext(updated[k - 1], chunks[k])
    IN  updated[Len(chunks)]

\* Chunks in the order of created_at.
ByCreation(S) ==
    [k \in 1..Cardinality(S) |-> CHOOSE i \in S : Cardinality({j \in S : j <= i}) = k]

\* The rest of incremental_audit_data_root.  A chunk whose Raw is unreadable when
\* it is first met leaves only its manifest.  Raw that the inventory met and that
\* is gone since is reported if it went while it was read, and by the next
\* observation if it went before.
IncrementalAudit ==
    /\ view.pc = "classify"
    /\ LET rows == view.rows
           fresh == (view.members \cap rows) \ cont.members
           readable(i) == life[i].raw /\ i \notin view.absent
           order == ByCreation(fresh)
           chunks == [k \in DOMAIN order |-> Scanned(order[k], readable(order[k]))]
           unread == {i \in fresh : ~readable(i)}
       IN  /\ \E went \in SUBSET (unread \ view.absent) :
                LET gone == (view.absent \cup went) \cap rows IN
                \E proven \in SUBSET gone :
                   out' = [transitions |-> out.transitions \cup
                               CollectTransitions(intervals, cont.context \o chunks, fresh),
                           losses |-> Losses(gone, proven),
                           disagreements |-> rows \ view.members,
                           unread |-> out.unread \cup unread]
           /\ cont' = [members |-> view.members \cap rows,
                       context |-> UpdatedContexts(cont.context, chunks)]
    /\ view' = NoView
    /\ UNCHANGED <<sealed, intervals, life>>

BaNext ==
    \/ SealChunk \/ CommitRow
    \/ \E i \in DOMAIN sealed : ArchiveStep(i) \/ RemoteStep(i) \/ Vanish(i)
    \/ CaptureCatalogBoundary \/ StrictManifestInventory \/ IncrementalAudit

BaSpec == BaInit /\ [][BaNext]_baVars

-----------------------------------------------------------------------------
(* Properties. *)

\* audit_data_root: all audited chunks in one scan, with the frame detail each
\* had when it was first met.
AuditDataRoot ==
    LET order == ByCreation(cont.members)
        chunks == [k \in DOMAIN order |-> Scanned(order[k], order[k] \notin out.unread)]
    IN  CollectTransitions(intervals, chunks, cont.members)

\* However the sealed chunks are cut into observations, the increments together
\* report exactly the boundaries, with the same kinds, that one scan of all of
\* them reports: the compact continuation loses nothing.
IncrementalIsFull == out.transitions = AuditDataRoot

\* A deletion the archive was entitled to is never reported as a loss, and a loss
\* is never excused, in whatever step of the archive the observation runs; no row
\* of the Catalog disagrees with the manifests.  A deletion is called unknown only
\* when its external copy could not be verified.  (The remote archive unlinks while
\* its row is still pending: that window is reported as a loss.)
AbsenceIsJudgedRight ==
    /\ out.disagreements = {}
    /\ \A l \in out.losses :
          IF l.life.lost THEN l.class \in {"UNKNOWN", "UNEXPLAINED_ABSENCE"}
          ELSE \/ l.class \in {"AUTHORIZED_LOCAL_DELETE", "AUTHORIZED_REMOTE_DELETE"}
               \/ l.life.state = "REMOTE_DELETE_PENDING"
               \/ l.class = "UNKNOWN" /\ ~l.proven
                  /\ l.life.state \in {"LOCAL_DELETE_PENDING", "LOCAL_DELETED"}

\* An audit made piece by piece, while chunks are sealed, archived and deleted under
\* it, says what one audit of a world at rest would say: of every boundary, and of
\* every missing file that it reports (incremental_audit_data_root,
\* _classify_missing_local_source).
AuditIsRight == IncrementalIsFull /\ AbsenceIsJudgedRight

=============================================================================
