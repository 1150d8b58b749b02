----------------------------- MODULE Reconnect -----------------------------
(***************************************************************************)
(* The reconnect protocol of one WebSocket stream                          *)
(* (binance/public_websocket.py): the receiver, the Raw writer task and    *)
(* run(), which share a bounded receipt queue and the memory of the        *)
(* unfinished gap, and Phase A of startup recovery                         *)
(* (spool/legacy_reconnect.py), which reads what they left in the Catalog. *)
(*                                                                         *)
(* The three coroutines interleave at every await.  An action is the code  *)
(* between two awaits; a call that commits to the Catalog in a worker      *)
(* thread is one action and the statements after its await are another.    *)
(***************************************************************************)
EXTENDS Naturals, Sequences, FiniteSets, FiniteSetsExt

CONSTANTS
    Kinds,        \* frames the envelope factory meets: "kept", "filtered"
    QueueCap,     \* capacity of the receipt queue
    MaxConns,     \* bound on connections
    MaxLives,     \* bound on recorder processes
    None          \* no pending gap, no seal intent


VARIABLES
    \* PublicWebSocketStream, as the receiver and run() see it
    pc,        \* where run() is
    conn,      \* number of connections opened so far; the current one
    receipts,  \* _connection_receipt_count > 0
    gen,       \* _generation
    pending,   \* _pending_gap
    flag,      \* _recovery_flag_pending
    enq,       \* _recovery_marker_enqueued
    intent,    \* _seal_intent
    forced,    \* _forced_seal_flags is {reconnect_gap}
    just,      \* gap_just_started
    fatal,     \* the error that will end the process: of a handoff, of STARTED
    hand,      \* the boundary frame waiting for put_after_connection_close
    \* the writer task
    queue,     \* _receipts
    wpc,       \* where the writer is
    batch,     \* receipts the writer holds
    chunk,     \* StreamSpool._writer: absent, or whether a frame is marked
    \* durable state
    started, completed,  \* STREAM_DISCONTINUITY events, as gap identities
    intents,   \* the SEALING transitions with a seal intent, in order
    \* history
    raw,       \* the first frame in Raw of each connection
    life       \* number of recorder processes so far

recv == <<conn, receipts, hand>>
gapvars == <<gen, pending, flag, enq>>
boundary == <<intent, forced, just, fatal>>
writer == <<queue, wpc, batch, chunk>>
events == <<started, completed>>
vars == <<pc, recv, gapvars, boundary, writer, events, intents, raw, life>>

\* A gap identity: gap_id, original_connection_id, original_generation.
GapId == [gap : Nat, conn : Nat, gen : Nat]

Receipt == [conn : Nat, kind : {"kept", "filtered"}, mark : BOOLEAN]

\* A frame in Raw, with the recorder process that wrote it.
RawFrame == [life : Nat, conn : Nat, mark : BOOLEAN]

\* `frames`: the sealed chunk has records; `flagged`: its manifest says
\* complete=false.
Intent == [id : GapId, frames : BOOLEAN, flagged : BOOLEAN]

ASSUME KindsAssumption == Kinds \subseteq {"kept", "filtered"}
ASSUME QueueAssumption == QueueCap \in Nat \ {0}
ASSUME BoundsAssumption == MaxConns \in Nat /\ MaxLives \in Nat
ASSUME NoneAssumption == None \notin GapId

Init ==
    /\ pc = "down" /\ conn = 0 /\ receipts = FALSE /\ hand = << >>
    /\ gen = 0 /\ pending = None /\ flag = FALSE /\ enq = FALSE
    /\ intent = None /\ forced = FALSE /\ just = FALSE /\ fatal = "none"
    /\ queue = << >> /\ wpc = "idle" /\ batch = << >> /\ chunk = "absent"
    /\ started = {} /\ completed = {} /\ intents = << >>
    /\ raw = << >> /\ life = 0

-----------------------------------------------------------------------------
(* The receiver. *)

Connect ==
    /\ pc = "connecting" /\ conn < MaxConns
    /\ pc' = "receiving" /\ conn' = conn + 1 /\ receipts' = FALSE
    /\ UNCHANGED <<hand, gapvars, boundary, writer, events, intents, raw, life>>

\* BoundedAsyncQueue._full.
HasSpace == Len(queue) < QueueCap

\* _with_recovery_marker: the first receipt after a gap carries sequence_gap.
Marker == flag /\ ~enq

\* _receive_once and _accept.  A receipt waiting for queue space is received
\* when the space is there; the reservation is undone if the put fails.
Accept(kind) ==
    /\ pc = "receiving" /\ HasSpace
    /\ queue' = Append(queue, [conn |-> conn, kind |-> kind, mark |-> Marker])
    /\ enq' = (enq \/ Marker)
    /\ receipts' = TRUE
    /\ UNCHANGED <<pc, conn, hand, gen, pending, flag, boundary, wpc, batch, chunk,
                   events, intents, raw, life>>

\* A disconnect before any receipt is retried: nothing was captured.
Retry ==
    /\ pc = "receiving" /\ ~receipts /\ conn < MaxConns
    /\ pc' = "connecting"
    /\ UNCHANGED <<recv, gapvars, boundary, writer, events, intents, raw, life>>

\* Mutant: an extension records its own connection and generation.
ExtensionOwnIdentity(marked) ==
    [gap |-> IF pending # None /\ ~marked THEN pending.gap ELSE conn,
     conn |-> conn, gen |-> gen]

\* _build_seal_intent: a boundary before the marker of the pending gap was
\* enqueued extends that gap; any other boundary is a gap of its own.  A
\* connection ends once, so its number serves as the fresh gap_id.
BuildSealIntent(marked) ==
    IF pending # None /\ ~marked THEN pending
    ELSE [gap |-> conn, conn |-> conn, gen |-> gen]

\* Mutant: a boundary without its frame is sealed like any other chunk.
NeverForced(handed) == FALSE

\* reconnect_gap is forced unless the boundary frame itself reached the writer.
ForcedSealFlags(handed) == ~handed

\* The finally block of run(), up to its first await.
Boundary(handed, marked) ==
    /\ conn < MaxConns
    /\ forced' = ForcedSealFlags(handed)
    /\ intent' = BuildSealIntent(marked)
    /\ pc' = IF pending = None THEN "starting" ELSE "draining"

\* unexpected_disconnect after a receipt; planned_rotation, server_shutdown
\* and session_restart also without one.
EndConnection ==
    /\ pc = "receiving"
    /\ Boundary(FALSE, enq)
    /\ UNCHANGED <<recv, gapvars, just, fatal, writer, events, intents, raw, life>>

\* IngressBackpressureTimeout: the connection is closed and the frame in hand,
\* marked, still goes to the writer if it finds space in time.
Backpressure(kind) ==
    /\ pc = "receiving" /\ ~HasSpace /\ conn < MaxConns
    /\ hand' = << [conn |-> conn, kind |-> kind, mark |-> TRUE] >>
    /\ pc' = "handoff"
    /\ UNCHANGED <<conn, receipts, gapvars, boundary, writer, events, intents, raw, life>>

Handoff ==
    /\ pc = "handoff" /\ HasSpace
    /\ queue' = queue \o hand /\ hand' = << >>
    /\ enq' = (enq \/ flag)
    /\ Boundary(TRUE, enq')
    /\ UNCHANGED <<conn, receipts, gen, pending, flag, just, fatal, wpc, batch, chunk,
                   events, intents, raw, life>>

\* IngressPostCloseHandoffTimeout, at once for a frame larger than the queue:
\* the boundary is recorded and the process then ends.
HandoffTimeout ==
    /\ pc \in {"receiving", "handoff"} /\ life < MaxLives
    /\ Boundary(FALSE, enq)
    /\ hand' = << >> /\ fatal' = "handoff"
    /\ UNCHANGED <<conn, receipts, gapvars, just, writer, events, intents, raw, life>>

\* The stop event; a frame in hand is accepted first or its loss is fatal.
Stop ==
    /\ pc \in {"connecting", "receiving"} /\ life < MaxLives /\ conn < MaxConns
    /\ pc' = "draining"
    /\ UNCHANGED <<recv, gapvars, boundary, writer, events, intents, raw, life>>

-----------------------------------------------------------------------------
(* run(): the gap's STARTED event, before or after the writer's drain. *)

\* _record_gap_started, up to the commit of the event.
CommitStarted ==
    /\ pc \in {"starting", "late"}
    /\ started' = started \cup {intent}
    /\ pc' = IF pc = "starting" THEN "started" ELSE "latestarted"
    /\ UNCHANGED <<recv, gapvars, boundary, writer, completed, intents, raw, life>>

GapStarted ==
    /\ pending' = intent /\ gen' = gen + 1 /\ flag' = TRUE /\ enq' = FALSE

ReturnStarted ==
    /\ pc \in {"started", "latestarted"}
    /\ GapStarted
    /\ just' = TRUE
    /\ pc' = "draining"
    /\ UNCHANGED <<recv, intent, forced, fatal, writer, events, intents, raw, life>>

\* The commit of STARTED fails: run() lets the writer drain and seal with the
\* intent, then ends the process.
StartedFails ==
    /\ pc = "starting" /\ life < MaxLives
    /\ fatal' = "started" /\ pc' = "draining"
    /\ UNCHANGED <<recv, gapvars, intent, forced, just, writer, events, intents, raw, life>>

\* What run() resets when its loop begins again.
Fresh == /\ intent' = None /\ forced' = FALSE /\ just' = FALSE
         /\ wpc' = "idle"

\* The drain completed the parent gap: this boundary's own STARTED is due.
Late == intent # None /\ pending = None /\ ~just /\ fatal # "started"

\* The writer has sealed.
Drained ==
    /\ pc = "draining" /\ wpc = "closed"
    /\ \/ /\ Late
          /\ pc' = "late"
          /\ UNCHANGED <<boundary, wpc>>
       \/ /\ ~Late /\ intent # None /\ fatal = "none"
          /\ pc' = "connecting"
          /\ Fresh /\ UNCHANGED fatal
       \/ /\ ~Late /\ (intent = None \/ fatal # "none")
          /\ pc' = "down"
          /\ Fresh /\ fatal' = "none"
    /\ UNCHANGED <<recv, gapvars, queue, batch, chunk, events, intents, raw, life>>

-----------------------------------------------------------------------------
(* The writer task. *)

Take(n) ==
    /\ pc # "down" /\ wpc = "idle" /\ n \in 1..Len(queue)
    /\ batch' = SubSeq(queue, 1, n)
    /\ queue' = SubSeq(queue, n + 1, Len(queue))
    /\ wpc' = "persisting"
    /\ UNCHANGED <<pc, recv, gapvars, boundary, chunk, events, intents, raw, life>>

\* The envelopes of a batch: envelope_factory drops a forming kline.
Kept(b) == {i \in 1..Len(b) : b[i].kind = "kept"}

\* Raw after a batch; every batch is of one connection.
Written(b) ==
    IF Kept(b) = {} \/ (\E i \in 1..Len(raw) : raw[i].conn = b[1].conn) THEN raw
    ELSE Append(raw, [life |-> life, conn |-> b[1].conn, mark |-> b[Min(Kept(b))].mark])

\* _persist_batch: the chunk may be rotated after any append.
Persist ==
    /\ wpc = "persisting"
    /\ raw' = Written(batch)
    /\ chunk' \in IF Kept(batch) = {} THEN {chunk}
                  ELSE {IF \E i \in Kept(batch) : batch[i].mark THEN "marked"
                        ELSE IF chunk = "absent" THEN "plain" ELSE chunk, "absent"}
    /\ wpc' = "observing"
    /\ UNCHANGED <<pc, recv, gapvars, boundary, queue, batch, events, intents, life>>

\* _record_gap_completed's early returns.
Closes(r) == pending # None /\ r.mark /\ r.conn # pending.conn

\* _record_gap_completed for each envelope, up to the commit of the event.
CommitCompleted ==
    /\ wpc = "observing" /\ \E i \in Kept(batch) : Closes(batch[i])
    /\ completed' = completed \cup {pending}
    /\ wpc' = "completed"
    /\ UNCHANGED <<pc, recv, gapvars, boundary, queue, batch, chunk, started, intents,
                   raw, life>>

ReturnCompleted ==
    /\ wpc = "completed"
    /\ pending' = None /\ flag' = FALSE /\ enq' = FALSE
    /\ wpc' = "observing"
    /\ UNCHANGED <<pc, recv, gen, boundary, queue, batch, chunk, events, intents, raw, life>>

\* No envelope (any more) closes a gap: task_done.
BatchDone ==
    /\ wpc = "observing" /\ ~\E i \in Kept(batch) : Closes(batch[i])
    /\ batch' = << >> /\ wpc' = "idle"
    /\ UNCHANGED <<pc, recv, gapvars, boundary, queue, chunk, events, intents, raw, life>>

\* A chunk that reached its age is sealed without flags or intent.
RotateChunk ==
    /\ pc # "down" /\ wpc = "idle" /\ queue = << >> /\ chunk # "absent"
    /\ chunk' = "absent"
    /\ UNCHANGED <<pc, recv, gapvars, boundary, queue, wpc, batch, events, intents, raw, life>>

\* close_and_seal once producer_done is set and the queue is empty.  Without a
\* chunk, the intent is sealed into an empty marker that carries reconnect_gap.
CloseAndSeal ==
    /\ pc = "draining" /\ wpc = "idle" /\ queue = << >>
    /\ intents' = IF intent = None THEN intents
                  ELSE Append(intents, [id |-> intent, frames |-> chunk # "absent",
                                        flagged |-> forced \/ chunk # "plain"])
    /\ chunk' = "absent"
    /\ wpc' = "closed"
    /\ UNCHANGED <<pc, recv, gapvars, boundary, queue, batch, events, raw, life>>

-----------------------------------------------------------------------------
(* The end of a process, and the next start. *)

\* A kill loses the queue; the batch being written may have reached Raw in part.
Kill ==
    /\ pc # "down" /\ life < MaxLives /\ conn < MaxConns
    /\ \/ UNCHANGED raw
       \/ wpc = "persisting" /\ raw' = Written(batch)
    /\ pc' = "down"
    /\ hand' = << >> /\ queue' = << >> /\ batch' = << >> /\ chunk' = "absent"
    /\ Fresh /\ fatal' = "none"
    /\ UNCHANGED <<conn, receipts, gapvars, events, intents, life>>

\* evaluate_legacy_reconnect_decisions over the intents in durable order: the
\* gaps that are open after each of them, or {None} for a conflict.
Decide(open, i) ==
    LET g == i.id  same == {o \in open : o.gap = g.gap} IN
    IF g \in completed THEN open
    ELSE IF same # {} THEN IF g \in same THEN open ELSE {None}
    ELSE IF open = {} THEN {g}
    ELSE IF ~i.frames /\ \A o \in open : g.gen = o.gen + 1 /\ open = {o} THEN open
    ELSE {None}

Decisions ==
    LET d[n \in 0..Len(intents)] ==
            IF n = 0 THEN started \ completed
            ELSE IF d[n - 1] = {None} THEN {None} ELSE Decide(d[n - 1], intents[n])
    IN  d[Len(intents)]

\* More than one open gap is an IngressGapStateConflict of _restore_open_gap.
Startable == Decisions # {None} /\ Cardinality(Decisions) <= 1

\* Mutant: the new process forgets the open gap.
ForgetsGap(open) == pending' = None /\ gen' = 0 /\ flag' = FALSE /\ enq' = FALSE

\* _restore_open_gap.
RestoreOpenGap(open) ==
    /\ enq' = FALSE
    /\ \/ open = {} /\ pending' = None /\ gen' = 0 /\ flag' = FALSE
       \/ \E g \in open : pending' = g /\ gen' = g.gen + 1 /\ flag' = TRUE

Start ==
    /\ pc = "down" /\ Startable /\ life < MaxLives
    /\ started' = started \cup Decisions
    /\ RestoreOpenGap(Decisions)
    /\ pc' = "connecting" /\ life' = life + 1
    /\ receipts' = FALSE
    /\ UNCHANGED <<conn, hand, boundary, writer, completed, intents, raw>>

-----------------------------------------------------------------------------
Receiver == \/ Connect \/ Retry \/ EndConnection \/ Handoff \/ HandoffTimeout \/ Stop
            \/ \E k \in Kinds : Accept(k) \/ Backpressure(k)
Runner == CommitStarted \/ StartedFails \/ ReturnStarted \/ Drained
Writer == \/ \E n \in 1..QueueCap : Take(n)
          \/ Persist \/ CommitCompleted \/ ReturnCompleted \/ BatchDone
          \/ RotateChunk \/ CloseAndSeal

Next == Receiver \/ Runner \/ Writer \/ Kill \/ Start

Spec == Init /\ [][Next]_vars

\* Coroutines that can run do run, the exchange answers a connection attempt
\* and keeps sending frames that are kept, and the service manager restarts
\* the process.
FairSpec ==
    /\ Spec
    /\ WF_vars(Runner) /\ WF_vars(Connect) /\ WF_vars(Accept("kept"))
    /\ WF_vars(Handoff \/ HandoffTimeout) /\ WF_vars(Start)
    /\ WF_vars(\E n \in 1..QueueCap : Take(n)) /\ WF_vars(Persist)
    /\ WF_vars(CommitCompleted \/ ReturnCompleted \/ BatchDone) /\ WF_vars(CloseAndSeal)

-----------------------------------------------------------------------------
(* Properties. *)

\* Every variable has its type, and the receipt queue never exceeds its
\* capacity, also through a handoff after the connection was closed.
TypeOK ==
    /\ pc \in {"down", "connecting", "receiving", "handoff", "starting", "started",
               "draining", "late", "latestarted"}
    /\ conn \in 0..MaxConns /\ life \in 0..MaxLives /\ gen \in Nat
    /\ {receipts, flag, enq, forced, just} \subseteq BOOLEAN
    /\ fatal \in {"none", "handoff", "started"}
    /\ pending \in GapId \cup {None} /\ intent \in GapId \cup {None}
    /\ queue \in Seq(Receipt) /\ Len(queue) <= QueueCap
    /\ batch \in Seq(Receipt) /\ hand \in Seq(Receipt)
    /\ wpc \in {"idle", "persisting", "observing", "completed", "closed"}
    /\ chunk \in {"absent", "plain", "marked"}
    /\ started \subseteq GapId /\ completed \subseteq GapId
    /\ intents \in Seq(Intent)
    /\ raw \in Seq(RawFrame)

\* Whenever the process is killed, the next start can decide every durable
\* seal intent and restore at most one open gap: it never meets
\* RECOVERY_SEAL_INTENT_STARTED_CONFLICT or IngressGapStateConflict.
AlwaysStartable == Startable

\* The Catalog never holds two unfinished gaps of a stream, whether known by
\* STARTED or only by the intent of a sealed chunk: the parent of a fresh
\* intent is completed by the drain that precedes it.
Unfinished == (started \cup {intents[i].id : i \in 1..Len(intents)}) \ completed
OneUnfinishedGap == Cardinality(Unfinished) <= 1

\* Within one process, Raw never passes from one connection to another without
\* a mark on the first new frame and a STARTED event that names the old one.
NoSilentSwitch ==
    \A i \in 2..Len(raw) : raw[i].life = raw[i - 1].life =>
        /\ raw[i].mark
        /\ \E g \in started : g.conn = raw[i - 1].conn

\* COMPLETED is recorded only when Raw holds a marked frame of a connection
\* later than the gap's, and only for a gap that was STARTED.
CompletedHasMarker ==
    \A g \in completed :
        /\ g \in started
        /\ \E i \in 1..Len(raw) : raw[i].mark /\ raw[i].conn > g.conn

\* The gap evidence of a stream stays usable and true through every interleaving
\* of receiver, writer and run(), every kill and every restart: a start can decide
\* it, one gap at most is unfinished, no change of connection is silent, and what is
\* completed has its marked frame (_restore_open_gap, _build_seal_intent,
\* _record_gap_started, recovery Phase A).
GapEvidenceIsSound ==
    TypeOK /\ AlwaysStartable /\ OneUnfinishedGap /\ NoSilentSwitch /\ CompletedHasMarker

\* A chunk closed at a reconnect boundary never claims complete=true.
BoundaryIsVisible == \A i \in 1..Len(intents) : intents[i].flagged

\* A gap known to the Catalog is completed in the end, through extensions,
\* backpressure, stops and kills, if they are finitely many.
GapCompletes ==
    \A c \in 1..MaxConns : (\E g \in Unfinished : g.conn = c) ~> (\A g \in Unfinished : g.conn # c)
=============================================================================
