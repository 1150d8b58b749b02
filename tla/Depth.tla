------------------------------- MODULE Depth -------------------------------
(***************************************************************************)
(* The live check that the captured order-book stream of one product is    *)
(* continuous: supervisor/depth_continuity.py and readiness.py, driven by  *)
(* ProductCapture and the REST poller of collector/coverage.py.            *)
(*                                                                         *)
(* The exchange numbers every change of the book.  A diff-depth frame      *)
(* carries a range of changes; a REST snapshot is the book after one of    *)
(* them.  The recorder may call its sequence reliable only when a snapshot *)
(* and the frames persisted after it leave out no change.  Frames are      *)
(* persisted some time after they are received, connections end while      *)
(* frames wait, and a snapshot arrives some time after it was requested.   *)
(***************************************************************************)
EXTENDS Integers, Sequences

CONSTANTS Markets,     \* the bridge rules: {"spot", "usdm"}
          Width,       \* changes in one frame
          Capacity,    \* DepthContinuity.capacity
          QueueCap,    \* bound: frames received and not yet persisted
          MaxUpdates,  \* bound: frames the exchange sends
          MaxConns,    \* bound: connections
          MaxFaults,   \* bound: lost or malformed frames, failed requests
          Patience     \* good frames after which the bridge must stand

ASSUME WidthAssumption == Width \in Nat \ {0}
ASSUME CapacityAssumption == Capacity \in Nat \ {0, 1}
ASSUME BoundsAssumption == /\ QueueCap \in Nat /\ MaxUpdates \in Nat \ {0} /\ MaxConns \in Nat
                           /\ MaxFaults \in Nat
ASSUME PatienceAssumption == Patience \in Nat /\ Patience >= 3
ASSUME MarketsAssumption == Markets \subseteq {"spot", "usdm"}

VARIABLES
  market,   \* the product's market, fixed
  exch,     \* number of the last frame the exchange has sent
  conn,     \* the current or the last connection; 0 before the first
  up,       \* the connection is open
  queue,    \* frames received, in order, not yet persisted
  cont,     \* DepthContinuity: [buf, rel, over], and the changes behind rel
  ready,    \* CollectorReadiness: [seen, snapped] for diff_depth
  snap,     \* ProductCapture.snapshot: its last_update_id, or NoId
  poll,     \* the depth_snapshot source: [st, lo, id]
  newest,   \* history: the frame persisted last
  streak,   \* history: good frames persisted in a row with no request pending
  faults    \* counts against MaxFaults

exchange == <<market, exch>>
link == <<conn, up, queue>>
capture == <<cont, ready, snap, newest>>
vars == <<exchange, link, capture, poll, streak, faults>>

----------------------------------------------------------------------------
(* Frames and the changes they carry. *)

NoId == 0

\* U, u and pu of the n-th frame.
FirstId(n) == Width * (n - 1) + 1
LastId(n) == Width * n
PreviousId(n) == Width * (n - 1)

Frame == [n : Nat, conn : Nat, good : BOOLEAN]
NoFrame == [n |-> 0, conn |-> 0, good |-> FALSE]

----------------------------------------------------------------------------
(* DepthContinuity.  book is no field of the code: it is the set of changes *)
(* that the snapshot and the frames behind rel account for, which is the    *)
(* book that LocalBookReconstructor holds after the same calls.             *)

Continuity == [buf : Seq(Nat), rel : Nat, over : BOOLEAN, book : SUBSET Nat]
NewContinuity == [buf |-> << >>, rel |-> NoId, over |-> FALSE, book |-> {}]

Reliable(c) == c.rel # NoId

\* The frame does not continue the sequence that ends at rel.
IsGap(rel, n) == IF market = "spot" THEN FirstId(n) > rel + 1 ELSE PreviousId(n) # rel

\* _apply: a frame already covered changes nothing; a gap ends reliability
\* and leaves the frame as the first of the next buffer.
Apply(c, n) ==
  IF LastId(n) <= c.rel THEN c
  ELSE IF IsGap(c.rel, n) THEN [c EXCEPT !.rel = NoId, !.buf = <<n>>, !.book = {}]
  ELSE [c EXCEPT !.rel = LastId(n), !.book = @ \cup FirstId(n)..LastId(n)]

\* offer: live frames are applied, others buffered until the buffer is full.
Offer(c, n) ==
  IF Reliable(c) THEN Apply(c, n)
  ELSE IF c.over THEN c
  ELSE IF Len(c.buf) >= Capacity THEN [c EXCEPT !.buf = << >>, !.over = TRUE]
  ELSE [c EXCEPT !.buf = Append(@, n)]

Invalidate(c) == [c EXCEPT !.rel = NoId, !.buf = << >>, !.book = {}]

\* The change that the first frame to be applied on the snapshot must carry.
Target(id) == IF market = "spot" THEN id + 1 ELSE id

\* What is left of the buffer when changes before the snapshot are dropped.
Candidates(c, id) ==
  LET kept[i \in 0..Len(c.buf)] ==
        IF i = 0 THEN << >>
        ELSE IF LastId(c.buf[i]) >= Target(id) THEN Append(kept[i - 1], c.buf[i]) ELSE kept[i - 1]
  IN  kept[Len(c.buf)]

Covers(n, id) == FirstId(n) <= Target(id) /\ Target(id) <= LastId(n)

\* synchronize's loop over the candidates after the first: after a gap the
\* rest is only buffered.
Replay(c, n) == IF Reliable(c) THEN Apply(c, n) ELSE [c EXCEPT !.buf = Append(@, n)]

Bridged(id, cs) ==
  LET start == [buf |-> << >>, rel |-> LastId(cs[1]), over |-> FALSE,
                book |-> (1..id) \cup FirstId(cs[1])..LastId(cs[1])]
      done[i \in 1..Len(cs)] == IF i = 1 THEN start ELSE Replay(done[i - 1], cs[i])
  IN  done[Len(cs)]

\* synchronize: the continuity afterwards and the result.
Synchronize(c, id) ==
  LET cs == Candidates(c, id)
      b  == Bridged(id, cs)
  IN  IF cs = << >> THEN [c |-> [c EXCEPT !.buf = << >>], result |-> "NEED_MORE_EVENTS"]
      ELSE IF ~Covers(cs[1], id) THEN [c |-> c, result |-> "SNAPSHOT_TOO_OLD"]
      ELSE [c |-> b, result |-> IF Reliable(b) THEN "SYNCHRONIZED" ELSE "SEQUENCE_GAP"]

----------------------------------------------------------------------------
(* The depth_snapshot source of the poller.  A request is dropped when one  *)
(* is pending, the one on the wire included.                                *)

Poll == [st : {"idle", "due", "wire", "persist"}, lo : Nat, id : Nat]

Requested(p) == IF p.st = "idle" THEN [p EXCEPT !.st = "due"] ELSE p

----------------------------------------------------------------------------
Init ==
  /\ market \in Markets
  /\ exch = 1
  /\ conn = 0 /\ up = FALSE /\ queue = << >>
  /\ cont = NewContinuity
  /\ ready = [seen |-> FALSE, snapped |-> FALSE]
  /\ snap = NoId
  /\ poll = [st |-> "due", lo |-> NoId, id |-> NoId]   \* next_due starts at 0
  /\ newest = NoFrame /\ streak = 0 /\ faults = 0

Fault == faults < MaxFaults /\ faults' = faults + 1

(* The exchange sends the next frame: received, malformed on arrival, or   *)
(* lost (on an open connection by a fault, otherwise because nobody hears). *)
Send(good) ==
  /\ exch < MaxUpdates /\ up /\ Len(queue) < QueueCap
  /\ IF good THEN UNCHANGED faults ELSE Fault
  /\ exch' = exch + 1
  /\ queue' = Append(queue, [n |-> exch + 1, conn |-> conn, good |-> good])
  /\ UNCHANGED <<market, conn, up, capture, poll, streak>>

SendUnheard ==
  /\ exch < MaxUpdates
  /\ IF up THEN Fault ELSE UNCHANGED faults
  /\ exch' = exch + 1
  /\ UNCHANGED <<market, link, capture, poll, streak>>

----------------------------------------------------------------------------
(* The stream's lifecycle.  A connection opens after the frames of the one  *)
(* before it have been persisted: the writer drains before it seals.        *)

Connect ==
  /\ ~up /\ conn < MaxConns /\ queue = << >>
  /\ up' = TRUE /\ conn' = conn + 1
  /\ UNCHANGED <<exchange, queue, capture, poll, streak, faults>>

\* readiness.invalidate_depth: a new DepthContinuity.
InvalidateDepth ==
  /\ cont' = NewContinuity
  /\ ready' = [ready EXCEPT !.seen = FALSE, !.snapped = FALSE]

\* ProductCapture.lifecycle for every event that is not "connected".
Dropped ==
  /\ snap' = NoId
  /\ InvalidateDepth
  /\ poll' = Requested(poll)
  /\ streak' = 0
  /\ UNCHANGED <<exchange, conn, queue, newest, faults>>

Disconnect == up /\ up' = FALSE /\ Dropped

\* An attempt to connect fails: unexpected_disconnect, nothing was open.
ConnectFails == ~up /\ queue = << >> /\ UNCHANGED up /\ Dropped

\* A server_shutdown event was persisted: a snapshot is requested ahead of
\* the rotation it announces.
ServerShutdown ==
  /\ up
  /\ poll' = Requested(poll)
  /\ streak' = 0
  /\ UNCHANGED <<exchange, link, capture, faults>>

----------------------------------------------------------------------------
(* ProductCapture.persisted, called for every frame the writer has written. *)

\* observe_persisted: the continuity, the readiness flags and whether the
\* overflow observer (_reset_depth) ran.
Observed(f) ==
  LET c == Offer(cont, f.n)
  IN  IF ~f.good THEN [c |-> Invalidate(cont), r |-> ready, reset |-> FALSE]
      ELSE IF c.over THEN [c |-> NewContinuity, r |-> [seen |-> FALSE, snapped |-> FALSE],
                           reset |-> TRUE]
      ELSE [c |-> c, r |-> [ready EXCEPT !.seen = TRUE], reset |-> FALSE]

\* The mutant keeps a snapshot that turned out too old.
KeepsOldSnapshot(result) == result = "SEQUENCE_GAP"

\* A snapshot that cannot be bridged is given up, and a new one requested.
GivesUp(result) == result \in {"SNAPSHOT_TOO_OLD", "SEQUENCE_GAP"}

RequestIfNone(p, s) == IF s = NoId THEN Requested(p) ELSE p

Persisted ==
  /\ queue # << >>
  /\ LET f    == Head(queue)
         o    == Observed(f)
         have == IF o.reset THEN NoId ELSE snap
         asked == IF o.reset THEN Requested(poll) ELSE poll
         s    == Synchronize(o.c, have)
         left == IF GivesUp(s.result) THEN NoId ELSE have
     IN  /\ IF Reliable(o.c)
            THEN cont' = o.c /\ ready' = o.r /\ snap' = have /\ poll' = asked
            ELSE IF have = NoId
            THEN cont' = o.c /\ ready' = o.r /\ snap' = have /\ poll' = RequestIfNone(asked, have)
            ELSE /\ cont' = s.c
                 /\ ready' = [o.r EXCEPT !.snapped = TRUE]
                 /\ snap' = left
                 /\ poll' = RequestIfNone(asked, left)
         /\ newest' = f
         /\ streak' = IF ~f.good \/ o.reset \/ ~up \/ f.n # newest.n + 1 THEN 0
                      ELSE IF poll.st = "idle" /\ Len(queue) = 1 THEN streak + 1 ELSE streak
  /\ queue' = Tail(queue)
  /\ UNCHANGED <<exchange, conn, up, faults>>

----------------------------------------------------------------------------
(* poll_once of the depth_snapshot source, in the steps between its awaits. *)

\* The request goes out.
StartPoll ==
  /\ poll.st = "due"
  /\ poll' = [st |-> "wire", lo |-> LastId(exch), id |-> NoId]
  /\ UNCHANGED <<exchange, link, capture, streak, faults>>

\* The answer: the book after some change made since the request went out,
\* possibly a change that no frame has carried yet.
Answer ==
  /\ poll.st = "wire"
  /\ \E id \in poll.lo..(LastId(exch) + Width - 1) :
       poll' = [st |-> "persist", lo |-> NoId, id |-> id]
  /\ UNCHANGED <<exchange, link, capture, streak, faults>>

\* The request fails, or its answer is malformed: retried after a delay.
AnswerFails ==
  /\ poll.st = "wire" /\ Fault
  /\ poll' = [poll EXCEPT !.st = "due"]
  /\ UNCHANGED <<exchange, link, capture, streak>>

\* A source without a cadence is finished by a valid answer: next_due = inf.
Finished == [st |-> "idle", lo |-> NoId, id |-> NoId]

\* persist_rest has written the snapshot: snapshot_persisted, then the poll
\* ends, with no await between them.
SnapshotPersisted ==
  /\ poll.st = "persist"
  /\ snap' = poll.id
  /\ ready' = [ready EXCEPT !.snapped = TRUE]
  /\ cont' = Synchronize(cont, poll.id).c
  /\ poll' = Finished
  /\ UNCHANGED <<exchange, link, newest, streak, faults>>

----------------------------------------------------------------------------
Stream == \/ \E good \in BOOLEAN : Send(good)
          \/ SendUnheard \/ Connect \/ Disconnect \/ ConnectFails \/ ServerShutdown
Poller == StartPoll \/ Answer \/ AnswerFails \/ SnapshotPersisted
Next == Stream \/ Persisted \/ Poller

Spec == Init /\ [][Next]_vars

----------------------------------------------------------------------------
(* Properties *)

\* Every variable has its type, and the buffer never exceeds the capacity
\* of DepthContinuity.
TypeOK ==
  /\ market \in Markets /\ exch \in 1..MaxUpdates
  /\ conn \in 0..MaxConns /\ up \in BOOLEAN
  /\ queue \in Seq(Frame) /\ Len(queue) <= QueueCap
  /\ cont \in Continuity /\ Len(cont.buf) <= Capacity
  /\ ready \in [seen : BOOLEAN, snapped : BOOLEAN]
  /\ snap \in Nat /\ poll \in Poll
  /\ newest \in Frame /\ streak \in Nat /\ faults \in 0..MaxFaults

\* When the sequence is called reliable up to a change, the snapshot and the
\* frames persisted after it account for every change up to it and for none
\* after it: DepthContinuity never bridges a gap.
BookIsExact == Reliable(cont) => cont.book = 1..cont.rel

\* A reliable sequence ends at the frame that was persisted last: no frame,
\* malformed, buffered or dropped, is passed over while readiness stands.
BookIsCurrent == Reliable(cont) => newest.good /\ cont.rel = LastId(newest.n)

\* Between an unreliable sequence and its repair somebody always has the next
\* step: a snapshot waits for frames, or a request for one is pending.
SnapshotOwed == newest # NoFrame /\ ~Reliable(cont) => snap # NoId \/ poll.st # "idle"

\* Undisturbed capture recovers: after Patience good frames in a row, each
\* persisted when no request was pending and nothing else was waiting, the
\* sequence is reliable.
RecoversPromptly == streak >= Patience => Reliable(cont)

\* Reliability is claimed exactly when it is earned, and is earned again: the book is
\* the one of the exchange and of the frame persisted last, and while it is not,
\* somebody has the next step and a few good frames bring it back
\* (DepthContinuity, ProductCapture.persisted, poll_once).
DepthIsSound ==
  TypeOK /\ BookIsExact /\ BookIsCurrent /\ SnapshotOwed /\ RecoversPromptly

\* What ProductCapture.lifecycle promises of a disconnect ("Do not reuse a
\* pre-disconnect bridge or retain a reliable stale sequence"): while a
\* product is ready on an open connection that loses nothing, every frame
\* sent since the last persisted one has been received.  The code does not keep
\* it (DepthStaleReady.cfg).
ReadyIsNotStale ==
  up /\ ready.seen /\ ready.snapped /\ Reliable(cont) => newest.n + Len(queue) = exch
=============================================================================
