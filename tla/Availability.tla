---------------------------- MODULE Availability ----------------------------
(***************************************************************************)
(* The evidence of when each source was captured: the journal in memory    *)
(* (collector/availability.py), the monitor that observes every source     *)
(* once a second and the flush that moves transitions and the shared       *)
(* watermark to the Catalog (collector/coverage.py), and the rows the next *)
(* process starts from (storage/catalog/availability.py).                  *)
(*                                                                         *)
(* Callbacks and the monitor run between the awaits of the flush.  Instant *)
(* t stands for the time from t up to t + 1.                               *)
(***************************************************************************)
EXTENDS Integers, Sequences, FiniteSets, SequencesExt, FiniteSetsExt

CONSTANTS
    Sources,        \* monitored sources
    MaxTime,        \* bound on the wall clock
    BatchLimit,     \* entries of one flush transaction
    JournalCapacity,       \* bound of the journal's pending queue
    WatermarkEvery, \* least distance of two durable watermarks
    MonitorPatience,\* a longer silence of the monitor is MONITORING_UNKNOWN
    MaxEvents,      \* bound on callbacks and clock reversals
    MaxAvKills,     \* bound on kills and restarts
    Nothing         \* no time, no gap, no row

VARIABLES
    now,      \* the wall clock
    j,        \* AvailabilityJournal: mem, pending, ids, full (capacity exceeded)
    blocked,  \* a source has a blocker: disconnected, failed, stalled, late
    asleep,   \* SourceState.dormant
    mon,      \* last_monitor, unreliable (until), watermark (pending)
    fl,       \* the flush: where it is and what it holds
    proc,     \* run(): up, stopping, down; and why it will end
    previous, \* AvailabilityJournal.previous
    cat,      \* Catalog: rows, gaps, intervals, watermarks
    avHist,   \* down (instants known bad), twice (instants lived twice), events,
              \* kills
    selection \* number of the process, part of source_selection_id

avVars == <<now, j, blocked, asleep, mon, fl, proc, previous, cat, avHist, selection>>

\* The order in which a loop over all sources visits them.
Order == SetToSeq(Sources)

Idle == [pc |-> "idle", all |-> FALSE, batch |-> << >>, taken |-> 0,
         mark |-> Nothing, carried |-> Nothing, flushed |-> Nothing]

FreshJournal(ids) ==
    [mem |-> [s \in Sources |-> Nothing], pending |-> << >>, ids |-> ids, full |-> FALSE]

FreshMonitor == [last |-> Nothing, unreliable |-> 0, watermark |-> Nothing]

AvInit ==
    /\ now = 1 /\ j = FreshJournal(0)
    /\ blocked = [s \in Sources |-> FALSE] /\ asleep = [s \in Sources |-> FALSE]
    /\ mon = FreshMonitor
    /\ fl = Idle /\ proc = [run |-> "up", dying |-> "no"]
    /\ previous = [s \in Sources |-> Nothing] /\ selection = 1
    /\ cat = [row |-> [s \in Sources |-> Nothing], gaps |-> << >>,
              spans |-> << >>, marks |-> << >>]
    /\ avHist = [down |-> [s \in Sources |-> {}], twice |-> {}, events |-> 0,
                 kills |-> 0]

-----------------------------------------------------------------------------
(* AvailabilityJournal.  Every operation is a function from a journal to a *)
(* journal; `full` is the RuntimeError of a full queue, which skips what   *)
(* the callers would do next and keeps what they already did.              *)

\* One entry: the state, the gap or Nothing, the eligibility interval.
Entry(jn, s, gap, transition) ==
    LET st == jn.mem[s] IN
    [src |-> s, state |-> st, gap |-> gap, transition |-> transition,
     span |-> [id |-> st.span, src |-> s, start |-> st.eligible,
               end |-> IF st.dormant THEN st.seen ELSE Nothing]]

\* _pending_checkpoints: the entry a later checkpoint of s is merged into.
PendingCheckpoints(jn, s) ==
    {i \in 1..Len(jn.pending) :
        /\ jn.pending[i].src = s /\ ~jn.pending[i].transition
        /\ \A k \in (i + 1)..Len(jn.pending) :
              jn.pending[k].src = s => ~jn.pending[k].transition}

Emit(jn, s, gap, transition) ==
    LET e == Entry(jn, s, gap, transition)
        marked == [jn EXCEPT !.mem[s].checkpoint = jn.mem[s].seen]
    IN  IF ~transition /\ PendingCheckpoints(jn, s) # {}
        THEN [marked EXCEPT !.pending = [i \in DOMAIN jn.pending |->
                 IF i \in PendingCheckpoints(jn, s) THEN e ELSE jn.pending[i]]]
        ELSE IF Len(jn.pending) >= JournalCapacity THEN [jn EXCEPT !.full = TRUE]
        ELSE [marked EXCEPT !.pending = Append(jn.pending, e)]

GapOf(st, s, end) == [id |-> st.gap, src |-> s, start |-> st.since, end |-> end]

\* unavailable, of a source that is known.
Unavailable(jn, s, t, since) ==
    LET st == jn.mem[s]
        at == IF since = Nothing THEN t ELSE since
        fresh == st.gap = Nothing
        started == [st EXCEPT !.seen = t, !.since = at,
                              !.gap = IF fresh THEN jn.ids + 1 ELSE st.gap]
    IN  IF jn.full THEN jn
        ELSE IF st.since # Nothing THEN [jn EXCEPT !.mem[s].seen = t]
        ELSE Emit([jn EXCEPT !.mem[s] = started, !.ids = IF fresh THEN @ + 1 ELSE @],
                  s, GapOf(started, s, Nothing), TRUE)

\* ensure: a source met for the first time is unknown since the last durable
\* observation of an earlier process.
Ensure(jn, s, t) ==
    LET old == previous[s]
        renewed == old = Nothing \/ old.dormant
        st == [seen |-> t, since |-> Nothing, checkpoint |-> 0,
               gap |-> IF old = Nothing THEN Nothing ELSE old.gap,
               dormant |-> FALSE, selection |-> selection,
               span |-> IF renewed THEN jn.ids + 1 ELSE old.span,
               eligible |-> IF renewed THEN t ELSE old.eligible]
        since == IF old = Nothing THEN t ELSE IF old.since = Nothing THEN old.seen ELSE old.since
    IN  IF jn.full \/ jn.mem[s] # Nothing THEN jn
        ELSE Unavailable([jn EXCEPT !.mem[s] = st, !.ids = IF renewed THEN @ + 1 ELSE @],
                         s, t, since)

Suspend(jn, s, t) ==
    LET k == Ensure(jn, s, t)  st == k.mem[s] IN
    IF k.full \/ st.dormant THEN k
    ELSE Emit([k EXCEPT !.mem[s] = [st EXCEPT !.seen = t, !.since = Nothing,
                                              !.gap = Nothing, !.dormant = TRUE]],
              s, IF st.since = Nothing THEN Nothing ELSE GapOf(st, s, t), TRUE)

Resume(jn, s, t) ==
    LET k == Ensure(jn, s, t)  st == k.mem[s] IN
    IF k.full \/ ~st.dormant THEN k
    ELSE Unavailable([k EXCEPT !.mem[s] = [st EXCEPT !.dormant = FALSE, !.eligible = t,
                                                     !.span = k.ids + 1],
                               !.ids = @ + 1], s, t, Nothing)

\* failure: the gap, and a second transition with the error.
Failure(jn, s, t, since) ==
    LET k == Unavailable(Ensure(jn, s, t), s, t, since) IN
    IF k.full THEN k ELSE Emit(k, s, Nothing, TRUE)

Valid(jn, s, t, checkpoint) ==
    LET k == Ensure(jn, s, t)  st == k.mem[s] IN
    IF k.full THEN k
    ELSE IF st.since # Nothing
    THEN Emit([k EXCEPT !.mem[s] = [st EXCEPT !.seen = t, !.since = Nothing, !.gap = Nothing]],
              s, GapOf(st, s, t), TRUE)
    ELSE LET seen == [k EXCEPT !.mem[s].seen = t] IN
         IF checkpoint /\ t - st.checkpoint >= WatermarkEvery THEN Emit(seen, s, Nothing, FALSE)
         ELSE seen

-----------------------------------------------------------------------------
(* Callbacks: the WebSocket lifecycle, persisted frames and polls. *)

\* A callback that overflowed the queue ends its task, and run() finds out.
After(jn) ==
    /\ j' = [jn EXCEPT !.full = FALSE]
    /\ proc' = [proc EXCEPT !.dying = IF jn.full THEN "task" ELSE @]
    /\ avHist' = [avHist EXCEPT !.events = @ + 1]

\* The event loop runs something else only while the flush awaits.
Loop == fl.pc # "skip"

Callback(s) == Loop /\ proc.run \in {"up", "stopping"} /\ avHist.events < MaxEvents
               /\ mon.last # Nothing /\ proc.dying = "no"

\* A disconnect, a malformed frame, or a failed poll, which reports the time of
\* its attempt.
Fails(s) ==
    /\ Callback(s)
    /\ blocked' = [blocked EXCEPT ![s] = TRUE]
    /\ \E since \in {Nothing, now - 1} : After(Failure(j, s, now, since))
    /\ UNCHANGED <<now, asleep, mon, fl, previous, cat, selection>>

\* A poll succeeds; while the clock is unreliable it does not end a gap.
Succeeds(s) ==
    /\ Callback(s)
    /\ blocked' = [blocked EXCEPT ![s] = FALSE]
    /\ After(IF now >= mon.unreliable THEN Valid(j, s, now, TRUE) ELSE j)
    /\ UNCHANGED <<now, asleep, mon, fl, previous, cat, selection>>

\* A connection, a deadline, a stalled writer, the directory: only the monitor
\* tells the journal.
Drifts(s) ==
    /\ Callback(s) /\ proc.run = "up"
    /\ \/ blocked' = [blocked EXCEPT ![s] = ~@] /\ UNCHANGED asleep
       \/ asleep' = [asleep EXCEPT ![s] = ~@] /\ UNCHANGED blocked
    /\ avHist' = [avHist EXCEPT !.events = @ + 1]
    /\ UNCHANGED <<now, j, mon, fl, proc, previous, cat, selection>>

-----------------------------------------------------------------------------
(* The monitor. *)

\* _clock_unreliable_until, as this observation leaves it.
Unreliable == IF mon.last # Nothing /\ now < mon.last
              THEN Max({mon.unreliable, mon.last}) ELSE mon.unreliable

\* _observe_availability for one source.
Observe(jn, s) ==
    LET fresh == jn.mem[s] = Nothing
        skipped == asleep[s] /\ fresh /\ (previous[s] = Nothing \/ previous[s].dormant)
        awake == Resume(Ensure(jn, s, now), s, now)
        unsure == IF mon.last # Nothing /\ (now < mon.last \/ now - mon.last > MonitorPatience)
                  THEN Unavailable(awake, s, now, mon.last) ELSE awake
    IN  IF jn.full \/ skipped THEN jn
        ELSE IF asleep[s] THEN Suspend(jn, s, now)
        ELSE IF now < Unreliable THEN Unavailable(awake, s, now, Nothing)
        ELSE IF blocked[s] THEN Unavailable(unsure, s, now, Nothing)
        ELSE IF unsure.full THEN unsure
        ELSE Valid(unsure, s, now, FALSE)

Monitor ==
    /\ proc.run = "up" /\ proc.dying # "monitor"
    /\ Loop /\ mon.last # now
    /\ LET k == FoldLeft(Observe, j, Order) IN
       /\ mon' = [last |-> now,
                  unreliable |-> Unreliable,
                  watermark |-> IF k.full THEN mon.watermark ELSE now]
       /\ j' = [k EXCEPT !.full = FALSE]
       /\ proc' = [proc EXCEPT !.dying = IF k.full THEN "monitor" ELSE @]
    /\ UNCHANGED <<now, blocked, asleep, fl, previous, cat, avHist, selection>>

-----------------------------------------------------------------------------
(* The flush. *)

\* The watermark this flush may write.
DueMark(all) ==
    IF mon.watermark # Nothing
       /\ (all \/ fl.flushed = Nothing \/ mon.watermark - fl.flushed >= WatermarkEvery)
    THEN mon.watermark ELSE Nothing

\* Mutant: the watermark goes with the first batch.
MarkWithAnyBatch(f, q, n) == f.mark

\* The watermark goes with the batch that empties the queue q.
CarriedMark(f, q, n) == IF n = Len(q) THEN f.mark ELSE Nothing

JournalPersisted(batch) ==
    IF mon.watermark # Nothing THEN SelectSeq(batch, LAMBDA e : e.transition) ELSE batch

\* The flush f takes a batch of q; without anything to write there is no await.
Taken(f, q) ==
    LET n == Min({BatchLimit, Len(q)})
        batch == JournalPersisted(SubSeq(q, 1, n))
        idle == batch = << >> /\ CarriedMark(f, q, n) = Nothing
    IN  [f EXCEPT !.pc = IF idle THEN "skip" ELSE "commit", !.batch = batch,
                  !.taken = n, !.carried = CarriedMark(f, q, n)]

\* What may be certified when the loop has ended.
EndMark(f, q) == IF q = << >> THEN f.mark ELSE Nothing

Ended(f, q) ==
    IF EndMark(f, q) # Nothing THEN [f EXCEPT !.pc = "mark", !.carried = EndMark(f, q)]
    ELSE [f EXCEPT !.pc = IF f.all THEN "done" ELSE "idle", !.mark = Nothing]

\* _flush_availability up to its first await.
FlushBegin(all) ==
    /\ fl.pc = "idle"
    /\ proc.run = IF all THEN "stopping" ELSE "up"
    /\ j.pending # << >> \/ DueMark(all) # Nothing
    /\ LET f == [fl EXCEPT !.all = all, !.mark = DueMark(all)] IN
       fl' = IF j.pending = << >> THEN Ended(f, << >>) ELSE Taken(f, j.pending)
    /\ UNCHANGED <<now, j, blocked, asleep, mon, proc, previous, cat, avHist, selection>>

\* A function over identities, with the row of `x` added or its end replaced.
Upserted(rows, x) ==
    [i \in DOMAIN rows \cup {x.id} |->
        IF i # x.id THEN rows[i]
        ELSE IF i \in DOMAIN rows THEN [rows[i] EXCEPT !.end = x.end] ELSE x]

\* persist_source_availability: one transaction.
PersistEntry(c, e) ==
    [c EXCEPT !.row[e.src] = e.state,
              !.spans = Upserted(@, e.span),
              !.gaps = IF e.gap = Nothing THEN @ ELSE Upserted(@, e.gap)]

PersistSourceAvailability(c, batch, mark) ==
    LET rows == FoldLeft(PersistEntry, c, batch) IN
    IF mark = Nothing THEN rows
    ELSE [rows EXCEPT !.marks = [i \in DOMAIN @ \cup {selection} |->
                                     IF i = selection THEN mark ELSE @[i]]]

\* The transaction commits and the batch is acknowledged: what runs between the
\* two reads neither.  A bounded flush may stop here, by its count of batches or
\* its deadline.
FlushCommit ==
    /\ fl.pc \in {"commit", "skip"}
    /\ cat' = PersistSourceAvailability(cat, fl.batch, fl.carried)
    /\ LET q == SubSeq(j.pending, fl.taken + 1, Len(j.pending))
           f == [fl EXCEPT !.batch = << >>, !.taken = 0, !.carried = Nothing,
                           !.mark = IF fl.carried = Nothing THEN @ ELSE Nothing,
                           !.flushed = IF fl.carried = Nothing THEN @ ELSE fl.carried]
       IN  /\ j' = [j EXCEPT !.pending = q]
           /\ \/ q # << >> /\ fl' = Taken(f, q)
              \/ (q = << >> \/ ~fl.all) /\ fl' = Ended(f, q)
    /\ UNCHANGED <<now, blocked, asleep, mon, proc, previous, avHist, selection>>

FlushMark ==
    /\ fl.pc = "mark"
    /\ cat' = PersistSourceAvailability(cat, << >>, fl.carried)
    /\ fl' = [Idle EXCEPT !.pc = IF fl.all THEN "done" ELSE "idle", !.flushed = fl.carried]
    /\ UNCHANGED <<now, j, blocked, asleep, mon, proc, previous, avHist, selection>>

-----------------------------------------------------------------------------
(* The end of run(), a kill, and the next process. *)

\* The finally block up to its flush: the monitor is cancelled and every
\* source that is not dormant is marked.
StopRun ==
    /\ proc.run = "up" /\ fl.pc = "idle" /\ (proc.dying # "no" \/ avHist.kills < MaxAvKills)
    /\ LET mark(jn, s) == IF asleep[s] THEN jn
                          ELSE Unavailable(Ensure(jn, s, now), s, now, Nothing)
           k == FoldLeft(mark, j, Order)
       IN  j' = [k EXCEPT !.full = FALSE]
    /\ proc' = [proc EXCEPT !.run = "stopping"]
    /\ UNCHANGED <<now, blocked, asleep, mon, fl, previous, cat, avHist, selection>>

\* The process is gone: after the last flush, or killed.
Gone ==
    /\ Loop /\ proc.run # "down"
    /\ \/ /\ proc.run = "stopping"
          /\ \/ fl.pc = "done"
             \/ fl.pc = "idle" /\ j.pending = << >> /\ DueMark(TRUE) = Nothing
          /\ UNCHANGED avHist
       \/ avHist.kills < MaxAvKills /\ avHist' = [avHist EXCEPT !.kills = @ + 1]
    /\ proc' = [run |-> "down", dying |-> "no"]
    /\ j' = FreshJournal(j.ids) /\ fl' = Idle /\ mon' = FreshMonitor
    /\ UNCHANGED <<now, blocked, asleep, previous, cat, selection>>

\* Catalog.source_availability: a healthy row was observed up to the watermark
\* of its selection.
SourceAvailability(s) ==
    LET r == cat.row[s] IN
    IF r # Nothing /\ r.since = Nothing /\ ~r.dormant /\ r.selection \in DOMAIN cat.marks
    THEN [r EXCEPT !.seen = Max({r.seen, cat.marks[r.selection]})]
    ELSE r

LoadedRow(s) == SourceAvailability(s)

Restart ==
    /\ proc.run = "down" /\ selection <= MaxAvKills
    /\ previous' = [s \in Sources |-> LoadedRow(s)]
    /\ selection' = selection + 1
    /\ proc' = [run |-> "up", dying |-> "no"]
    /\ UNCHANGED <<now, j, blocked, asleep, mon, fl, cat, avHist>>

-----------------------------------------------------------------------------
(* The wall clock. *)

\* Instant `now` is over: a source was bad in it if the journal says so, or if
\* no process was there to look.
KnownDown(s) ==
    \/ proc.run = "down" /\ ~asleep[s]
    \/ j.mem[s] # Nothing /\ j.mem[s].since # Nothing

Tick ==
    /\ Loop /\ now < MaxTime
    /\ now' = now + 1
    /\ avHist' = [avHist EXCEPT !.down =
           [s \in Sources |-> IF KnownDown(s) THEN @[s] \cup {now} ELSE @[s]]]
    /\ UNCHANGED <<j, blocked, asleep, mon, fl, proc, previous, cat, selection>>

\* The clock is set back (NTP, an operator).
ClockBack ==
    /\ Loop /\ avHist.events < MaxEvents
    /\ \E t \in 1..(now - 1) :
          /\ now' = t
          /\ avHist' = [avHist EXCEPT !.events = @ + 1, !.twice = @ \cup t..now]
    /\ UNCHANGED <<j, blocked, asleep, mon, fl, proc, previous, cat, selection>>

AvNext ==
    \/ \E s \in Sources : Fails(s) \/ Succeeds(s) \/ Drifts(s)
    \/ Monitor
    \/ \E all \in BOOLEAN : FlushBegin(all)
    \/ FlushCommit \/ FlushMark
    \/ StopRun \/ Gone \/ Restart \/ Tick \/ ClockBack

AvSpec == AvInit /\ [][AvNext]_avVars

-----------------------------------------------------------------------------
(* Properties. *)

\* source_eligibility_intervals, source_availability_intervals: the rows of s.
EligibilityIntervals(s) == {cat.spans[i] : i \in {k \in DOMAIN cat.spans : cat.spans[k].src = s}}

AvailabilityIntervals(s) == {cat.gaps[i] : i \in {k \in DOMAIN cat.gaps : cat.gaps[k].src = s}}

\* What a reader of the Catalog takes as captured: instant t lies in an
\* eligibility interval, before the last observation, and in no gap.
Certified(s, t) ==
    /\ cat.row[s] # Nothing
    /\ \E x \in EligibilityIntervals(s) :
          x.start <= t /\ t < IF x.end = Nothing THEN SourceAvailability(s).seen ELSE x.end
    /\ \A g \in AvailabilityIntervals(s) : t < g.start \/ (g.end # Nothing /\ t >= g.end)

\* The Catalog never certifies an instant in which the journal knew the source
\* to be unavailable, or in which no process ran, whatever part of the flush a
\* kill leaves behind (_flush_availability: `Never certify their monitoring time
\* until those transitions have committed').  Instants the clock passed twice are
\* outside it.
CertifiesOnlyCommitted ==
    \A s \in Sources : \A t \in avHist.down[s] \ avHist.twice : ~Certified(s, t)

\* The Catalog has at most one open gap of a source, and has one exactly when
\* the source's row says unavailable: a restart continues the right gap.
OneOpenGap ==
    \A s \in Sources :
        {g.id : g \in {x \in AvailabilityIntervals(s) : x.end = Nothing}} =
            IF cat.row[s] = Nothing \/ cat.row[s].since = Nothing THEN {}
            ELSE {cat.row[s].gap}

\* The journal in the Catalog is true: it certifies only time that was
\* monitored (CertifiesOnlyCommitted), and its open gaps are the ones that a
\* restart must continue (OneOpenGap).
JournalIsTrue == CertifiesOnlyCommitted /\ OneOpenGap
=============================================================================
