-------------------------- MODULE Evidence_proofs --------------------------
(***************************************************************************)
(* Proofs about evidence.  Reconnect: the gap evidence of a stream whose   *)
(* frames are all kept is sound through every interleaving of receiver,    *)
(* writer and run(), every kill and every start.  V5Acceptance: the        *)
(* cursors with which an acceptance stage follows the Catalog stand for    *)
(* exactly the rows behind them, through every kill and resumption, and a  *)
(* stage is published as eligible only if it was a good one.               *)
(***************************************************************************)
EXTENDS Reconnect, V5Acceptance, FiniteSetTheorems, SequenceTheorems, NaturalsInduction,
        WellFoundedInduction, TLAPS

-----------------------------------------------------------------------------
(* Gap evidence.  The inductive invariant of module Reconnect. *)

\* Every frame that the exchange sends on the stream is written to Raw.
AllKept == Kinds = {"kept"}

InRaw(c) == \E i \in 1..Len(raw) : raw[i].conn = c
Known == started \cup {intents[i].id : i \in 1..Len(intents)}
OfConn(r) == r.conn = conn /\ r.kind = "kept"

Connected == {"receiving", "handoff"}
Idle == {"down", "connecting"} \cup Connected

\* The pipe from the socket to Raw holds frames of the current connection only
\* and is empty between connections.
PipeOK ==
    /\ \A i \in 1..Len(queue) : OfConn(queue[i])
    /\ \A i \in 1..Len(batch) : OfConn(batch[i])
    /\ batch = << >> <=> wpc \in {"idle", "closed"}
    /\ wpc = "closed" => queue = << >> /\ pc \in {"draining", "late", "latestarted"}
    /\ pc \in {"late", "latestarted"} => wpc = "closed"
    /\ pc \in {"down", "connecting"} => queue = << >> /\ wpc = "idle"
    /\ pc = "receiving" /\ ~receipts => queue = << >> /\ wpc = "idle" /\ ~InRaw(conn)
    /\ wpc \in {"observing", "completed"} => InRaw(conn)
    /\ hand = IF pc = "handoff" THEN << [conn |-> conn, kind |-> "kept", mark |-> TRUE] >>
              ELSE << >>

\* run() has an intent exactly while it deals with a boundary, and commits STARTED
\* only when no gap is pending.
PhaseOK ==
    /\ pc \in Idle => intent = None /\ ~just /\ fatal = "none"
    /\ pc \in {"starting", "started", "late", "latestarted"} =>
          intent # None /\ ~just /\ pending = None /\ fatal # "started"
    /\ pc \in {"started", "latestarted"} => intent \in started

\* The Catalog knows no gap of a later connection, nor of the current one before
\* its boundary, and one unfinished gap at most.
KnownOK ==
    /\ completed \subseteq started
    /\ \A g \in Known : g.conn <= conn
    /\ pc \in Connected => \A g \in Known : g.conn < conn
    /\ \A g, h \in Unfinished : g = h

\* The pending gap in memory is the unfinished one in the Catalog; it is of an
\* earlier connection while frames are received.
PendingOK ==
    pc # "down" =>
    /\ flag <=> pending # None
    /\ wpc = "completed" => enq
    /\ pending # None =>
          /\ pending \in started /\ (pending \in completed <=> wpc = "completed")
          /\ Unfinished \subseteq {pending}
          /\ pc \in Connected => pending.conn < conn
    /\ pending = None /\ intent = None => Unfinished = {}

\* An intent extends the pending gap, or opens one for the current connection: at
\* once, or once the drain has completed the pending one.
IntentOK ==
    intent # None =>
    \/ intent = pending /\ pc = "draining" /\ ~enq /\ (just <=> intent.conn = conn)
    \/ /\ intent.conn = conn /\ intent \notin completed /\ ~just
       /\ \/ pending = None /\ Unfinished \subseteq {intent}
          \/ pending # None /\ pc = "draining" /\ enq /\ intent \notin Known

\* A marker that was enqueued after a gap is on its way, and is the first frame of
\* its connection; without a marker nothing was received.
MarkOK ==
    pc # "down" =>
    /\ enq => pending # None /\ pending.conn < conn /\ pc # "connecting"
    /\ enq /\ ~InRaw(conn) => /\ wpc = "idle" => queue # << >> /\ queue[1].mark
                              /\ wpc = "persisting" => batch[1].mark
    /\ enq => \/ wpc = "completed"
              \/ \E i \in 1..Len(batch) : batch[i].mark
              \/ \E i \in 1..Len(queue) : queue[i].mark
    /\ enq => \A i \in 1..Len(raw) : raw[i].conn = conn => raw[i].mark
    /\ ~enq /\ pending # None /\ pending.conn < conn =>
          /\ queue = << >> /\ batch = << >>
          /\ pc \in Connected \/ intent # None => ~InRaw(conn)

\* Raw never has a frame of a later connection or life; when its last frame is of
\* this life and of an earlier connection, that connection's gap is pending.
RawOK ==
    /\ \A i \in 1..Len(raw) :
          raw[i].conn <= raw[Len(raw)].conn /\ raw[i].conn <= conn /\ raw[i].life <= life
    /\ LET last == raw[Len(raw)] IN
       pc # "down" /\ raw # << >> /\ last.life = life /\ (pc = "connecting" \/ last.conn < conn)
           => pending # None /\ pending.conn = last.conn

\* A boundary without the forced flag has a marked frame at the end of the pipe, or
\* a chunk that is marked or yet to be created.
TailOK ==
    intent # None /\ wpc # "closed" /\ ~forced =>
        \/ queue # << >> /\ queue[Len(queue)].mark
        \/ queue = << >> /\ wpc = "persisting" /\ \E i \in 1..Len(batch) : batch[i].mark
        \/ queue = << >> /\ wpc # "persisting" /\ chunk # "plain"

HistoryOK == RawOK /\ NoSilentSwitch /\ CompletedHasMarker
SealOK == TailOK /\ BoundaryIsVisible
ReconnectInv ==
    /\ TypeOK /\ PipeOK /\ PhaseOK
    /\ KnownOK /\ PendingOK /\ IntentOK /\ MarkOK
    /\ HistoryOK /\ SealOK

-----------------------------------------------------------------------------
(* Elements of the typed sequences. *)

LEMMA IntentTypes ==
    ASSUME TypeOK
    PROVE  /\ Len(intents) \in Nat
           /\ \A i \in 1..Len(intents) :
                 intents[i] \in Intent /\ intents[i].id \in GapId /\ intents[i].id # None
<1>1. intents \in Seq(Intent)
    BY DEF TypeOK
<1>2. Len(intents) \in Nat
    BY <1>1
<1>3. \A i \in 1..Len(intents) : intents[i] \in Intent
    BY <1>1
<1>4. \A x \in Intent : x.id \in GapId /\ x.id # None
    BY NoneAssumption DEF Intent
<1> QED
    BY <1>2, <1>3, <1>4

LEMMA KnownTypes ==
    ASSUME TypeOK
    PROVE  \A g \in Known : g \in GapId /\ g # None /\ g.conn \in Nat
<1>1. started \subseteq GapId
    BY DEF TypeOK
<1>2. Known \subseteq GapId
    BY <1>1, IntentTypes DEF Known
<1> QED
    BY <1>2, NoneAssumption DEF GapId

LEMMA RawTypes ==
    ASSUME TypeOK
    PROVE  /\ Len(raw) \in Nat /\ conn \in Nat /\ life \in Nat
           /\ raw # << >> => Len(raw) \in 1..Len(raw)
           /\ \A i \in 1..Len(raw) : raw[i].conn \in Nat /\ raw[i].life \in Nat
<1>1. raw \in Seq(RawFrame)
    BY DEF TypeOK
<1>2. conn \in Nat /\ life \in Nat
    BY BoundsAssumption DEF TypeOK
<1>3. \A i \in 1..Len(raw) : raw[i] \in RawFrame
    BY <1>1
<1>4. \A f \in RawFrame : f.conn \in Nat /\ f.life \in Nat
    BY DEF RawFrame
<1> QED
    BY <1>1, <1>2, <1>3, <1>4

-----------------------------------------------------------------------------
(* What a start decides from the evidence. *)

\* The gaps that are open after the first n intents.
OpenAfter(n) == (started \cup {intents[i].id : i \in 1..n}) \ completed

IsWalk(d) ==
    d = [n \in 0..Len(intents) |->
            IF n = 0 THEN started \ completed
            ELSE IF d[n - 1] = {None} THEN {None} ELSE Decide(d[n - 1], intents[n])]

\* One unfinished gap at most makes every decision the plain one.
LEMMA DecidePlainly ==
    ASSUME TypeOK, KnownOK, NEW n \in 1..Len(intents)
    PROVE  /\ OpenAfter(n - 1) # {None}
           /\ Decide(OpenAfter(n - 1), intents[n]) = OpenAfter(n)
<1> DEFINE g == intents[n].id
           open == OpenAfter(n - 1)
<1>1. Len(intents) \in Nat /\ intents[n] \in Intent /\ g \in GapId
    BY IntentTypes
<1>2. OpenAfter(n) = open \cup ({g} \ completed)
    <2>1. {intents[i].id : i \in 1..n} = {intents[i].id : i \in 1..(n - 1)} \cup {g}
        <3>1. 1..n = 1..(n - 1) \cup {n}
            BY <1>1
        <3> QED
            BY <3>1
    <2> QED
        BY <2>1 DEF OpenAfter
<1>3. /\ open \subseteq Unfinished
      /\ g \in Unfinished \/ g \in completed
    <2>1. 1..(n - 1) \subseteq 1..Len(intents)
        BY <1>1
    <2> QED
        BY <2>1 DEF OpenAfter, Unfinished
<1>4. open \subseteq GapId
    <2>1. \A i \in 1..(n - 1) : intents[i].id \in GapId
        BY <1>1, IntentTypes
    <2> QED
        BY <2>1 DEF TypeOK, OpenAfter
<1>5. \A h \in open : g \notin completed => h = g
    BY <1>3 DEF KnownOK
<1>6. open # {None}
    BY <1>4, NoneAssumption
<1>7. Decide(open, intents[n]) = open \cup ({g} \ completed)
    <2>1. CASE g \in completed
        BY <2>1 DEF Decide
    <2>2. CASE g \notin completed /\ open = {}
        BY <2>2 DEF Decide
    <2>3. CASE g \notin completed /\ open # {}
        <3>1. open = {g}
            BY <1>5, <2>3
        <3> QED
            BY <3>1, <2>3 DEF Decide
    <2> QED
        BY <2>1, <2>2, <2>3
<1> QED
    BY <1>2, <1>6, <1>7

\* So a start decides what is unfinished, by the first n at which it would not.
LEMMA DecisionsAreUnfinished ==
    ASSUME TypeOK, KnownOK
    PROVE  Decisions = Unfinished
<1> DEFINE N == Len(intents)
           plain == [n \in 0..N |-> OpenAfter(n)]
           d == CHOOSE f : IsWalk(f)
<1>1. N \in Nat
    BY DEF TypeOK
<1>2. OpenAfter(0) = started \ completed
    <2>1. 1..0 = {}
        OBVIOUS
    <2> QED
        BY <2>1 DEF OpenAfter
<1>3. IsWalk(plain)
    <2>1. ASSUME NEW n \in 0..N
          PROVE  plain[n] = IF n = 0 THEN started \ completed
                            ELSE IF plain[n - 1] = {None} THEN {None}
                                 ELSE Decide(plain[n - 1], intents[n])
        <3>1. CASE n = 0
            BY <1>1, <1>2, <3>1
        <3>2. CASE n # 0
            <4>1. n \in 1..N /\ n - 1 \in 0..N
                BY <1>1, <3>2
            <4> QED
                BY <3>2, <4>1, DecidePlainly
        <3> QED
            BY <3>1, <3>2
    <2> QED
        BY <2>1 DEF IsWalk
<1>4. IsWalk(d)
    BY <1>3
<1>5. Decisions = d[N]
    BY DEF Decisions, IsWalk
<1>6. \A n \in 0..N : d[n] = OpenAfter(n)
    <2> DEFINE Off == {n \in Nat : n \in 0..N /\ d[n] # OpenAfter(n)}
    <2>1. SUFFICES ASSUME Off # {} PROVE FALSE
        <3>1. 0..N \subseteq Nat
            BY <1>1
        <3> QED
            BY <3>1
    <2>2. PICK n \in Off : \A k \in Off : ~(<<k, n>> \in OpToRel(<, Nat))
        BY <2>1, NatLessThanWellFounded, WFMin
    <2>3. \A k \in Off : n <= k
        <3> SUFFICES ASSUME NEW k \in Off PROVE n <= k
            OBVIOUS
        <3>1. <<k, n>> \in Nat \X Nat /\ ~(<<k, n>>[1] < <<k, n>>[2])
            BY <2>2 DEF OpToRel
        <3> QED
            BY <3>1
    <2>4. d[n] = IF n = 0 THEN started \ completed
                 ELSE IF d[n - 1] = {None} THEN {None} ELSE Decide(d[n - 1], intents[n])
        BY <1>4 DEF IsWalk
    <2>5. n # 0
        BY <1>2, <2>4
    <2>6. n \in 1..N /\ n - 1 \in 0..N /\ n - 1 \in Nat
        BY <1>1, <2>5
    <2>7. d[n - 1] = OpenAfter(n - 1)
        BY <2>3, <2>6
    <2> QED
        BY <2>4, <2>5, <2>6, <2>7, DecidePlainly
<1>7. OpenAfter(N) = Unfinished
    BY DEF OpenAfter, Unfinished
<1> QED
    BY <1>1, <1>5, <1>6, <1>7
-----------------------------------------------------------------------------
(* What actions write. *)

\* An intent names the pending gap or a new one of this connection.
LEMMA IntentIsBuilt ==
    ASSUME TypeOK, NEW marked \in BOOLEAN
    PROVE  /\ BuildSealIntent(marked) \in GapId /\ BuildSealIntent(marked) # None
           /\ BuildSealIntent(marked) = pending \/ BuildSealIntent(marked).conn = conn
<1>1. [gap |-> conn, conn |-> conn, gen |-> gen] \in GapId
    BY BoundsAssumption DEF TypeOK, GapId
<1>2. pending # None => pending \in GapId
    BY DEF TypeOK
<1> QED
    BY <1>1, <1>2, NoneAssumption DEF BuildSealIntent

\* The first frame of a batch is kept when all are.
LEMMA WrittenPlainly ==
    ASSUME TypeOK, PipeOK, batch # << >>
    PROVE  Written(batch) =
               IF InRaw(conn) THEN raw
               ELSE Append(raw, [life |-> life, conn |-> conn, mark |-> batch[1].mark])
<1>1. Len(batch) \in Nat /\ Len(batch) > 0
    BY DEF TypeOK
<1>2. Kept(batch) = 1..Len(batch)
    BY DEF Kept, PipeOK, OfConn
<1>3. Min(1..Len(batch)) = 1
    BY <1>1 DEF Min
<1>4. batch[1].conn = conn
    BY <1>1 DEF PipeOK, OfConn
<1> QED
    BY <1>1, <1>2, <1>3, <1>4 DEF Written, InRaw

\* What a batch that is persisted, or killed after it, does to Raw.
LEMMA RawIsWritten ==
    ASSUME ReconnectInv, wpc = "persisting", raw' = Written(batch),
           UNCHANGED <<conn, life, started, completed>>
    PROVE  /\ raw' \in Seq(RawFrame)
           /\ raw' # << >> /\ raw'[Len(raw')].conn = conn
           /\ \A i \in 1..Len(raw') :
                 /\ raw'[i].conn <= raw'[Len(raw')].conn
                 /\ raw'[i].conn <= conn /\ raw'[i].life <= life
                 /\ \/ i \in 1..Len(raw) /\ raw'[i] = raw[i]
                    \/ ~InRaw(conn) /\ raw'[i].mark = batch[1].mark
           /\ NoSilentSwitch' /\ CompletedHasMarker'
<1>1. TypeOK /\ PipeOK /\ RawOK /\ batch # << >> /\ pc \notin {"down", "connecting"}
    BY DEF ReconnectInv, HistoryOK, PipeOK
<1>2. NoSilentSwitch /\ CompletedHasMarker
    BY DEF ReconnectInv, HistoryOK
<1>3. CASE InRaw(conn)
    <2>1. raw' = raw
        BY <1>1, <1>3, WrittenPlainly
    <2>2. PICK i \in 1..Len(raw) : raw[i].conn = conn
        BY <1>3 DEF InRaw
    <2>3. raw # << >> /\ raw[Len(raw)].conn = conn
        BY <1>1, <2>2, RawTypes DEF RawOK
    <2>4. raw \in Seq(RawFrame)
        BY <1>1 DEF TypeOK
    <2>5. NoSilentSwitch' /\ CompletedHasMarker'
        BY <1>2, <2>1 DEF NoSilentSwitch, CompletedHasMarker
    <2> QED
        BY <1>1, <2>1, <2>3, <2>4, <2>5 DEF RawOK
<1>4. CASE ~InRaw(conn)
    <2> DEFINE N == Len(raw)
               new == [life |-> life, conn |-> conn, mark |-> batch[1].mark]
    <2>1. raw' = Append(raw, new)
        BY <1>1, <1>4, WrittenPlainly
    <2>2. batch[1].mark \in BOOLEAN /\ batch[1].conn = conn
        <3>1. batch \in Seq(Receipt) /\ 1 \in 1..Len(batch)
            BY <1>1 DEF TypeOK
        <3>2. batch[1] \in Receipt
            BY <3>1
        <3> QED
            BY <1>1, <3>1, <3>2 DEF Receipt, PipeOK, OfConn
    <2>3. raw \in Seq(RawFrame) /\ N \in Nat
        BY <1>1 DEF TypeOK
    <2>4. new \in RawFrame
        BY <1>1, <2>2, RawTypes DEF RawFrame
    <2>5. /\ raw' \in Seq(RawFrame)
          /\ Len(raw') = N + 1 /\ raw'[N + 1] = new
          /\ \A i \in 1..N : raw'[i] = raw[i]
        BY <2>1, <2>3, <2>4
    <2>6. \A i \in 1..N : raw[i].conn < conn /\ raw[i].life <= life
        BY <1>1, <1>4, RawTypes DEF RawOK, InRaw
    <2>7. ASSUME N # 0, raw[N].life = life
          PROVE  batch[1].mark /\ \E g \in started : g.conn = raw[N].conn
        <3>1. N \in 1..N /\ raw # << >> /\ raw[N].conn < conn
            BY <2>3, <2>6, <2>7
        <3>2. pending # None /\ pending.conn = raw[N].conn
            BY <1>1, <2>7, <3>1 DEF RawOK
        <3>3. pending \in started /\ enq
            BY <1>1, <3>1, <3>2 DEF ReconnectInv, PendingOK, MarkOK
        <3> QED
            BY <1>1, <1>4, <3>2, <3>3 DEF ReconnectInv, MarkOK
    <2>8. NoSilentSwitch'
        <3> SUFFICES ASSUME NEW i \in 2..Len(raw'), raw'[i].life = raw'[i - 1].life
                     PROVE  raw'[i].mark /\ \E g \in started : g.conn = raw'[i - 1].conn
            BY DEF NoSilentSwitch
        <3>1. CASE i = N + 1
            <4>1. N # 0 /\ N \in 1..N /\ i - 1 = N
                BY <2>3, <2>5, <3>1
            <4> QED
                BY <2>5, <2>7, <3>1, <4>1
        <3>2. CASE i # N + 1
            <4>1. i \in 2..N /\ i \in 1..N /\ i - 1 \in 1..N
                BY <2>3, <2>5, <3>2
            <4> QED
                BY <1>2, <2>5, <4>1 DEF NoSilentSwitch
        <3> QED
            BY <3>1, <3>2
    <2>9. CompletedHasMarker'
        <3>1. \A i \in 1..N : i \in 1..Len(raw')
            BY <2>3, <2>5
        <3> QED
            BY <1>2, <2>5, <3>1 DEF CompletedHasMarker
    <2>10. \A i \in 1..Len(raw') : i \in 1..N \/ i = N + 1
        BY <2>3, <2>5
    <2>11. raw' # << >> /\ raw'[Len(raw')].conn = conn
        BY <2>3, <2>5
    <2>12. \A i \in 1..Len(raw') :
              /\ raw'[i].conn <= conn /\ raw'[i].life <= life
              /\ \/ i \in 1..N /\ raw'[i] = raw[i]
                 \/ ~InRaw(conn) /\ raw'[i].mark = batch[1].mark
        BY <1>1, <1>4, <2>5, <2>6, <2>10, RawTypes
    <2> QED
        BY <2>5, <2>8, <2>9, <2>11, <2>12
<1> QED
    BY <1>3, <1>4

\* A batch is the beginning of the queue.
LEMMA BatchIsTaken ==
    ASSUME TypeOK, NEW n \in 1..QueueCap, Take(n)
    PROVE  /\ Len(queue) \in Nat /\ n \in 1..Len(queue)
           /\ queue' \in Seq(Receipt) /\ batch' \in Seq(Receipt)
           /\ Len(batch') = n /\ Len(queue') = Len(queue) - n
           /\ \A i \in 1..n : batch'[i] = queue[i]
           /\ \A i \in 1..Len(queue') : queue'[i] = queue[n + i]
<1>1. queue \in Seq(Receipt) /\ n \in 1..Len(queue)
    BY DEF TypeOK, Take
<1>2. batch' = SubSeq(queue, 1, n) /\ queue' = SubSeq(queue, n + 1, Len(queue))
    BY DEF Take
<1> QED
    BY <1>1, <1>2
\* Sealing makes the intent known.
LEMMA SealedIsKnown ==
    ASSUME TypeOK, CloseAndSeal
    PROVE  /\ Known' = Known \cup ({intent} \ {None})
           /\ Unfinished' = Unfinished \cup (({intent} \ {None}) \ completed)
<1>1. CASE intent = None
    BY <1>1 DEF CloseAndSeal, Known, Unfinished, events
<1>2. CASE intent # None
    <2> DEFINE i == [id |-> intent, frames |-> chunk # "absent",
                     flagged |-> forced \/ chunk # "plain"]
               N == Len(intents)
    <2>1. N \in Nat /\ intents' = Append(intents, i) /\ UNCHANGED <<started, completed>>
        BY <1>2, IntentTypes DEF CloseAndSeal, events
    <2>2. /\ Len(intents') = N + 1 /\ intents'[N + 1].id = intent
          /\ \A j \in 1..N : intents'[j] = intents[j]
        <3>1. intents \in Seq(Intent)
            BY DEF TypeOK
        <3> QED
            BY <2>1, <3>1
    <2>3. {intents'[j].id : j \in 1..(N + 1)} = {intents[j].id : j \in 1..N} \cup {intent}
        <3>1. 1..(N + 1) = 1..N \cup {N + 1}
            BY <2>1
        <3> QED
            BY <2>2, <3>1
    <2> QED
        BY <1>2, <2>1, <2>2, <2>3 DEF Known, Unfinished
<1> QED
    BY <1>1, <1>2

\* When the writer seals, every marker has closed its gap.
LEMMA NoMarkerLeft ==
    ASSUME ReconnectInv, CloseAndSeal
    PROVE  ~enq
<1>1. PipeOK /\ MarkOK /\ pc = "draining" /\ wpc = "idle" /\ queue = << >>
    BY DEF ReconnectInv, CloseAndSeal
<1>2. (\A i \in 1..Len(batch) : FALSE) /\ (\A i \in 1..Len(queue) : FALSE)
    BY <1>1 DEF PipeOK
<1> QED
    BY <1>1, <1>2 DEF MarkOK

\* When the writer seals, no other gap is open than the intent's.
LEMMA ClosingIntent ==
    ASSUME ReconnectInv, CloseAndSeal, intent # None
    PROVE  /\ intent = pending \/ pending = None
           /\ \A g \in Unfinished : g = intent
           /\ intent.conn <= conn
<1>1. TypeOK /\ PipeOK /\ KnownOK /\ PendingOK /\ IntentOK /\ MarkOK
    BY DEF ReconnectInv
<1>2. pc = "draining" /\ wpc = "idle" /\ queue = << >> /\ batch = << >>
    BY <1>1 DEF CloseAndSeal, PipeOK
<1>3. ~enq
    BY NoMarkerLeft
<1>4. CASE intent = pending
    BY <1>1, <1>2, <1>4 DEF PendingOK, KnownOK, Known
<1>5. CASE intent # pending
    <2>1. intent.conn = conn /\ pending = None /\ Unfinished \subseteq {intent}
        BY <1>1, <1>3, <1>5 DEF IntentOK
    <2>2. conn <= conn
        BY <1>1, RawTypes
    <2> QED
        BY <2>1, <2>2
<1> QED
    BY <1>4, <1>5

-----------------------------------------------------------------------------
(* Steps: the receiver. *)

LEMMA ConnectKeeps ==
    ASSUME ReconnectInv, Connect
    PROVE  ReconnectInv'
<1> USE DEF ReconnectInv, HistoryOK, SealOK, Connect, gapvars, boundary, writer, events
<1>1. TypeOK'
    <2>1. conn + 1 \in 0..MaxConns
        BY BoundsAssumption DEF TypeOK
    <2> QED
        BY <2>1 DEF TypeOK
<1>2. PipeOK'
    BY DEF PipeOK, OfConn, InRaw, TypeOK, RawOK
<1>3. PhaseOK'
    BY DEF PhaseOK, Idle
<1>4. KnownOK'
    <2>1. Known' = Known /\ Unfinished' = Unfinished
        BY DEF Known, Unfinished
    <2>2. \A g \in Known : g.conn < conn + 1 /\ g.conn <= conn + 1
        BY KnownTypes, RawTypes DEF KnownOK
    <2> QED
        BY <2>1, <2>2 DEF KnownOK
<1>5. PendingOK'
    <2>1. pending # None => pending.conn < conn + 1
        BY KnownTypes, RawTypes DEF PendingOK, KnownOK, Known
    <2> QED
        BY <2>1 DEF PendingOK, Unfinished
<1>6. IntentOK'
    BY DEF IntentOK, Known, Unfinished, PhaseOK, Idle
<1>7. MarkOK'
    BY DEF MarkOK, InRaw, Connected, TypeOK, PipeOK, OfConn, RawOK
<1>8. RawOK'
    <2>1. \A i \in 1..Len(raw) : raw[i].conn <= conn + 1
        BY RawTypes DEF RawOK
    <2> QED
        BY <2>1 DEF RawOK
<1>9. NoSilentSwitch'
    BY DEF NoSilentSwitch
<1>10. CompletedHasMarker'
    BY DEF CompletedHasMarker
<1>11. TailOK'
    BY DEF TailOK
<1>12. BoundaryIsVisible'
    BY DEF BoundaryIsVisible
<1> QED
    BY <1>1, <1>2, <1>3, <1>4, <1>5, <1>6, <1>7, <1>8, <1>9, <1>10, <1>11, <1>12

LEMMA AcceptKeeps ==
    ASSUME AllKept, ReconnectInv, NEW k \in Kinds, Accept(k)
    PROVE  ReconnectInv'
<1> USE DEF ReconnectInv, HistoryOK, SealOK, AllKept, Accept, boundary, events,
            HasSpace, Marker
<1>1. TypeOK'
    <2>1. [conn |-> conn, kind |-> k, mark |-> Marker] \in Receipt
        BY RawTypes DEF TypeOK, Receipt
    <2>2. queue' \in Seq(Receipt) /\ Len(queue') <= QueueCap
        BY <2>1, QueueAssumption DEF TypeOK
    <2> QED
        BY <2>2 DEF TypeOK
<1>2. PipeOK'
    BY DEF PipeOK, OfConn, InRaw
<1>3. PhaseOK'
    BY DEF PhaseOK, Idle
<1>4. KnownOK'
    BY DEF KnownOK, Known, Unfinished, Connected
<1>5. PendingOK'
    BY DEF PendingOK, Unfinished, Connected
<1>6. IntentOK'
    BY DEF IntentOK, Known, Unfinished
<1>7. MarkOK'
    <2> DEFINE r == [conn |-> conn, kind |-> k, mark |-> Marker]
    <2>0. Marker => r.mark
        BY ONLY TRUE
    <2>1. /\ Len(queue) \in Nat /\ Len(queue') = Len(queue) + 1 /\ queue'[Len(queue) + 1] = r
          /\ \A i \in 1..Len(queue) : queue'[i] = queue[i]
        <3>1. queue \in Seq(Receipt) /\ queue' = Append(queue, r)
            BY DEF TypeOK
        <3> QED
            BY <3>1
    <2> HIDE DEF r, Marker
    <2>2. queue' # << >> /\ 1 \in 1..Len(queue') /\ Len(queue) + 1 \in 1..Len(queue')
        BY <2>1
    <2>3. /\ flag <=> pending # None
          /\ pending # None => pending.conn < conn
          /\ enq' <=> pending # None
        BY DEF PendingOK, MarkOK, Connected, Marker
    <2>4. pending # None /\ ~enq =>
              queue = << >> /\ batch = << >> /\ ~InRaw(conn) /\ r.mark
        BY <2>0, <2>3 DEF MarkOK, Connected, Marker
    <2>5. ASSUME pending # None, ~InRaw(conn)
          PROVE  /\ wpc = "idle" => queue'[1].mark
                 /\ wpc = "persisting" => batch[1].mark
        <3>1. CASE enq
            <4>1. wpc = "idle" => queue # << >> /\ queue[1].mark
                BY <2>5, <3>1 DEF MarkOK
            <4>2. queue # << >> => 1 \in 1..Len(queue)
                BY <2>1 DEF TypeOK
            <4> QED
                BY <2>1, <2>5, <3>1, <4>1, <4>2 DEF MarkOK
        <3>2. CASE ~enq
            <4>1. queue = << >> /\ batch = << >> /\ r.mark
                BY <2>4, <2>5, <3>2
            <4>2. queue'[1] = r
                <5>1. Len(queue) = 0
                    BY <4>1
                <5> QED
                    BY <2>1, <5>1
            <4>3. wpc # "persisting"
                BY <4>1 DEF PipeOK
            <4> QED
                BY <4>1, <4>2, <4>3
        <3> QED
            BY <3>1, <3>2
    <2>6. pending # None => \/ wpc = "completed"
                            \/ \E i \in 1..Len(batch) : batch[i].mark
                            \/ \E i \in 1..Len(queue') : queue'[i].mark
        <3>1. \A i \in 1..Len(queue) : i \in 1..Len(queue')
            BY <2>1
        <3>2. CASE enq
            <4>1. \/ wpc = "completed"
                  \/ \E i \in 1..Len(batch) : batch[i].mark
                  \/ \E i \in 1..Len(queue) : queue[i].mark
                BY <3>2 DEF MarkOK
            <4> QED
                BY ONLY <2>1, <3>1, <4>1
        <3>3. CASE ~enq /\ pending # None
            <4>1. queue'[Len(queue) + 1].mark
                BY <2>1, <2>4, <3>3
            <4> QED
                BY ONLY <2>2, <4>1
        <3> QED
            BY <3>2, <3>3
    <2>7. pending # None => \A i \in 1..Len(raw) : raw[i].conn = conn => raw[i].mark
        BY <2>4 DEF MarkOK, InRaw
    <2> QED
        BY <2>2, <2>3, <2>5, <2>6, <2>7 DEF MarkOK, InRaw
<1>8. RawOK'
    BY DEF RawOK
<1>9. NoSilentSwitch'
    BY DEF NoSilentSwitch
<1>10. CompletedHasMarker'
    BY DEF CompletedHasMarker
<1>11. TailOK'
    BY DEF TailOK, PendingOK, Unfinished, Connected, PhaseOK, Idle, IntentOK, Known
<1>12. BoundaryIsVisible'
    BY DEF BoundaryIsVisible
<1> QED
    BY <1>1, <1>2, <1>3, <1>4, <1>5, <1>6, <1>7, <1>8, <1>9, <1>10, <1>11, <1>12

LEMMA RetryKeeps ==
    ASSUME ReconnectInv, Retry
    PROVE  ReconnectInv'
<1> USE DEF ReconnectInv, HistoryOK, SealOK, Retry, recv, gapvars, boundary, writer,
            events
<1>1. TypeOK'
    BY DEF TypeOK
<1>2. PipeOK'
    BY DEF PipeOK, OfConn, InRaw
<1>3. PhaseOK'
    BY DEF PhaseOK, Idle, PendingOK, Unfinished, Connected, IntentOK, Known
<1>4. KnownOK'
    BY DEF KnownOK, Known, Unfinished, Connected
<1>5. PendingOK'
    BY DEF PendingOK, Unfinished, Connected
<1>6. IntentOK'
    BY DEF IntentOK, Known, Unfinished
<1>7. MarkOK'
    BY DEF MarkOK, InRaw, Connected, PipeOK, OfConn, PhaseOK, Idle
<1>8. RawOK'
    BY RawTypes DEF RawOK, PipeOK, InRaw
<1>9. NoSilentSwitch'
    BY DEF NoSilentSwitch
<1>10. CompletedHasMarker'
    BY DEF CompletedHasMarker
<1>11. TailOK'
    BY DEF TailOK
<1>12. BoundaryIsVisible'
    BY DEF BoundaryIsVisible
<1> QED
    BY <1>1, <1>2, <1>3, <1>4, <1>5, <1>6, <1>7, <1>8, <1>9, <1>10, <1>11, <1>12

LEMMA EndConnectionKeeps ==
    ASSUME ReconnectInv, EndConnection
    PROVE  ReconnectInv'
<1> USE DEF ReconnectInv, HistoryOK, SealOK, EndConnection, recv, gapvars, writer,
            events, Boundary, ForcedSealFlags, BuildSealIntent
<1>1. TypeOK'
    <2>1. intent' \in GapId /\ intent' # None
        BY IntentIsBuilt DEF TypeOK, BuildSealIntent
    <2> QED
        BY <2>1 DEF TypeOK
<1>2. PipeOK'
    BY DEF PipeOK, OfConn, InRaw
<1>3. PhaseOK'
    <2>1. intent' # None
        BY IntentIsBuilt DEF TypeOK, BuildSealIntent
    <2>2. /\ pc' \in {"starting", "draining"} /\ (pc' = "starting" => pending' = None)
          /\ ~just' /\ fatal' # "started"
        BY DEF PhaseOK, Idle, Connected
    <2> QED
        BY ONLY <2>1, <2>2 DEF PhaseOK, Idle, Connected
<1>4. KnownOK'
    BY DEF KnownOK, Known, Unfinished, Connected
<1>5. PendingOK'
    BY DEF PendingOK, Unfinished, Connected, PhaseOK, Idle
<1>6. IntentOK'
    BY DEF IntentOK, Known, Unfinished, TypeOK, PendingOK, Connected, PhaseOK, Idle,
           KnownOK
<1>7. MarkOK'
    BY DEF MarkOK, InRaw, Connected
<1>8. RawOK'
    BY DEF RawOK
<1>9. NoSilentSwitch'
    BY DEF NoSilentSwitch
<1>10. CompletedHasMarker'
    BY DEF CompletedHasMarker
<1>11. TailOK'
    BY DEF TailOK
<1>12. BoundaryIsVisible'
    BY DEF BoundaryIsVisible
<1> QED
    BY <1>1, <1>2, <1>3, <1>4, <1>5, <1>6, <1>7, <1>8, <1>9, <1>10, <1>11, <1>12

LEMMA BackpressureKeeps ==
    ASSUME AllKept, ReconnectInv, NEW k \in Kinds, Backpressure(k)
    PROVE  ReconnectInv'
<1> USE DEF ReconnectInv, HistoryOK, SealOK, AllKept, Backpressure, gapvars, boundary,
            writer, events, HasSpace
<1>1. TypeOK'
    <2>1. [conn |-> conn, kind |-> k, mark |-> TRUE] \in Receipt
        BY RawTypes DEF Receipt
    <2>2. hand' \in Seq(Receipt)
        BY <2>1
    <2> QED
        BY <2>2 DEF TypeOK
<1>2. PipeOK'
    BY DEF PipeOK, OfConn, InRaw
<1>3. PhaseOK'
    BY DEF PhaseOK, Idle, PendingOK, Unfinished, Connected, IntentOK, Known
<1>4. KnownOK'
    BY DEF KnownOK, Known, Unfinished, Connected
<1>5. PendingOK'
    BY DEF PendingOK, Unfinished, Connected
<1>6. IntentOK'
    BY DEF IntentOK, Known, Unfinished
<1>7. MarkOK'
    BY DEF MarkOK, InRaw, Connected
<1>8. RawOK'
    BY DEF RawOK
<1>9. NoSilentSwitch'
    BY DEF NoSilentSwitch
<1>10. CompletedHasMarker'
    BY DEF CompletedHasMarker
<1>11. TailOK'
    BY DEF TailOK
<1>12. BoundaryIsVisible'
    BY DEF BoundaryIsVisible
<1> QED
    BY <1>1, <1>2, <1>3, <1>4, <1>5, <1>6, <1>7, <1>8, <1>9, <1>10, <1>11, <1>12

LEMMA HandoffKeeps ==
    ASSUME ReconnectInv, Handoff
    PROVE  ReconnectInv'
<1> USE DEF ReconnectInv, HistoryOK, SealOK, Handoff, events, HasSpace, Boundary,
            ForcedSealFlags, BuildSealIntent
<1>1. TypeOK'
    <2>1. intent' \in GapId /\ intent' # None
        BY IntentIsBuilt DEF TypeOK, BuildSealIntent
    <2>2. queue \in Seq(Receipt) /\ hand \in Seq(Receipt) /\ Len(hand) = 1
        BY DEF TypeOK, PipeOK
    <2>3. queue' \in Seq(Receipt) /\ Len(queue') <= QueueCap
        <3>1. queue' = queue \o hand /\ Len(queue) < QueueCap
            OBVIOUS
        <3>2. queue \o hand \in Seq(Receipt) /\ Len(queue \o hand) = Len(queue) + 1
            <4>1. Len(queue \o hand) = Len(queue) + Len(hand)
                BY ONLY <2>2, ConcatProperties, Zenon
            <4>2. queue \o hand \in Seq(Receipt)
                BY ONLY <2>2
            <4> QED
                BY ONLY <2>2, <4>1, <4>2
        <3>3. Len(queue) + 1 <= QueueCap
            BY ONLY <2>2, <3>1, QueueAssumption
        <3> QED
            BY ONLY <3>1, <3>2, <3>3
    <2> QED
        BY <2>1, <2>3 DEF TypeOK
<1>2. PipeOK'
    BY DEF PipeOK, OfConn, InRaw
<1>3. PhaseOK'
    <2>1. intent' # None
        BY IntentIsBuilt DEF TypeOK, BuildSealIntent
    <2>2. /\ pc' \in {"starting", "draining"} /\ (pc' = "starting" => pending' = None)
          /\ ~just' /\ fatal' # "started"
        BY DEF PhaseOK, Idle, Connected
    <2> QED
        BY ONLY <2>1, <2>2 DEF PhaseOK, Idle, Connected
<1>4. KnownOK'
    BY DEF KnownOK, Known, Unfinished, Connected
<1>5. PendingOK'
    BY DEF PendingOK, Unfinished, Connected, PhaseOK, Idle
<1>6. IntentOK'
    BY DEF IntentOK, Known, Unfinished, TypeOK, PendingOK, Connected, PhaseOK, Idle,
           KnownOK
<1>7. MarkOK'
    BY DEF MarkOK, InRaw, Connected, TypeOK, PipeOK, OfConn, PendingOK, Unfinished
<1>8. RawOK'
    BY DEF RawOK
<1>9. NoSilentSwitch'
    BY DEF NoSilentSwitch
<1>10. CompletedHasMarker'
    BY DEF CompletedHasMarker
<1>11. TailOK'
    BY DEF TailOK, PipeOK, OfConn, InRaw, PhaseOK, Idle
<1>12. BoundaryIsVisible'
    BY DEF BoundaryIsVisible
<1> QED
    BY <1>1, <1>2, <1>3, <1>4, <1>5, <1>6, <1>7, <1>8, <1>9, <1>10, <1>11, <1>12

LEMMA HandoffTimeoutKeeps ==
    ASSUME ReconnectInv, HandoffTimeout
    PROVE  ReconnectInv'
<1> USE DEF ReconnectInv, HistoryOK, SealOK, HandoffTimeout, gapvars, writer, events,
            Boundary, ForcedSealFlags, BuildSealIntent
<1>1. TypeOK'
    <2>1. intent' \in GapId /\ intent' # None
        BY IntentIsBuilt DEF TypeOK, BuildSealIntent
    <2> QED
        BY <2>1 DEF TypeOK
<1>2. PipeOK'
    BY DEF PipeOK, OfConn, InRaw
<1>3. PhaseOK'
    <2>1. intent' # None
        BY IntentIsBuilt DEF TypeOK, BuildSealIntent
    <2>2. /\ pc' \in {"starting", "draining"} /\ (pc' = "starting" => pending' = None)
          /\ ~just' /\ fatal' # "started"
        BY DEF PhaseOK, Idle, Connected
    <2> QED
        BY ONLY <2>1, <2>2 DEF PhaseOK, Idle, Connected
<1>4. KnownOK'
    BY DEF KnownOK, Known, Unfinished, Connected
<1>5. PendingOK'
    BY DEF PendingOK, Unfinished, Connected, PhaseOK, Idle
<1>6. IntentOK'
    BY DEF IntentOK, Known, Unfinished, TypeOK, PendingOK, Connected, PhaseOK, Idle,
           KnownOK
<1>7. MarkOK'
    BY DEF MarkOK, InRaw, Connected
<1>8. RawOK'
    BY DEF RawOK
<1>9. NoSilentSwitch'
    BY DEF NoSilentSwitch
<1>10. CompletedHasMarker'
    BY DEF CompletedHasMarker
<1>11. TailOK'
    BY DEF TailOK
<1>12. BoundaryIsVisible'
    BY DEF BoundaryIsVisible
<1> QED
    BY <1>1, <1>2, <1>3, <1>4, <1>5, <1>6, <1>7, <1>8, <1>9, <1>10, <1>11, <1>12

LEMMA StopKeeps ==
    ASSUME ReconnectInv, Stop
    PROVE  ReconnectInv'
<1> USE DEF ReconnectInv, HistoryOK, SealOK, Stop, recv, gapvars, boundary, writer,
            events
<1>1. TypeOK'
    BY DEF TypeOK
<1>2. PipeOK'
    BY DEF PipeOK, OfConn, InRaw
<1>3. PhaseOK'
    BY DEF PhaseOK, Idle, PendingOK, Unfinished, Connected, IntentOK, Known
<1>4. KnownOK'
    BY DEF KnownOK, Known, Unfinished, Connected
<1>5. PendingOK'
    BY DEF PendingOK, Unfinished, Connected
<1>6. IntentOK'
    BY DEF IntentOK, Known, Unfinished
<1>7. MarkOK'
    BY DEF MarkOK, InRaw, Connected
<1>8. RawOK'
    BY DEF RawOK
<1>9. NoSilentSwitch'
    BY DEF NoSilentSwitch
<1>10. CompletedHasMarker'
    BY DEF CompletedHasMarker
<1>11. TailOK'
    BY DEF TailOK
<1>12. BoundaryIsVisible'
    BY DEF BoundaryIsVisible
<1> QED
    BY <1>1, <1>2, <1>3, <1>4, <1>5, <1>6, <1>7, <1>8, <1>9, <1>10, <1>11, <1>12

-----------------------------------------------------------------------------
(* Steps: run(). *)

LEMMA CommitStartedKeeps ==
    ASSUME ReconnectInv, CommitStarted
    PROVE  ReconnectInv'
<1> USE DEF ReconnectInv, HistoryOK, SealOK, CommitStarted, recv, gapvars, boundary,
            writer
<1>1. TypeOK'
    BY DEF TypeOK, PhaseOK, Idle
<1>2. PipeOK'
    BY DEF PipeOK, OfConn, InRaw
<1>3. PhaseOK'
    BY DEF PhaseOK, Idle, PendingOK, Unfinished, Connected, IntentOK, Known
<1>4. KnownOK'
    BY DEF KnownOK, Known, Unfinished, Connected, TypeOK, PendingOK, PhaseOK, Idle,
           IntentOK
<1>5. PendingOK'
    BY DEF PendingOK, Unfinished, Connected, PhaseOK, Idle
<1>6. IntentOK'
    BY DEF IntentOK, Known, Unfinished
<1>7. MarkOK'
    BY DEF MarkOK, InRaw, Connected
<1>8. RawOK'
    BY DEF RawOK
<1>9. NoSilentSwitch'
    BY DEF NoSilentSwitch
<1>10. CompletedHasMarker'
    BY DEF CompletedHasMarker
<1>11. TailOK'
    BY DEF TailOK
<1>12. BoundaryIsVisible'
    BY DEF BoundaryIsVisible
<1> QED
    BY <1>1, <1>2, <1>3, <1>4, <1>5, <1>6, <1>7, <1>8, <1>9, <1>10, <1>11, <1>12

LEMMA StartedFailsKeeps ==
    ASSUME ReconnectInv, StartedFails
    PROVE  ReconnectInv'
<1> USE DEF ReconnectInv, HistoryOK, SealOK, StartedFails, recv, gapvars, writer, events
<1>1. TypeOK'
    BY DEF TypeOK
<1>2. PipeOK'
    BY DEF PipeOK, OfConn, InRaw
<1>3. PhaseOK'
    BY DEF PhaseOK, Idle, PendingOK, Unfinished, Connected, IntentOK, Known
<1>4. KnownOK'
    BY DEF KnownOK, Known, Unfinished, Connected
<1>5. PendingOK'
    BY DEF PendingOK, Unfinished, Connected
<1>6. IntentOK'
    BY DEF IntentOK, Known, Unfinished
<1>7. MarkOK'
    BY DEF MarkOK, InRaw, Connected
<1>8. RawOK'
    BY DEF RawOK
<1>9. NoSilentSwitch'
    BY DEF NoSilentSwitch
<1>10. CompletedHasMarker'
    BY DEF CompletedHasMarker
<1>11. TailOK'
    BY DEF TailOK
<1>12. BoundaryIsVisible'
    BY DEF BoundaryIsVisible
<1> QED
    BY <1>1, <1>2, <1>3, <1>4, <1>5, <1>6, <1>7, <1>8, <1>9, <1>10, <1>11, <1>12

LEMMA ReturnStartedKeeps ==
    ASSUME ReconnectInv, ReturnStarted
    PROVE  ReconnectInv'
<1> USE DEF ReconnectInv, HistoryOK, SealOK, ReturnStarted, recv, writer, events,
            GapStarted
<1>1. TypeOK'
    <2>1. gen + 1 \in Nat /\ intent \in GapId \cup {None}
        BY DEF TypeOK
    <2> QED
        BY <2>1 DEF TypeOK
<1>2. PipeOK'
    BY DEF PipeOK, OfConn, InRaw
<1>3. PhaseOK'
    BY DEF PhaseOK, Idle, PendingOK, Unfinished, Connected, IntentOK, Known
<1>4. KnownOK'
    BY DEF KnownOK, Known, Unfinished, Connected
<1>5. PendingOK'
    <2>1. pending = None /\ intent # None /\ intent \in started
        BY DEF PhaseOK
    <2>2. intent \notin completed /\ Unfinished \subseteq {intent}
        BY <2>1 DEF IntentOK
    <2>3. wpc # "completed"
        BY <2>1 DEF PendingOK, MarkOK
    <2> QED
        BY <2>1, <2>2, <2>3 DEF PendingOK, Unfinished, Connected
<1>6. IntentOK'
    BY DEF IntentOK, Known, Unfinished
<1>7. MarkOK'
    BY DEF MarkOK, InRaw, Connected, TypeOK, PendingOK, Unfinished, PhaseOK, Idle,
           IntentOK, Known, KnownOK
<1>8. RawOK'
    BY DEF RawOK, PhaseOK, Idle
<1>9. NoSilentSwitch'
    BY DEF NoSilentSwitch
<1>10. CompletedHasMarker'
    BY DEF CompletedHasMarker
<1>11. TailOK'
    BY DEF TailOK
<1>12. BoundaryIsVisible'
    BY DEF BoundaryIsVisible
<1> QED
    BY <1>1, <1>2, <1>3, <1>4, <1>5, <1>6, <1>7, <1>8, <1>9, <1>10, <1>11, <1>12

LEMMA DrainedKeeps ==
    ASSUME ReconnectInv, Drained
    PROVE  ReconnectInv'
<1> USE DEF ReconnectInv, HistoryOK, SealOK, Drained, recv, gapvars, boundary, events,
            Fresh, Late
<1>1. TypeOK'
    BY DEF TypeOK
<1>2. PipeOK'
    BY DEF PipeOK, OfConn, InRaw
<1>3. PhaseOK'
    BY DEF PhaseOK, Idle, PendingOK, Unfinished, Connected, IntentOK, Known
<1>4. KnownOK'
    BY DEF KnownOK, Known, Unfinished, Connected
<1>5. PendingOK'
    BY DEF PendingOK, Unfinished, Connected, IntentOK, Known
<1>6. IntentOK'
    BY DEF IntentOK, Known, Unfinished
<1>7. MarkOK'
    BY DEF MarkOK, InRaw, Connected, PipeOK, OfConn, PhaseOK, Idle
<1>8. RawOK'
    <2>1. CASE pc' # "connecting"
        BY <2>1 DEF RawOK
    <2>2. CASE pc' = "connecting"
        <3>1. intent # None /\ ~Late /\ fatal = "none" /\ queue = << >> /\ batch = << >>
            BY <2>2 DEF PipeOK
        <3>2. intent = pending /\ ~enq
            <4>1. ~enq
                <5>1. \A i \in 1..Len(batch) : FALSE
                    BY <3>1
                <5>2. \A i \in 1..Len(queue) : FALSE
                    BY <3>1
                <5> QED
                    BY <5>1, <5>2 DEF MarkOK
            <4> QED
                BY <3>1, <4>1 DEF IntentOK
        <3>3. pending # None /\ pending.conn \in Nat /\ pending.conn <= conn
            BY <3>1, <3>2, KnownTypes DEF PendingOK, KnownOK, Known
        <3>4. pending.conn < conn => ~InRaw(conn)
            BY <3>1, <3>2, <3>3 DEF MarkOK
        <3>5. raw # << >> /\ raw[Len(raw)].life = life => pending.conn = raw[Len(raw)].conn
            BY <3>3, <3>4, RawTypes DEF RawOK, InRaw
        <3> QED
            BY <3>3, <3>5 DEF RawOK
    <2> QED
        BY <2>1, <2>2
<1>9. NoSilentSwitch'
    BY DEF NoSilentSwitch
<1>10. CompletedHasMarker'
    BY DEF CompletedHasMarker
<1>11. TailOK'
    BY DEF TailOK
<1>12. BoundaryIsVisible'
    BY DEF BoundaryIsVisible
<1> QED
    BY <1>1, <1>2, <1>3, <1>4, <1>5, <1>6, <1>7, <1>8, <1>9, <1>10, <1>11, <1>12

-----------------------------------------------------------------------------
(* Steps: the writer task. *)

LEMMA TakeKeeps ==
    ASSUME ReconnectInv, NEW n \in 1..QueueCap, Take(n)
    PROVE  ReconnectInv'
<1> USE DEF ReconnectInv, HistoryOK, SealOK, Take, recv, gapvars, boundary, events
<1>1. TypeOK'
    <2>1. queue' \in Seq(Receipt) /\ batch' \in Seq(Receipt)
        BY BatchIsTaken
    <2>2. Len(queue') <= QueueCap
        BY BatchIsTaken, QueueAssumption DEF TypeOK
    <2> QED
        BY <2>1, <2>2 DEF TypeOK
<1>2. PipeOK'
    <2>1. /\ \A i \in 1..Len(batch') : OfConn(batch'[i])
          /\ \A i \in 1..Len(queue') : OfConn(queue'[i])
        <3>1. /\ Len(queue) \in Nat /\ n \in 1..Len(queue)
              /\ Len(batch') = n /\ Len(queue') = Len(queue) - n
              /\ \A i \in 1..n : batch'[i] = queue[i]
              /\ \A i \in 1..Len(queue') : queue'[i] = queue[n + i]
            BY BatchIsTaken
        <3>2. \A i \in 1..Len(queue) : OfConn(queue[i])
            BY DEF PipeOK
        <3>3. /\ \A i \in 1..n : i \in 1..Len(queue)
              /\ \A i \in 1..Len(queue') : n + i \in 1..Len(queue)
            BY ONLY <3>1
        <3> QED
            BY ONLY <3>1, <3>2, <3>3
    <2>2. batch' # << >>
        <3>1. Len(batch') = n /\ n \in 1..Len(queue) /\ Len(queue) \in Nat
            BY BatchIsTaken
        <3> QED
            BY ONLY <3>1
    <2>3. pc \notin {"down", "connecting"} /\ ~(pc = "receiving" /\ ~receipts)
        <3>1. queue # << >>
            BY BatchIsTaken
        <3> QED
            BY <3>1 DEF PipeOK
    <2> QED
        BY <2>1, <2>2, <2>3 DEF PipeOK, OfConn
<1>3. PhaseOK'
    BY DEF PhaseOK, Idle
<1>4. KnownOK'
    <2>1. KnownOK /\ UNCHANGED <<pc, conn, started, completed>>
        BY DEF Take, recv, boundary, events
    <2>2. Known' = Known /\ Unfinished' = Unfinished
        BY DEF Known, Unfinished
    <2> QED
        BY ONLY <2>1, <2>2 DEF KnownOK, Connected
<1>5. PendingOK'
    BY DEF PendingOK, Unfinished, Connected
<1>6. IntentOK'
    BY DEF IntentOK, Known, Unfinished
<1>7. MarkOK'
    <2>1. /\ Len(queue) \in Nat /\ n \in 1..Len(queue) /\ queue # << >>
          /\ Len(batch') = n /\ Len(queue') = Len(queue) - n
          /\ \A i \in 1..n : batch'[i] = queue[i]
          /\ \A i \in 1..Len(queue') : queue'[i] = queue[n + i]
        BY BatchIsTaken
    <2>2. batch = << >>
        BY DEF PipeOK
    <2>3. ASSUME enq
          PROVE  \/ \E i \in 1..Len(batch') : batch'[i].mark
                 \/ \E i \in 1..Len(queue') : queue'[i].mark
        <3>1. PICK i \in 1..Len(queue) : queue[i].mark
            BY <2>2, <2>3 DEF MarkOK
        <3>2. CASE i <= n
            BY <2>1, <3>1, <3>2
        <3>3. CASE i > n
            <4>1. i - n \in 1..Len(queue') /\ n + (i - n) = i
                BY <2>1, <3>3
            <4> QED
                BY <2>1, <3>1, <4>1
        <3>4. i <= n \/ i > n
            BY <2>1
        <3> QED
            BY <3>2, <3>3, <3>4
    <2>4. enq /\ ~InRaw(conn) => batch'[1].mark
        BY <2>1 DEF MarkOK
    <2> QED
        BY <2>1, <2>3, <2>4 DEF MarkOK, InRaw
<1>8. RawOK'
    BY DEF RawOK
<1>9. NoSilentSwitch'
    BY DEF NoSilentSwitch
<1>10. CompletedHasMarker'
    BY DEF CompletedHasMarker
<1>11. TailOK'
    <2>1. /\ Len(queue) \in Nat /\ n \in 1..Len(queue) /\ queue # << >>
          /\ Len(batch') = n /\ Len(queue') = Len(queue) - n
          /\ \A i \in 1..n : batch'[i] = queue[i]
          /\ \A i \in 1..Len(queue') : queue'[i] = queue[n + i]
        BY BatchIsTaken
    <2>2. CASE n = Len(queue)
        <3>1. queue' = << >> /\ n \in 1..Len(batch') /\ batch'[n] = queue[Len(queue)]
            <4>1. queue' \in Seq(Receipt) /\ Len(queue') = 0
                <5>1. queue' \in Seq(Receipt)
                    BY BatchIsTaken
                <5> QED
                    BY ONLY <2>1, <2>2, <5>1
            <4> QED
                BY ONLY <2>1, <2>2, <4>1
        <3> QED
            BY <2>1, <3>1 DEF TailOK
    <2>3. CASE n # Len(queue)
        <3>1. Len(queue') \in 1..Len(queue') /\ queue'[Len(queue')] = queue[Len(queue)]
            <4>1. Len(queue') \in 1..Len(queue') /\ n + Len(queue') = Len(queue)
                BY <2>1, <2>3
            <4> QED
                BY <2>1, <4>1
        <3>2. queue' # << >>
            BY ONLY <3>1
        <3> QED
            BY <2>1, <3>1, <3>2 DEF TailOK
    <2> QED
        BY <2>2, <2>3
<1>12. BoundaryIsVisible'
    BY DEF BoundaryIsVisible
<1> QED
    BY <1>1, <1>2, <1>3, <1>4, <1>5, <1>6, <1>7, <1>8, <1>9, <1>10, <1>11, <1>12

LEMMA PersistKeeps ==
    ASSUME ReconnectInv, Persist
    PROVE  ReconnectInv'
<1> USE DEF ReconnectInv, HistoryOK, SealOK, Persist, recv, gapvars, boundary, events,
            Kept, Written
<1>1. TypeOK'
    <2>1. raw' \in Seq(RawFrame)
        BY RawIsWritten
    <2>2. chunk' \in {"absent", "plain", "marked"}
        BY DEF TypeOK
    <2> QED
        BY <2>1, <2>2 DEF TypeOK
<1>2. PipeOK'
    BY DEF PipeOK, OfConn, InRaw
<1>3. PhaseOK'
    BY DEF PhaseOK, Idle
<1>4. KnownOK'
    <2>1. KnownOK /\ UNCHANGED <<pc, conn, started, completed>>
        BY DEF Persist, recv, boundary, events
    <2>2. Known' = Known /\ Unfinished' = Unfinished
        BY DEF Known, Unfinished
    <2> QED
        BY ONLY <2>1, <2>2 DEF KnownOK, Connected
<1>5. PendingOK'
    BY DEF PendingOK, Unfinished, Connected
<1>6. IntentOK'
    BY DEF IntentOK, Known, Unfinished
<1>7. MarkOK'
    <2>1. InRaw(conn)'
        <3>1. Len(raw') \in 1..Len(raw') /\ raw'[Len(raw')].conn = conn
            <4>1. raw' \in Seq(RawFrame) /\ raw' # << >> /\ raw'[Len(raw')].conn = conn
                BY RawIsWritten
            <4> QED
                BY <4>1
        <3> QED
            BY <3>1 DEF InRaw
    <2>2. enq => \A i \in 1..Len(raw') : raw'[i].conn = conn => raw'[i].mark
        <3>1. enq => /\ ~InRaw(conn) => batch[1].mark
                     /\ \A i \in 1..Len(raw) : raw[i].conn = conn => raw[i].mark
            BY DEF MarkOK, PipeOK
        <3> QED
            BY <3>1, RawIsWritten
    <2>3. pc # "down" /\ batch # << >>
        BY DEF PipeOK
    <2> QED
        BY <2>1, <2>2, <2>3 DEF MarkOK
<1>8. RawOK'
    <2>1. pc # "connecting" /\ raw'[Len(raw')].conn = conn
        BY RawIsWritten DEF PipeOK
    <2>2. ~(conn < conn)
        BY RawTypes
    <2> QED
        BY <2>1, <2>2, RawIsWritten DEF RawOK
<1>9. NoSilentSwitch'
    BY RawIsWritten
<1>10. CompletedHasMarker'
    BY RawIsWritten
<1>11. TailOK'
    BY DEF TailOK, PipeOK, OfConn, InRaw, PhaseOK, Idle
<1>12. BoundaryIsVisible'
    BY DEF BoundaryIsVisible
<1> QED
    BY <1>1, <1>2, <1>3, <1>4, <1>5, <1>6, <1>7, <1>8, <1>9, <1>10, <1>11, <1>12

LEMMA CommitCompletedKeeps ==
    ASSUME ReconnectInv, CommitCompleted
    PROVE  ReconnectInv'
<1> USE DEF ReconnectInv, HistoryOK, SealOK, CommitCompleted, recv, gapvars, boundary,
            Kept, Closes
<1>1. TypeOK'
    BY DEF TypeOK
<1>2. PipeOK'
    BY DEF PipeOK, OfConn, InRaw
<1>3. PhaseOK'
    BY DEF PhaseOK, Idle
<1>4. KnownOK'
    BY DEF KnownOK, Known, Unfinished, Connected, PendingOK, PhaseOK, Idle, IntentOK,
           MarkOK, InRaw, PipeOK, OfConn
<1>5. PendingOK'
    <2>1. PICK i \in Kept(batch) : Closes(batch[i])
        OBVIOUS
    <2>2. pending # None /\ pending.conn # conn /\ batch # << >> /\ pc # "down"
        BY <2>1 DEF PipeOK, OfConn
    <2>3. pending.conn < conn
        BY <2>2, KnownTypes, RawTypes DEF PendingOK, KnownOK, Known
    <2>4. enq
        BY <2>2, <2>3 DEF MarkOK
    <2> QED
        BY <2>2, <2>4 DEF PendingOK, Unfinished
<1>6. IntentOK'
    BY DEF IntentOK, Known, Unfinished, PipeOK, OfConn, InRaw, PhaseOK, Idle
<1>7. MarkOK'
    BY DEF MarkOK, InRaw, Connected
<1>8. RawOK'
    BY DEF RawOK
<1>9. NoSilentSwitch'
    BY DEF NoSilentSwitch
<1>10. CompletedHasMarker'
    <2>1. PICK i \in Kept(batch) : Closes(batch[i])
        OBVIOUS
    <2>2. pending # None /\ pending.conn # conn /\ batch # << >> /\ pc # "down"
        BY <2>1 DEF PipeOK, OfConn
    <2>3. pending \in started /\ pending.conn < conn
        BY <2>2, KnownTypes, RawTypes DEF PendingOK, KnownOK, Known
    <2>4. enq
        BY <2>2, <2>3 DEF MarkOK
    <2>5. \E j \in 1..Len(raw) : raw[j].mark /\ raw[j].conn > pending.conn
        <3>1. PICK j \in 1..Len(raw) : raw[j].conn = conn
            BY DEF PipeOK, InRaw
        <3>2. raw[j].mark
            BY <2>2, <2>4, <3>1 DEF MarkOK
        <3> QED
            BY <2>3, <3>1, <3>2
    <2> QED
        BY <2>3, <2>5 DEF CompletedHasMarker
<1>11. TailOK'
    BY DEF TailOK
<1>12. BoundaryIsVisible'
    BY DEF BoundaryIsVisible
<1> QED
    BY <1>1, <1>2, <1>3, <1>4, <1>5, <1>6, <1>7, <1>8, <1>9, <1>10, <1>11, <1>12

LEMMA ReturnCompletedKeeps ==
    ASSUME ReconnectInv, ReturnCompleted
    PROVE  ReconnectInv'
<1> USE DEF ReconnectInv, HistoryOK, SealOK, ReturnCompleted, recv, boundary, events
<1>1. TypeOK'
    BY DEF TypeOK
<1>2. PipeOK'
    BY DEF PipeOK, OfConn, InRaw
<1>3. PhaseOK'
    BY DEF PhaseOK, Idle
<1>4. KnownOK'
    BY DEF KnownOK, Known, Unfinished, Connected
<1>5. PendingOK'
    BY DEF PendingOK, Unfinished, Connected
<1>6. IntentOK'
    <2>1. enq /\ pending # None /\ pending \in completed /\ Unfinished = {}
        <3>1. enq /\ pending # None /\ pending \in completed /\ Unfinished \subseteq {pending}
            BY DEF PendingOK, PipeOK, MarkOK
        <3> QED
            BY <3>1 DEF Unfinished
    <2>2. Unfinished' = {} /\ Known' = Known
        BY <2>1 DEF Unfinished, Known
    <2> QED
        BY <2>1, <2>2 DEF IntentOK
<1>7. MarkOK'
    BY DEF MarkOK, InRaw, Connected
<1>8. RawOK'
    <2>1. pc # "connecting" /\ InRaw(conn)
        BY DEF PipeOK
    <2>2. raw # << >> /\ raw[Len(raw)].conn = conn
        BY <2>1, RawTypes DEF RawOK, InRaw
    <2> QED
        BY <2>1, <2>2, RawTypes DEF RawOK
<1>9. NoSilentSwitch'
    BY DEF NoSilentSwitch
<1>10. CompletedHasMarker'
    BY DEF CompletedHasMarker
<1>11. TailOK'
    BY DEF TailOK
<1>12. BoundaryIsVisible'
    BY DEF BoundaryIsVisible
<1> QED
    BY <1>1, <1>2, <1>3, <1>4, <1>5, <1>6, <1>7, <1>8, <1>9, <1>10, <1>11, <1>12

LEMMA BatchDoneKeeps ==
    ASSUME ReconnectInv, BatchDone
    PROVE  ReconnectInv'
<1> USE DEF ReconnectInv, HistoryOK, SealOK, BatchDone, recv, gapvars, boundary, events,
            Kept, Closes
<1>1. TypeOK'
    BY DEF TypeOK
<1>2. PipeOK'
    BY DEF PipeOK, OfConn, InRaw
<1>3. PhaseOK'
    BY DEF PhaseOK, Idle
<1>4. KnownOK'
    BY DEF KnownOK, Known, Unfinished, Connected
<1>5. PendingOK'
    BY DEF PendingOK, Unfinished, Connected
<1>6. IntentOK'
    BY DEF IntentOK, Known, Unfinished
<1>7. MarkOK'
    <2>1. pc # "down" /\ InRaw(conn) /\ batch # << >>
        BY DEF PipeOK
    <2>2. ASSUME enq PROVE \E i \in 1..Len(queue) : queue[i].mark
        <3>1. pending # None /\ pending.conn < conn
            BY <2>1, <2>2 DEF MarkOK
        <3>2. ~\E i \in 1..Len(batch) : batch[i].mark
            <4>1. \A i \in 1..Len(batch) : i \in Kept(batch) /\ batch[i].conn = conn
                BY DEF PipeOK, OfConn
            <4> QED
                BY <3>1, <4>1, RawTypes
        <3> QED
            BY <2>1, <2>2, <3>2 DEF MarkOK
    <2> QED
        BY <2>1, <2>2 DEF MarkOK, InRaw
<1>8. RawOK'
    BY DEF RawOK
<1>9. NoSilentSwitch'
    BY DEF NoSilentSwitch
<1>10. CompletedHasMarker'
    BY DEF CompletedHasMarker
<1>11. TailOK'
    BY DEF TailOK
<1>12. BoundaryIsVisible'
    BY DEF BoundaryIsVisible
<1> QED
    BY <1>1, <1>2, <1>3, <1>4, <1>5, <1>6, <1>7, <1>8, <1>9, <1>10, <1>11, <1>12

LEMMA RotateChunkKeeps ==
    ASSUME ReconnectInv, RotateChunk
    PROVE  ReconnectInv'
<1> USE DEF ReconnectInv, HistoryOK, SealOK, RotateChunk, recv, gapvars, boundary,
            events
<1>1. TypeOK'
    BY DEF TypeOK
<1>2. PipeOK'
    BY DEF PipeOK, OfConn, InRaw
<1>3. PhaseOK'
    BY DEF PhaseOK, Idle
<1>4. KnownOK'
    BY DEF KnownOK, Known, Unfinished, Connected
<1>5. PendingOK'
    BY DEF PendingOK, Unfinished, Connected
<1>6. IntentOK'
    BY DEF IntentOK, Known, Unfinished
<1>7. MarkOK'
    BY DEF MarkOK, InRaw, Connected
<1>8. RawOK'
    BY DEF RawOK
<1>9. NoSilentSwitch'
    BY DEF NoSilentSwitch
<1>10. CompletedHasMarker'
    BY DEF CompletedHasMarker
<1>11. TailOK'
    BY DEF TailOK
<1>12. BoundaryIsVisible'
    BY DEF BoundaryIsVisible
<1> QED
    BY <1>1, <1>2, <1>3, <1>4, <1>5, <1>6, <1>7, <1>8, <1>9, <1>10, <1>11, <1>12

LEMMA CloseAndSealKeeps ==
    ASSUME ReconnectInv, CloseAndSeal
    PROVE  ReconnectInv'
<1> USE DEF ReconnectInv, HistoryOK, SealOK, CloseAndSeal, recv, gapvars, boundary,
            events
<1>1. TypeOK'
    <2>1. intent # None => intents' \in Seq(Intent)
        <3>1. intents \in Seq(Intent)
            BY DEF TypeOK
        <3>2. intent # None =>
                  [id |-> intent, frames |-> chunk # "absent", flagged |-> forced \/ chunk # "plain"]
                  \in Intent
            BY DEF TypeOK, Intent
        <3> QED
            BY <3>1, <3>2
    <2>2. intents' \in Seq(Intent)
        BY <2>1 DEF TypeOK
    <2> QED
        BY <2>2 DEF TypeOK
<1>2. PipeOK'
    BY DEF PipeOK, OfConn, InRaw
<1>3. PhaseOK'
    BY DEF PhaseOK, Idle
<1>4. KnownOK'
    <2>1. /\ Known' = Known \cup ({intent} \ {None})
          /\ Unfinished' = Unfinished \cup (({intent} \ {None}) \ completed)
        BY SealedIsKnown
    <2>2. intent # None =>
              /\ \A g \in Unfinished : g = intent
              /\ intent.conn <= conn
        BY ClosingIntent
    <2> QED
        BY <2>1, <2>2 DEF KnownOK, Connected
<1>5. PendingOK'
    <2>1. Unfinished' = Unfinished \cup (({intent} \ {None}) \ completed)
        BY SealedIsKnown
    <2>2. intent # None => intent = pending \/ pending = None
        BY ClosingIntent
    <2> QED
        BY <2>1, <2>2 DEF PendingOK, Connected
<1>6. IntentOK'
    <2>1. /\ Known' = Known \cup ({intent} \ {None})
          /\ Unfinished' = Unfinished \cup (({intent} \ {None}) \ completed)
        BY SealedIsKnown
    <2>2. intent # None =>
              /\ intent = pending \/ pending = None
              /\ \A g \in Unfinished : g = intent
        BY ClosingIntent
    <2>3. UNCHANGED <<pc, intent, pending, enq, just, conn, completed>>
        OBVIOUS
    <2>4. ASSUME intent # None, intent # pending
          PROVE  pending = None /\ intent.conn = conn /\ intent \notin completed /\ ~just
        BY <2>2, <2>4 DEF IntentOK
    <2>5. intent # None /\ intent = pending =>
              pc = "draining" /\ ~enq /\ (just <=> intent.conn = conn)
        <3>1. intent # None => ~enq
            BY NoMarkerLeft
        <3> QED
            BY <3>1 DEF IntentOK, PendingOK, MarkOK
    <2> QED
        BY ONLY <2>1, <2>2, <2>3, <2>4, <2>5 DEF IntentOK
<1>7. MarkOK'
    BY DEF MarkOK, InRaw, Connected
<1>8. RawOK'
    BY DEF RawOK
<1>9. NoSilentSwitch'
    BY DEF NoSilentSwitch
<1>10. CompletedHasMarker'
    BY DEF CompletedHasMarker
<1>11. TailOK'
    BY DEF TailOK
<1>12. BoundaryIsVisible'
    <2>1. intent # None => forced \/ chunk # "plain"
        BY DEF TailOK
    <2>2. intents \in Seq(Intent)
        BY DEF TypeOK
    <2>3. CASE intent # None
        <3> DEFINE i == [id |-> intent, frames |-> chunk # "absent",
                         flagged |-> forced \/ chunk # "plain"]
        <3>1. intents' = Append(intents, i) /\ i.flagged
            BY <2>1, <2>3
        <3> HIDE DEF i
        <3>2. \A j \in 1..Len(intents') :
                  intents'[j] = i \/ (j \in 1..Len(intents) /\ intents'[j] = intents[j])
            BY ONLY <2>2, <3>1
        <3> QED
            BY <3>1, <3>2 DEF BoundaryIsVisible
    <2> QED
        BY <2>3 DEF BoundaryIsVisible
<1> QED
    BY <1>1, <1>2, <1>3, <1>4, <1>5, <1>6, <1>7, <1>8, <1>9, <1>10, <1>11, <1>12

-----------------------------------------------------------------------------
(* Steps: the end of a process and the next start. *)

LEMMA KillKeeps ==
    ASSUME ReconnectInv, Kill
    PROVE  ReconnectInv'
<1> USE DEF ReconnectInv, HistoryOK, SealOK, Kill, gapvars, events, Fresh, Written, Kept
<1>1. TypeOK'
    <2>1. raw' \in Seq(RawFrame)
        BY RawIsWritten DEF TypeOK
    <2>2. queue' \in Seq(Receipt) /\ batch' \in Seq(Receipt) /\ hand' \in Seq(Receipt)
        OBVIOUS
    <2>3. Len(queue') <= QueueCap
        BY QueueAssumption
    <2> QED
        BY <2>1, <2>2, <2>3 DEF TypeOK
<1>2. PipeOK'
    BY DEF PipeOK, OfConn, InRaw
<1>3. PhaseOK'
    BY DEF PhaseOK, Idle
<1>4. KnownOK'
    BY DEF KnownOK, Known, Unfinished, Connected
<1>5. PendingOK'
    BY DEF PendingOK, Unfinished, Connected
<1>6. IntentOK'
    BY DEF IntentOK, Known, Unfinished
<1>7. MarkOK'
    BY DEF MarkOK, InRaw, Connected
<1>8. RawOK'
    <2>1. CASE raw' = raw
        BY <2>1 DEF RawOK
    <2>2. CASE wpc = "persisting" /\ raw' = Written(batch)
        BY <2>2, RawIsWritten DEF RawOK
    <2> QED
        BY <2>1, <2>2
<1>9. NoSilentSwitch'
    <2>1. CASE raw' = raw
        BY <2>1 DEF NoSilentSwitch
    <2>2. CASE wpc = "persisting" /\ raw' = Written(batch)
        BY <2>2, RawIsWritten
    <2> QED
        BY <2>1, <2>2
<1>10. CompletedHasMarker'
    <2>1. CASE raw' = raw
        BY <2>1 DEF CompletedHasMarker
    <2>2. CASE wpc = "persisting" /\ raw' = Written(batch)
        BY <2>2, RawIsWritten
    <2> QED
        BY <2>1, <2>2
<1>11. TailOK'
    BY DEF TailOK
<1>12. BoundaryIsVisible'
    BY DEF BoundaryIsVisible
<1> QED
    BY <1>1, <1>2, <1>3, <1>4, <1>5, <1>6, <1>7, <1>8, <1>9, <1>10, <1>11, <1>12

LEMMA StartKeeps ==
    ASSUME ReconnectInv, Start
    PROVE  ReconnectInv'
<1> USE DEF ReconnectInv, HistoryOK, SealOK, Start, boundary, writer, RestoreOpenGap
<1>1. TypeOK'
    <2>1. started' = started \cup Unfinished /\ Unfinished \subseteq Known
        BY DecisionsAreUnfinished DEF Known, Unfinished
    <2>2. started' \subseteq GapId
        BY <2>1, KnownTypes DEF TypeOK
    <2>3. pending' \in GapId \cup {None} /\ gen' \in Nat /\ {flag', enq'} \subseteq BOOLEAN
        <3>1. \A g \in Unfinished : g \in GapId /\ g.gen + 1 \in Nat
            BY <2>1, KnownTypes DEF GapId
        <3>2. RestoreOpenGap(Unfinished)
            BY DecisionsAreUnfinished
        <3>3. CASE pending' = None /\ gen' = 0 /\ flag' = FALSE
            BY ONLY <3>2, <3>3 DEF RestoreOpenGap
        <3>4. CASE \E g \in Unfinished : pending' = g /\ gen' = g.gen + 1 /\ flag' = TRUE
            <4>1. PICK g \in Unfinished : pending' = g /\ gen' = g.gen + 1 /\ flag' = TRUE
                BY <3>4
            <4>2. enq' = FALSE
                BY ONLY <3>2 DEF RestoreOpenGap
            <4> QED
                BY ONLY <3>1, <4>1, <4>2
        <3> QED
            BY ONLY <3>2, <3>3, <3>4 DEF RestoreOpenGap
    <2>4. life' \in 0..MaxLives
        BY BoundsAssumption DEF TypeOK
    <2> QED
        BY <2>2, <2>3, <2>4 DEF TypeOK
<1>2. PipeOK'
    BY DEF PipeOK, OfConn, InRaw
<1>3. PhaseOK'
    BY DEF PhaseOK, Idle
<1>4. KnownOK'
    <2>1. started' = started \cup Unfinished
        BY DecisionsAreUnfinished
    <2>2. Known' = Known /\ Unfinished' = Unfinished
        BY <2>1 DEF Known, Unfinished
    <2> QED
        BY <2>1, <2>2 DEF KnownOK, Connected
<1>5. PendingOK'
    <2>1. started' = started \cup Unfinished
        BY DecisionsAreUnfinished
    <2>2. Unfinished' = Unfinished
        BY <2>1 DEF Unfinished
    <2>3. \/ Unfinished = {} /\ pending' = None /\ ~flag'
          \/ /\ pending' \in Unfinished /\ pending' # None /\ flag'
             /\ Unfinished \subseteq {pending'}
        <3>1. \A g \in Unfinished : g # None /\ Unfinished \subseteq {g}
            BY KnownTypes DEF KnownOK, Known, Unfinished
        <3> QED
            BY <3>1, DecisionsAreUnfinished
    <2>4. wpc' # "completed" /\ pc' \notin Connected
        BY DEF PipeOK, Connected
    <2> QED
        BY <2>1, <2>2, <2>3, <2>4 DEF PendingOK, Unfinished
<1>6. IntentOK'
    BY DEF IntentOK, Known, Unfinished, PhaseOK, Idle
<1>7. MarkOK'
    BY DEF MarkOK, InRaw, Connected, PipeOK, OfConn, PhaseOK, Idle
<1>8. RawOK'
    <2>1. \A i \in 1..Len(raw) : raw[i].life <= life + 1 /\ raw[i].life # life + 1
        BY RawTypes DEF RawOK
    <2>2. raw # << >> => Len(raw) \in 1..Len(raw)
        BY RawTypes
    <2> QED
        BY <2>1, <2>2 DEF RawOK
<1>9. NoSilentSwitch'
    BY DEF NoSilentSwitch
<1>10. CompletedHasMarker'
    BY DEF CompletedHasMarker
<1>11. TailOK'
    BY DEF TailOK
<1>12. BoundaryIsVisible'
    BY DEF BoundaryIsVisible
<1> QED
    BY <1>1, <1>2, <1>3, <1>4, <1>5, <1>6, <1>7, <1>8, <1>9, <1>10, <1>11, <1>12
-----------------------------------------------------------------------------
(* Theorems. *)

LEMMA InitHolds == ASSUME Init PROVE ReconnectInv
<1> USE DEF Init
<1>1. TypeOK
    <2>1. /\ queue \in Seq(Receipt) /\ batch \in Seq(Receipt) /\ hand \in Seq(Receipt)
          /\ intents \in Seq(Intent) /\ raw \in Seq(RawFrame)
        OBVIOUS
    <2>2. conn \in 0..MaxConns /\ life \in 0..MaxLives /\ Len(queue) <= QueueCap
        BY QueueAssumption, BoundsAssumption
    <2> QED
        BY <2>1, <2>2 DEF TypeOK
<1>2. Known = {} /\ Unfinished = {}
    BY DEF Known, Unfinished
<1>3. PipeOK /\ PhaseOK
    BY DEF PipeOK, PhaseOK, Idle, Connected
<1>4. KnownOK /\ PendingOK /\ IntentOK /\ MarkOK
    BY <1>2 DEF KnownOK, PendingOK, IntentOK, MarkOK, Connected
<1>5. HistoryOK /\ SealOK
    BY DEF HistoryOK, RawOK, NoSilentSwitch, CompletedHasMarker, SealOK, TailOK,
           BoundaryIsVisible
<1> QED
    BY <1>1, <1>3, <1>4, <1>5 DEF ReconnectInv

LEMMA StepsKeep == ASSUME AllKept, ReconnectInv, [Next]_vars PROVE ReconnectInv'
<1>1. CASE Receiver
    BY <1>1, ConnectKeeps, RetryKeeps, EndConnectionKeeps, HandoffKeeps, HandoffTimeoutKeeps,
       StopKeeps, AcceptKeeps, BackpressureKeeps DEF Receiver
<1>2. CASE Runner
    BY <1>2, CommitStartedKeeps, StartedFailsKeeps, ReturnStartedKeeps, DrainedKeeps DEF Runner
<1>3. CASE Writer
    BY <1>3, TakeKeeps, PersistKeeps, CommitCompletedKeeps, ReturnCompletedKeeps,
       BatchDoneKeeps, RotateChunkKeeps, CloseAndSealKeeps DEF Writer
<1>4. CASE Kill
    BY <1>4, KillKeeps
<1>5. CASE Start
    BY <1>5, StartKeeps
<1>6. CASE UNCHANGED vars
    <2> USE <1>6 DEF vars, recv, gapvars, boundary, writer, events
    <2>1. TypeOK' /\ PipeOK' /\ PhaseOK'
        BY DEF ReconnectInv, TypeOK, PipeOK, OfConn, InRaw, PhaseOK
    <2>2. KnownOK' /\ PendingOK' /\ IntentOK'
        BY DEF ReconnectInv, KnownOK, PendingOK, IntentOK, Known, Unfinished
    <2>3. MarkOK' /\ HistoryOK' /\ SealOK'
        BY DEF ReconnectInv, MarkOK, InRaw, HistoryOK, RawOK, NoSilentSwitch,
               CompletedHasMarker, SealOK, TailOK, BoundaryIsVisible
    <2> QED
        BY <2>1, <2>2, <2>3 DEF ReconnectInv
<1> QED
    BY <1>1, <1>2, <1>3, <1>4, <1>5, <1>6 DEF Next

\* At most one element means a cardinality of at most one.
LEMMA OneAtMost ==
    ASSUME NEW S, \A g, h \in S : g = h
    PROVE  Cardinality(S) <= 1
<1>1. CASE S = {}
    BY <1>1, FS_EmptySet
<1>2. CASE S # {}
    <2>1. PICK g \in S : S = {g}
        BY <1>2
    <2> QED
        BY <2>1, FS_Singleton
<1> QED
    BY <1>1, <1>2

LEMMA InvImplies == ASSUME ReconnectInv PROVE GapEvidenceIsSound /\ BoundaryIsVisible
<1>1. TypeOK /\ KnownOK /\ NoSilentSwitch /\ CompletedHasMarker /\ BoundaryIsVisible
    BY DEF ReconnectInv, HistoryOK, SealOK
<1>2. OneUnfinishedGap
    BY <1>1, OneAtMost DEF KnownOK, OneUnfinishedGap
<1>3. Decisions = Unfinished
    BY <1>1, DecisionsAreUnfinished
<1>4. Unfinished # {None}
    BY <1>1, KnownTypes DEF Known, Unfinished
<1>5. AlwaysStartable
    BY <1>2, <1>3, <1>4 DEF AlwaysStartable, Startable, OneUnfinishedGap
<1> QED
    BY <1>1, <1>2, <1>5 DEF GapEvidenceIsSound

LEMMA ReconnectInvariant == ASSUME AllKept PROVE Spec => []ReconnectInv
<1>1. Init => ReconnectInv
    BY InitHolds
<1>2. ReconnectInv /\ [Next]_vars => ReconnectInv'
    BY StepsKeep
<1> QED
    BY <1>1, <1>2, PTL DEF Spec

\* _restore_open_gap, _build_seal_intent, _record_gap_started and Phase A of
\* recovery: on a stream whose frames are all kept, every start can decide the
\* evidence, one gap at most is unfinished, no change of connection in Raw is
\* silent, and a completed gap has its marked frame.
THEOREM GapEvidenceStaysSound == ASSUME AllKept PROVE Spec => []GapEvidenceIsSound
<1>1. Spec => []ReconnectInv
    BY ReconnectInvariant
<1>2. ReconnectInv => GapEvidenceIsSound
    BY InvImplies
<1> QED
    BY <1>1, <1>2, PTL

\* run() and close_and_seal: on such a stream no chunk that a reconnect boundary
\* closed is sealed complete.
THEOREM BoundariesAreVisible == ASSUME AllKept PROVE Spec => []BoundaryIsVisible
<1>1. Spec => []ReconnectInv
    BY ReconnectInvariant
<1>2. ReconnectInv => BoundaryIsVisible
    BY InvImplies
<1> QED
    BY <1>1, <1>2, PTL

-----------------------------------------------------------------------------
(* Numbers. *)

(* Induction up to a number: no i is the first that is not in the set. *)
LEMMA CountingUp ==
    ASSUME NEW n \in Nat, NEW S, 0 \in S, \A i \in 1..n : i - 1 \in S => i \in S
    PROVE  \A i \in 0..n : i \in S
<1> DEFINE Off == {i \in 0..n : i \notin S}
<1>1. SUFFICES ASSUME Off # {} PROVE FALSE
    OBVIOUS
<1>2. Off \subseteq Nat
    OBVIOUS
<1>3. PICK i \in Off : \A k \in Off : ~(<<k, i>> \in OpToRel(<, Nat))
    BY <1>1, <1>2, NatLessThanWellFounded, WFMin
<1>4. \A k \in Off : i <= k
    <2> SUFFICES ASSUME NEW k \in Off PROVE i <= k
        OBVIOUS
    <2>1. <<k, i>> \in Nat \X Nat /\ ~(<<k, i>>[1] < <<k, i>>[2])
        BY <1>2, <1>3 DEF OpToRel
    <2> QED
        BY <2>1
<1>5. i \in 1..n /\ i - 1 \in 0..n /\ ~(i <= i - 1)
    OBVIOUS
<1>6. i - 1 \in S
    BY <1>4, <1>5
<1> QED
    BY <1>5, <1>6

\* Max is the greatest element of a set that has one.
LEMMA GreatestIsMax ==
    ASSUME NEW S \in SUBSET Nat, NEW m \in S, \A y \in S : y <= m
    PROVE  Max(S) = m
<1>1. /\ Max(S) \in S
      /\ \A y \in S : Max(S) >= y
    BY DEF Max
<1>2. Max(S) \in Nat /\ m \in Nat /\ Max(S) >= m /\ Max(S) <= m
    BY <1>1
<1> QED
    BY <1>2

\* A bounded set of numbers has a greatest element.
LEMMA MaxOfBounded ==
    ASSUME NEW S \in SUBSET Nat, S # {}, NEW B \in Nat, \A y \in S : y <= B
    PROVE  Max(S) \in S /\ \A y \in S : y <= Max(S)
<1> DEFINE Room == {B - x : x \in S}
<1>1. Room \subseteq Nat /\ Room # {}
    <2>1. \A x \in S : x \in Nat /\ x <= B /\ B - x \in Nat
        OBVIOUS
    <2> QED
        BY <2>1
<1>2. PICK n \in Room : \A k \in Room : ~(<<k, n>> \in OpToRel(<, Nat))
    BY <1>1, NatLessThanWellFounded, WFMin
<1>3. \A k \in Room : n <= k
    <2> SUFFICES ASSUME NEW k \in Room PROVE n <= k
        OBVIOUS
    <2>1. <<k, n>> \in Nat \X Nat /\ ~(<<k, n>>[1] < <<k, n>>[2])
        BY <1>1, <1>2 DEF OpToRel
    <2> QED
        BY <2>1
<1>4. PICK m \in S : n = B - m
    OBVIOUS
<1>5. \A y \in S : y <= m
    <2> SUFFICES ASSUME NEW y \in S PROVE y <= m
        OBVIOUS
    <2>1. B - y \in Room /\ y \in Nat /\ m \in Nat
        OBVIOUS
    <2>2. n <= B - y
        BY <1>3, <2>1
    <2> QED
        BY <1>4, <2>1, <2>2
<1> QED
    BY <1>5, GreatestIsMax

\* Min is the least element of a set of numbers that is not empty.
LEMMA MinOfNumbers ==
    ASSUME NEW S \in SUBSET Nat, S # {}
    PROVE  Min(S) \in S /\ \A y \in S : Min(S) <= y
<1>1. PICK n \in S : \A k \in S : ~(<<k, n>> \in OpToRel(<, Nat))
    BY NatLessThanWellFounded, WFMin
<1>2. \A k \in S : n <= k
    <2> SUFFICES ASSUME NEW k \in S PROVE n <= k
        OBVIOUS
    <2>1. <<k, n>> \in Nat \X Nat /\ ~(<<k, n>>[1] < <<k, n>>[2])
        BY <1>1 DEF OpToRel
    <2> QED
        BY <2>1
<1> QED
    BY <1>2 DEF Min

-----------------------------------------------------------------------------
(* What the last row of a ledger about a chunk says.                         *)

LedgerWords == {Life[i] : i \in 1..8} \cup {"none", "", "started", "completed",
                "stopped", "before", "since"}
LedgerRows == [c : Nat, from : LedgerWords, to : LedgerWords]
Ledgers == [oper : Seq(LedgerRows), chunk : Seq(LedgerRows), arch : Seq(LedgerRows)]

LEMMA FamsAre == Fams = {"oper", "chunk", "arch"}
BY DEF Fams

LEMMA LedgersAre ==
    ASSUME NEW log \in Ledgers, NEW f \in Fams
    PROVE  log[f] \in Seq(LedgerRows) /\ Len(log[f]) \in Nat
BY DEF Ledgers, Fams

\* The state that the first n rows leave a chunk in.
LastTo(rows, n, c) ==
    LET ids == {i \in 1..n : rows[i].c = c}
    IN  IF ids = {} THEN "none" ELSE rows[Max(ids)].to

LEMMA ChunkStateIsLastTo ==
    ASSUME NEW log, NEW hw, NEW c
    PROVE  ChunkState(log, hw, c) = LastTo(log["chunk"], hw["chunk"], c)
BY DEF ChunkState, LastTo

LEMMA LastToOfNone == ASSUME NEW rows, NEW c PROVE LastTo(rows, 0, c) = "none"
<1>1. {i \in 1..0 : rows[i].c = c} = {}
    OBVIOUS
<1> QED
    BY <1>1 DEF LastTo

Agree(rows, others, n) == \A i \in 1..n : rows[i] = others[i]

LEMMA LastToAgrees ==
    ASSUME NEW rows, NEW others, NEW n \in Nat, NEW c, Agree(rows, others, n)
    PROVE  LastTo(rows, n, c) = LastTo(others, n, c)
<1> DEFINE a == {i \in 1..n : rows[i].c = c}
           b == {i \in 1..n : others[i].c = c}
<1>1. a = b
    BY DEF Agree
<1>2. a # {} => Max(a) \in 1..n
    <2>1. a \in SUBSET Nat /\ (\A y \in a : y <= n) /\ a \subseteq 1..n
        OBVIOUS
    <2> HIDE DEF a
    <2> QED
        BY <2>1, MaxOfBounded
<1>3. LastTo(rows, n, c) = IF a = {} THEN "none" ELSE rows[Max(a)].to
    BY DEF LastTo
<1>4. LastTo(others, n, c) = IF b = {} THEN "none" ELSE others[Max(b)].to
    BY DEF LastTo
<1> HIDE DEF a, b
<1> QED
    BY <1>1, <1>2, <1>3, <1>4 DEF Agree

LEMMA LastToStep ==
    ASSUME NEW rows, NEW n \in Nat, n >= 1, NEW c
    PROVE  LastTo(rows, n, c) = IF rows[n].c = c THEN rows[n].to ELSE LastTo(rows, n - 1, c)
<1> DEFINE a == {i \in 1..n : rows[i].c = c}
           b == {i \in 1..(n - 1) : rows[i].c = c}
<1>1. LastTo(rows, n, c) = IF a = {} THEN "none" ELSE rows[Max(a)].to
    BY DEF LastTo
<1>2. LastTo(rows, n - 1, c) = IF b = {} THEN "none" ELSE rows[Max(b)].to
    BY DEF LastTo
<1>3. CASE rows[n].c = c
    <2>1. n \in a /\ a \in SUBSET Nat /\ \A y \in a : y <= n
        BY <1>3
    <2> HIDE DEF a
    <2>2. Max(a) = n
        BY <2>1, GreatestIsMax
    <2> QED
        BY <1>1, <1>3, <2>1, <2>2
<1>4. CASE rows[n].c # c
    <2>1. a = b
        BY <1>4
    <2> HIDE DEF a, b
    <2> QED
        BY <1>1, <1>2, <1>4, <2>1
<1> QED
    BY <1>3, <1>4

\* One more row at the end.
LEMMA LastToAppended ==
    ASSUME NEW rows \in Seq(LedgerRows), NEW row \in LedgerRows, NEW c
    PROVE  LastTo(Append(rows, row), Len(Append(rows, row)), c)
               = IF row.c = c THEN row.to ELSE LastTo(rows, Len(rows), c)
<1> DEFINE n == Len(rows)
           more == Append(rows, row)
<1>1. /\ n \in Nat /\ Len(more) = n + 1 /\ more[n + 1] = row
      /\ \A i \in 1..n : more[i] = rows[i]
    OBVIOUS
<1> HIDE DEF n, more
<1>2. LastTo(more, n + 1, c) = IF row.c = c THEN row.to ELSE LastTo(more, n, c)
    <2>1. n + 1 \in Nat /\ n + 1 >= 1 /\ (n + 1) - 1 = n
        BY <1>1
    <2> QED
        BY <1>1, <2>1, LastToStep
<1>3. LastTo(more, n, c) = LastTo(rows, n, c)
    BY <1>1, LastToAgrees DEF Agree
<1> QED
    BY <1>1, <1>2, <1>3 DEF n, more

\* A ledger only grows.
LogGrows(log, more) ==
    \A f \in Fams : /\ Len(log[f]) <= Len(more[f])
                    /\ \A i \in 1..Len(log[f]) : more[f][i] = log[f][i]

LEMMA ChunkStateGrows ==
    ASSUME NEW log \in Ledgers, NEW more \in Ledgers, LogGrows(log, more),
           NEW hw, hw["chunk"] \in Nat, hw["chunk"] <= Len(log["chunk"]), NEW c
    PROVE  ChunkState(more, hw, c) = ChunkState(log, hw, c)
<1>1. "chunk" \in Fams /\ Len(log["chunk"]) \in Nat
    BY LedgersAre, FamsAre
<1>2. \A i \in 1..hw["chunk"] : more["chunk"][i] = log["chunk"][i]
    BY <1>1 DEF LogGrows
<1> DEFINE n == hw["chunk"]
           a == log["chunk"]
           b == more["chunk"]
<1>3. LastTo(a, n, c) = LastTo(b, n, c)
    <2>1. n \in Nat /\ Agree(a, b, n)
        BY <1>2 DEF Agree
    <2> HIDE DEF a, b, n
    <2> QED
        BY <2>1, LastToAgrees
<1> QED
    BY <1>3, ChunkStateIsLastTo

\* The rows that a row refers to do not change any more.
LEMMA CompanionsGrow ==
    ASSUME NEW log \in Ledgers, NEW more \in Ledgers, LogGrows(log, more),
           NEW hw \in [Fams -> Nat], \A g \in Fams : hw[g] <= Len(log[g]),
           NEW f \in Fams, NEW id \in 1..Len(log[f])
    PROVE  Companions(more, hw, f, id) = Companions(log, hw, f, id)
<1>1. more[f][id] = log[f][id]
    BY DEF LogGrows
<1>2. \A g \in Fams : \A i \in 1..hw[g] : more[g][i] = log[g][i]
    <2> SUFFICES ASSUME NEW g \in Fams, NEW i \in 1..hw[g] PROVE more[g][i] = log[g][i]
        OBVIOUS
    <2>1. i \in 1..Len(log[g])
        BY LedgersAre
    <2> QED
        BY <2>1 DEF LogGrows
<1> DEFINE c == log[f][id].c
<1>3. {k \in 1..hw["oper"] : c # 0 /\ more["oper"][k].c = c}
        = {k \in 1..hw["oper"] : c # 0 /\ log["oper"][k].c = c}
    BY <1>2, FamsAre
<1>4. {k \in 1..hw["arch"] : more["arch"][k].c = c} = {k \in 1..hw["arch"] : log["arch"][k].c = c}
    BY <1>2, FamsAre
<1>5. {k \in 1..hw["chunk"] : more["chunk"][k].c = c /\ more["chunk"][k].to \in ArchiveSteps}
        = {k \in 1..hw["chunk"] : log["chunk"][k].c = c /\ log["chunk"][k].to \in ArchiveSteps}
    BY <1>2, FamsAre
<1> HIDE DEF c
<1>6. log[f][id].c = c /\ more[f][id].c = c
    BY <1>1 DEF c
<1>7. CASE f = "oper"
    <2> DEFINE ours(rows) == {k \in 1..hw["oper"] : c # 0 /\ rows["oper"][k].c = c}
    <2>1. ours(more) = ours(log)
        BY <1>3
    <2>2. /\ Companions(more, hw, f, id) = {<<"oper", i>> : i \in ours(more)}
          /\ Companions(log, hw, f, id) = {<<"oper", i>> : i \in ours(log)}
        BY <1>6, <1>7 DEF Companions
    <2> HIDE DEF ours
    <2> QED
        BY <2>1, <2>2
<1>8. CASE f # "oper"
    <2> DEFINE archived(rows) == {k \in 1..hw["arch"] : rows["arch"][k].c = c}
               retired(rows) == {k \in 1..hw["chunk"] :
                                 rows["chunk"][k].c = c /\ rows["chunk"][k].to \in ArchiveSteps}
    <2>1. archived(more) = archived(log)
        BY <1>4
    <2>2. retired(more) = retired(log)
        BY <1>5
    <2>3. Companions(more, hw, f, id)
            = {<<"arch", i>> : i \in archived(more)} \cup {<<"chunk", i>> : i \in retired(more)}
        BY <1>6, <1>8 DEF Companions
    <2>4. Companions(log, hw, f, id)
            = {<<"arch", i>> : i \in archived(log)} \cup {<<"chunk", i>> : i \in retired(log)}
        BY <1>6, <1>8 DEF Companions
    <2> HIDE DEF archived, retired
    <2> QED
        BY <2>1, <2>2, <2>3, <2>4
<1> QED
    BY <1>7, <1>8

LEMMA CompanionsAreFinite ==
    ASSUME NEW log, NEW hw \in [Fams -> Nat], NEW f \in Fams, NEW id
    PROVE  /\ Companions(log, hw, f, id) \subseteq Fams \X Nat
           /\ IsFiniteSet(Companions(log, hw, f, id))
<1> DEFINE all(g) == {<<g, i>> : i \in 1..hw[g]}
           box == all("oper") \cup all("chunk") \cup all("arch")
<1>1. hw["oper"] \in Nat /\ hw["chunk"] \in Nat /\ hw["arch"] \in Nat
    BY FamsAre
<1>2. Companions(log, hw, f, id) \subseteq box
    BY DEF Companions
<1>3. ASSUME NEW g, hw[g] \in Nat PROVE IsFiniteSet(all(g))
    <2>1. IsFiniteSet(1..hw[g])
        BY <1>3, FS_Interval
    <2> DEFINE F == [i \in 1..hw[g] |-> <<g, i>>]
    <2>2. F \in Surjection(1..hw[g], all(g))
        BY DEF Surjection
    <2> QED
        BY <2>1, <2>2, FS_Surjection
<1>4. IsFiniteSet(box)
    <2>1. IsFiniteSet(all("oper")) /\ IsFiniteSet(all("chunk")) /\ IsFiniteSet(all("arch"))
        BY <1>1, <1>3
    <2> HIDE DEF all
    <2>2. IsFiniteSet(all("oper") \cup all("chunk"))
        BY <2>1, FS_Union
    <2> QED
        BY <2>1, <2>2, FS_Union
<1>5. box \subseteq Fams \X Nat
    BY <1>1, FamsAre
<1> HIDE DEF box
<1> QED
    BY <1>2, <1>4, <1>5, FS_Subset

-----------------------------------------------------------------------------
(* What a continuation stands for. *)

Findings == {"process_incarnation_changed", "archive_aggregate_disagreement",
             "terminal_event", "unmarked_reconnect"}

Conts == [processed : [Fams -> Nat], seen : [Fams -> Nat], refs : SUBSET (Fams \X Nat),
          gap : Nat, counts : [Backlog -> Int], found : SUBSET Findings]

ArchCount(rows, n, s) == Cardinality({c \in 1..V5Chunks : LastTo(rows, n, c) = s})

\* An archive step goes on from the one before it, of a chunk there is.
ArchChained(log) ==
    \A i \in 1..Len(log["arch"]) :
        LET row == log["arch"][i] IN
        row.c \in 1..V5Chunks /\ row.from = LastTo(log["arch"], i - 1, row.c)

CursorsOK(w, cont) ==
    \A f \in Fams : w.base[f] <= cont.processed[f] /\ cont.processed[f] <= Len(w.log[f])

EveryRowAcked(w, cont, entries) ==
    \A f \in Fams : \A id \in (w.base[f] + 1)..cont.processed[f] :
        \E e \in entries : e.f = f /\ e.id = id

EntryOK(w, e) ==
    /\ e.f \in Fams /\ e.id \in (w.base[e.f] + 1)..Len(w.log[e.f])
    /\ e.row = w.log[e.f][e.id] /\ e.refs \subseteq Fams \X Nat
    /\ e.f = "chunk" /\ e.row.to = "SEALED" => e.unit = ReconnectOf(w, e.row.c)

RefsOf(entries) == {e.refs : e \in entries}

RefsOK(cont, entries) ==
    /\ IsFiniteSet(cont.refs)
    /\ cont.refs = {r \in UNION RefsOf(entries) : r[2] > cont.processed[r[1]]}

CountsOK(w, cont) ==
    \A s \in Backlog : cont.counts[s] = ArchCount(w.log["arch"], cont.processed["arch"], s)

\* The gap is open exactly if the last row about one is its start.
GapOK(w, cont) ==
    LET rows == w.log["oper"]
        done == cont.processed["oper"]
    IN  \A i \in (w.base["oper"] + 1)..done :
            rows[i].c # 0 /\ (\A k \in (i + 1)..done : rows[k].c = 0) =>
                (cont.gap # 0 <=> rows[i].to = "started")

\* A service stop that names an instant since T0.
Stops(row) == row.to = "stopped" /\ row.from = "since"

FoundOK(w, cont) ==
    \A i \in (w.base["oper"] + 1)..cont.processed["oper"] :
        Stops(w.log["oper"][i]) => "terminal_event" \in cont.found

Good(w, cont, entries) ==
    /\ cont \in Conts /\ CursorsOK(w, cont) /\ EveryRowAcked(w, cont, entries)
    /\ \A e \in entries : EntryOK(w, e)
    /\ RefsOK(cont, entries) /\ CountsOK(w, cont) /\ GapOK(w, cont) /\ FoundOK(w, cont)

WorldRead(w) ==
    /\ w.log \in Ledgers /\ w.base \in [Fams -> Nat]
    /\ \A f \in Fams : w.base[f] <= Len(w.log[f])
    /\ ArchChained(w.log)

\* An acknowledged row and what it refers to.
Entry(e) == e.f \in Fams /\ e.id \in Nat /\ e.row \in LedgerRows /\ e.refs \in SUBSET (Fams \X Nat)

\* What a row that is acknowledged changes.
AckedNext(next, cont, e) ==
    /\ next \in Conts
    /\ next.processed = [cont.processed EXCEPT ![e.f] = e.id]
    /\ next.refs = (cont.refs \ {<<e.f, e.id>>})
          \cup {r \in e.refs : r[2] > cont.processed[r[1]] /\ r # <<e.f, e.id>>}
    /\ next.counts = IF e.f # "arch" THEN cont.counts ELSE
          [s \in Backlog |-> cont.counts[s] - (IF s = e.row.from THEN 1 ELSE 0)
                                            + (IF s = e.row.to THEN 1 ELSE 0)]
    /\ next.gap = IF e.f # "oper" \/ e.row.c = 0 THEN cont.gap
                  ELSE IF e.row.to = "started" THEN e.row.c ELSE 0
    /\ cont.found \subseteq next.found
    /\ Stops(e.row) => "terminal_event" \in next.found
    /\ next.seen = cont.seen

LEMMA UnionWithOneMore ==
    ASSUME NEW S, NEW e
    PROVE  UNION RefsOf(S \cup {e}) = (UNION RefsOf(S)) \cup e.refs
<1> DEFINE A == RefsOf(S)
           r == e.refs
<1>1. RefsOf(S \cup {e}) = A \cup {r}
    BY DEF RefsOf
<1> HIDE DEF A, r
<1>2. UNION (A \cup {r}) = (UNION A) \cup r
    OBVIOUS
<1>3. UNION RefsOf(S \cup {e}) = (UNION A) \cup r
    BY <1>1, <1>2
<1> QED
    BY <1>3 DEF A, r

LEMMA AckRowFields ==
    ASSUME NEW cont \in Conts, NEW e, Entry(e)
    PROVE  AckedNext(AckRow(cont, e), cont, e)
<1> DEFINE p == [cont.processed EXCEPT ![e.f] = e.id]
           r == (cont.refs \ {<<e.f, e.id>>})
                   \cup {x \in e.refs : x[2] > cont.processed[x[1]] /\ x # <<e.f, e.id>>}
           n == IF e.f # "arch" THEN cont.counts ELSE
                   [s \in Backlog |-> cont.counts[s] - (IF s = e.row.from THEN 1 ELSE 0)
                                                     + (IF s = e.row.to THEN 1 ELSE 0)]
           g == IF e.f # "oper" \/ e.row.c = 0 THEN cont.gap
                ELSE IF e.row.to = "started" THEN e.row.c ELSE 0
           f == cont.found
                   \cup (IF Stops(e.row) THEN {"terminal_event"} ELSE {})
                   \cup (IF e.unit = "silent" THEN {"unmarked_reconnect"} ELSE {})
<1>1. AckRow(cont, e) = [cont EXCEPT !.processed = p, !.refs = r, !.counts = n, !.gap = g,
                                     !.found = f]
    BY DEF AckRow, Conts, Stops
<1>2. p \in [Fams -> Nat]
    BY DEF Entry, Conts
<1>3. r \in SUBSET (Fams \X Nat)
    BY DEF Entry, Conts
<1>4. n \in [Backlog -> Int]
    BY DEF Conts
<1>5. g \in Nat
    BY DEF Entry, Conts, LedgerRows
<1>6. f \in SUBSET Findings /\ cont.found \subseteq f /\ (Stops(e.row) => "terminal_event" \in f)
    BY DEF Conts, Findings
<1> HIDE DEF p, r, n, g, f
<1>7. AckRow(cont, e) = [processed |-> p, seen |-> cont.seen, refs |-> r, gap |-> g, counts |-> n,
                         found |-> f]
    BY <1>1 DEF Conts
<1>8. cont.seen \in [Fams -> Nat]
    BY DEF Conts
<1>9. AckRow(cont, e) \in Conts
    BY <1>2, <1>3, <1>4, <1>5, <1>6, <1>7, <1>8 DEF Conts
<1>10. LET next == AckRow(cont, e) IN
       /\ next.processed = p /\ next.refs = r /\ next.counts = n /\ next.gap = g /\ next.found = f
       /\ next.seen = cont.seen
    BY <1>7
<1> HIDE DEF AckRow
<1> QED
    BY <1>6, <1>9, <1>10 DEF p, r, n, g, AckedNext

\* One archive step moves one chunk from one count to another.
LEMMA CountMoves ==
    ASSUME NEW rows, NEW n \in Nat, n >= 1, rows[n].c \in 1..V5Chunks,
           rows[n].from = LastTo(rows, n - 1, rows[n].c), NEW s
    PROVE  ArchCount(rows, n, s) = ArchCount(rows, n - 1, s)
               - (IF s = rows[n].from THEN 1 ELSE 0) + (IF s = rows[n].to THEN 1 ELSE 0)
<1> DEFINE d == rows[n].c
           a == {c \in 1..V5Chunks : LastTo(rows, n, c) = s}
           b == {c \in 1..V5Chunks : LastTo(rows, n - 1, c) = s}
<1>1. a = IF s = rows[n].to THEN b \cup {d} ELSE b \ {d}
    <2>1. \A c \in 1..V5Chunks :
             LastTo(rows, n, c) = IF d = c THEN rows[n].to ELSE LastTo(rows, n - 1, c)
        BY LastToStep
    <2> QED
        BY <2>1
<1>2. d \in b <=> s = rows[n].from
    OBVIOUS
<1>3. IsFiniteSet(b) /\ Cardinality(b) \in Nat
    <2>1. IsFiniteSet(1..V5Chunks)
        BY V5ChunksAssumption, FS_Interval
    <2>2. IsFiniteSet(b)
        BY <2>1, FS_Subset
    <2> QED
        BY <2>2, FS_CardinalityType
<1>4. ArchCount(rows, n, s) = Cardinality(a) /\ ArchCount(rows, n - 1, s) = Cardinality(b)
    BY DEF ArchCount
<1> HIDE DEF a, b, d
<1>5. /\ Cardinality(b \cup {d}) = IF d \in b THEN Cardinality(b) ELSE Cardinality(b) + 1
      /\ Cardinality(b \ {d}) = IF d \in b THEN Cardinality(b) - 1 ELSE Cardinality(b)
    BY <1>3, FS_AddElement, FS_RemoveElement
<1> QED
    BY <1>1, <1>2, <1>3, <1>4, <1>5

\* To acknowledge the next row of a family is to stand for one row more.
LEMMA AckIsGood ==
    ASSUME NEW w, WorldRead(w), NEW cont, NEW entries, Good(w, cont, entries),
           NEW e, EntryOK(w, e), IsFiniteSet(e.refs), e.id = cont.processed[e.f] + 1
    PROVE  Good(w, AckRow(cont, e), entries \cup {e})
           /\ AckRow(cont, e).processed = [cont.processed EXCEPT ![e.f] = e.id]
<1> DEFINE next == AckRow(cont, e)
           f == e.f
           id == e.id
<1>1. /\ cont \in Conts /\ f \in Fams /\ id \in Nat /\ id \in 1..Len(w.log[f]) /\ w.log[f] \in Seq(LedgerRows)
      /\ cont.processed \in [Fams -> Nat] /\ id = cont.processed[f] + 1 /\ Len(w.log[f]) \in Nat
      /\ w.base \in [Fams -> Nat] /\ e.row = w.log[f][id]
    <2>1. /\ cont \in Conts /\ f \in Fams /\ id \in (w.base[f] + 1)..Len(w.log[f])
          /\ e.row = w.log[f][id]
        BY DEF Good, EntryOK
    <2>2. w.log \in Ledgers /\ w.base \in [Fams -> Nat]
        BY DEF WorldRead
    <2>3. w.log[f] \in Seq(LedgerRows) /\ Len(w.log[f]) \in Nat /\ w.base[f] \in Nat
        BY <2>1, <2>2, LedgersAre
    <2>4. cont.processed \in [Fams -> Nat]
        BY <2>1 DEF Conts
    <2> HIDE DEF f
    <2>5. id \in Nat /\ id \in 1..Len(w.log[f])
        BY <2>1, <2>3
    <2> QED
        BY <2>1, <2>2, <2>3, <2>4, <2>5 DEF f
<1>2. Entry(e)
    <2>1. w.log[f][id] \in LedgerRows
        BY <1>1
    <2> QED
        BY <1>1, <2>1 DEF EntryOK, Entry
<1>3. /\ next \in Conts /\ next.processed = [cont.processed EXCEPT ![f] = id]
      /\ next.refs = (cont.refs \ {<<f, id>>})
            \cup {r \in e.refs : r[2] > cont.processed[r[1]] /\ r # <<f, id>>}
      /\ next.counts = IF f # "arch" THEN cont.counts ELSE
            [s \in Backlog |-> cont.counts[s] - (IF s = e.row.from THEN 1 ELSE 0)
                                              + (IF s = e.row.to THEN 1 ELSE 0)]
      /\ next.gap = IF f # "oper" \/ e.row.c = 0 THEN cont.gap
                    ELSE IF e.row.to = "started" THEN e.row.c ELSE 0
      /\ cont.found \subseteq next.found
      /\ Stops(e.row) => "terminal_event" \in next.found
    <2>1. AckedNext(next, cont, e)
        BY <1>1, <1>2, AckRowFields
    <2> HIDE DEF next
    <2> QED
        BY <2>1 DEF AckedNext
<1> HIDE DEF next
<1>4. /\ next.processed[f] = id /\ \A g \in Fams : g # f => next.processed[g] = cont.processed[g]
      /\ \A g \in Fams : cont.processed[g] \in Nat /\ next.processed[g] \in Nat
    BY <1>1, <1>3 DEF Conts
<1> HIDE DEF f, id
<1>5. CursorsOK(w, next)
    <2> SUFFICES ASSUME NEW g \in Fams
                 PROVE  w.base[g] <= next.processed[g] /\ next.processed[g] <= Len(w.log[g])
        BY DEF CursorsOK
    <2>1. w.base[g] <= cont.processed[g] /\ cont.processed[g] <= Len(w.log[g]) /\ w.base[g] \in Nat
        BY <1>1 DEF Good, CursorsOK
    <2>2. CASE g = f
        <3>1. next.processed[g] = id /\ id = cont.processed[g] + 1 /\ id <= Len(w.log[g])
            BY <1>1, <1>4, <2>2
        <3>2. cont.processed[g] \in Nat
            BY <1>4
        <3> QED
            BY <2>1, <3>1, <3>2
    <2>3. CASE g # f
        BY <1>4, <2>1, <2>3
    <2> QED
        BY <2>2, <2>3
<1>6. EveryRowAcked(w, next, entries \cup {e})
    <2> SUFFICES ASSUME NEW g \in Fams, NEW i \in (w.base[g] + 1)..next.processed[g]
                 PROVE  \E x \in entries \cup {e} : x.f = g /\ x.id = i
        BY DEF EveryRowAcked
    <2>1. CASE g = f /\ i = id
        BY <2>1 DEF f, id
    <2>2. CASE ~(g = f /\ i = id)
        <3>1. i \in (w.base[g] + 1)..cont.processed[g]
            <4>1. w.base[g] \in Nat
                BY <1>1
            <4> QED
                BY <1>1, <1>4, <2>2, <4>1
        <3> QED
            BY <3>1 DEF Good, EveryRowAcked
    <2> QED
        BY <2>1, <2>2
<1>7. \A x \in entries \cup {e} : EntryOK(w, x)
    BY DEF Good
<1>8. RefsOK(next, entries \cup {e})
    <2>1. IsFiniteSet(cont.refs) /\ \A x \in entries : x.refs \subseteq Fams \X Nat
        BY DEF Good, RefsOK, EntryOK
    <2>2. IsFiniteSet(next.refs)
        <3> DEFINE u == cont.refs \cup e.refs
        <3>1. IsFiniteSet(u)
            BY <2>1, FS_Union
        <3>2. next.refs \in SUBSET u
            BY <1>3
        <3> QED
            BY <3>1, <3>2, FS_Subset
    <2>3. cont.refs = {r \in UNION RefsOf(entries) : r[2] > cont.processed[r[1]]}
        BY DEF Good, RefsOK
    <2>4. ASSUME NEW r \in Fams \X Nat
          PROVE  r[2] > next.processed[r[1]] <=> r[2] > cont.processed[r[1]] /\ r # <<f, id>>
        <3>1. r = <<r[1], r[2]>> /\ r[1] \in Fams /\ r[2] \in Nat
            OBVIOUS
        <3>2. r = <<f, id>> <=> r[1] = f /\ r[2] = id
            BY <3>1
        <3>3. cont.processed[r[1]] \in Nat /\ cont.processed[f] \in Nat
            BY <1>1, <1>4, <3>1
        <3>4. CASE r[1] = f
            BY <1>1, <1>4, <3>1, <3>2, <3>3, <3>4
        <3>5. CASE r[1] # f
            BY <1>4, <3>1, <3>2, <3>5
        <3> QED
            BY <3>4, <3>5
    <2>5. UNION RefsOf(entries \cup {e}) = (UNION RefsOf(entries)) \cup e.refs
        BY UnionWithOneMore
    <2>6. e.refs \subseteq Fams \X Nat /\ UNION RefsOf(entries) \subseteq Fams \X Nat
        BY <2>1 DEF EntryOK, RefsOf
    <2>7. next.refs = {r \in UNION RefsOf(entries \cup {e}) : r[2] > next.processed[r[1]]}
        <3> DEFINE all == UNION RefsOf(entries)
        <3>1. all \subseteq Fams \X Nat /\ cont.refs = {r \in all : r[2] > cont.processed[r[1]]}
            BY <2>3, <2>6
        <3> HIDE DEF all
        <3>2. \A r \in all \cup e.refs :
                 r[2] > next.processed[r[1]] <=> r[2] > cont.processed[r[1]] /\ r # <<f, id>>
            BY <2>4, <2>6, <3>1
        <3>3. next.refs = {r \in all \cup e.refs : r[2] > next.processed[r[1]]}
            BY <1>3, <3>1, <3>2
        <3> QED
            BY <2>5, <3>3 DEF all
    <2> QED
        BY <2>2, <2>7 DEF RefsOK
<1>9. CountsOK(w, next)
    <2> SUFFICES ASSUME NEW s \in Backlog
                 PROVE  next.counts[s] = ArchCount(w.log["arch"], next.processed["arch"], s)
        BY DEF CountsOK
    <2>1. cont.counts[s] = ArchCount(w.log["arch"], cont.processed["arch"], s)
        BY DEF Good, CountsOK
    <2>2. CASE f # "arch"
        BY <1>3, <1>4, <2>1, <2>2, FamsAre
    <2>3. CASE f = "arch"
        <3> DEFINE rows == w.log["arch"]
        <3>1. rows[id].c \in 1..V5Chunks /\ rows[id].from = LastTo(rows, id - 1, rows[id].c)
            BY <1>1, <2>3 DEF WorldRead, ArchChained
        <3>2. id \in Nat /\ id >= 1 /\ id - 1 = cont.processed["arch"]
            BY <1>1, <1>4, <2>3
        <3>3. ArchCount(rows, id, s) = ArchCount(rows, id - 1, s)
               - (IF s = rows[id].from THEN 1 ELSE 0) + (IF s = rows[id].to THEN 1 ELSE 0)
            BY <3>1, <3>2, CountMoves
        <3>4. rows[id] = e.row /\ next.processed["arch"] = id
            BY <1>1, <1>4, <2>3
        <3>5. next.counts[s] = cont.counts[s] - (IF s = e.row.from THEN 1 ELSE 0)
                                              + (IF s = e.row.to THEN 1 ELSE 0)
            BY <1>3, <2>3
        <3>6. cont.counts[s] = ArchCount(rows, id - 1, s)
            BY <2>1, <3>2
        <3> HIDE DEF rows
        <3>7. next.counts[s] = ArchCount(rows, id, s)
            BY <3>3, <3>4, <3>5, <3>6
        <3> QED
            BY <3>4, <3>7 DEF rows
    <2> QED
        BY <2>2, <2>3
<1>10. GapOK(w, next)
    <2> DEFINE rows == w.log["oper"]
               done == cont.processed["oper"]
               now == next.processed["oper"]
    <2>1. \A i \in (w.base["oper"] + 1)..done :
            rows[i].c # 0 /\ (\A k \in (i + 1)..done : rows[k].c = 0) =>
                (cont.gap # 0 <=> rows[i].to = "started")
        BY DEF Good, GapOK
    <2>2. CASE f # "oper"
        <3>1. now = done /\ next.gap = cont.gap
            BY <1>3, <1>4, <2>2, FamsAre
        <3> QED
            BY <2>1, <3>1 DEF GapOK
    <2>3. CASE f = "oper"
        <3>1. now = id /\ id = done + 1 /\ e.row = rows[id] /\ done \in Nat /\ w.base["oper"] \in Nat
            BY <1>1, <1>4, <2>3, FamsAre
        <3> SUFFICES ASSUME NEW i \in (w.base["oper"] + 1)..now, rows[i].c # 0,
                            \A k \in (i + 1)..now : rows[k].c = 0
                     PROVE  next.gap # 0 <=> rows[i].to = "started"
            BY DEF GapOK
        <3>2. CASE i = id
            BY <1>3, <2>3, <3>1, <3>2
        <3>3. CASE i # id
            <4>1. i \in (w.base["oper"] + 1)..done /\ id \in (i + 1)..now
                  /\ \A k \in (i + 1)..done : k \in (i + 1)..now
                BY <3>1, <3>3
            <4>2. next.gap = cont.gap
                BY <1>3, <3>1, <4>1
            <4> QED
                BY <2>1, <4>1, <4>2
        <3> QED
            BY <3>2, <3>3
    <2> QED
        BY <2>2, <2>3
<1>11. FoundOK(w, next)
    <2> SUFFICES ASSUME NEW i \in (w.base["oper"] + 1)..next.processed["oper"],
                        Stops(w.log["oper"][i])
                 PROVE  "terminal_event" \in next.found
        BY DEF FoundOK
    <2>1. CASE f = "oper" /\ i = id
        BY <1>1, <1>3, <2>1
    <2>2. CASE ~(f = "oper" /\ i = id)
        <3>1. w.base["oper"] \in Nat /\ "oper" \in Fams
            BY <1>1, FamsAre
        <3>2. i \in (w.base["oper"] + 1)..cont.processed["oper"]
            <4>1. CASE f # "oper"
                BY <1>4, <3>1, <4>1
            <4>2. CASE f = "oper" /\ i # id
                <5>1. next.processed["oper"] = id /\ id = cont.processed["oper"] + 1
                      /\ cont.processed["oper"] \in Nat
                    BY <1>1, <1>4, <3>1, <4>2
                <5> QED
                    BY <3>1, <4>2, <5>1
            <4> QED
                BY <2>2, <4>1, <4>2
        <3> QED
            BY <1>3, <3>2 DEF Good, FoundOK
    <2> QED
        BY <2>1, <2>2
<1> QED
    BY <1>3, <1>5, <1>6, <1>7, <1>8, <1>9, <1>10, <1>11 DEF Good, next, f, id

-----------------------------------------------------------------------------
(* Replaying a page. *)

IsPageReplay(g, log, high, cont, page, n) ==
    g = [i \in 0..n |->
            IF i = 0 THEN cont
            ELSE IF page[i].status = "acknowledged"
                 THEN AckRow(g[i - 1], Expanded(log, high, page[i]))
            ELSE g[i - 1]]

LEMMA PageReplayExists ==
    ASSUME NEW log, NEW high, NEW cont, NEW page, NEW n \in Nat
    PROVE  \E g : IsPageReplay(g, log, high, cont, page, n)
<1> DEFINE Step(g, i) == IF page[i].status = "acknowledged"
                         THEN AckRow(g, Expanded(log, high, page[i])) ELSE g
           Reached == {k \in 0..n : \E g : IsPageReplay(g, log, high, cont, page, k)}
<1>1. 0 \in Reached
    <2> DEFINE g == [i \in 0..0 |-> cont]
    <2>1. IsPageReplay(g, log, high, cont, page, 0)
        BY DEF IsPageReplay
    <2> QED
        BY <2>1
<1>2. ASSUME NEW k \in 1..n, k - 1 \in Reached PROVE k \in Reached
    <2>1. PICK h : IsPageReplay(h, log, high, cont, page, k - 1)
        BY <1>2
    <2> DEFINE g == [i \in 0..k |-> IF i = k THEN Step(h[k - 1], k) ELSE h[i]]
    <2>2. ASSUME NEW i \in 0..k PROVE g[i] = IF i = 0 THEN cont ELSE Step(g[i - 1], i)
        <3>1. CASE i = k
            <4>1. k # 0 /\ k - 1 \in 0..k /\ k - 1 # k
                OBVIOUS
            <4> QED
                BY <3>1, <4>1
        <3>2. CASE i # k
            <4>1. i \in 0..(k - 1)
                BY <3>2
            <4>2. h[i] = IF i = 0 THEN cont ELSE Step(h[i - 1], i)
                BY <2>1, <4>1 DEF IsPageReplay
            <4>3. i # 0 => i - 1 \in 0..k /\ i - 1 # k
                BY <4>1
            <4> QED
                BY <3>2, <4>2, <4>3
        <3> QED
            BY <3>1, <3>2
    <2>3. IsPageReplay(g, log, high, cont, page, k)
        BY <2>2 DEF IsPageReplay
    <2> HIDE DEF g
    <2> QED
        BY <2>3
<1> HIDE DEF Reached
<1>3. n \in Reached
    BY <1>1, <1>2, CountingUp
<1> QED
    BY <1>3 DEF Reached

LEMMA ReplayPageIs ==
    ASSUME NEW log, NEW high, NEW cont, NEW page, Len(page) \in Nat
    PROVE  \E g : /\ IsPageReplay(g, log, high, cont, page, Len(page))
                  /\ ReplayPage(log, high, cont, page) = g[Len(page)]
<1> DEFINE g == CHOOSE h : IsPageReplay(h, log, high, cont, page, Len(page))
<1>1. IsPageReplay(g, log, high, cont, page, Len(page))
    BY PageReplayExists
<1>2. ReplayPage(log, high, cont, page) = g[Len(page)]
    BY DEF ReplayPage, IsPageReplay
<1> HIDE DEF g
<1> QED
    BY <1>1, <1>2

LEMMA PageReplayStep ==
    ASSUME NEW g, NEW log, NEW high, NEW cont, NEW page, NEW n \in Nat,
           IsPageReplay(g, log, high, cont, page, n)
    PROVE  /\ g[0] = cont
           /\ \A i \in 1..n : g[i] = IF page[i].status = "acknowledged"
                                     THEN AckRow(g[i - 1], Expanded(log, high, page[i]))
                                     ELSE g[i - 1]
<1>1. g[0] = cont
    BY DEF IsPageReplay
<1>2. ASSUME NEW i \in 1..n
      PROVE  g[i] = IF page[i].status = "acknowledged"
                    THEN AckRow(g[i - 1], Expanded(log, high, page[i])) ELSE g[i - 1]
    <2>1. i \in 0..n /\ i # 0
        OBVIOUS
    <2> QED
        BY <2>1 DEF IsPageReplay
<1> QED
    BY <1>1, <1>2

PageRows == [f : Fams, id : Nat, unit : {"none", "silent", "explained"},
             status : {"acknowledged", "pending", "error"}]
Acked(page, i) == page[i].status = "acknowledged"

\* A page goes on where the cursor stands and ends with the first row that is
\* not acknowledged.
PageFits(w, cont, f, page) ==
    /\ page \in Seq(PageRows)
    /\ \A i \in 1..Len(page) :
          /\ page[i].f = f /\ page[i].id = cont.processed[f] + i
          /\ page[i].id <= Len(w.log[f])
          /\ i < Len(page) => Acked(page, i)
          /\ Acked(page, i) /\ f = "chunk" /\ w.log[f][page[i].id].to = "SEALED" =>
                page[i].unit = ReconnectOf(w, w.log[f][page[i].id].c)

EntriesUpTo(log, high, page, n) == {Expanded(log, high, page[i]) : i \in 1..n}

PageEntries(log, high, page) ==
    {Expanded(log, high, page[i]) : i \in {k \in DOMAIN page : page[k].status = "acknowledged"}}

LEMMA ExpandedIs ==
    ASSUME NEW log, NEW high, NEW e
    PROVE  LET x == Expanded(log, high, e) IN
           x.f = e.f /\ x.id = e.id /\ x.unit = e.unit /\ x.row = log[e.f][e.id]
             /\ x.refs = Companions(log, high, e.f, e.id)
BY DEF Expanded

\* The cursors of the other families stay.
Elsewhere(next, cont, f) == \A g \in Fams : g # f => next.processed[g] = cont.processed[g]

LEMMA ReplayPageIsGood ==
    ASSUME NEW w, WorldRead(w), NEW cont, NEW entries, Good(w, cont, entries),
           NEW high \in [Fams -> Nat], NEW f \in Fams, NEW page, PageFits(w, cont, f, page)
    PROVE  LET next == ReplayPage(w.log, high, cont, page) IN
           /\ Good(w, next, entries \cup PageEntries(w.log, high, page))
           /\ Elsewhere(next, cont, f)
<1> DEFINE n == Len(page)
           m == IF n >= 1 /\ ~Acked(page, n) THEN n - 1 ELSE n
           upto(i) == entries \cup EntriesUpTo(w.log, high, page, i)
<1>1. n \in Nat /\ m \in 0..n /\ m \in Nat /\ (\A i \in 1..n : page[i] \in PageRows) /\ page \in Seq(PageRows)
    BY DEF PageFits
<1>2. \A i \in 1..m : Acked(page, i)
    BY <1>1 DEF PageFits
<1>3. PICK g : IsPageReplay(g, w.log, high, cont, page, n) /\ ReplayPage(w.log, high, cont, page) = g[n]
    BY <1>1, ReplayPageIs
<1>4. /\ g[0] = cont
      /\ \A i \in 1..n : g[i] = IF Acked(page, i)
                                THEN AckRow(g[i - 1], Expanded(w.log, high, page[i]))
                                ELSE g[i - 1]
    BY <1>1, <1>3, PageReplayStep DEF Acked
<1> DEFINE Fine == {i \in 0..m : /\ Good(w, g[i], upto(i))
                                 /\ g[i].processed = [cont.processed EXCEPT ![f] = cont.processed[f] + i]}
<1>5. cont.processed \in [Fams -> Nat] /\ w.log \in Ledgers /\ w.base \in [Fams -> Nat]
      /\ (\A h \in Fams : w.base[h] <= cont.processed[h])
    BY DEF Good, Conts, WorldRead, CursorsOK
<1> HIDE DEF m, n
<1>6. 0 \in Fine
    <2>1. EntriesUpTo(w.log, high, page, 0) = {}
        BY DEF EntriesUpTo
    <2>2. [cont.processed EXCEPT ![f] = cont.processed[f] + 0] = cont.processed
        BY <1>5
    <2>3. g[0] = cont /\ upto(0) = entries /\ 0 \in 0..m
        BY <1>1, <1>4, <2>1
    <2> HIDE DEF upto
    <2> QED
        BY <2>2, <2>3
<1>7. ASSUME NEW i \in 1..m, i - 1 \in Fine PROVE i \in Fine
    <2> DEFINE e == Expanded(w.log, high, page[i])
    <2>1. i \in 1..n /\ i \in Nat /\ i - 1 \in Nat /\ i \in 0..m
        BY <1>1
    <2>2. /\ page[i].f = f /\ page[i].id = cont.processed[f] + i /\ page[i].id <= Len(w.log[f])
          /\ (f = "chunk" /\ w.log[f][page[i].id].to = "SEALED" =>
                page[i].unit = ReconnectOf(w, w.log[f][page[i].id].c))
        BY <1>2, <2>1 DEF PageFits, n
    <2>3. e.f = f /\ e.id = page[i].id /\ e.unit = page[i].unit /\ e.row = w.log[f][e.id]
          /\ e.refs = Companions(w.log, high, f, e.id)
        BY <2>2, ExpandedIs
    <2> HIDE DEF e
    <2>4. e.refs \subseteq Fams \X Nat /\ IsFiniteSet(e.refs)
        BY <2>3, CompanionsAreFinite
    <2>5. EntryOK(w, e)
        <3>1. e.id \in (w.base[f] + 1)..Len(w.log[f])
            <4>1. cont.processed[f] \in Nat /\ w.base[f] \in Nat /\ w.base[f] <= cont.processed[f] /\ Len(w.log[f]) \in Nat
                BY <1>5, LedgersAre
            <4> QED
                BY <2>1, <2>2, <2>3, <4>1
        <3> QED
            BY <2>2, <2>3, <2>4, <3>1 DEF EntryOK
    <2>6. Good(w, g[i - 1], upto(i - 1))
          /\ g[i - 1].processed = [cont.processed EXCEPT ![f] = cont.processed[f] + (i - 1)]
        BY <1>7
    <2>7. e.id = g[i - 1].processed[e.f] + 1
        BY <1>5, <2>1, <2>2, <2>3, <2>6
    <2>8. g[i] = AckRow(g[i - 1], e)
        BY <1>2, <1>4, <2>1 DEF e
    <2>9. Good(w, g[i], upto(i - 1) \cup {e}) /\ g[i].processed = [g[i - 1].processed EXCEPT ![f] = e.id]
        <3> DEFINE before == g[i - 1]
                   known == upto(i - 1)
        <3>1. Good(w, before, known) /\ e.id = before.processed[e.f] + 1 /\ IsFiniteSet(e.refs)
            BY <2>4, <2>6, <2>7
        <3> HIDE DEF before, known
        <3>2. Good(w, AckRow(before, e), known \cup {e})
              /\ AckRow(before, e).processed = [before.processed EXCEPT ![e.f] = e.id]
            BY <2>5, <3>1, AckIsGood
        <3> QED
            BY <2>3, <2>8, <3>2 DEF before, known
    <2>10. upto(i - 1) \cup {e} = upto(i)
        <3>1. 1..i = 1..(i - 1) \cup {i}
            BY <2>1
        <3>2. EntriesUpTo(w.log, high, page, i) = EntriesUpTo(w.log, high, page, i - 1) \cup {e}
            BY <3>1 DEF EntriesUpTo, e
        <3> QED
            BY <3>2
    <2>11. [g[i - 1].processed EXCEPT ![f] = e.id] = [cont.processed EXCEPT ![f] = cont.processed[f] + i]
        BY <1>5, <2>2, <2>3, <2>6
    <2> QED
        BY <2>1, <2>9, <2>10, <2>11
<1> HIDE DEF Fine
<1>8. m \in Fine
    <2>1. m \in 0..m
        BY <1>1
    <2> QED
        BY ONLY <1>1, <1>6, <1>7, <2>1, CountingUp
<1>9. Good(w, g[m], upto(m)) /\ g[m].processed = [cont.processed EXCEPT ![f] = cont.processed[f] + m]
    BY <1>8 DEF Fine
<1>10. g[n] = g[m]
    BY <1>1, <1>4 DEF m
<1>11. EntriesUpTo(w.log, high, page, m) = PageEntries(w.log, high, page)
    <2>1. {k \in DOMAIN page : page[k].status = "acknowledged"} = 1..m
        <3>1. DOMAIN page = 1..n
            BY <1>1 DEF n
        <3>2. ASSUME NEW k \in 1..n PROVE page[k].status = "acknowledged" <=> k \in 1..m
            BY <1>1, <1>2 DEF m, Acked
        <3> QED
            BY <1>1, <3>1, <3>2
    <2> QED
        BY <2>1 DEF EntriesUpTo, PageEntries
<1> QED
    BY <1>3, <1>5, <1>9, <1>10, <1>11 DEF Elsewhere

-----------------------------------------------------------------------------
(* Replaying an observation. *)

DeltaEntries(log, high, pages) == UNION {PageEntries(log, high, pages[f]) : f \in Fams}

LEMMA PageFitsWhereItStands ==
    ASSUME NEW w, NEW cont, NEW next, NEW f, NEW page, PageFits(w, cont, f, page),
           next.processed[f] = cont.processed[f]
    PROVE  PageFits(w, next, f, page)
BY DEF PageFits

LEMMA SeenIsGood ==
    ASSUME NEW w, NEW cont, NEW entries, Good(w, cont, entries), NEW high \in [Fams -> Nat]
    PROVE  LET next == [cont EXCEPT !.seen = high] IN
           Good(w, next, entries) /\ next.seen = high
<1> DEFINE next == [cont EXCEPT !.seen = high]
<1>1. cont \in Conts
    BY DEF Good
<1>2. /\ next \in Conts /\ next.processed = cont.processed /\ next.refs = cont.refs
      /\ next.counts = cont.counts /\ next.gap = cont.gap /\ next.found = cont.found
      /\ next.seen = high
    BY <1>1 DEF Conts
<1> HIDE DEF next
<1>3. CursorsOK(w, next) /\ EveryRowAcked(w, next, entries)
    BY <1>2 DEF Good, CursorsOK, EveryRowAcked
<1>4. RefsOK(next, entries) /\ CountsOK(w, next)
    BY <1>2 DEF Good, RefsOK, CountsOK
<1>5. GapOK(w, next) /\ FoundOK(w, next)
    BY <1>2 DEF Good, GapOK, FoundOK
<1>6. \A e \in entries : EntryOK(w, e)
    BY DEF Good
<1>7. Good(w, next, entries)
    BY <1>2, <1>3, <1>4, <1>5, <1>6 DEF Good
<1> QED
    BY <1>2, <1>7 DEF next

PagesFit(w, cont, pages) == \A f \in Fams : PageFits(w, cont, f, pages[f])

LEMMA ReplayDeltaIsGood ==
    ASSUME NEW w, WorldRead(w), NEW cont, NEW entries, Good(w, cont, entries),
           NEW high \in [Fams -> Nat], NEW pages, PagesFit(w, cont, pages)
    PROVE  /\ Good(w, ReplayDelta(w.log, cont, high, pages),
                   entries \cup DeltaEntries(w.log, high, pages))
           /\ ReplayDelta(w.log, cont, high, pages).seen = high
<1> DEFINE a == ReplayPage(w.log, high, cont, pages["oper"])
           b == ReplayPage(w.log, high, a, pages["chunk"])
           c == ReplayPage(w.log, high, b, pages["arch"])
           of(f) == PageEntries(w.log, high, pages[f])
<1>1. "oper" \in Fams /\ "chunk" \in Fams /\ "arch" \in Fams
    BY DEF Fams
<1>2. Good(w, a, entries \cup of("oper")) /\ \A g \in Fams : g # "oper" => a.processed[g] = cont.processed[g]
    <2> DEFINE page == pages["oper"]
    <2>1. PageFits(w, cont, "oper", page)
        BY <1>1 DEF PagesFit
    <2> HIDE DEF page
    <2>2. /\ Good(w, ReplayPage(w.log, high, cont, page), entries \cup PageEntries(w.log, high, page))
          /\ Elsewhere(ReplayPage(w.log, high, cont, page), cont, "oper")
        BY <1>1, <2>1, ReplayPageIsGood
    <2> QED
        BY <2>2 DEF page, Elsewhere
<1>3. PageFits(w, a, "chunk", pages["chunk"]) /\ PageFits(w, a, "arch", pages["arch"])
    BY <1>1, <1>2, PageFitsWhereItStands DEF PagesFit
<1>4. Good(w, b, entries \cup of("oper") \cup of("chunk"))
      /\ \A g \in Fams : g # "chunk" => b.processed[g] = a.processed[g]
    <2> DEFINE known == entries \cup of("oper")
    <2>1. Good(w, a, known)
        BY <1>2
    <2> DEFINE page == pages["chunk"]
    <2>2. PageFits(w, a, "chunk", page)
        BY <1>3
    <2> HIDE DEF a, known, page
    <2>3. /\ Good(w, ReplayPage(w.log, high, a, page), known \cup PageEntries(w.log, high, page))
          /\ Elsewhere(ReplayPage(w.log, high, a, page), a, "chunk")
        BY <1>1, <2>1, <2>2, ReplayPageIsGood
    <2> QED
        BY <2>3 DEF known, page, Elsewhere
<1>5. PageFits(w, b, "arch", pages["arch"])
    <2> HIDE DEF b
    <2> QED
        BY <1>1, <1>3, <1>4, PageFitsWhereItStands
<1>6. Good(w, c, entries \cup of("oper") \cup of("chunk") \cup of("arch"))
    <2> DEFINE known == entries \cup of("oper") \cup of("chunk")
               page == pages["arch"]
    <2>1. Good(w, b, known) /\ PageFits(w, b, "arch", page)
        BY <1>4, <1>5
    <2> HIDE DEF b, known, page
    <2>2. Good(w, ReplayPage(w.log, high, b, page), known \cup PageEntries(w.log, high, page))
        BY <1>1, <2>1, ReplayPageIsGood
    <2> QED
        BY <2>2 DEF known, page
<1>7. entries \cup of("oper") \cup of("chunk") \cup of("arch")
        = entries \cup DeltaEntries(w.log, high, pages)
    <2> HIDE DEF of
    <2>1. UNION {of(f) : f \in Fams} = of("oper") \cup of("chunk") \cup of("arch")
        BY DEF Fams
    <2> QED
        BY <2>1 DEF DeltaEntries, of
<1>8. ReplayDelta(w.log, cont, high, pages) = [c EXCEPT !.seen = high]
    BY DEF ReplayDelta
<1> DEFINE known == entries \cup DeltaEntries(w.log, high, pages)
<1>9. Good(w, c, known)
    BY <1>6, <1>7
<1> HIDE DEF c, known
<1>10. Good(w, [c EXCEPT !.seen = high], known) /\ [c EXCEPT !.seen = high].seen = high
    BY <1>9, SeenIsGood
<1> QED
    BY <1>8, <1>10 DEF known

\* Ids and families of the rows of a page are those of rows there are.
PageIsOf(log, f, page) ==
    /\ page \in Seq(PageRows)
    /\ \A i \in 1..Len(page) : page[i].f = f /\ page[i].id \in 1..Len(log[f])

LEMMA ReplayPageStays ==
    ASSUME NEW log \in Ledgers, NEW more \in Ledgers, LogGrows(log, more),
           NEW high \in [Fams -> Nat], \A g \in Fams : high[g] <= Len(log[g]),
           NEW f \in Fams, NEW page, PageIsOf(log, f, page), NEW cont
    PROVE  /\ ReplayPage(more, high, cont, page) = ReplayPage(log, high, cont, page)
           /\ PageEntries(more, high, page) = PageEntries(log, high, page)
           /\ PageIsOf(more, f, page)
<1> DEFINE n == Len(page)
<1>1. n \in Nat /\ page \in Seq(PageRows) /\ DOMAIN page = 1..n
    BY DEF PageIsOf
<1>2. ASSUME NEW i \in 1..n PROVE Expanded(more, high, page[i]) = Expanded(log, high, page[i])
    <2>1. page[i].f = f /\ page[i].id \in 1..Len(log[f])
        BY DEF PageIsOf
    <2>2. Companions(more, high, f, page[i].id) = Companions(log, high, f, page[i].id)
        BY <2>1, CompanionsGrow
    <2>3. more[f][page[i].id] = log[f][page[i].id]
        BY <2>1 DEF LogGrows
    <2> QED
        BY <2>1, <2>2, <2>3 DEF Expanded
<1>3. PICK g : IsPageReplay(g, log, high, cont, page, n) /\ ReplayPage(log, high, cont, page) = g[n]
    BY <1>1, ReplayPageIs
<1>4. PICK h : IsPageReplay(h, more, high, cont, page, n) /\ ReplayPage(more, high, cont, page) = h[n]
    BY <1>1, ReplayPageIs
<1> DEFINE Same == {i \in 0..n : g[i] = h[i]}
<1>5. 0 \in Same
    BY <1>1, <1>3, <1>4, PageReplayStep
<1>6. ASSUME NEW i \in 1..n, i - 1 \in Same PROVE i \in Same
    <2>1. g[i] = IF page[i].status = "acknowledged"
                 THEN AckRow(g[i - 1], Expanded(log, high, page[i])) ELSE g[i - 1]
        BY <1>1, <1>3, PageReplayStep
    <2>2. h[i] = IF page[i].status = "acknowledged"
                 THEN AckRow(h[i - 1], Expanded(more, high, page[i])) ELSE h[i - 1]
        BY <1>1, <1>4, PageReplayStep
    <2>3. i \in 0..n /\ g[i - 1] = h[i - 1]
        BY <1>6
    <2> QED
        BY <1>2, <2>1, <2>2, <2>3
<1>7. n \in Same
    <2>1. n \in 0..n
        BY <1>1
    <2> HIDE DEF Same, n
    <2> QED
        BY ONLY <1>1, <1>5, <1>6, <2>1, CountingUp
<1>8. PageEntries(more, high, page) = PageEntries(log, high, page)
    BY <1>1, <1>2 DEF PageEntries
<1>9. PageIsOf(more, f, page)
    <2>1. Len(log[f]) <= Len(more[f]) /\ Len(log[f]) \in Nat /\ Len(more[f]) \in Nat
        BY LedgersAre DEF LogGrows
    <2> QED
        BY <2>1 DEF PageIsOf
<1> QED
    BY <1>3, <1>4, <1>7, <1>8, <1>9

HighWithin(log, high) == high \in [Fams -> Nat] /\ \A f \in Fams : high[f] <= Len(log[f])
PagesAreOf(log, pages) == \A f \in Fams : PageIsOf(log, f, pages[f])

LEMMA ReplayDeltaStays ==
    ASSUME NEW log \in Ledgers, NEW more \in Ledgers, LogGrows(log, more),
           NEW high, HighWithin(log, high), NEW pages, PagesAreOf(log, pages), NEW cont
    PROVE  /\ ReplayDelta(more, cont, high, pages) = ReplayDelta(log, cont, high, pages)
           /\ DeltaEntries(more, high, pages) = DeltaEntries(log, high, pages)
           /\ PagesAreOf(more, pages)
<1>1. "oper" \in Fams /\ "chunk" \in Fams /\ "arch" \in Fams
    BY DEF Fams
<1>2. ASSUME NEW f \in Fams, NEW c
      PROVE  /\ ReplayPage(more, high, c, pages[f]) = ReplayPage(log, high, c, pages[f])
             /\ PageEntries(more, high, pages[f]) = PageEntries(log, high, pages[f])
             /\ PageIsOf(more, f, pages[f])
    <2> DEFINE page == pages[f]
    <2>1. high \in [Fams -> Nat] /\ \A g \in Fams : high[g] <= Len(log[g])
        BY DEF HighWithin
    <2>2. PageIsOf(log, f, page)
        BY DEF PagesAreOf
    <2> HIDE DEF page
    <2>3. /\ ReplayPage(more, high, c, page) = ReplayPage(log, high, c, page)
          /\ PageEntries(more, high, page) = PageEntries(log, high, page)
          /\ PageIsOf(more, f, page)
        BY <2>1, <2>2, ReplayPageStays
    <2> QED
        BY <2>3 DEF page
<1>3. ReplayDelta(more, cont, high, pages) = ReplayDelta(log, cont, high, pages)
    BY <1>1, <1>2 DEF ReplayDelta
<1>4. DeltaEntries(more, high, pages) = DeltaEntries(log, high, pages)
    BY <1>2 DEF DeltaEntries
<1> QED
    BY <1>2, <1>3, <1>4 DEF PagesAreOf

-----------------------------------------------------------------------------
(* The pages of an observation. *)

LEMMA LeastOfTwo ==
    ASSUME NEW a \in Int, NEW b \in Int
    PROVE  Min({a, b}) \in {a, b} /\ Min({a, b}) <= a /\ Min({a, b}) <= b
<1>1. \E x \in {a, b} : \A y \in {a, b} : x <= y
    <2>1. CASE a <= b
        BY <2>1
    <2>2. CASE b <= a
        BY <2>2
    <2> QED
        BY <2>1, <2>2
<1> QED
    BY <1>1 DEF Min

LEMMA EntryOfIs ==
    ASSUME NEW w, NEW hw, NEW f \in Fams, NEW id \in Nat
    PROVE  LET e == EntryOf(w, hw, f, id) IN
           /\ e \in PageRows /\ e.f = f /\ e.id = id
           /\ e.status = "acknowledged" /\ f = "chunk" /\ w.log[f][id].to = "SEALED" =>
                 e.unit = ReconnectOf(w, w.log[f][id].c)
<1> DEFINE row == w.log[f][id]
           read == IF f = "chunk" /\ row.to = "SEALED"
                  THEN QualifyUnit(w, ChunkState(w.log, hw, row.c), row.c) ELSE "ok"
           unit == IF f = "chunk" /\ row.to = "SEALED" /\ read = "ok"
                   THEN ReconnectOf(w, row.c) ELSE "none"
           status == IF read = "error" THEN "error"
                     ELSE IF read = "ok" /\ Corroborated(w.log, hw, f, id)
                     THEN "acknowledged" ELSE "pending"
<1>1. EntryOf(w, hw, f, id) = [f |-> f, id |-> id, unit |-> unit, status |-> status]
    BY DEF EntryOf
<1>2. unit \in {"none", "silent", "explained"}
    BY DEF ReconnectOf
<1>3. status \in {"acknowledged", "pending", "error"} /\ (status = "acknowledged" => read = "ok")
    OBVIOUS
<1>4. status = "acknowledged" /\ f = "chunk" /\ row.to = "SEALED" => unit = ReconnectOf(w, row.c)
    BY <1>3
<1> HIDE DEF unit, status, read
<1> QED
    BY <1>1, <1>2, <1>3, <1>4 DEF PageRows

LEMMA PageOfFits ==
    ASSUME NEW w, WorldRead(w), NEW cont \in Conts, NEW hw \in [Fams -> Nat], NEW f \in Fams,
           hw[f] <= Len(w.log[f]), NEW cut \in Nat
    PROVE  PageFits(w, cont, f, PageOf(w, hw, cont, f, cut))
<1> DEFINE p == cont.processed[f]
           upto == Min({hw[f], p + cut})
           n == IF upto - p < 0 THEN 0 ELSE upto - p
           all == [i \in 1..n |-> EntryOf(w, hw, f, p + i)]
           stops == {i \in DOMAIN all : all[i].status # "acknowledged"}
           last == Min(stops \cup {Len(all)})
<1>1. p \in Nat /\ hw[f] \in Nat /\ Len(w.log[f]) \in Nat
    BY LedgersAre DEF Conts, WorldRead
<1>2. upto \in Int /\ upto <= hw[f]
    <2>1. hw[f] \in Int /\ p + cut \in Int
        BY <1>1
    <2> HIDE DEF p
    <2> QED
        BY <2>1, LeastOfTwo
<1> HIDE DEF upto, p
<1>3. n \in Nat /\ 1..(upto - p) = 1..n /\ p + n <= p + (IF n = 0 THEN 0 ELSE hw[f] - p)
    BY <1>1, <1>2
<1>4. \A i \in 1..n : p + i \in Nat /\ p + i <= Len(w.log[f])
    BY <1>1, <1>2, <1>3
<1> HIDE DEF n
<1>5. \A i \in 1..n : all[i] = EntryOf(w, hw, f, p + i) /\ all[i] \in PageRows
    BY <1>4, EntryOfIs
<1>6. all \in Seq(PageRows) /\ Len(all) = n /\ DOMAIN all = 1..n
    BY <1>3, <1>5
<1>7. PageOf(w, hw, cont, f, cut) = SubSeq(all, 1, last)
    BY <1>3 DEF PageOf, upto, p
<1> HIDE DEF all
<1>8. last \in 0..n /\ \A i \in 1..n : i < last => i \notin stops
    <2> DEFINE S == stops \cup {Len(all)}
    <2>1. S \in SUBSET Nat /\ S # {} /\ n \in S /\ \A x \in S : x <= n
        BY <1>3, <1>6
    <2>2. Min(S) \in S /\ \A x \in S : Min(S) <= x
        <3> HIDE DEF S
        <3> QED
            BY <2>1, MinOfNumbers
    <2>3. last = Min(S) /\ stops \subseteq S
        OBVIOUS
    <2> HIDE DEF last, stops, S
    <2>4. last \in Nat /\ last <= n
        BY <2>1, <2>2, <2>3
    <2> QED
        BY <1>3, <2>1, <2>2, <2>3, <2>4
<1>9. \A i \in 1..last : i \in 1..n /\ (i < last => all[i].status = "acknowledged")
    BY <1>3, <1>6, <1>8
<1> HIDE DEF last
<1>10. /\ SubSeq(all, 1, last) \in Seq(PageRows) /\ Len(SubSeq(all, 1, last)) = last
       /\ \A i \in 1..last : SubSeq(all, 1, last)[i] = all[i]
    <2>1. last \in Nat /\ last <= Len(all)
        BY <1>3, <1>6, <1>8
    <2> QED
        BY <1>6, <2>1
<1>11. ASSUME NEW i \in 1..last
       PROVE  /\ all[i].f = f /\ all[i].id = p + i /\ all[i].id <= Len(w.log[f])
              /\ i < last => all[i].status = "acknowledged"
              /\ all[i].status = "acknowledged" /\ f = "chunk" /\ w.log[f][all[i].id].to = "SEALED" =>
                    all[i].unit = ReconnectOf(w, w.log[f][all[i].id].c)
    <2> DEFINE id == p + i
    <2>1. i \in 1..n /\ id \in Nat /\ all[i] = EntryOf(w, hw, f, id)
        BY <1>4, <1>5, <1>9
    <2>2. id <= Len(w.log[f]) /\ (i < last => all[i].status = "acknowledged")
        BY <1>4, <1>9, <2>1
    <2> HIDE DEF id
    <2>3. /\ all[i].f = f /\ all[i].id = id
          /\ all[i].status = "acknowledged" /\ f = "chunk" /\ w.log[f][id].to = "SEALED" =>
                all[i].unit = ReconnectOf(w, w.log[f][id].c)
        BY <2>1, EntryOfIs
    <2> QED
        BY <2>2, <2>3 DEF id
<1>12. p = cont.processed[f]
    BY DEF p
<1> DEFINE page == SubSeq(all, 1, last)
<1>13. page \in Seq(PageRows) /\ Len(page) = last /\ \A i \in 1..last : page[i] = all[i]
    BY <1>10
<1>14. PageOf(w, hw, cont, f, cut) = page
    BY <1>7
<1> HIDE DEF page
<1>15. ASSUME NEW i \in 1..last
       PROVE  /\ page[i].f = f /\ page[i].id = p + i /\ page[i].id <= Len(w.log[f])
              /\ i < last => Acked(page, i)
              /\ Acked(page, i) /\ f = "chunk" /\ w.log[f][page[i].id].to = "SEALED" =>
                    page[i].unit = ReconnectOf(w, w.log[f][page[i].id].c)
    BY <1>11, <1>13 DEF Acked
<1>16. PageFits(w, cont, f, page)
    BY <1>12, <1>13, <1>15 DEF PageFits
<1> QED
    BY <1>14, <1>16

\* What fits still fits when its end is left out.
LEMMA PrefixFits ==
    ASSUME NEW w, NEW cont, NEW f, NEW page, PageFits(w, cont, f, page), NEW k \in 0..Len(page)
    PROVE  PageFits(w, cont, f, SubSeq(page, 1, k))
<1> DEFINE part == SubSeq(page, 1, k)
<1>1. page \in Seq(PageRows) /\ k \in Nat /\ k <= Len(page) /\ Len(page) \in Nat
    BY DEF PageFits
<1>2. part \in Seq(PageRows) /\ Len(part) = k /\ \A i \in 1..k : part[i] = page[i]
    BY <1>1
<1> HIDE DEF part
<1>3. ASSUME NEW i \in 1..k
      PROVE  i \in 1..Len(page) /\ part[i] = page[i] /\ (i < k => i < Len(page))
    BY <1>1, <1>2
<1>4. PageFits(w, cont, f, part)
    BY <1>2, <1>3 DEF PageFits, Acked
<1> QED
    BY <1>4 DEF part

-----------------------------------------------------------------------------
(* Which rows an observation may acknowledge. *)

Rank(f) == CHOOSE i \in 1..3 : Families[i] = f

LEMMA RanksAre == Rank("oper") = 1 /\ Rank("chunk") = 2 /\ Rank("arch") = 3
<1>1. Families[1] = "oper" /\ Families[2] = "chunk" /\ Families[3] = "arch"
    BY DEF Families
<1>2. 1..3 = {1, 2, 3}
    OBVIOUS
<1>3. \A f : Rank(f) = CHOOSE i \in {1, 2, 3} : Families[i] = f
    BY <1>2 DEF Rank
<1> QED
    BY <1>1, <1>3

Fewest(ready, size, f) ==
    /\ \A g \in ready : size[f] <= size[g]
    /\ \A g \in ready : size[f] = size[g] => Rank(f) <= Rank(g)

\* One of the families leaves the fewest references.
LEMMA FewestExists ==
    ASSUME NEW ready \in SUBSET Fams, ready # {}, NEW size, \A f \in ready : size[f] \in Nat
    PROVE  \E f \in ready : Fewest(ready, size, f)
<1>1. PICK n \in {size[f] : f \in ready} : \A m \in {size[f] : f \in ready} : n <= m
    <2> DEFINE S == {size[f] : f \in ready}
    <2>1. S \in SUBSET Nat /\ S # {}
        OBVIOUS
    <2> HIDE DEF S
    <2>2. Min(S) \in S /\ \A y \in S : Min(S) <= y
        BY <2>1, MinOfNumbers
    <2> QED
        BY <2>2 DEF S
<1> DEFINE T == {f \in ready : size[f] = n}
<1>2. T # {} /\ T \subseteq {"oper", "chunk", "arch"}
    BY <1>1 DEF Fams
<1>3. \E f \in T : \A g \in T : Rank(f) <= Rank(g)
    <2>1. CASE "oper" \in T
        BY <1>2, <2>1, RanksAre
    <2>2. CASE "oper" \notin T /\ "chunk" \in T
        BY <1>2, <2>2, RanksAre
    <2>3. CASE "oper" \notin T /\ "chunk" \notin T
        BY <1>2, <2>3, RanksAre
    <2> QED
        BY <2>1, <2>2, <2>3
<1>4. PICK f \in T : \A g \in T : Rank(f) <= Rank(g)
    BY <1>3
<1>5. f \in ready /\ size[f] = n
    OBVIOUS
<1>6. \A g \in ready : size[f] <= size[g]
    BY <1>1, <1>5
<1>7. \A g \in ready : size[f] = size[g] => Rank(f) <= Rank(g)
    BY <1>4, <1>5
<1> QED
    BY <1>5, <1>6, <1>7 DEF Fewest

WalkOK(pages, s) ==
    /\ s.cont \in Conts /\ IsFiniteSet(s.cont.refs)
    /\ s.pos \in [Fams -> Nat] /\ s.check \in [Fams -> Nat]
    /\ \A f \in Fams : s.pos[f] <= Len(pages[f]) /\ s.check[f] <= Len(pages[f])

LEMMA AckIsFinite ==
    ASSUME NEW log \in Ledgers, NEW hw \in [Fams -> Nat], NEW f \in Fams, NEW page,
           PageIsOf(log, f, page), NEW i \in 1..Len(page),
           NEW cont \in Conts, IsFiniteSet(cont.refs)
    PROVE  LET next == AckRow(cont, Expanded(log, hw, page[i])) IN
           next \in Conts /\ IsFiniteSet(next.refs)
<1> DEFINE e == Expanded(log, hw, page[i])
           next == AckRow(cont, e)
<1>1. page[i].f = f /\ page[i].id \in 1..Len(log[f]) /\ log[f] \in Seq(LedgerRows) /\ Len(log[f]) \in Nat
    BY LedgersAre DEF PageIsOf
<1>2. /\ e.f = f /\ e.id = page[i].id /\ e.row = log[f][e.id]
      /\ e.refs = Companions(log, hw, f, e.id)
    BY <1>1, ExpandedIs
<1> HIDE DEF e
<1>3. e.refs \subseteq Fams \X Nat /\ IsFiniteSet(e.refs)
    <2>1. /\ Companions(log, hw, f, e.id) \subseteq Fams \X Nat
          /\ IsFiniteSet(Companions(log, hw, f, e.id))
        BY CompanionsAreFinite
    <2> QED
        BY <1>2, <2>1
<1>4. log[f][e.id] \in LedgerRows
    BY <1>1, <1>2
<1>5. Entry(e)
    BY <1>1, <1>2, <1>3, <1>4 DEF Entry
<1>6. AckedNext(next, cont, e)
    BY <1>5, AckRowFields
<1> HIDE DEF next
<1>7. IsFiniteSet(next.refs)
    <2> DEFINE u == cont.refs \cup e.refs
    <2>1. IsFiniteSet(u)
        BY <1>3, FS_Union
    <2>2. next.refs \in SUBSET u
        BY <1>6 DEF AckedNext
    <2> QED
        BY <2>1, <2>2, FS_Subset
<1>8. next \in Conts
    BY <1>6 DEF AckedNext
<1> QED
    BY <1>7, <1>8 DEF next, e

LEMMA WalkStepKeeps ==
    ASSUME NEW log \in Ledgers, NEW hw \in [Fams -> Nat], NEW pages,
           \A f \in Fams : PageIsOf(log, f, pages[f]), NEW fams \in SUBSET Fams,
           NEW s, WalkOK(pages, s)
    PROVE  WalkOK(pages, WalkStep(log, hw, pages, fams, s))
<1> DEFINE ready == {f \in fams : s.pos[f] < Len(pages[f])
                         /\ pages[f][s.pos[f] + 1].status = "acknowledged"}
           acked(f) == AckRow(s.cont, Expanded(log, hw, pages[f][s.pos[f] + 1]))
           size == [f \in Fams |-> Cardinality(acked(f).refs)]
           best == CHOOSE f \in ready :
                    /\ \A g \in ready : Cardinality(acked(f).refs) <= Cardinality(acked(g).refs)
                    /\ \A g \in ready : Cardinality(acked(f).refs) = Cardinality(acked(g).refs)
                         => Rank(f) <= Rank(g)
           pos == [s.pos EXCEPT ![best] = @ + 1]
           check == IF Cardinality(acked(best).refs) <= ReferenceCap THEN pos ELSE s.check
<1>1. CASE ready = {}
    <2>1. WalkStep(log, hw, pages, fams, s) = s
        BY <1>1 DEF WalkStep
    <2> QED
        BY <2>1
<1>2. CASE ready # {}
    <2>1. ready \in SUBSET Fams
        OBVIOUS
    <2>2. \A f \in Fams : Len(pages[f]) \in Nat /\ s.pos[f] \in Nat
        BY DEF PageIsOf, WalkOK
    <2>3. ASSUME NEW f \in ready PROVE acked(f) \in Conts /\ IsFiniteSet(acked(f).refs)
        <3>1. s.pos[f] + 1 \in 1..Len(pages[f]) /\ f \in Fams
            BY <2>1, <2>2
        <3>2. s.cont \in Conts /\ IsFiniteSet(s.cont.refs)
            BY DEF WalkOK
        <3> DEFINE page == pages[f]
                   i == s.pos[f] + 1
        <3>3. PageIsOf(log, f, page) /\ i \in 1..Len(page)
            BY <3>1
        <3> HIDE DEF page, i
        <3>4. AckRow(s.cont, Expanded(log, hw, page[i])) \in Conts
              /\ IsFiniteSet(AckRow(s.cont, Expanded(log, hw, page[i])).refs)
            BY <3>1, <3>2, <3>3, AckIsFinite
        <3> QED
            BY <3>4 DEF page, i
    <2>4. \A f \in ready : size[f] = Cardinality(acked(f).refs) /\ size[f] \in Nat
        <3> SUFFICES ASSUME NEW f \in ready
                     PROVE  size[f] = Cardinality(acked(f).refs) /\ size[f] \in Nat
            OBVIOUS
        <3>1. size[f] = Cardinality(acked(f).refs)
            BY <2>1
        <3>2. IsFiniteSet(acked(f).refs)
            BY <2>3
        <3> HIDE DEF acked, size
        <3> QED
            BY <3>1, <3>2, FS_CardinalityType
    <2>5. \E f \in ready : Fewest(ready, size, f)
        <3> HIDE DEF size, ready
        <3> QED
            BY <1>2, <2>1, <2>4, FewestExists
    <2>6. WalkStep(log, hw, pages, fams, s) = [cont |-> acked(best), pos |-> pos, check |-> check]
        BY <1>2 DEF WalkStep, Rank
    <2>7. best \in ready
        <3> DEFINE Least(f) == /\ \A g \in ready : Cardinality(acked(f).refs) <= Cardinality(acked(g).refs)
                               /\ \A g \in ready : Cardinality(acked(f).refs) = Cardinality(acked(g).refs)
                                    => Rank(f) <= Rank(g)
        <3>1. \E f \in ready : Least(f)
            <4> HIDE DEF acked, ready, size
            <4> QED
                BY <2>4, <2>5 DEF Fewest
        <3>2. best = CHOOSE f \in ready : Least(f)
            OBVIOUS
        <3> HIDE DEF best, Least
        <3> QED
            BY <3>1, <3>2
    <2> HIDE DEF best
    <2>8. best \in Fams /\ s.pos[best] < Len(pages[best]) /\ acked(best) \in Conts
          /\ IsFiniteSet(acked(best).refs)
        BY <2>1, <2>3, <2>7
    <2>9. pos \in [Fams -> Nat] /\ \A f \in Fams : pos[f] <= Len(pages[f])
        <3>1. s.pos \in [Fams -> Nat] /\ \A f \in Fams : s.pos[f] <= Len(pages[f])
            BY DEF WalkOK
        <3> QED
            BY <2>2, <2>8, <3>1
    <2>10. check \in [Fams -> Nat] /\ \A f \in Fams : check[f] <= Len(pages[f])
        <3>1. s.check \in [Fams -> Nat] /\ \A f \in Fams : s.check[f] <= Len(pages[f])
            BY DEF WalkOK
        <3> HIDE DEF pos, acked
        <3> QED
            BY <2>9, <3>1
    <2> HIDE DEF acked, pos, check, ready
    <2> QED
        BY <2>6, <2>8, <2>9, <2>10 DEF WalkOK
<1> QED
    BY <1>1, <1>2

Nowhere == [f \in Fams |-> 0]

IsCausalWalk(g, log, hw, pages, cont, fams, n) ==
    g = [i \in 0..n |-> IF i = 0 THEN [cont |-> cont, pos |-> Nowhere, check |-> Nowhere]
                        ELSE WalkStep(log, hw, pages, fams, g[i - 1])]

LEMMA CausalWalkExists ==
    ASSUME NEW log, NEW hw, NEW pages, NEW cont, NEW fams, NEW n \in Nat
    PROVE  \E g : IsCausalWalk(g, log, hw, pages, cont, fams, n)
<1> DEFINE Begin == [cont |-> cont, pos |-> Nowhere, check |-> Nowhere]
           Step(s) == WalkStep(log, hw, pages, fams, s)
           Reached == {k \in 0..n : \E g : IsCausalWalk(g, log, hw, pages, cont, fams, k)}
<1>1. 0 \in Reached
    <2> DEFINE g == [i \in 0..0 |-> Begin]
    <2>1. IsCausalWalk(g, log, hw, pages, cont, fams, 0)
        BY DEF IsCausalWalk
    <2> QED
        BY <2>1
<1>2. ASSUME NEW k \in 1..n, k - 1 \in Reached PROVE k \in Reached
    <2>1. PICK h : IsCausalWalk(h, log, hw, pages, cont, fams, k - 1)
        BY <1>2
    <2> DEFINE g == [i \in 0..k |-> IF i = k THEN Step(h[k - 1]) ELSE h[i]]
    <2>2. ASSUME NEW i \in 0..k PROVE g[i] = IF i = 0 THEN Begin ELSE Step(g[i - 1])
        <3>1. CASE i = k
            <4>1. k # 0 /\ k - 1 \in 0..k /\ k - 1 # k
                OBVIOUS
            <4> QED
                BY <3>1, <4>1
        <3>2. CASE i # k
            <4>1. i \in 0..(k - 1)
                BY <3>2
            <4>2. h[i] = IF i = 0 THEN Begin ELSE Step(h[i - 1])
                BY <2>1, <4>1 DEF IsCausalWalk
            <4>3. i # 0 => i - 1 \in 0..k /\ i - 1 # k
                BY <4>1
            <4> QED
                BY <3>2, <4>2, <4>3
        <3> QED
            BY <3>1, <3>2
    <2>3. IsCausalWalk(g, log, hw, pages, cont, fams, k)
        BY <2>2 DEF IsCausalWalk
    <2> HIDE DEF g
    <2> QED
        BY <2>3
<1> HIDE DEF Reached
<1>3. n \in Reached
    BY <1>1, <1>2, CountingUp
<1> QED
    BY <1>3 DEF Reached

\* A walk stays within the pages.
LEMMA WalkIsWithin ==
    ASSUME NEW log \in Ledgers, NEW hw \in [Fams -> Nat], NEW pages,
           \A f \in Fams : PageIsOf(log, f, pages[f]), NEW fams \in SUBSET Fams,
           NEW cont \in Conts, IsFiniteSet(cont.refs)
    PROVE  LET check == Walk(log, hw, pages, cont, fams) IN
           check \in [Fams -> Nat] /\ \A f \in Fams : check[f] <= Len(pages[f])
<1> DEFINE total == Len(pages["oper"]) + Len(pages["chunk"]) + Len(pages["arch"])
           g == CHOOSE h : IsCausalWalk(h, log, hw, pages, cont, fams, total)
<1>1. \A f \in Fams : Len(pages[f]) \in Nat
    BY DEF PageIsOf
<1>2. total \in Nat
    <2>1. "oper" \in Fams /\ "chunk" \in Fams /\ "arch" \in Fams
        BY DEF Fams
    <2>2. Len(pages["oper"]) \in Nat /\ Len(pages["chunk"]) \in Nat /\ Len(pages["arch"]) \in Nat
        BY <1>1, <2>1
    <2> DEFINE a == Len(pages["oper"])
               b == Len(pages["chunk"])
               c == Len(pages["arch"])
    <2>3. a \in Nat /\ b \in Nat /\ c \in Nat
        BY <2>2
    <2> HIDE DEF a, b, c
    <2>4. a + b + c \in Nat
        BY <2>3
    <2> QED
        BY <2>4 DEF a, b, c
<1>3. Walk(log, hw, pages, cont, fams) = g[total].check
    BY DEF Walk, IsCausalWalk, Nowhere
<1> HIDE DEF total
<1>4. IsCausalWalk(g, log, hw, pages, cont, fams, total)
    BY <1>2, CausalWalkExists
<1> HIDE DEF g
<1> DEFINE Fine == {i \in 0..total : WalkOK(pages, g[i])}
<1>5. 0 \in Fine
    <2> DEFINE s == [cont |-> cont, pos |-> Nowhere, check |-> Nowhere]
    <2>1. g[0] = s /\ 0 \in 0..total
        BY <1>2, <1>4 DEF IsCausalWalk
    <2>2. Nowhere \in [Fams -> Nat] /\ \A f \in Fams : Nowhere[f] = 0
        BY DEF Nowhere
    <2>3. s.cont = cont /\ s.pos = Nowhere /\ s.check = Nowhere
        OBVIOUS
    <2> HIDE DEF s
    <2>4. WalkOK(pages, s)
        BY <1>1, <2>2, <2>3 DEF WalkOK
    <2> QED
        BY <2>1, <2>4
<1>6. ASSUME NEW i \in 1..total, i - 1 \in Fine PROVE i \in Fine
    <2>1. i \in 0..total /\ i # 0
        OBVIOUS
    <2>2. g[i] = WalkStep(log, hw, pages, fams, g[i - 1])
        BY <1>2, <1>4, <2>1 DEF IsCausalWalk
    <2>3. WalkOK(pages, g[i])
        BY <1>6, <2>2, WalkStepKeeps
    <2> QED
        BY <2>1, <2>3
<1>7. total \in Fine
    <2>1. total \in 0..total
        BY <1>2
    <2> HIDE DEF Fine
    <2> QED
        BY ONLY <1>2, <1>5, <1>6, <2>1, CountingUp
<1>8. WalkOK(pages, g[total])
    BY <1>7
<1> QED
    BY <1>3, <1>8 DEF WalkOK

\* What is acknowledged together is a prefix of what was read.
LEMMA CausalPrefixesFit ==
    ASSUME NEW w, WorldRead(w), NEW cont \in Conts, IsFiniteSet(cont.refs),
           NEW hw \in [Fams -> Nat], NEW pages, \A f \in Fams : PageFits(w, cont, f, pages[f])
    PROVE  \A f \in Fams : PageFits(w, cont, f, CausalPrefixes(w.log, hw, pages, cont)[f])
<1> DEFINE sum(p) == p["oper"] + p["chunk"] + p["arch"]
           among(fams) == Walk(w.log, hw, pages, cont, fams)
           both == among(Fams)
           one == among({"oper"})
           two == among({"chunk", "arch"})
           apart == {one, two}
           positions == IF sum(both) > 0 THEN both
                        ELSE CHOOSE p \in apart : \A q \in apart : sum(q) <= sum(p)
           Within(p) == p \in [Fams -> Nat] /\ \A f \in Fams : p[f] <= Len(pages[f])
<1>1. \A f \in Fams : PageIsOf(w.log, f, pages[f])
    <2> SUFFICES ASSUME NEW f \in Fams PROVE PageIsOf(w.log, f, pages[f])
        OBVIOUS
    <2>1. PageFits(w, cont, f, pages[f])
        OBVIOUS
    <2>2. cont.processed[f] \in Nat
        BY DEF Conts
    <2> QED
        BY <2>1, <2>2 DEF PageFits, PageIsOf
<1>2. w.log \in Ledgers
    BY DEF WorldRead
<1>3. ASSUME NEW fams \in SUBSET Fams PROVE Within(among(fams))
    BY <1>1, <1>2, WalkIsWithin
<1>4. Within(both) /\ Within(one) /\ Within(two)
    <2>1. {"oper"} \in SUBSET Fams /\ {"chunk", "arch"} \in SUBSET Fams /\ Fams \in SUBSET Fams
        BY DEF Fams
    <2> HIDE DEF among, Within
    <2> QED
        BY <1>3, <2>1
<1>5. CausalPrefixes(w.log, hw, pages, cont)
        = [f \in Fams |->
            LET k == positions[f] IN
            SubSeq(pages[f], 1, IF k < Len(pages[f])
                                  /\ pages[f][k + 1].status # "acknowledged"
                                THEN k + 1 ELSE k)]
    BY DEF CausalPrefixes
<1>6. Within(positions)
    <2> HIDE DEF both, one, two
    <2>1. CASE sum(both) > 0
        BY <1>4, <2>1
    <2>2. CASE ~(sum(both) > 0)
        <3>1. sum(one) \in Nat /\ sum(two) \in Nat
            <4>1. "oper" \in Fams /\ "chunk" \in Fams /\ "arch" \in Fams
                BY DEF Fams
            <4>2. one \in [Fams -> Nat] /\ two \in [Fams -> Nat]
                BY <1>4
            <4> QED
                BY <4>1, <4>2
        <3> HIDE DEF sum, Within
        <3>2. \E p \in apart : \A q \in apart : sum(q) <= sum(p)
            <4>1. CASE sum(one) <= sum(two)
                BY <3>1, <4>1
            <4>2. CASE sum(two) <= sum(one)
                BY <3>1, <4>2
            <4> QED
                BY <3>1, <4>1, <4>2
        <3>3. positions \in apart
            BY <2>2, <3>2
        <3> QED
            BY <1>4, <3>3
    <2> QED
        BY <2>1, <2>2
<1> HIDE DEF positions, both, one, two, apart, sum
<1> SUFFICES ASSUME NEW f \in Fams
             PROVE  PageFits(w, cont, f, CausalPrefixes(w.log, hw, pages, cont)[f])
    OBVIOUS
<1> DEFINE page == pages[f]
           k == positions[f]
           last == IF k < Len(page) /\ page[k + 1].status # "acknowledged" THEN k + 1 ELSE k
<1>7. CausalPrefixes(w.log, hw, pages, cont)[f] = SubSeq(page, 1, last)
    BY <1>5
<1>8. PageFits(w, cont, f, page) /\ Len(page) \in Nat /\ k \in Nat /\ k <= Len(page)
    BY <1>1, <1>6 DEF PageIsOf
<1> HIDE DEF page, k
<1>9. last \in 0..Len(page)
    BY <1>8
<1> HIDE DEF last
<1> QED
    BY <1>7, <1>8, <1>9, PrefixFits

-----------------------------------------------------------------------------
(* The recorder, the archive worker and the disk. *)

Chunks == 1..V5Chunks
Copies == Chunks \X {"local", "archive"}

Worlds == [log : Ledgers, base : [Fams -> Nat], old : SUBSET Chunks, local : SUBSET Chunks,
           man : SUBSET Chunks, edge : [Chunks -> {"same", "marked", "silent"}],
           bad : SUBSET Copies, gap : Nat, gaps : Nat, svc : BOOLEAN, inv : Nat, t : Nat, n : Int]

StateOf(w, c) == LastTo(w.log["chunk"], Len(w.log["chunk"]), c)
Done == {Life[i] : i \in 3..8}

\* The recorder says what a gap row is about: a start, then its own end.
GapChain(rows, gap) ==
    /\ \A i \in 1..Len(rows) : rows[i].to = "started" => rows[i].c # 0
    /\ \A i \in 1..Len(rows) :
          rows[i].c # 0 /\ (\A k \in (i + 1)..Len(rows) : rows[k].c = 0) =>
              gap = IF rows[i].to = "started" THEN rows[i].c ELSE 0
    /\ \A i \in 1..Len(rows) : \A k \in (i + 1)..Len(rows) :
          rows[i].to = "started" /\ rows[k].c # 0
              /\ (\A m \in (i + 1)..(k - 1) : rows[m].c = 0) => rows[k].c = rows[i].c

ChunkRowsOK(rows) ==
    \A i \in 1..Len(rows) : rows[i].c \in Chunks /\ rows[i].to \in {Life[j] : j \in 1..8}

\* The archive ledger says of a chunk what its own ledger says.
ArchAgrees(w) ==
    \A c \in Chunks : LastTo(w.log["arch"], Len(w.log["arch"]), c)
                        = IF StateOf(w, c) \in ArchiveSteps THEN StateOf(w, c) ELSE "none"

ManSealed(w) == \A c \in w.man : StateOf(w, c) \in Done

WorldOK(w) ==
    /\ w \in Worlds /\ WorldRead(w) /\ ChunkRowsOK(w.log["chunk"])
    /\ ArchAgrees(w) /\ ManSealed(w) /\ GapChain(w.log["oper"], w.gap)

WrittenRow(w, c) == \E i \in 1..Len(w.log["chunk"]) : w.log["chunk"][i].c = c

\* What no move of the world takes back.
Moves(w, v) ==
    /\ LogGrows(w.log, v.log) /\ v.base = w.base
    /\ \A c \in Chunks : WrittenRow(w, c) => v.edge[c] = w.edge[c] /\ (c \in v.old <=> c \in w.old)
    /\ w.man \subseteq v.man /\ w.bad \subseteq v.bad
    /\ \A c \in w.man : c \in v.local => c \in w.local

LEMMA LifeIs ==
    /\ Life[1] = "ACTIVE" /\ Life[2] = "SEALING" /\ Life[3] = "SEALED"
    /\ Life[4] = "ARCHIVE_COPYING" /\ Life[5] = "ARCHIVE_VERIFYING" /\ Life[6] = "ARCHIVED_VERIFIED"
    /\ Life[7] = "LOCAL_DELETE_PENDING" /\ Life[8] = "LOCAL_DELETED"
BY DEF Life

LEMMA LifeSets ==
    /\ ArchiveSteps = {"ARCHIVE_COPYING", "ARCHIVE_VERIFYING", "ARCHIVED_VERIFIED",
                       "LOCAL_DELETE_PENDING", "LOCAL_DELETED"}
    /\ Done = {"SEALED"} \cup ArchiveSteps
    /\ Backlog = {"ARCHIVE_COPYING", "ARCHIVE_VERIFYING", "ARCHIVED_VERIFIED", "LOCAL_DELETE_PENDING"}
    /\ {Life[i] : i \in 1..8} = {"ACTIVE", "SEALING"} \cup Done
    /\ {Life[i] : i \in 6..8} = {"ARCHIVED_VERIFIED", "LOCAL_DELETE_PENDING", "LOCAL_DELETED"}
<1>1. 4..8 = {4, 5, 6, 7, 8} /\ 3..8 = {3, 4, 5, 6, 7, 8} /\ 4..7 = {4, 5, 6, 7}
      /\ 1..8 = {1, 2, 3, 4, 5, 6, 7, 8} /\ 6..8 = {6, 7, 8}
    OBVIOUS
<1>2. ArchiveSteps = {Life[4], Life[5], Life[6], Life[7], Life[8]}
    BY <1>1 DEF ArchiveSteps
<1>3. Done = {Life[3], Life[4], Life[5], Life[6], Life[7], Life[8]}
    BY <1>1 DEF Done
<1>4. Backlog = {Life[4], Life[5], Life[6], Life[7]}
    BY <1>1 DEF Backlog
<1>5. {Life[i] : i \in 1..8} = {Life[1], Life[2], Life[3], Life[4], Life[5], Life[6], Life[7], Life[8]}
    BY <1>1
<1>6. {Life[i] : i \in 6..8} = {Life[6], Life[7], Life[8]}
    BY <1>1
<1> QED
    BY <1>2, <1>3, <1>4, <1>5, <1>6, LifeIs

LEMMA WrittenIs ==
    ASSUME NEW w, WorldOK(w), NEW c \in Chunks
    PROVE  WrittenRow(w, c) <=> StateOf(w, c) # "none"
<1> DEFINE rows == w.log["chunk"]
           ids == {i \in 1..Len(rows) : rows[i].c = c}
<1>1. rows \in Seq(LedgerRows) /\ Len(rows) \in Nat /\ ChunkRowsOK(rows)
    BY LedgersAre, FamsAre DEF WorldOK, WorldRead
<1>2. StateOf(w, c) = IF ids = {} THEN "none" ELSE rows[Max(ids)].to
    BY DEF StateOf, LastTo
<1>3. WrittenRow(w, c) <=> ids # {}
    BY DEF WrittenRow
<1>4. ids # {} => Max(ids) \in 1..Len(rows)
    <2>1. ids \in SUBSET Nat /\ (\A y \in ids : y <= Len(rows)) /\ ids \subseteq 1..Len(rows)
        BY <1>1
    <2> HIDE DEF ids
    <2> QED
        BY <1>1, <2>1, MaxOfBounded
<1>5. ids # {} => rows[Max(ids)].to \in {Life[j] : j \in 1..8}
    BY <1>1, <1>4 DEF ChunkRowsOK
<1>6. "none" \notin {Life[j] : j \in 1..8}
    BY LifeSets
<1> HIDE DEF ids, rows
<1> QED
    BY <1>2, <1>3, <1>5, <1>6

LEMMA ReconnectStays ==
    ASSUME NEW w, NEW v, Moves(w, v), NEW c \in Chunks, WrittenRow(w, c)
    PROVE  ReconnectOf(v, c) = ReconnectOf(w, c)
BY DEF Moves, ReconnectOf

\* A continuation goes on standing for what it stood for.
LEMMA GoodStays ==
    ASSUME NEW w, NEW v, WorldOK(w), WorldOK(v), Moves(w, v), NEW cont, NEW entries,
           Good(w, cont, entries)
    PROVE  Good(v, cont, entries)
<1>1. w.log \in Ledgers /\ v.log \in Ledgers /\ LogGrows(w.log, v.log) /\ v.base = w.base
      /\ cont.processed \in [Fams -> Nat] /\ w.base \in [Fams -> Nat]
    BY DEF WorldOK, WorldRead, Moves, Good, Conts
<1>2. \A f \in Fams : /\ Len(w.log[f]) \in Nat /\ Len(v.log[f]) \in Nat /\ w.base[f] \in Nat
                      /\ Len(w.log[f]) <= Len(v.log[f])
                      /\ cont.processed[f] \in Nat /\ cont.processed[f] <= Len(w.log[f])
                      /\ w.base[f] <= cont.processed[f]
    BY <1>1, LedgersAre DEF LogGrows, Good, CursorsOK
<1>3. \A f \in Fams : \A i \in 1..cont.processed[f] :
         i \in 1..Len(w.log[f]) /\ v.log[f][i] = w.log[f][i]
    BY <1>1, <1>2 DEF LogGrows
<1>4. CursorsOK(v, cont) /\ EveryRowAcked(v, cont, entries)
    BY <1>1, <1>2 DEF CursorsOK, EveryRowAcked, Good
<1>5. ASSUME NEW e \in entries PROVE EntryOK(v, e)
    <2>1. /\ e.f \in Fams /\ e.id \in (w.base[e.f] + 1)..Len(w.log[e.f])
          /\ e.row = w.log[e.f][e.id] /\ e.refs \subseteq Fams \X Nat
          /\ e.f = "chunk" /\ e.row.to = "SEALED" => e.unit = ReconnectOf(w, e.row.c)
        BY DEF Good, EntryOK
    <2>2. e.id \in 1..Len(w.log[e.f]) /\ e.id \in (v.base[e.f] + 1)..Len(v.log[e.f])
        BY <1>1, <1>2, <2>1
    <2>3. v.log[e.f][e.id] = w.log[e.f][e.id]
        BY <1>1, <2>1, <2>2 DEF LogGrows
    <2>4. e.f = "chunk" => ReconnectOf(v, e.row.c) = ReconnectOf(w, e.row.c)
        <3> SUFFICES ASSUME e.f = "chunk" PROVE ReconnectOf(v, e.row.c) = ReconnectOf(w, e.row.c)
            OBVIOUS
        <3>1. e.row.c \in Chunks /\ WrittenRow(w, e.row.c)
            BY <2>1, <2>2 DEF WorldOK, ChunkRowsOK, WrittenRow
        <3> QED
            BY <3>1, ReconnectStays
    <2> QED
        BY <2>1, <2>2, <2>3, <2>4 DEF EntryOK
<1>6. CountsOK(v, cont)
    <2> SUFFICES ASSUME NEW s \in Backlog
                 PROVE  cont.counts[s] = ArchCount(v.log["arch"], cont.processed["arch"], s)
        BY DEF CountsOK
    <2> DEFINE n == cont.processed["arch"]
               a == w.log["arch"]
               b == v.log["arch"]
    <2>1. n \in Nat /\ Agree(a, b, n)
        BY <1>2, <1>3, FamsAre DEF Agree
    <2>2. cont.counts[s] = ArchCount(a, n, s)
        BY DEF Good, CountsOK
    <2> HIDE DEF n, a, b
    <2>3. \A c : LastTo(a, n, c) = LastTo(b, n, c)
        BY <2>1, LastToAgrees
    <2>4. ArchCount(a, n, s) = ArchCount(b, n, s)
        BY <2>3 DEF ArchCount
    <2> QED
        BY <2>2, <2>4 DEF n, a, b
<1>7. GapOK(v, cont)
    <2> DEFINE rows == w.log["oper"]
               more == v.log["oper"]
               done == cont.processed["oper"]
               base == w.base["oper"]
    <2>1. done \in Nat /\ base \in Nat /\ (\A i \in 1..done : more[i] = rows[i]) /\ v.base["oper"] = base
        BY <1>1, <1>2, <1>3, FamsAre
    <2>2. \A i \in (base + 1)..done :
            rows[i].c # 0 /\ (\A k \in (i + 1)..done : rows[k].c = 0) =>
                (cont.gap # 0 <=> rows[i].to = "started")
        BY DEF Good, GapOK
    <2> HIDE DEF rows, more, done, base
    <2>3. ASSUME NEW i \in (base + 1)..done, more[i].c # 0, \A k \in (i + 1)..done : more[k].c = 0
          PROVE  cont.gap # 0 <=> more[i].to = "started"
        <3>1. i \in 1..done /\ \A k \in (i + 1)..done : k \in 1..done
            BY <2>1
        <3>2. more[i] = rows[i] /\ \A k \in (i + 1)..done : rows[k].c = 0
            BY <2>1, <2>3, <3>1
        <3> QED
            BY <2>2, <2>3, <3>2
    <2> QED
        BY <2>1, <2>3 DEF GapOK, rows, more, done, base
<1>8. FoundOK(v, cont)
    <2> SUFFICES ASSUME NEW i \in (v.base["oper"] + 1)..cont.processed["oper"],
                        Stops(v.log["oper"][i])
                 PROVE  "terminal_event" \in cont.found
        BY DEF FoundOK
    <2>1. "oper" \in Fams
        BY DEF Fams
    <2>2. i \in (w.base["oper"] + 1)..cont.processed["oper"] /\ i \in 1..cont.processed["oper"]
        BY <1>1, <1>2, <2>1
    <2>3. Stops(w.log["oper"][i])
        BY <1>3, <2>1, <2>2
    <2> QED
        BY <2>2, <2>3 DEF Good, FoundOK
<1>9. cont \in Conts /\ RefsOK(cont, entries)
    BY DEF Good
<1> QED
    BY <1>4, <1>5, <1>6, <1>7, <1>8, <1>9 DEF Good

\* One row more of one family.
Appended(more, log, f, row) ==
    /\ more \in Ledgers /\ LogGrows(log, more)
    /\ more[f] = Append(log[f], row)
    /\ \A g \in Fams : g # f => more[g] = log[g]

LEMMA AppendIs ==
    ASSUME NEW log \in Ledgers, NEW f \in Fams, NEW row \in LedgerRows
    PROVE  Appended(Append1(log, f, row), log, f, row)
<1> DEFINE more == Append1(log, f, row)
           rows == Append(log[f], row)
<1>1. log[f] \in Seq(LedgerRows) /\ \A g \in Fams : Len(log[g]) \in Nat /\ log[g] \in Seq(LedgerRows)
    BY LedgersAre
<1>2. rows \in Seq(LedgerRows) /\ Len(rows) = Len(log[f]) + 1
      /\ \A i \in 1..Len(log[f]) : rows[i] = log[f][i]
    BY <1>1
<1>3. more = [log EXCEPT ![f] = rows]
    BY DEF Append1
<1> HIDE DEF rows
<1>4. more \in Ledgers
    BY <1>2, <1>3, FamsAre DEF Ledgers
<1>5. more[f] = rows /\ \A g \in Fams : g # f => more[g] = log[g]
    BY <1>3, FamsAre DEF Ledgers
<1> HIDE DEF more
<1>6. LogGrows(log, more)
    <2> SUFFICES ASSUME NEW g \in Fams
                 PROVE  /\ Len(log[g]) <= Len(more[g])
                        /\ \A i \in 1..Len(log[g]) : more[g][i] = log[g][i]
        BY DEF LogGrows
    <2>1. CASE g = f
        BY <1>1, <1>2, <1>5, <2>1
    <2>2. CASE g # f
        BY <1>1, <1>5, <2>2
    <2> QED
        BY <2>1, <2>2
<1> QED
    BY <1>4, <1>5, <1>6 DEF rows, more, Appended

LEMMA LogStays == ASSUME NEW log \in Ledgers PROVE LogGrows(log, log)
BY LedgersAre DEF LogGrows

LEMMA LogGrowsOn ==
    ASSUME NEW a \in Ledgers, NEW b \in Ledgers, NEW c \in Ledgers, LogGrows(a, b), LogGrows(b, c)
    PROVE  LogGrows(a, c)
<1> SUFFICES ASSUME NEW f \in Fams
             PROVE  /\ Len(a[f]) <= Len(c[f])
                    /\ \A i \in 1..Len(a[f]) : c[f][i] = a[f][i]
    BY DEF LogGrows
<1>1. Len(a[f]) \in Nat /\ Len(b[f]) \in Nat /\ Len(c[f]) \in Nat
    BY LedgersAre
<1>2. Len(a[f]) <= Len(b[f]) /\ Len(b[f]) <= Len(c[f])
    BY DEF LogGrows
<1>3. ASSUME NEW i \in 1..Len(a[f]) PROVE c[f][i] = a[f][i]
    <2>1. i \in 1..Len(b[f])
        BY <1>1, <1>2
    <2> QED
        BY <2>1 DEF LogGrows
<1> QED
    BY <1>1, <1>2, <1>3

LEMMA MovesOn ==
    ASSUME NEW u, NEW v, NEW w, WorldOK(u), WorldOK(v), WorldOK(w), Moves(u, v), Moves(v, w)
    PROVE  Moves(u, w)
<1>1. u.log \in Ledgers /\ v.log \in Ledgers /\ w.log \in Ledgers
    BY DEF WorldOK, WorldRead
<1>2. LogGrows(u.log, w.log)
    BY <1>1, LogGrowsOn DEF Moves
<1>3. ASSUME NEW c \in Chunks, WrittenRow(u, c) PROVE WrittenRow(v, c)
    <2>1. PICK i \in 1..Len(u.log["chunk"]) : u.log["chunk"][i].c = c
        BY <1>3 DEF WrittenRow
    <2>2. Len(u.log["chunk"]) <= Len(v.log["chunk"]) /\ v.log["chunk"][i] = u.log["chunk"][i]
          /\ Len(u.log["chunk"]) \in Nat /\ Len(v.log["chunk"]) \in Nat
        BY <1>1, LedgersAre, FamsAre DEF Moves, LogGrows
    <2>3. i \in 1..Len(v.log["chunk"])
        BY <2>2
    <2> QED
        BY <2>1, <2>2, <2>3 DEF WrittenRow
<1>4. \A c \in Chunks : WrittenRow(u, c) => w.edge[c] = u.edge[c] /\ (c \in w.old <=> c \in u.old)
    BY <1>3 DEF Moves
<1>5. \A c \in u.man : c \in w.local => c \in u.local
    BY DEF Moves
<1> QED
    BY <1>2, <1>4, <1>5 DEF Moves

\* A move that writes no row.
LEMMA QuietStep ==
    ASSUME NEW w, WorldOK(w), NEW v \in Worlds,
           v.log = w.log, v.base = w.base, v.edge = w.edge, v.old = w.old, v.man = w.man,
           w.bad \subseteq v.bad, v.local \subseteq w.local, v.gap = w.gap
    PROVE  WorldOK(v) /\ Moves(w, v)
<1>1. w.log \in Ledgers /\ LogGrows(w.log, v.log)
    BY LogStays DEF WorldOK, WorldRead
<1>2. Moves(w, v)
    BY <1>1 DEF Moves
<1>3. \A c : StateOf(v, c) = StateOf(w, c)
    BY DEF StateOf
<1>4. ArchAgrees(v) /\ ManSealed(v)
    BY <1>3 DEF WorldOK, ArchAgrees, ManSealed
<1>5. WorldRead(v)
    BY DEF WorldOK, WorldRead
<1> QED
    BY <1>2, <1>4, <1>5 DEF WorldOK

GapMoves(gap, row, next) ==
    /\ row.c # 0 => /\ gap # 0 => row.to # "started" /\ row.c = gap
                    /\ next = IF row.to = "started" THEN row.c ELSE 0
    /\ row.c = 0 => next = gap /\ row.to # "started"

LEMMA GapChainGoesOn ==
    ASSUME NEW rows \in Seq(LedgerRows), NEW gap \in Nat, GapChain(rows, gap),
           NEW row \in LedgerRows, NEW next, GapMoves(gap, row, next)
    PROVE  GapChain(Append(rows, row), next)
<1> DEFINE n == Len(rows)
           more == Append(rows, row)
<1>1. /\ n \in Nat /\ Len(more) = n + 1 /\ more[n + 1] = row
      /\ \A i \in 1..n : more[i] = rows[i] /\ rows[i] \in LedgerRows
    OBVIOUS
<1>2. /\ \A i \in 1..n : rows[i].to = "started" => rows[i].c # 0
      /\ \A i \in 1..n : rows[i].c # 0 /\ (\A k \in (i + 1)..n : rows[k].c = 0) =>
              gap = IF rows[i].to = "started" THEN rows[i].c ELSE 0
      /\ \A i \in 1..n : \A k \in (i + 1)..n :
          rows[i].to = "started" /\ rows[k].c # 0
              /\ (\A m \in (i + 1)..(k - 1) : rows[m].c = 0) => rows[k].c = rows[i].c
    BY DEF GapChain
<1>3. \A i \in 1..n : rows[i].c \in Nat
    BY <1>1 DEF LedgerRows
<1>4. row.c \in Nat
    BY DEF LedgerRows
<1> HIDE DEF n, more
<1>5. ASSUME NEW i \in 1..(n + 1), more[i].to = "started" PROVE more[i].c # 0
    <2>1. i \in 1..n \/ i = n + 1
        BY <1>1
    <2> QED
        BY <1>1, <1>2, <1>5, <2>1 DEF GapMoves
<1>6. ASSUME NEW i \in 1..(n + 1), more[i].c # 0, \A k \in (i + 1)..(n + 1) : more[k].c = 0
      PROVE  next = IF more[i].to = "started" THEN more[i].c ELSE 0
    <2>1. CASE i = n + 1
        BY <1>1, <1>6, <2>1 DEF GapMoves
    <2>2. CASE i # n + 1
        <3>1. i \in 1..n /\ n + 1 \in (i + 1)..(n + 1)
              /\ \A k \in (i + 1)..n : k \in (i + 1)..(n + 1) /\ k \in 1..n
            BY <1>1, <2>2
        <3>2. row.c = 0 /\ rows[i].c # 0 /\ (\A k \in (i + 1)..n : rows[k].c = 0)
            BY <1>1, <1>6, <3>1
        <3> QED
            BY <1>1, <1>2, <3>1, <3>2 DEF GapMoves
    <2> QED
        BY <2>1, <2>2
<1>7. ASSUME NEW i \in 1..(n + 1), NEW k \in (i + 1)..(n + 1), more[i].to = "started", more[k].c # 0,
             \A m \in (i + 1)..(k - 1) : more[m].c = 0
      PROVE  more[k].c = more[i].c
    <2>1. i \in 1..n /\ more[i] = rows[i] /\ rows[i].c # 0
        BY <1>1, <1>2, <1>7
    <2>2. CASE k = n + 1
        <3>1. \A m \in (i + 1)..n : m \in (i + 1)..(k - 1) /\ m \in 1..n
            BY <1>1, <2>1, <2>2
        <3>2. \A m \in (i + 1)..n : rows[m].c = 0
            BY <1>1, <1>7, <3>1
        <3>3. gap = rows[i].c
            BY <1>2, <1>7, <2>1, <3>2
        <3> QED
            BY <1>1, <1>7, <2>1, <2>2, <3>3 DEF GapMoves
    <2>3. CASE k # n + 1
        <3>1. k \in (i + 1)..n /\ k \in 1..n /\ \A m \in (i + 1)..(k - 1) : m \in 1..n
            BY <1>1, <2>1, <2>3
        <3>2. more[k] = rows[k] /\ \A m \in (i + 1)..(k - 1) : rows[m].c = 0
            BY <1>1, <1>7, <3>1
        <3> QED
            BY <1>2, <1>7, <2>1, <3>1, <3>2
    <2> QED
        BY <2>2, <2>3
<1>8. GapChain(more, next)
    BY <1>1, <1>5, <1>6, <1>7 DEF GapChain
<1> QED
    BY <1>8 DEF more

\* A move that writes a row about gaps or a stop.
LEMMA OperStep ==
    ASSUME NEW w, WorldOK(w), NEW v \in Worlds, NEW row \in LedgerRows,
           v.log = Append1(w.log, "oper", row), v.base = w.base, v.edge = w.edge,
           v.old = w.old, v.man = w.man, v.bad = w.bad, v.local = w.local,
           GapMoves(w.gap, row, v.gap)
    PROVE  WorldOK(v) /\ Moves(w, v)
<1>1. w.log \in Ledgers /\ "oper" \in Fams
    BY DEF WorldOK, WorldRead, Fams
<1>2. /\ v.log \in Ledgers /\ LogGrows(w.log, v.log)
      /\ v.log["oper"] = Append(w.log["oper"], row)
      /\ \A g \in Fams : g # "oper" => v.log[g] = w.log[g]
    <2>1. Appended(v.log, w.log, "oper", row)
        BY <1>1, AppendIs
    <2> QED
        BY <2>1 DEF Appended
<1>3. v.log["chunk"] = w.log["chunk"] /\ v.log["arch"] = w.log["arch"]
    BY <1>2, FamsAre
<1>4. Moves(w, v)
    BY <1>2 DEF Moves
<1>5. \A c : StateOf(v, c) = StateOf(w, c)
    BY <1>3 DEF StateOf
<1>6. ArchAgrees(v) /\ ManSealed(v) /\ ChunkRowsOK(v.log["chunk"])
    BY <1>3, <1>5 DEF WorldOK, ArchAgrees, ManSealed
<1>7. WorldRead(v)
    <2>1. ArchChained(v.log) /\ v.base \in [Fams -> Nat]
        BY <1>3 DEF WorldOK, WorldRead, ArchChained
    <2>2. \A f \in Fams : v.base[f] <= Len(v.log[f])
        <3> SUFFICES ASSUME NEW f \in Fams PROVE v.base[f] <= Len(v.log[f])
            OBVIOUS
        <3>1. Len(w.log[f]) \in Nat /\ Len(v.log[f]) \in Nat /\ w.base[f] \in Nat
            BY <1>1, <1>2, LedgersAre DEF WorldOK, WorldRead
        <3>2. Len(w.log[f]) <= Len(v.log[f]) /\ w.base[f] <= Len(w.log[f])
            BY <1>2 DEF WorldOK, WorldRead, LogGrows
        <3> QED
            BY <3>1, <3>2
    <2> QED
        BY <1>2, <2>1, <2>2 DEF WorldRead
<1>8. GapChain(v.log["oper"], v.gap)
    <2>1. w.log["oper"] \in Seq(LedgerRows) /\ w.gap \in Nat /\ GapChain(w.log["oper"], w.gap)
        BY <1>1, LedgersAre DEF WorldOK, Worlds
    <2> QED
        BY <1>2, <2>1, GapChainGoesOn
<1> QED
    BY <1>4, <1>6, <1>7, <1>8 DEF WorldOK

LEMMA BasesStay ==
    ASSUME NEW w, WorldRead(w), NEW v, v.log \in Ledgers, LogGrows(w.log, v.log), v.base = w.base
    PROVE  v.base \in [Fams -> Nat] /\ \A f \in Fams : v.base[f] <= Len(v.log[f])
<1> SUFFICES ASSUME NEW f \in Fams PROVE v.base[f] <= Len(v.log[f])
    BY DEF WorldRead
<1>1. Len(w.log[f]) \in Nat /\ Len(v.log[f]) \in Nat /\ w.base[f] \in Nat
    BY LedgersAre DEF WorldRead
<1>2. Len(w.log[f]) <= Len(v.log[f]) /\ w.base[f] <= Len(w.log[f])
    BY DEF WorldRead, LogGrows
<1> QED
    BY <1>1, <1>2

\* A move of the recorder that writes a row about a chunk.
LEMMA ChunkStep ==
    ASSUME NEW w, WorldOK(w), NEW v \in Worlds, NEW row \in LedgerRows, row.c \in Chunks,
           row.to \in {"ACTIVE", "SEALING", "SEALED"}, StateOf(w, row.c) \in {"none", "ACTIVE", "SEALING"},
           v.log = Append1(w.log, "chunk", row), v.base = w.base,
           \A d \in Chunks : d # row.c \/ StateOf(w, d) # "none" =>
                v.edge[d] = w.edge[d] /\ (d \in v.old <=> d \in w.old),
           w.man \subseteq v.man, v.man \subseteq w.man \cup {row.c},
           row.c \in v.man => row.to = "SEALED",
           v.local \subseteq w.local \cup {row.c}, v.bad = w.bad, v.gap = w.gap
    PROVE  WorldOK(v) /\ Moves(w, v)
<1> DEFINE c == row.c
<1>1. w.log \in Ledgers /\ "chunk" \in Fams /\ w.log["chunk"] \in Seq(LedgerRows)
    BY LedgersAre DEF WorldOK, WorldRead, Fams
<1>2. /\ v.log \in Ledgers /\ LogGrows(w.log, v.log)
      /\ v.log["chunk"] = Append(w.log["chunk"], row)
      /\ \A g \in Fams : g # "chunk" => v.log[g] = w.log[g]
    <2>1. Appended(v.log, w.log, "chunk", row)
        BY <1>1, AppendIs
    <2> QED
        BY <2>1 DEF Appended
<1>3. v.log["oper"] = w.log["oper"] /\ v.log["arch"] = w.log["arch"]
    BY <1>2, FamsAre
<1>4. \A d : StateOf(v, d) = IF d = c THEN row.to ELSE StateOf(w, d)
    <2> DEFINE rows == w.log["chunk"]
    <2>1. rows \in Seq(LedgerRows) /\ v.log["chunk"] = Append(rows, row)
        BY <1>1, <1>2
    <2> HIDE DEF rows
    <2>2. \A d : LastTo(Append(rows, row), Len(Append(rows, row)), d)
                   = IF row.c = d THEN row.to ELSE LastTo(rows, Len(rows), d)
        BY <2>1, LastToAppended
    <2> QED
        BY <2>1, <2>2 DEF StateOf, rows
<1>5. c \notin w.man
    BY LifeSets DEF WorldOK, ManSealed
<1>6. Moves(w, v)
    <2>1. \A d \in Chunks : WrittenRow(w, d) => v.edge[d] = w.edge[d] /\ (d \in v.old <=> d \in w.old)
        BY WrittenIs
    <2>2. \A d \in w.man : d \in v.local => d \in w.local
        BY <1>5
    <2> QED
        BY <1>2, <2>1, <2>2 DEF Moves
<1>7. ManSealed(v)
    <2> SUFFICES ASSUME NEW d \in v.man PROVE StateOf(v, d) \in Done
        BY DEF ManSealed
    <2>1. CASE d = c
        BY <1>4, <2>1, LifeSets
    <2>2. CASE d # c
        BY <1>4, <2>2 DEF WorldOK, ManSealed
    <2> QED
        BY <2>1, <2>2
<1>8. ArchAgrees(v)
    <2> SUFFICES ASSUME NEW d \in Chunks
                 PROVE  LastTo(w.log["arch"], Len(w.log["arch"]), d)
                          = IF StateOf(v, d) \in ArchiveSteps THEN StateOf(v, d) ELSE "none"
        BY <1>3 DEF ArchAgrees
    <2>1. LastTo(w.log["arch"], Len(w.log["arch"]), d)
            = IF StateOf(w, d) \in ArchiveSteps THEN StateOf(w, d) ELSE "none"
        BY DEF WorldOK, ArchAgrees
    <2> QED
        BY <1>4, <2>1, LifeSets
<1>9. ChunkRowsOK(v.log["chunk"])
    <2> DEFINE n == Len(w.log["chunk"])
               more == v.log["chunk"]
    <2>1. n \in Nat /\ Len(more) = n + 1 /\ more[n + 1] = row /\ \A i \in 1..n : more[i] = w.log["chunk"][i]
        BY <1>1, <1>2
    <2>2. row.to \in {Life[j] : j \in 1..8}
        BY LifeSets
    <2>3. \A i \in 1..n : w.log["chunk"][i].c \in Chunks /\ w.log["chunk"][i].to \in {Life[j] : j \in 1..8}
        BY DEF WorldOK, ChunkRowsOK
    <2> HIDE DEF n, more
    <2>4. ASSUME NEW i \in 1..(n + 1) PROVE more[i].c \in Chunks /\ more[i].to \in {Life[j] : j \in 1..8}
        <3>1. i \in 1..n \/ i = n + 1
            BY <2>1
        <3> QED
            BY <2>1, <2>2, <2>3, <3>1
    <2> QED
        BY <2>1, <2>4 DEF ChunkRowsOK, more
<1>10. WorldRead(v)
    <2>1. ArchChained(v.log)
        BY <1>3 DEF WorldOK, WorldRead, ArchChained
    <2> QED
        BY <1>2, <2>1, BasesStay DEF WorldOK, WorldRead
<1>11. GapChain(v.log["oper"], v.gap)
    BY <1>3 DEF WorldOK
<1> QED
    BY <1>6, <1>7, <1>8, <1>9, <1>10, <1>11 DEF WorldOK

\* A move of the archive worker: a row about the chunk and an event.
LEMMA ArchiveStep ==
    ASSUME NEW w, WorldOK(w), NEW v \in Worlds, NEW c \in Chunks, NEW i \in 4..8,
           StateOf(w, c) = Life[i - 1],
           v.log = Append1(Append1(w.log, "chunk", Row(c, Life[i - 1], Life[i])),
                           "arch", Row(c, IF i = 4 THEN "none" ELSE Life[i - 1], Life[i])),
           v.base = w.base, v.edge = w.edge, v.old = w.old, v.man = w.man, v.bad = w.bad,
           v.local = w.local, v.gap = w.gap
    PROVE  WorldOK(v) /\ Moves(w, v)
<1> DEFINE row == Row(c, Life[i - 1], Life[i])
           from == IF i = 4 THEN "none" ELSE Life[i - 1]
           event == Row(c, from, Life[i])
           mid == Append1(w.log, "chunk", row)
<1>1. w.log \in Ledgers /\ "chunk" \in Fams /\ "arch" \in Fams
    BY DEF WorldOK, WorldRead, Fams
<1>2. Life[i] \in LedgerWords /\ Life[i - 1] \in LedgerWords /\ from \in LedgerWords /\ c \in Nat
    <2>1. i \in 1..8 /\ i - 1 \in 1..8
        OBVIOUS
    <2>2. Life[i] \in {Life[j] : j \in 1..8} /\ Life[i - 1] \in {Life[j] : j \in 1..8}
        BY <2>1
    <2>3. {Life[j] : j \in 1..8} \subseteq LedgerWords /\ "none" \in LedgerWords
        BY DEF LedgerWords
    <2>4. c \in Nat
        BY DEF Chunks
    <2> QED
        BY <2>2, <2>3, <2>4
<1>3. row \in LedgerRows /\ event \in LedgerRows /\ row.c = c /\ row.to = Life[i]
      /\ event.c = c /\ event.to = Life[i] /\ event.from = from
    <2> HIDE DEF from
    <2> QED
        BY <1>2 DEF LedgerRows, Row
<1>4. Life[i] \in ArchiveSteps /\ Life[i] \in {Life[j] : j \in 1..8}
    BY LifeSets DEF ArchiveSteps
<1>5. from = IF StateOf(w, c) \in ArchiveSteps THEN StateOf(w, c) ELSE "none"
    <2>1. i = 4 \/ i - 1 \in 4..8
        OBVIOUS
    <2>2. i - 1 \in 4..8 => Life[i - 1] \in ArchiveSteps
        BY DEF ArchiveSteps
    <2>3. Life[3] \notin ArchiveSteps
        BY LifeIs, LifeSets
    <2>4. i = 4 => i - 1 = 3
        OBVIOUS
    <2> QED
        BY <2>1, <2>2, <2>3, <2>4
<1> HIDE DEF row, event, from
<1>6. /\ mid \in Ledgers /\ LogGrows(w.log, mid) /\ mid["chunk"] = Append(w.log["chunk"], row)
      /\ \A g \in Fams : g # "chunk" => mid[g] = w.log[g]
    <2>1. Appended(mid, w.log, "chunk", row)
        BY <1>1, <1>3, AppendIs
    <2> HIDE DEF mid
    <2> QED
        BY <2>1 DEF Appended
<1>7. v.log = Append1(mid, "arch", event)
    BY DEF mid, row, event, from
<1> HIDE DEF mid
<1>8. /\ v.log \in Ledgers /\ LogGrows(mid, v.log) /\ v.log["arch"] = Append(mid["arch"], event)
      /\ \A g \in Fams : g # "arch" => v.log[g] = mid[g]
    <2>1. Appended(v.log, mid, "arch", event)
        BY <1>1, <1>3, <1>6, <1>7, AppendIs
    <2> QED
        BY <2>1 DEF Appended
<1>9. /\ v.log["oper"] = w.log["oper"] /\ v.log["chunk"] = Append(w.log["chunk"], row)
      /\ v.log["arch"] = Append(w.log["arch"], event) /\ LogGrows(w.log, v.log)
    BY <1>1, <1>6, <1>8, LogGrowsOn, FamsAre
<1>10. w.log["chunk"] \in Seq(LedgerRows) /\ w.log["arch"] \in Seq(LedgerRows)
    BY <1>1, LedgersAre
<1>11. \A d : StateOf(v, d) = IF d = c THEN Life[i] ELSE StateOf(w, d)
    <2> DEFINE rows == w.log["chunk"]
    <2>1. rows \in Seq(LedgerRows) /\ v.log["chunk"] = Append(rows, row)
        BY <1>9, <1>10
    <2> HIDE DEF rows
    <2>2. \A d : LastTo(Append(rows, row), Len(Append(rows, row)), d)
                   = IF row.c = d THEN row.to ELSE LastTo(rows, Len(rows), d)
        BY <1>3, <2>1, LastToAppended
    <2> QED
        BY <1>3, <2>1, <2>2 DEF StateOf, rows
<1>12. \A d : LastTo(v.log["arch"], Len(v.log["arch"]), d)
                = IF d = c THEN Life[i] ELSE LastTo(w.log["arch"], Len(w.log["arch"]), d)
    <2> DEFINE rows == w.log["arch"]
    <2>1. rows \in Seq(LedgerRows) /\ v.log["arch"] = Append(rows, event)
        BY <1>9, <1>10
    <2> HIDE DEF rows
    <2>2. \A d : LastTo(Append(rows, event), Len(Append(rows, event)), d)
                   = IF event.c = d THEN event.to ELSE LastTo(rows, Len(rows), d)
        BY <1>3, <2>1, LastToAppended
    <2> QED
        BY <1>3, <2>1, <2>2 DEF rows
<1>13. Moves(w, v)
    BY <1>9 DEF Moves
<1>14. ManSealed(v)
    <2>1. Life[i] \in Done
        BY <1>4, LifeSets
    <2>2. \A d \in v.man : StateOf(w, d) \in Done
        BY DEF WorldOK, ManSealed
    <2> QED
        BY <1>11, <2>1, <2>2 DEF ManSealed
<1>15. ArchAgrees(v)
    BY <1>4, <1>11, <1>12 DEF WorldOK, ArchAgrees
<1>16. ChunkRowsOK(v.log["chunk"])
    <2> DEFINE n == Len(w.log["chunk"])
               more == v.log["chunk"]
    <2>1. n \in Nat /\ Len(more) = n + 1 /\ more[n + 1] = row /\ \A k \in 1..n : more[k] = w.log["chunk"][k]
        BY <1>9, <1>10
    <2>2. \A k \in 1..n : w.log["chunk"][k].c \in Chunks /\ w.log["chunk"][k].to \in {Life[j] : j \in 1..8}
        BY DEF WorldOK, ChunkRowsOK
    <2> HIDE DEF n, more
    <2>3. ASSUME NEW k \in 1..(n + 1) PROVE more[k].c \in Chunks /\ more[k].to \in {Life[j] : j \in 1..8}
        <3>1. k \in 1..n \/ k = n + 1
            BY <2>1
        <3> QED
            BY <1>3, <1>4, <2>1, <2>2, <3>1
    <2> QED
        BY <2>1, <2>3 DEF ChunkRowsOK, more
<1>17. ArchChained(v.log)
    <2> DEFINE rows == w.log["arch"]
               n == Len(rows)
               more == v.log["arch"]
    <2>1. n \in Nat /\ Len(more) = n + 1 /\ more[n + 1] = event /\ \A k \in 1..n : more[k] = rows[k]
        <3>1. rows \in Seq(LedgerRows) /\ more = Append(rows, event)
            BY <1>9, <1>10
        <3> HIDE DEF rows, more
        <3> QED
            BY <3>1
    <2>2. \A k \in 1..n : rows[k].c \in Chunks /\ rows[k].from = LastTo(rows, k - 1, rows[k].c)
        BY DEF WorldOK, WorldRead, ArchChained, Chunks
    <2>3. LastTo(rows, n, c) = from
        BY <1>5 DEF WorldOK, ArchAgrees
    <2> HIDE DEF rows, n, more
    <2>4. \A k \in 0..n : \A d : LastTo(more, k, d) = LastTo(rows, k, d)
        <3> SUFFICES ASSUME NEW k \in 0..n, NEW d PROVE LastTo(more, k, d) = LastTo(rows, k, d)
            OBVIOUS
        <3>1. k \in Nat /\ Agree(more, rows, k)
            BY <2>1 DEF Agree
        <3> QED
            BY <3>1, LastToAgrees
    <2>5. ASSUME NEW k \in 1..(n + 1)
          PROVE  more[k].c \in Chunks /\ more[k].from = LastTo(more, k - 1, more[k].c)
        <3>1. CASE k \in 1..n
            <4>1. k - 1 \in 0..n
                BY <2>1, <3>1
            <4> QED
                BY <2>1, <2>2, <2>4, <3>1, <4>1
        <3>2. CASE k = n + 1
            <4>1. k - 1 = n /\ n \in 0..n
                BY <2>1, <3>2
            <4> QED
                BY <1>3, <2>1, <2>3, <2>4, <3>2, <4>1
        <3> QED
            BY <2>1, <3>1, <3>2
    <2> QED
        BY <2>1, <2>5 DEF ArchChained, more, Chunks
<1>18. WorldRead(v)
    BY <1>8, <1>9, <1>17, BasesStay DEF WorldOK, WorldRead
<1>19. GapChain(v.log["oper"], v.gap)
    BY <1>9 DEF WorldOK
<1> QED
    BY <1>13, <1>14, <1>15, <1>16, <1>18, <1>19 DEF WorldOK

-----------------------------------------------------------------------------
(* Every move of the world. *)

LEMMA HighWaterIs ==
    ASSUME NEW log \in Ledgers
    PROVE  /\ HighWater(log) \in [Fams -> Nat]
           /\ \A f \in Fams : HighWater(log)[f] = Len(log[f])
BY LedgersAre DEF HighWater

LEMMA NowIs ==
    ASSUME WorldOK(vw), NEW c
    PROVE  Now(c) = StateOf(vw, c)
<1>1. HighWater(vw.log)["chunk"] = Len(vw.log["chunk"])
    BY HighWaterIs, FamsAre DEF WorldOK, WorldRead
<1> QED
    BY <1>1, ChunkStateIsLastTo DEF Now, StateOf

LEMMA WordsAre ==
    /\ "none" \in LedgerWords /\ "" \in LedgerWords /\ "started" \in LedgerWords
    /\ "completed" \in LedgerWords /\ "stopped" \in LedgerWords /\ "ACTIVE" \in LedgerWords
    /\ "SEALING" \in LedgerWords /\ "SEALED" \in LedgerWords
    /\ "before" \in LedgerWords /\ "since" \in LedgerWords
<1>1. 1 \in 1..8 /\ 2 \in 1..8 /\ 3 \in 1..8
    OBVIOUS
<1>2. {Life[1], Life[2], Life[3]} \subseteq {Life[i] : i \in 1..8}
    BY <1>1
<1>3. {Life[i] : i \in 1..8} \subseteq LedgerWords
    BY DEF LedgerWords
<1>4. {"none", "", "started", "completed", "stopped", "before", "since"} \subseteq LedgerWords
    BY DEF LedgerWords
<1> QED
    BY <1>2, <1>3, <1>4, LifeIs

LEMMA RowIs ==
    ASSUME NEW c \in Nat, NEW from \in LedgerWords, NEW to \in LedgerWords
    PROVE  Row(c, from, to) \in LedgerRows /\ Row(c, from, to).c = c
           /\ Row(c, from, to).from = from /\ Row(c, from, to).to = to
BY DEF Row, LedgerRows

LEMMA OpensMoves ==
    ASSUME NEW w, WorldOK(w), NEW c \in Chunks, StateOf(w, c) = "none",
           NEW edge \in {"same", "marked", "silent"}, NEW old, old = w.old \/ old = w.old \cup {c},
           NEW v, v = Moved([w EXCEPT
             !.log = LET l == Append1(w.log, "chunk", Row(c, "none", "ACTIVE"))
                     IN IF w.gap = 0 THEN l ELSE Append1(l, "oper", Row(w.gap, "", "completed")),
             !.gap = 0, !.edge[c] = edge, !.old = old])
    PROVE  WorldOK(v) /\ Moves(w, v)
<1> DEFINE row == Row(c, "none", "ACTIVE")
           end == Row(w.gap, "", "completed")
           l == Append1(w.log, "chunk", row)
           last == IF w.gap = 0 THEN l ELSE Append1(l, "oper", end)
           edges == [w.edge EXCEPT ![c] = edge]
           u == [w EXCEPT !.log = l, !.edge = edges, !.old = old]
<1>1. w \in Worlds /\ w.log \in Ledgers /\ w.gap \in Nat /\ c \in Nat /\ w.old \in SUBSET Chunks
      /\ w.edge \in [Chunks -> {"same", "marked", "silent"}]
    BY DEF WorldOK, Worlds, Chunks
<1>2. row \in LedgerRows /\ row.c = c /\ row.to = "ACTIVE"
    BY <1>1, WordsAre DEF Row, LedgerRows
<1>3. end \in LedgerRows /\ end.c = w.gap /\ end.to = "completed"
    BY <1>1, WordsAre DEF Row, LedgerRows
<1> HIDE DEF row, end
<1>4. l \in Ledgers
    BY <1>1, <1>2, AppendIs, FamsAre DEF Appended
<1>5. last \in Ledgers
    BY <1>3, <1>4, AppendIs, FamsAre DEF Appended
<1>6. edges \in [Chunks -> {"same", "marked", "silent"}] /\ old \in SUBSET Chunks
      /\ \A d \in Chunks : d # c => edges[d] = w.edge[d]
    BY <1>1
<1>7. v = Moved([w EXCEPT !.log = last, !.gap = 0, !.edge = edges, !.old = old])
    BY DEF row, end
<1> HIDE DEF l, last, edges
<1>8. u \in Worlds /\ u.log = l /\ u.base = w.base /\ u.edge = edges /\ u.old = old /\ u.man = w.man
      /\ u.bad = w.bad /\ u.local = w.local /\ u.gap = w.gap /\ u.gaps = w.gaps
    BY <1>1, <1>4, <1>6 DEF Worlds
<1>9. v \in Worlds /\ v.log = last /\ v.base = w.base /\ v.edge = edges /\ v.old = old /\ v.man = w.man
      /\ v.bad = w.bad /\ v.local = w.local /\ v.gap = 0
    <2> DEFINE x == [w EXCEPT !.log = last, !.gap = 0, !.edge = edges, !.old = old]
    <2>1. x \in Worlds /\ x.log = last /\ x.base = w.base /\ x.edge = edges /\ x.old = old
          /\ x.man = w.man /\ x.bad = w.bad /\ x.local = w.local /\ x.gap = 0
        BY <1>1, <1>5, <1>6 DEF Worlds
    <2>2. v = Moved(x)
        BY <1>7
    <2> HIDE DEF x
    <2>3. v = [x EXCEPT !.n = x.n + 1]
        BY <2>1, <2>2 DEF Moved, Worlds
    <2> QED
        BY <2>1, <2>3 DEF Worlds
<1> HIDE DEF u
<1>10. WorldOK(u) /\ Moves(w, u)
    <2>1. \A d \in Chunks : d # row.c \/ StateOf(w, d) # "none" =>
                u.edge[d] = w.edge[d] /\ (d \in u.old <=> d \in w.old)
        BY <1>2, <1>6, <1>8
    <2>2. row.c \notin u.man
        BY <1>2, <1>8, LifeSets DEF WorldOK, ManSealed
    <2>3. u.log = Append1(w.log, "chunk", row)
        BY <1>8 DEF l
    <2> QED
        BY <1>2, <1>8, <2>1, <2>2, <2>3, ChunkStep
<1>11. CASE w.gap = 0
    <2>1. v.log = u.log
        BY <1>8, <1>9, <1>11 DEF last
    <2>2. WorldOK(v) /\ Moves(u, v)
        BY <1>8, <1>9, <1>10, <1>11, <2>1, QuietStep
    <2> QED
        BY <1>10, <2>2, MovesOn
<1>12. CASE w.gap # 0
    <2>1. v.log = Append1(u.log, "oper", end)
        BY <1>8, <1>9, <1>12 DEF last
    <2>2. GapMoves(u.gap, end, v.gap)
        BY <1>3, <1>8, <1>9, <1>12 DEF GapMoves
    <2>3. WorldOK(v) /\ Moves(u, v)
        BY <1>3, <1>8, <1>9, <1>10, <2>1, <2>2, OperStep
    <2> QED
        BY <1>10, <2>3, MovesOn
<1> QED
    BY <1>11, <1>12

\* To count a move changes nothing else.
LEMMA CountedMoves ==
    ASSUME NEW w, NEW v, WorldOK(w), WorldOK(v), Moves(w, v)
    PROVE  WorldOK(Moved(v)) /\ Moves(w, Moved(v))
<1> DEFINE u == Moved(v)
<1>1. u \in Worlds /\ u.log = v.log /\ u.base = v.base /\ u.edge = v.edge /\ u.old = v.old
      /\ u.man = v.man /\ u.bad = v.bad /\ u.local = v.local /\ u.gap = v.gap
    BY DEF WorldOK, Worlds, Moved
<1> HIDE DEF u
<1>2. WorldOK(u) /\ Moves(v, u)
    BY <1>1, QuietStep
<1>3. WorldOK(u) /\ Moves(w, u)
    BY <1>2, MovesOn
<1> QED
    BY <1>3 DEF u

LEMMA SealingMoves ==
    ASSUME NEW w, WorldOK(w), NEW c \in Chunks, StateOf(w, c) = "ACTIVE", NEW v,
           v = [w EXCEPT !.log = Append1(@, "chunk", Row(c, "ACTIVE", "SEALING"))]
    PROVE  WorldOK(v) /\ Moves(w, v)
<1> DEFINE row == Row(c, "ACTIVE", "SEALING")
           l == Append1(w.log, "chunk", row)
<1>1. w \in Worlds /\ w.log \in Ledgers /\ c \in Nat
    BY DEF WorldOK, Worlds, Chunks
<1>2. row \in LedgerRows /\ row.c = c /\ row.to = "SEALING"
    BY <1>1, WordsAre DEF Row, LedgerRows
<1>3. v = [w EXCEPT !.log = l]
    OBVIOUS
<1> HIDE DEF row
<1>4. l \in Ledgers
    BY <1>1, <1>2, AppendIs, FamsAre DEF Appended
<1> HIDE DEF l
<1>5. v \in Worlds /\ v.log = l /\ v.base = w.base /\ v.edge = w.edge /\ v.old = w.old /\ v.man = w.man
      /\ v.bad = w.bad /\ v.local = w.local /\ v.gap = w.gap
    BY <1>1, <1>3, <1>4 DEF Worlds
<1>6. row.c \notin v.man
    BY <1>2, <1>5, LifeSets DEF WorldOK, ManSealed
<1>7. v.log = Append1(w.log, "chunk", row)
    BY <1>5 DEF l
<1> QED
    BY <1>2, <1>5, <1>6, <1>7, ChunkStep

LEMMA SealedMoves ==
    ASSUME NEW w, WorldOK(w), NEW c \in Chunks, StateOf(w, c) = "SEALING"
    PROVE  WorldOK(Sealed(w, c)) /\ Moves(w, Sealed(w, c))
<1> DEFINE row == Row(c, "SEALING", "SEALED")
           l == Append1(w.log, "chunk", row)
           v == Sealed(w, c)
<1>1. w \in Worlds /\ w.log \in Ledgers /\ c \in Nat
    BY DEF WorldOK, Worlds, Chunks
<1>2. row \in LedgerRows /\ row.c = c /\ row.to = "SEALED"
    BY <1>1, WordsAre DEF Row, LedgerRows
<1>3. v = [w EXCEPT !.log = l, !.local = @ \cup {c}, !.man = @ \cup {c}]
    BY DEF Sealed
<1> HIDE DEF row
<1>4. l \in Ledgers
    BY <1>1, <1>2, AppendIs, FamsAre DEF Appended
<1> HIDE DEF l, v
<1>5. v \in Worlds /\ v.log = l /\ v.base = w.base /\ v.edge = w.edge /\ v.old = w.old
      /\ v.man = w.man \cup {c} /\ v.bad = w.bad /\ v.local = w.local \cup {c} /\ v.gap = w.gap
    BY <1>1, <1>3, <1>4 DEF Worlds
<1>6. v.log = Append1(w.log, "chunk", row)
    BY <1>5 DEF l
<1>7. WorldOK(v) /\ Moves(w, v)
    BY <1>2, <1>5, <1>6, ChunkStep
<1> QED
    BY <1>7 DEF v

LEMMA GapStartMoves ==
    ASSUME NEW w, WorldOK(w), w.gap = 0, NEW v,
           v = [w EXCEPT !.log = Append1(@, "oper", Row(w.gaps + 1, "", "started")),
                         !.gap = w.gaps + 1, !.gaps = @ + 1]
    PROVE  WorldOK(v) /\ Moves(w, v)
<1> DEFINE g == w.gaps + 1
           row == Row(g, "", "started")
           l == Append1(w.log, "oper", row)
<1>1. w \in Worlds /\ w.log \in Ledgers /\ w.gaps \in Nat /\ g \in Nat /\ g # 0
    BY DEF WorldOK, Worlds
<1>2. row \in LedgerRows /\ row.c = g /\ row.to = "started"
    <2> HIDE DEF g
    <2> QED
        BY <1>1, WordsAre DEF Row, LedgerRows
<1>3. v = [w EXCEPT !.log = l, !.gap = g, !.gaps = g]
    BY <1>1 DEF Worlds
<1> HIDE DEF row, g
<1>4. l \in Ledgers
    BY <1>1, <1>2, AppendIs, FamsAre DEF Appended
<1> HIDE DEF l
<1>5. v \in Worlds /\ v.log = l /\ v.base = w.base /\ v.edge = w.edge /\ v.old = w.old /\ v.man = w.man
      /\ v.bad = w.bad /\ v.local = w.local /\ v.gap = g
    BY <1>1, <1>3, <1>4 DEF Worlds
<1>6. GapMoves(w.gap, row, v.gap)
    BY <1>1, <1>2, <1>5 DEF GapMoves
<1>7. v.log = Append1(w.log, "oper", row)
    BY <1>5 DEF l
<1> QED
    BY <1>2, <1>5, <1>6, <1>7, OperStep

LEMMA StopMoves ==
    ASSUME NEW w, WorldOK(w), NEW era \in {"before", "since"}, NEW v,
           v = [w EXCEPT !.svc = FALSE, !.log = Append1(@, "oper", Row(0, era, "stopped"))]
    PROVE  WorldOK(v) /\ Moves(w, v)
<1> DEFINE row == Row(0, era, "stopped")
           l == Append1(w.log, "oper", row)
<1>1. w \in Worlds /\ w.log \in Ledgers
    BY DEF WorldOK, Worlds
<1>2. row \in LedgerRows /\ row.c = 0 /\ row.to = "stopped"
    BY WordsAre DEF Row, LedgerRows
<1>3. v = [w EXCEPT !.log = l, !.svc = FALSE]
    BY <1>1 DEF Worlds
<1> HIDE DEF row
<1>4. l \in Ledgers
    BY <1>1, <1>2, AppendIs, FamsAre DEF Appended
<1> HIDE DEF l
<1>5. v \in Worlds /\ v.log = l /\ v.base = w.base /\ v.edge = w.edge /\ v.old = w.old /\ v.man = w.man
      /\ v.bad = w.bad /\ v.local = w.local /\ v.gap = w.gap
    BY <1>1, <1>3, <1>4 DEF Worlds
<1>6. GapMoves(w.gap, row, v.gap)
    BY <1>2, <1>5 DEF GapMoves
<1>7. v.log = Append1(w.log, "oper", row)
    BY <1>5 DEF l
<1> QED
    BY <1>2, <1>5, <1>6, <1>7, OperStep

LEMMA ArchiveMoveMoves ==
    ASSUME NEW w, WorldOK(w), NEW c \in Chunks, NEW i \in 4..8, StateOf(w, c) = Life[i - 1], NEW v,
           v = [w EXCEPT !.log = Append1(
               Append1(@, "chunk", Row(c, Life[i - 1], Life[i])),
               "arch", Row(c, IF i = 4 THEN "none" ELSE Life[i - 1], Life[i]))]
    PROVE  WorldOK(v) /\ Moves(w, v)
<1> DEFINE row == Row(c, Life[i - 1], Life[i])
           from == IF i = 4 THEN "none" ELSE Life[i - 1]
           event == Row(c, from, Life[i])
           mid == Append1(w.log, "chunk", row)
           l == Append1(mid, "arch", event)
<1>1. w \in Worlds /\ w.log \in Ledgers /\ c \in Nat
    BY DEF WorldOK, Worlds, Chunks
<1>2. Life[i] \in LedgerWords /\ Life[i - 1] \in LedgerWords /\ from \in LedgerWords
    <2>1. i \in 1..8 /\ i - 1 \in 1..8
        OBVIOUS
    <2>2. Life[i] \in {Life[j] : j \in 1..8} /\ Life[i - 1] \in {Life[j] : j \in 1..8}
        BY <2>1
    <2>3. {Life[j] : j \in 1..8} \subseteq LedgerWords /\ "none" \in LedgerWords
        BY DEF LedgerWords
    <2> QED
        BY <2>2, <2>3
<1> HIDE DEF from
<1>3. row \in LedgerRows /\ event \in LedgerRows
    BY <1>1, <1>2, RowIs
<1>4. v = [w EXCEPT !.log = l]
    BY DEF from
<1> HIDE DEF row, event
<1>5. mid \in Ledgers
    BY <1>1, <1>3, AppendIs, FamsAre DEF Appended
<1> HIDE DEF mid
<1>6. l \in Ledgers
    BY <1>3, <1>5, AppendIs, FamsAre DEF Appended
<1> HIDE DEF l
<1>7. v \in Worlds /\ v.log = l /\ v.base = w.base /\ v.edge = w.edge /\ v.old = w.old /\ v.man = w.man
      /\ v.bad = w.bad /\ v.local = w.local /\ v.gap = w.gap
    BY <1>1, <1>4, <1>6 DEF Worlds
<1>8. v.log = Append1(Append1(w.log, "chunk", Row(c, Life[i - 1], Life[i])),
                      "arch", Row(c, IF i = 4 THEN "none" ELSE Life[i - 1], Life[i]))
    BY <1>7 DEF l, mid, row, event, from
<1> QED
    BY <1>7, <1>8, ArchiveStep

WorldAction ==
    \/ \E c \in 1..V5Chunks :
          \/ \E edge \in {"same", "marked", "silent"} : RecorderOpens(c, edge)
          \/ RecorderSeals(c)
          \/ ArchiveMoves(c)
          \/ ArchiveUnlinks(c)
          \/ \E copy \in {"local", "archive"} : DiskDamages(c, copy)
    \/ V5GapStarts \/ RecorderStops \/ RecorderDies \/ RecorderStarts \/ V5Tick

LEMMA WorldActionMoves ==
    ASSUME WorldOK(vw), WorldAction
    PROVE  WorldOK(vw') /\ Moves(vw, vw') /\ UNCHANGED <<vo, vdocs, vtarget, vt>>
<1> DEFINE Fine == WorldOK(vw') /\ Moves(vw, vw') /\ UNCHANGED <<vo, vdocs, vtarget, vt>>
<1>1. vw \in Worlds /\ \A c : Now(c) = StateOf(vw, c)
    BY NowIs DEF WorldOK
<1>2. ASSUME NEW next, WorldOK(next), Moves(vw, next), World(next) PROVE Fine
    <2>1. vw' = Moved(next) /\ UNCHANGED <<vo, vdocs, vtarget, vt>>
        BY <1>2 DEF World, Becomes
    <2> QED
        BY <1>2, <2>1, CountedMoves
<1>3. ASSUME NEW next, WorldOK(next), Moves(vw, next), Becomes(next) PROVE Fine
    BY <1>3 DEF Becomes
<1>4. ASSUME NEW c \in 1..V5Chunks, NEW edge \in {"same", "marked", "silent"}, RecorderOpens(c, edge)
      PROVE  Fine
    <2> DEFINE old == IF vo.pc = "off" THEN vw.old \cup {c} ELSE vw.old
    <2>1. StateOf(vw, c) = "none" /\ (old = vw.old \/ old = vw.old \cup {c}) /\ c \in Chunks
        BY <1>1, <1>4 DEF RecorderOpens, Chunks
    <2>2. vw' = Moved([vw EXCEPT
             !.log = LET l == Append1(vw.log, "chunk", Row(c, "none", "ACTIVE"))
                     IN IF vw.gap = 0 THEN l ELSE Append1(l, "oper", Row(vw.gap, "", "completed")),
             !.gap = 0, !.edge[c] = edge, !.old = old])
          /\ UNCHANGED <<vo, vdocs, vtarget, vt>>
        <3>1. vw.old = vw["old"]
            OBVIOUS
        <3> QED
            BY <1>1, <1>4 DEF RecorderOpens, World, Becomes, Worlds
    <2> HIDE DEF old
    <2>3. WorldOK(vw') /\ Moves(vw, vw')
        BY <2>1, <2>2, OpensMoves
    <2> QED
        BY <2>2, <2>3
<1>5. ASSUME NEW c \in 1..V5Chunks, RecorderSeals(c) PROVE Fine
    <2>1. c \in Chunks
        BY DEF Chunks
    <2>2. CASE Now(c) = "ACTIVE"
               /\ World([vw EXCEPT !.log = Append1(@, "chunk", Row(c, "ACTIVE", "SEALING"))])
        <3> DEFINE v == [vw EXCEPT !.log = Append1(@, "chunk", Row(c, "ACTIVE", "SEALING"))]
        <3>1. WorldOK(v) /\ Moves(vw, v)
            BY <1>1, <2>1, <2>2, SealingMoves
        <3> HIDE DEF v
        <3>2. World(v)
            BY <2>2 DEF v
        <3> QED
            BY <1>2, <3>1, <3>2
    <2>3. CASE Now(c) = "SEALING" /\ Becomes(Sealed(vw, c))
        <3>1. WorldOK(Sealed(vw, c)) /\ Moves(vw, Sealed(vw, c))
            BY <1>1, <2>1, <2>3, SealedMoves
        <3> QED
            BY <1>3, <2>3, <3>1
    <2> QED
        BY <1>5, <2>2, <2>3 DEF RecorderSeals
<1>6. ASSUME NEW c \in 1..V5Chunks, ArchiveMoves(c) PROVE Fine
    <2>1. c \in Chunks
        BY DEF Chunks
    <2>2. PICK i \in 4..8 : /\ Now(c) = Life[i - 1]
                            /\ World([vw EXCEPT !.log = Append1(
                                 Append1(@, "chunk", Row(c, Life[i - 1], Life[i])),
                                 "arch", Row(c, IF i = 4 THEN "none" ELSE Life[i - 1], Life[i]))])
        BY <1>6 DEF ArchiveMoves
    <2> DEFINE v == [vw EXCEPT !.log = Append1(
                                 Append1(@, "chunk", Row(c, Life[i - 1], Life[i])),
                                 "arch", Row(c, IF i = 4 THEN "none" ELSE Life[i - 1], Life[i]))]
    <2>3. WorldOK(v) /\ Moves(vw, v)
        BY <1>1, <2>1, <2>2, ArchiveMoveMoves
    <2> HIDE DEF v
    <2>4. World(v)
        BY <2>2 DEF v
    <2> QED
        BY <1>2, <2>3, <2>4
<1>7. ASSUME NEW c \in 1..V5Chunks, ArchiveUnlinks(c) PROVE Fine
    <2> DEFINE v == [vw EXCEPT !.local = @ \ {c}]
    <2>1. v \in Worlds /\ v.log = vw.log /\ v.base = vw.base /\ v.edge = vw.edge /\ v.old = vw.old
          /\ v.man = vw.man /\ vw.bad \subseteq v.bad /\ v.local \subseteq vw.local /\ v.gap = vw.gap
        BY <1>1 DEF Worlds
    <2> HIDE DEF v
    <2>2. WorldOK(v) /\ Moves(vw, v)
        BY <2>1, QuietStep
    <2>3. Becomes(v)
        BY <1>7 DEF ArchiveUnlinks, v
    <2> QED
        BY <1>3, <2>2, <2>3
<1>8. ASSUME NEW c \in 1..V5Chunks, NEW copy \in {"local", "archive"}, DiskDamages(c, copy) PROVE Fine
    <2> DEFINE v == [vw EXCEPT !.bad = @ \cup {<<c, copy>>}]
    <2>1. v \in Worlds /\ v.log = vw.log /\ v.base = vw.base /\ v.edge = vw.edge /\ v.old = vw.old
          /\ v.man = vw.man /\ vw.bad \subseteq v.bad /\ v.local \subseteq vw.local /\ v.gap = vw.gap
        <3>1. <<c, copy>> \in Copies
            BY DEF Copies, Chunks
        <3> QED
            BY <1>1, <3>1 DEF Worlds
    <2> HIDE DEF v
    <2>2. WorldOK(v) /\ Moves(vw, v)
        BY <2>1, QuietStep
    <2>3. World(v)
        BY <1>8 DEF DiskDamages, v
    <2> QED
        BY <1>2, <2>2, <2>3
<1>9. ASSUME V5GapStarts PROVE Fine
    <2> DEFINE v == [vw EXCEPT !.log = Append1(@, "oper", Row(vw.gaps + 1, "", "started")),
                               !.gap = vw.gaps + 1, !.gaps = @ + 1]
    <2>1. WorldOK(v) /\ Moves(vw, v)
        BY <1>9, GapStartMoves DEF V5GapStarts
    <2> HIDE DEF v
    <2>2. World(v)
        BY <1>9 DEF V5GapStarts, v
    <2> QED
        BY <1>2, <2>1, <2>2
<1>10. ASSUME RecorderStops PROVE Fine
    <2> DEFINE v == [vw EXCEPT !.svc = FALSE, !.log = Append1(@, "oper", Row(0, Era, "stopped"))]
    <2>1. WorldOK(v) /\ Moves(vw, v)
        <3>1. Era \in {"before", "since"}
            BY DEF Era
        <3> QED
            BY <1>1, <3>1, StopMoves
    <2> HIDE DEF v
    <2>2. World(v) \/ Becomes(v)
        BY <1>10 DEF RecorderStops, v
    <2> QED
        BY <1>2, <1>3, <2>1, <2>2
<1>11. ASSUME RecorderDies PROVE Fine
    <2> DEFINE v == [vw EXCEPT !.svc = FALSE]
    <2>1. v \in Worlds /\ v.log = vw.log /\ v.base = vw.base /\ v.edge = vw.edge /\ v.old = vw.old
          /\ v.man = vw.man /\ vw.bad \subseteq v.bad /\ v.local \subseteq vw.local /\ v.gap = vw.gap
        BY <1>1 DEF Worlds
    <2> HIDE DEF v
    <2>2. WorldOK(v) /\ Moves(vw, v)
        BY <2>1, QuietStep
    <2>3. World(v)
        BY <1>11 DEF RecorderDies, v
    <2> QED
        BY <1>2, <2>2, <2>3
<1>12. ASSUME RecorderStarts PROVE Fine
    <2> DEFINE v == [vw EXCEPT !.svc = TRUE, !.inv = @ + 1]
    <2>1. v \in Worlds /\ v.log = vw.log /\ v.base = vw.base /\ v.edge = vw.edge /\ v.old = vw.old
          /\ v.man = vw.man /\ vw.bad \subseteq v.bad /\ v.local \subseteq vw.local /\ v.gap = vw.gap
        <3>1. vw.inv + 1 \in Nat
            BY <1>1 DEF Worlds
        <3> QED
            BY <1>1, <3>1 DEF Worlds
    <2> HIDE DEF v
    <2>2. WorldOK(v) /\ Moves(vw, v)
        BY <2>1, QuietStep
    <2>3. World(v)
        BY <1>12 DEF RecorderStarts, v
    <2> QED
        BY <1>2, <2>2, <2>3
<1>13. ASSUME V5Tick PROVE Fine
    <2> DEFINE v == [vw EXCEPT !.t = @ + 1]
    <2>1. v \in Worlds /\ v.log = vw.log /\ v.base = vw.base /\ v.edge = vw.edge /\ v.old = vw.old
          /\ v.man = vw.man /\ vw.bad \subseteq v.bad /\ v.local \subseteq vw.local /\ v.gap = vw.gap
        BY <1>1 DEF Worlds
    <2> HIDE DEF v
    <2>2. WorldOK(v) /\ Moves(vw, v)
        BY <2>1, QuietStep
    <2>3. Becomes(v)
        BY <1>13 DEF V5Tick, v, Becomes
    <2> QED
        BY <1>3, <2>2, <2>3
<1> HIDE DEF Fine
<1>14. Fine
    BY <1>4, <1>5, <1>6, <1>7, <1>8, <1>9, <1>10, <1>11, <1>12, <1>13 DEF WorldAction
<1> QED
    BY <1>14 DEF Fine

-----------------------------------------------------------------------------
(* The published documents. *)

PrefixOf(w) == [f \in Fams |-> SubSeq(w.log[f], 1, w.base[f])]
StartOf(w) == EmptyContinuation(PrefixOf(w))
Before(w, docs, d) == IF d = 1 THEN StartOf(w) ELSE docs[d - 1].cont
Standing(w, docs) == IF docs = <<>> THEN StartOf(w) ELSE docs[Len(docs)].cont
EntriesOf(w, docs) == UNION {DeltaEntries(w.log, docs[d].high, docs[d].pages) : d \in DOMAIN docs}

Docs == [high : [Fams -> Nat], pages : [Fams -> Seq(PageRows)], cont : Conts,
         complete : BOOLEAN, pending : BOOLEAN, t : Nat, inv : Nat, found : SUBSET Findings]

\* A document continues the one before it and says what it found.
DocOK(w, docs, d) ==
    LET doc == docs[d] IN
    /\ \A f \in Fams : doc.high[f] <= Len(w.log[f])
    /\ \A f \in Fams : PageIsOf(w.log, f, doc.pages[f])
    /\ doc.cont = ReplayDelta(w.log, Before(w, docs, d), doc.high, doc.pages)
    /\ ~doc.pending => doc.cont.processed = doc.high
    /\ doc.cont.found \subseteq doc.found
    /\ doc.inv # docs[1].inv => "process_incarnation_changed" \in doc.found
    /\ doc.found \subseteq docs[Len(docs)].found

SeenOK(w, cont) == \A f \in Fams : cont.seen[f] <= Len(w.log[f])

DocsOK(w, docs) ==
    /\ docs \in Seq(Docs)
    /\ \A d \in 1..Len(docs) : DocOK(w, docs, d)
    /\ Good(w, Standing(w, docs), EntriesOf(w, docs)) /\ SeenOK(w, Standing(w, docs))
    /\ docs # <<>> => Cardinality(Standing(w, docs).refs) <= ReferenceCap

LEMMA StartStays ==
    ASSUME NEW w, NEW v, WorldOK(w), WorldOK(v), Moves(w, v)
    PROVE  StartOf(v) = StartOf(w)
<1>1. ASSUME NEW f \in Fams PROVE SubSeq(v.log[f], 1, w.base[f]) = SubSeq(w.log[f], 1, w.base[f])
    <2> DEFINE n == w.base[f]
               a == w.log[f]
               b == v.log[f]
    <2>1. w.log \in Ledgers /\ v.log \in Ledgers
        BY DEF WorldOK, WorldRead
    <2>2. /\ n \in Nat /\ n <= Len(a) /\ Len(a) <= Len(b) /\ a \in Seq(LedgerRows) /\ b \in Seq(LedgerRows)
          /\ \A i \in 1..Len(a) : b[i] = a[i]
        BY <2>1, LedgersAre DEF WorldOK, WorldRead, Moves, LogGrows
    <2> HIDE DEF n, a, b
    <2>3. SubSeq(b, 1, n) = [i \in 1..n |-> b[i]]
        BY <2>2
    <2>4. SubSeq(a, 1, n) = [i \in 1..n |-> a[i]]
        BY <2>2
    <2>5. \A i \in 1..n : b[i] = a[i]
        BY <2>2
    <2>6. SubSeq(b, 1, n) = SubSeq(a, 1, n)
        BY <2>3, <2>4, <2>5
    <2> QED
        BY <2>6 DEF n, a, b
<1>2. v.base = w.base
    BY DEF Moves
<1>3. PrefixOf(v) = PrefixOf(w)
    BY <1>1, <1>2 DEF PrefixOf
<1> QED
    BY <1>3 DEF StartOf

LEMMA DocsStay ==
    ASSUME NEW w, NEW v, WorldOK(w), WorldOK(v), Moves(w, v), NEW docs, DocsOK(w, docs)
    PROVE  /\ DocsOK(v, docs) /\ Standing(v, docs) = Standing(w, docs)
           /\ EntriesOf(v, docs) = EntriesOf(w, docs)
<1>1. w.log \in Ledgers /\ v.log \in Ledgers /\ LogGrows(w.log, v.log)
    BY DEF WorldOK, WorldRead, Moves
<1>2. StartOf(v) = StartOf(w)
    BY StartStays
<1>3. docs \in Seq(Docs) /\ Len(docs) \in Nat /\ DOMAIN docs = 1..Len(docs)
      /\ \A d \in 1..Len(docs) : docs[d] \in Docs
    BY DEF DocsOK
<1>4. \A f \in Fams : Len(w.log[f]) \in Nat /\ Len(v.log[f]) \in Nat /\ Len(w.log[f]) <= Len(v.log[f])
    BY <1>1, LedgersAre DEF LogGrows
<1>5. ASSUME NEW d \in 1..Len(docs)
      PROVE  /\ DocOK(v, docs, d)
             /\ DeltaEntries(v.log, docs[d].high, docs[d].pages)
                  = DeltaEntries(w.log, docs[d].high, docs[d].pages)
    <2> DEFINE high == docs[d].high
               pages == docs[d].pages
               before == Before(w, docs, d)
    <2>1. HighWithin(w.log, high) /\ PagesAreOf(w.log, pages)
        BY <1>3 DEF DocsOK, DocOK, Docs, HighWithin, PagesAreOf
    <2>2. Before(v, docs, d) = before
        BY <1>2 DEF Before
    <2> HIDE DEF high, pages, before
    <2>3. /\ ReplayDelta(v.log, before, high, pages) = ReplayDelta(w.log, before, high, pages)
          /\ DeltaEntries(v.log, high, pages) = DeltaEntries(w.log, high, pages)
          /\ PagesAreOf(v.log, pages)
        BY <1>1, <2>1, ReplayDeltaStays
    <2>4. \A f \in Fams : high[f] <= Len(v.log[f])
        BY <1>4, <2>1 DEF HighWithin
    <2>5. DocOK(w, docs, d)
        BY DEF DocsOK
    <2> QED
        BY <2>2, <2>3, <2>4, <2>5 DEF DocOK, high, pages, before, PagesAreOf
<1>6. Standing(v, docs) = Standing(w, docs)
    BY <1>2 DEF Standing
<1>7. EntriesOf(v, docs) = EntriesOf(w, docs)
    BY <1>3, <1>5 DEF EntriesOf
<1>8. Good(v, Standing(v, docs), EntriesOf(v, docs))
    BY <1>6, <1>7, GoodStays DEF DocsOK
<1>9. SeenOK(v, Standing(v, docs))
    <2> DEFINE cont == Standing(w, docs)
    <2>1. cont.seen \in [Fams -> Nat] /\ SeenOK(w, cont)
        BY DEF DocsOK, Good, Conts
    <2> HIDE DEF cont
    <2>2. SeenOK(v, cont)
        BY <1>4, <2>1 DEF SeenOK
    <2> QED
        BY <1>6, <2>2 DEF cont
<1> QED
    BY <1>3, <1>5, <1>6, <1>7, <1>8, <1>9 DEF DocsOK

-----------------------------------------------------------------------------
(* The observer. *)

Readings == [inv : Nat, t : Nat]

Observers == [pc : {"off", "begun", "snapped", "idle", "failed", "dead"},
              live : Readings, snap : [Fams -> Nat], cont : Conts]

\* An observer that is at work stands where the last document does.
ObserverOK(w, o, docs) ==
    /\ o \in Observers
    /\ o.pc \in {"off", "idle", "begun", "snapped"} => o.cont = Standing(w, docs)
    /\ o.pc = "snapped" => HighWithin(w.log, o.snap)

LEMMA FindingsAdd ==
    ASSUME NEW w, NEW live, NEW first, NEW previous, NEW cont, NEW high, NEW complete,
           previous \subseteq Findings, cont.found \subseteq Findings
    PROVE  LET found == LiveFindings(w, live, first, previous, cont, high, complete) IN
           /\ found \in SUBSET Findings /\ previous \subseteq found /\ cont.found \subseteq found
           /\ live.inv # first => "process_incarnation_changed" \in found
<1> DEFINE a == IF live.inv # first THEN {"process_incarnation_changed"} ELSE {}
           b == IF complete /\ cont.processed["arch"] = high["arch"]
                     /\ cont.counts # ArchiveBacklog(w.log, high)
                THEN {"archive_aggregate_disagreement"} ELSE {}
<1>1. LiveFindings(w, live, first, previous, cont, high, complete) = previous \cup a \cup b \cup cont.found
    BY DEF LiveFindings
<1>2. a \subseteq Findings /\ b \subseteq Findings
    BY DEF Findings
<1>3. live.inv # first => "process_incarnation_changed" \in a
    OBVIOUS
<1> HIDE DEF a, b
<1> QED
    BY <1>1, <1>2, <1>3

LEMMA FitsIsOf ==
    ASSUME NEW w, NEW cont \in Conts, NEW f \in Fams, NEW page, PageFits(w, cont, f, page)
    PROVE  PageIsOf(w.log, f, page)
<1>1. cont.processed[f] \in Nat
    BY DEF Conts
<1> QED
    BY <1>1 DEF PageFits, PageIsOf

LEMMA EntriesAppended ==
    ASSUME NEW w, NEW docs \in Seq(Docs), NEW doc \in Docs
    PROVE  EntriesOf(w, Append(docs, doc))
              = EntriesOf(w, docs) \cup DeltaEntries(w.log, doc.high, doc.pages)
<1> DEFINE n == Len(docs)
           more == Append(docs, doc)
           of(d) == DeltaEntries(w.log, d.high, d.pages)
<1>1. /\ n \in Nat /\ DOMAIN docs = 1..n /\ DOMAIN more = 1..(n + 1) /\ more[n + 1] = doc
      /\ \A i \in 1..n : more[i] = docs[i]
    OBVIOUS
<1>2. EntriesOf(w, docs) = UNION {of(docs[d]) : d \in 1..n}
    BY <1>1 DEF EntriesOf
<1>3. EntriesOf(w, more) = UNION {of(more[d]) : d \in 1..(n + 1)}
    BY <1>1 DEF EntriesOf
<1> HIDE DEF more, n, of
<1>4. {of(more[d]) : d \in 1..(n + 1)} = {of(docs[d]) : d \in 1..n} \cup {of(doc)}
    <2>1. 1..(n + 1) = 1..n \cup {n + 1}
        BY <1>1
    <2> QED
        BY <1>1, <2>1
<1>5. \A S, x : UNION (S \cup {x}) = (UNION S) \cup x
    OBVIOUS
<1>6. EntriesOf(w, more) = (UNION {of(docs[d]) : d \in 1..n}) \cup of(doc)
    BY <1>3, <1>4, <1>5
<1> QED
    BY <1>2, <1>6 DEF more, of

\* What an observation publishes.
Published(w, live, docs, pages, complete, high, next) ==
    [high |-> high, pages |-> pages, cont |-> next, complete |-> complete,
     pending |-> ~complete \/ next.processed # high, t |-> live.t, inv |-> live.inv,
     found |-> LiveFindings(w, live, IF docs = <<>> THEN live.inv ELSE docs[1].inv,
                            IF docs = <<>> THEN {} ELSE docs[Len(docs)].found,
                            next, high, complete)]

DocSays(doc, live, docs, pages, high, next) ==
    /\ doc \in Docs /\ doc.high = high /\ doc.pages = pages /\ doc.cont = next
    /\ ~doc.pending => next.processed = high
    /\ next.found \subseteq doc.found /\ doc.inv = live.inv
    /\ docs # <<>> => /\ docs[Len(docs)].found \subseteq doc.found
                      /\ live.inv # docs[1].inv => "process_incarnation_changed" \in doc.found

LEMMA PublishedIs ==
    ASSUME NEW w, WorldOK(w), NEW live \in Readings, NEW docs, DocsOK(w, docs), NEW pages \in [Fams -> Seq(PageRows)],
           NEW complete \in BOOLEAN, NEW high \in [Fams -> Nat], NEW next \in Conts
    PROVE  DocSays(Published(w, live, docs, pages, complete, high, next), live, docs, pages, high, next)
<1> DEFINE first == IF docs = <<>> THEN live.inv ELSE docs[1].inv
           previous == IF docs = <<>> THEN {} ELSE docs[Len(docs)].found
           found == LiveFindings(w, live, first, previous, next, high, complete)
           left == ~complete \/ next.processed # high
<1>1. previous \subseteq Findings
    <2>1. docs \in Seq(Docs)
        BY DEF DocsOK
    <2>2. docs # <<>> => docs[Len(docs)] \in Docs
        BY <2>1
    <2> QED
        BY <2>2 DEF Docs
<1>2. next.found \subseteq Findings
    BY DEF Conts
<1> HIDE DEF first, previous
<1>3. /\ found \in SUBSET Findings /\ previous \subseteq found /\ next.found \subseteq found
      /\ live.inv # first => "process_incarnation_changed" \in found
    BY <1>1, <1>2, FindingsAdd
<1>4. Published(w, live, docs, pages, complete, high, next)
        = [high |-> high, pages |-> pages, cont |-> next, complete |-> complete,
           pending |-> left, t |-> live.t, inv |-> live.inv, found |-> found]
    BY DEF Published, first, previous
<1>5. live.t \in Nat /\ live.inv \in Nat
    BY DEF Readings
<1>6. left \in BOOLEAN /\ (~left => next.processed = high)
    OBVIOUS
<1> HIDE DEF found, left
<1> QED
    BY <1>3, <1>4, <1>5, <1>6 DEF Docs, first, previous, DocSays

Continues(w, docs, doc, next) ==
    DocsOK(w, Append(docs, doc)) /\ Standing(w, Append(docs, doc)) = next /\ next \in Conts

Replayed(w, cont, entries, high, pages, next) ==
    Good(w, next, entries \cup DeltaEntries(w.log, high, pages)) /\ next.seen = high

LEMMA ReplayedIs ==
    ASSUME NEW w, WorldRead(w), NEW cont, NEW entries, Good(w, cont, entries),
           NEW high \in [Fams -> Nat], NEW pages, PagesFit(w, cont, pages)
    PROVE  Replayed(w, cont, entries, high, pages, ReplayDelta(w.log, cont, high, pages))
BY ReplayDeltaIsGood DEF Replayed

LEMMA PublishingKeepsDocs ==
    ASSUME NEW w, WorldOK(w), NEW live \in Readings, NEW docs, DocsOK(w, docs),
           NEW pages \in [Fams -> Seq(PageRows)], NEW complete \in BOOLEAN,
           NEW high, HighWithin(w.log, high),
           PagesFit(w, Standing(w, docs), pages),
           NEW next, next = ReplayDelta(w.log, Standing(w, docs), high, pages),
           Cardinality(next.refs) <= ReferenceCap
    PROVE  Continues(w, docs, Published(w, live, docs, pages, complete, high, next), next)
<1> DEFINE cont == Standing(w, docs)
           n == Len(docs)
           doc == Published(w, live, docs, pages, complete, high, next)
           more == Append(docs, doc)
           entries == EntriesOf(w, docs)
<1>1. WorldRead(w) /\ Good(w, cont, entries) /\ cont \in Conts /\ high \in [Fams -> Nat]
      /\ docs \in Seq(Docs)
    BY DEF WorldOK, DocsOK, Good, HighWithin
<1> HIDE DEF cont, entries
<1>2. Good(w, next, entries \cup DeltaEntries(w.log, high, pages)) /\ next.seen = high
    <2>1. PagesFit(w, cont, pages)
        BY DEF cont
    <2>2. next = ReplayDelta(w.log, cont, high, pages)
        BY DEF cont
    <2>3. Replayed(w, cont, entries, high, pages, ReplayDelta(w.log, cont, high, pages))
        BY <1>1, <2>1, ReplayedIs
    <2> QED
        BY <2>2, <2>3 DEF Replayed
<1>3. next \in Conts
    BY <1>2 DEF Good
<1>4. /\ doc \in Docs /\ doc.high = high /\ doc.pages = pages /\ doc.cont = next
      /\ ~doc.pending => next.processed = high
      /\ next.found \subseteq doc.found /\ doc.inv = live.inv
      /\ docs # <<>> => /\ docs[Len(docs)].found \subseteq doc.found
                        /\ live.inv # docs[1].inv => "process_incarnation_changed" \in doc.found
    <2>1. DocSays(doc, live, docs, pages, high, next)
        BY <1>1, <1>3, PublishedIs
    <2> HIDE DEF doc
    <2> QED
        BY <2>1 DEF DocSays
<1> HIDE DEF doc
<1>5. /\ n \in Nat /\ Len(more) = n + 1 /\ more[n + 1] = doc /\ more \in Seq(Docs)
      /\ \A i \in 1..n : more[i] = docs[i]
      /\ (docs = <<>> <=> n = 0) /\ more # <<>>
    <2>1. docs \in Seq(Docs) /\ doc \in Docs
        BY <1>1, <1>4
    <2>2. /\ n \in Nat /\ Len(more) = n + 1 /\ more[n + 1] = doc /\ more \in Seq(Docs)
          /\ \A i \in 1..n : more[i] = docs[i]
        BY <2>1
    <2>3. docs = <<>> <=> n = 0
        BY <2>1
    <2>4. more # <<>>
        BY <2>1
    <2> QED
        BY <2>2, <2>3, <2>4
<1>6. EntriesOf(w, more) = entries \cup DeltaEntries(w.log, high, pages)
    BY <1>1, <1>4, EntriesAppended DEF entries
<1> HIDE DEF more
<1>7. Standing(w, more) = next
    BY <1>4, <1>5 DEF Standing
<1>8. ASSUME NEW d \in 1..n PROVE DocOK(w, more, d)
    <2>1. DocOK(w, docs, d)
        BY DEF DocsOK
    <2>2. more[d] = docs[d] /\ more[1] = docs[1] /\ docs # <<>>
        BY <1>5
    <2>3. Before(w, more, d) = Before(w, docs, d)
        <3>1. d # 1 => d - 1 \in 1..n
            BY <1>5
        <3> QED
            BY <1>5, <3>1 DEF Before
    <2>4. docs[d].found \subseteq more[n + 1].found
        BY <1>4, <1>5, <2>1, <2>2 DEF DocOK
    <2> QED
        BY <1>5, <2>1, <2>2, <2>3, <2>4 DEF DocOK
<1>9. DocOK(w, more, n + 1)
    <2>1. Before(w, more, n + 1) = cont
        <3>1. CASE n = 0
            BY <1>5, <3>1 DEF Before, cont, Standing
        <3>2. CASE n # 0
            <4>1. n + 1 # 1 /\ (n + 1) - 1 = n /\ n \in 1..n
                BY <1>5, <3>2
            <4> QED
                BY <1>5, <3>2, <4>1 DEF Before, cont, Standing
        <3> QED
            BY <3>1, <3>2
    <2>2. \A f \in Fams : PageIsOf(w.log, f, pages[f])
        BY <1>1, FitsIsOf DEF cont, PagesFit
    <2>3. doc.inv # more[1].inv => "process_incarnation_changed" \in doc.found
        <3>1. CASE n = 0
            BY <1>5, <3>1
        <3>2. CASE n # 0
            <4>1. more[1] = docs[1] /\ docs # <<>>
                BY <1>5, <3>2
            <4> QED
                BY <1>4, <4>1
        <3> QED
            BY <3>1, <3>2
    <2>4. doc.cont = ReplayDelta(w.log, cont, doc.high, doc.pages)
        BY <1>4 DEF cont
    <2>5. \A f \in Fams : doc.high[f] <= Len(w.log[f])
        BY <1>4 DEF HighWithin
    <2> QED
        BY <1>4, <1>5, <2>1, <2>2, <2>3, <2>4, <2>5 DEF DocOK
<1>10. SeenOK(w, next)
    BY <1>2 DEF SeenOK, HighWithin
<1>11. \A d \in 1..Len(more) : DocOK(w, more, d)
    <2> SUFFICES ASSUME NEW d \in 1..(n + 1) PROVE DocOK(w, more, d)
        BY <1>5
    <2>1. d \in 1..n \/ d = n + 1
        BY <1>5
    <2> QED
        BY <1>8, <1>9, <2>1
<1>12. DocsOK(w, more)
    BY <1>2, <1>5, <1>6, <1>7, <1>10, <1>11 DEF DocsOK
<1> QED
    BY <1>3, <1>7, <1>12 DEF more, doc, n, Continues

\* Where an observation stops.
LEMMA TakenIs == ASSUME NEW cut \in Cuts, NEW f PROVE Taken(cut, f) \in Nat
<1>1. PageCap \in Nat
    BY V5BoundsAssumption
<1>2. cut[2] \in Nat
    <2>1. CASE cut = <<3, PageCap, FALSE>>
        BY <1>1, <2>1
    <2>2. CASE cut \in (1..3) \X (0..(PageCap - 1)) \X BOOLEAN
        BY <2>2
    <2> QED
        BY <2>1, <2>2 DEF Cuts
<1> QED
    BY <1>1, <1>2 DEF Taken

LEMMA ObserveKeeps ==
    ASSUME WorldOK(vw), DocsOK(vw, vdocs), ObserverOK(vw, vo, vdocs), vo.pc = "snapped",
           NEW pages \in [Fams -> Seq(PageRows)], PagesFit(vw, vo.cont, pages),
           NEW complete \in BOOLEAN, V5Observe(pages, complete)
    PROVE  /\ DocsOK(vw, vdocs') /\ ObserverOK(vw, vo', vdocs') /\ UNCHANGED <<vw, vtarget, vt>>
           /\ vdocs' # <<>>
<1> DEFINE cont == vo.cont
           high == IF complete THEN vo.snap ELSE cont.seen
           next == ReplayDelta(vw.log, cont, high, pages)
           doc == Published(vw, vo.live, vdocs, pages, complete, high, next)
<1>1. cont = Standing(vw, vdocs) /\ vo \in Observers /\ HighWithin(vw.log, vo.snap)
      /\ vo.live \in Readings
    BY DEF ObserverOK, Observers
<1>2. HighWithin(vw.log, high)
    <2>1. HighWithin(vw.log, cont.seen)
        BY <1>1 DEF DocsOK, SeenOK, Good, Conts, HighWithin
    <2> QED
        BY <1>1, <2>1
<1>3. /\ Cardinality(next.refs) <= ReferenceCap
      /\ vo' = [vo EXCEPT !.pc = "idle", !.cont = next]
      /\ vdocs' = Append(vdocs, doc)
      /\ UNCHANGED <<vw, vtarget, vt>>
    BY DEF V5Observe, Published, LastDoc
<1> HIDE DEF high, next, doc
<1>4. next = ReplayDelta(vw.log, Standing(vw, vdocs), high, pages)
    BY <1>1 DEF next
<1>5. DocsOK(vw, vdocs') /\ Standing(vw, vdocs') = next /\ next \in Conts
    <2>1. PagesFit(vw, Standing(vw, vdocs), pages)
        BY <1>1
    <2>2. Continues(vw, vdocs, Published(vw, vo.live, vdocs, pages, complete, high, next), next)
        BY <1>1, <1>2, <1>3, <1>4, <2>1, PublishingKeepsDocs
    <2> QED
        BY <1>3, <2>2 DEF doc, Continues
<1>6. ObserverOK(vw, vo', vdocs')
    <2>1. vo' \in Observers /\ vo'.cont = next /\ vo'.pc = "idle"
        BY <1>1, <1>3, <1>5 DEF Observers
    <2> QED
        BY <1>5, <2>1 DEF ObserverOK
<1>7. vdocs' # <<>>
    <2>1. vdocs \in Seq(Docs)
        BY DEF DocsOK
    <2> QED
        BY <1>3, <2>1
<1> QED
    BY <1>3, <1>5, <1>6, <1>7

LEMMA FiniteRefs ==
    ASSUME NEW w, NEW cont, NEW entries, Good(w, cont, entries)
    PROVE  cont \in Conts /\ IsFiniteSet(cont.refs)
BY DEF Good, RefsOK

LEMMA SelectedAre ==
    ASSUME NEW log, NEW hw, NEW pages, NEW cont
    PROVE  CausalPrefixes(log, hw, pages, cont)
              = [f \in Fams |-> CausalPrefixes(log, hw, pages, cont)[f]]
<1> DEFINE sum(p) == p["oper"] + p["chunk"] + p["arch"]
           among(fams) == Walk(log, hw, pages, cont, fams)
           both == among(Fams)
           apart == {among({"oper"}), among({"chunk", "arch"})}
           positions == IF sum(both) > 0 THEN both
                        ELSE CHOOSE p \in apart : \A q \in apart : sum(q) <= sum(p)
           selected(f) == LET k == positions[f] IN
            SubSeq(pages[f], 1, IF k < Len(pages[f])
                                  /\ pages[f][k + 1].status # "acknowledged"
                                THEN k + 1 ELSE k)
           all == CausalPrefixes(log, hw, pages, cont)
<1>1. all = [f \in Fams |-> selected(f)]
    BY DEF CausalPrefixes
<1> HIDE DEF all, selected
<1>2. all = [f \in Fams |-> all[f]]
    BY <1>1
<1> QED
    BY <1>2 DEF all

\* The pages that the worker read, cut to those it may acknowledge together.
LEMMA SelectedFit ==
    ASSUME NEW w, WorldRead(w), NEW cont \in Conts, IsFiniteSet(cont.refs),
           NEW hw, HighWithin(w.log, hw), NEW cut \in Cuts, NEW read,
           read = [f \in Fams |-> PageOf(w, hw, cont, f, Taken(cut, f))]
    PROVE  /\ CausalPrefixes(w.log, hw, read, cont) \in [Fams -> Seq(PageRows)]
           /\ PagesFit(w, cont, CausalPrefixes(w.log, hw, read, cont))
<1> DEFINE pages == CausalPrefixes(w.log, hw, read, cont)
<1>1. hw \in [Fams -> Nat]
    BY DEF HighWithin
<1>2. ASSUME NEW f \in Fams PROVE PageFits(w, cont, f, read[f])
    <2>1. Taken(cut, f) \in Nat
        BY TakenIs
    <2>2. hw[f] <= Len(w.log[f])
        BY DEF HighWithin
    <2>3. PageFits(w, cont, f, PageOf(w, hw, cont, f, Taken(cut, f)))
        BY <1>1, <2>1, <2>2, PageOfFits
    <2> QED
        BY <2>3
<1>3. \A f \in Fams : PageFits(w, cont, f, pages[f])
    BY <1>1, <1>2, CausalPrefixesFit
<1>4. pages = [f \in Fams |-> pages[f]]
    BY SelectedAre
<1> HIDE DEF pages
<1>5. \A f \in Fams : pages[f] \in Seq(PageRows)
    BY <1>3 DEF PageFits
<1>6. pages \in [Fams -> Seq(PageRows)]
    BY <1>4, <1>5
<1> QED
    BY <1>3, <1>6 DEF PagesFit, pages

LEMMA NothingFits ==
    ASSUME NEW w, NEW cont
    PROVE  /\ [f \in Fams |-> <<>>] \in [Fams -> Seq(PageRows)]
           /\ PagesFit(w, cont, [f \in Fams |-> <<>>])
<1>1. <<>> \in Seq(PageRows) /\ Len(<<>>) = 0
    OBVIOUS
<1>2. ASSUME NEW f \in Fams PROVE PageFits(w, cont, f, <<>>)
    BY <1>1 DEF PageFits
<1> QED
    BY <1>1, <1>2 DEF PagesFit

LEMMA FailingKeeps ==
    ASSUME NEW w, NEW o, NEW docs, ObserverOK(w, o, docs), NEW next, NEW end \in {"failed", "dead"},
           next = [o EXCEPT !.pc = end]
    PROVE  ObserverOK(w, next, docs)
<1>1. o \in Observers
    BY DEF ObserverOK
<1>2. next \in Observers /\ next.pc = end
    BY <1>1 DEF Observers
<1> QED
    BY <1>2 DEF ObserverOK

LEMMA ObservesKeeps ==
    ASSUME WorldOK(vw), DocsOK(vw, vdocs), ObserverOK(vw, vo, vdocs), V5Observes
    PROVE  /\ DocsOK(vw, vdocs') /\ ObserverOK(vw, vo', vdocs') /\ UNCHANGED <<vw, vtarget, vt>>
<1>1. vo.cont = Standing(vw, vdocs) /\ HighWithin(vw.log, vo.snap) /\ vo.pc = "snapped"
    BY DEF V5Observes, ObserverOK
<1>2. WorldRead(vw) /\ vo.cont \in Conts /\ IsFiniteSet(vo.cont.refs)
    BY <1>1, FiniteRefs DEF WorldOK, DocsOK
<1>3. CASE V5Observe([f \in Fams |-> <<>>], FALSE)
    BY <1>1, <1>3, NothingFits, ObserveKeeps
<1>4. CASE \E read \in {ReadPages(cut) : cut \in Cuts} :
            IF Fails(read)
            THEN vo' = [vo EXCEPT !.pc = "failed"] /\ UNCHANGED <<vw, vdocs, vtarget, vt>>
            ELSE V5Observe(CausalPrefixes(vw.log, vo.snap, read, vo.cont), TRUE)
    <2>1. PICK cut \in Cuts : LET read == ReadPages(cut) IN
            IF Fails(read)
            THEN vo' = [vo EXCEPT !.pc = "failed"] /\ UNCHANGED <<vw, vdocs, vtarget, vt>>
            ELSE V5Observe(CausalPrefixes(vw.log, vo.snap, read, vo.cont), TRUE)
        BY <1>4
    <2> DEFINE read == ReadPages(cut)
               pages == CausalPrefixes(vw.log, vo.snap, read, vo.cont)
    <2>2. read = [f \in Fams |-> PageOf(vw, vo.snap, vo.cont, f, Taken(cut, f))]
        BY DEF ReadPages
    <2>3. CASE Fails(read)
        <3>1. vo' = [vo EXCEPT !.pc = "failed"] /\ UNCHANGED <<vw, vdocs, vtarget, vt>>
            BY <2>1, <2>3
        <3>2. ObserverOK(vw, vo', vdocs)
            BY <3>1, FailingKeeps
        <3> QED
            BY <3>1, <3>2
    <2>4. CASE ~Fails(read)
        <3>1. V5Observe(pages, TRUE)
            BY <2>1, <2>4
        <3> HIDE DEF read
        <3>2. pages \in [Fams -> Seq(PageRows)] /\ PagesFit(vw, vo.cont, pages)
            BY <1>1, <1>2, <2>2, SelectedFit
        <3> HIDE DEF pages
        <3> QED
            BY <1>1, <3>1, <3>2, ObserveKeeps
    <2> QED
        BY <2>3, <2>4
<1> QED
    BY <1>3, <1>4 DEF V5Observes

LEMMA BeginsKeeps ==
    ASSUME WorldOK(vw), DocsOK(vw, vdocs), ObserverOK(vw, vo, vdocs), V5Begins
    PROVE  ObserverOK(vw, vo', vdocs)
<1>1. CASE vo' = [vo EXCEPT !.pc = "failed"]
    BY <1>1, FailingKeeps
<1>2. CASE vo' = [vo EXCEPT !.pc = "begun", !.live = [inv |-> vw.inv, t |-> vw.t]]
    <2>1. vo \in Observers /\ vo.cont = Standing(vw, vdocs)
        BY DEF ObserverOK, V5Begins
    <2>2. [inv |-> vw.inv, t |-> vw.t] \in Readings
        BY DEF WorldOK, Worlds, Readings
    <2>3. vo' \in Observers /\ vo'.pc = "begun" /\ vo'.cont = vo.cont
        BY <1>2, <2>1, <2>2 DEF Observers
    <2> QED
        BY <2>1, <2>3 DEF ObserverOK
<1> QED
    BY <1>1, <1>2 DEF V5Begins

LEMMA SnapshotKeeps ==
    ASSUME WorldOK(vw), DocsOK(vw, vdocs), ObserverOK(vw, vo, vdocs), V5Snapshot
    PROVE  ObserverOK(vw, vo', vdocs)
<1>1. /\ vo.pc = "begun" /\ vo' = [vo EXCEPT !.pc = "snapped", !.snap = HighWater(vw.log)]
    BY DEF V5Snapshot, SnapshotOf
<1>2. HighWithin(vw.log, HighWater(vw.log))
    BY HighWaterIs DEF HighWithin, WorldOK, WorldRead
<1>3. vo \in Observers /\ vo.cont = Standing(vw, vdocs)
    BY <1>1 DEF ObserverOK
<1>4. vo' \in Observers /\ vo'.pc = "snapped" /\ vo'.snap = HighWater(vw.log) /\ vo'.cont = vo.cont
    BY <1>1, <1>2, <1>3 DEF Observers, HighWithin
<1> QED
    BY <1>2, <1>3, <1>4 DEF ObserverOK

-----------------------------------------------------------------------------
(* Resuming: the continuation computed again is the published one. *)

IsOnline(g, n) ==
    g = [d \in 0..n |->
            IF d = 0 THEN EmptyContinuation(BasePrefix)
            ELSE ReplayDelta(vw.log, g[d - 1], vdocs[d].high, vdocs[d].pages)]

\* The published continuations are such a replay.
LEMMA PublishedIsOnline ==
    ASSUME WorldOK(vw), DocsOK(vw, vdocs), NEW g,
           g = [d \in 0..Len(vdocs) |-> IF d = 0 THEN StartOf(vw) ELSE vdocs[d].cont]
    PROVE  IsOnline(g, Len(vdocs)) /\ g[Len(vdocs)] = Standing(vw, vdocs)
<1> DEFINE n == Len(vdocs)
<1>1. n \in Nat /\ (vdocs = <<>> <=> n = 0)
    BY DEF DocsOK
<1>2. EmptyContinuation(BasePrefix) = StartOf(vw)
    BY DEF StartOf, PrefixOf, BasePrefix
<1>3. g[n] = Standing(vw, vdocs)
    BY <1>1 DEF Standing
<1>4. ASSUME NEW d \in 0..n
      PROVE  g[d] = IF d = 0 THEN EmptyContinuation(BasePrefix)
                    ELSE ReplayDelta(vw.log, g[d - 1], vdocs[d].high, vdocs[d].pages)
    <2>1. CASE d = 0
        BY <1>2, <2>1
    <2>2. CASE d # 0
        <3>1. d \in 1..n /\ d - 1 \in 0..n
            BY <2>2, <1>1
        <3>2. vdocs[d].cont = ReplayDelta(vw.log, Before(vw, vdocs, d), vdocs[d].high, vdocs[d].pages)
            BY <3>1 DEF DocsOK, DocOK
        <3>3. Before(vw, vdocs, d) = g[d - 1]
            <4>1. d = 1 <=> d - 1 = 0
                BY <3>1
            <4> QED
                BY <3>1, <4>1 DEF Before
        <3>4. g[d] = vdocs[d].cont
            BY <2>2
        <3> QED
            BY <2>2, <3>2, <3>3, <3>4
    <2> QED
        BY <2>1, <2>2
<1>5. IsOnline(g, n)
    <2> DEFINE R(d) == IF d = 0 THEN EmptyContinuation(BasePrefix)
                       ELSE ReplayDelta(vw.log, g[d - 1], vdocs[d].high, vdocs[d].pages)
    <2>1. \A d \in 0..n : g[d] = R(d)
        BY <1>4
    <2>2. DOMAIN g = 0..n /\ g = [d \in DOMAIN g |-> g[d]]
        OBVIOUS
    <2> HIDE DEF R
    <2>3. g = [d \in 0..n |-> R(d)]
        BY <2>1, <2>2
    <2> QED
        BY <2>3 DEF R, IsOnline
<1> QED
    BY <1>3, <1>5

LEMMA OnlineStep ==
    ASSUME NEW n \in Nat, NEW g, IsOnline(g, n), NEW d \in 0..n
    PROVE  g[d] = IF d = 0 THEN EmptyContinuation(BasePrefix)
                  ELSE ReplayDelta(vw.log, g[d - 1], vdocs[d].high, vdocs[d].pages)
<1> DEFINE R(i) == IF i = 0 THEN EmptyContinuation(BasePrefix)
                   ELSE ReplayDelta(vw.log, g[i - 1], vdocs[i].high, vdocs[i].pages)
<1>1. g = [i \in 0..n |-> R(i)]
    BY DEF IsOnline
<1> HIDE DEF R
<1>2. g[d] = R(d)
    BY <1>1
<1> QED
    BY <1>2 DEF R

LEMMA OnlineIsOne ==
    ASSUME NEW n \in Nat, NEW g, NEW h, IsOnline(g, n), IsOnline(h, n)
    PROVE  g[n] = h[n]
<1> DEFINE S == {i \in 0..n : g[i] = h[i]}
<1>1. 0 \in S
    BY OnlineStep
<1>2. \A i \in 1..n : i - 1 \in S => i \in S
    <2> SUFFICES ASSUME NEW i \in 1..n, i - 1 \in S PROVE i \in S
        OBVIOUS
    <2>1. g[i - 1] = h[i - 1] /\ i \in 0..n /\ i # 0
        OBVIOUS
    <2>2. g[i] = ReplayDelta(vw.log, g[i - 1], vdocs[i].high, vdocs[i].pages)
        BY <2>1, OnlineStep
    <2>3. h[i] = ReplayDelta(vw.log, h[i - 1], vdocs[i].high, vdocs[i].pages)
        BY <2>1, OnlineStep
    <2> QED
        BY <2>1, <2>2, <2>3
<1> HIDE DEF S
<1>3. \A i \in 0..n : i \in S
    BY <1>1, <1>2, CountingUp
<1>4. n \in S
    BY <1>3
<1> QED
    BY <1>4 DEF S

LEMMA OnlineIsStanding ==
    ASSUME WorldOK(vw), DocsOK(vw, vdocs)
    PROVE  ReplayOnline = Standing(vw, vdocs)
<1> DEFINE n == Len(vdocs)
           g == [d \in 0..n |-> IF d = 0 THEN StartOf(vw) ELSE vdocs[d].cont]
           h == CHOOSE f : IsOnline(f, n)
<1>1. n \in Nat
    BY DEF DocsOK
<1>2. IsOnline(g, n) /\ g[n] = Standing(vw, vdocs)
    BY PublishedIsOnline
<1>3. ReplayOnline = h[n]
    BY DEF ReplayOnline, IsOnline
<1> HIDE DEF g
<1>4. IsOnline(h, n)
    BY <1>2
<1> HIDE DEF h, n
<1>5. g[n] = h[n]
    BY <1>1, <1>2, <1>4, OnlineIsOne
<1> QED
    BY <1>2, <1>3, <1>5

LEMMA ResumeKeeps ==
    ASSUME WorldOK(vw), DocsOK(vw, vdocs), ObserverOK(vw, vo, vdocs), V5Resume
    PROVE  ObserverOK(vw, vo', vdocs)
<1>1. vo' = [vo EXCEPT !.pc = "idle", !.cont = ReplayOnline]
    BY DEF V5Resume
<1>2. ReplayOnline = Standing(vw, vdocs)
    BY OnlineIsStanding
<1>3. vo \in Observers /\ Standing(vw, vdocs) \in Conts
    BY DEF ObserverOK, DocsOK, Good
<1>4. vo' \in Observers /\ vo'.pc = "idle" /\ vo'.cont = Standing(vw, vdocs)
    BY <1>1, <1>2, <1>3 DEF Observers
<1> QED
    BY <1>4 DEF ObserverOK

\* A move of the world leaves the observer where it stands.
LEMMA ObserverStays ==
    ASSUME NEW w, NEW v, WorldOK(w), WorldOK(v), Moves(w, v), NEW docs, DocsOK(w, docs),
           NEW o, ObserverOK(w, o, docs)
    PROVE  ObserverOK(v, o, docs)
<1>1. Standing(v, docs) = Standing(w, docs)
    BY DocsStay
<1>2. ASSUME HighWithin(w.log, o.snap) PROVE HighWithin(v.log, o.snap)
    <2>1. w.log \in Ledgers /\ v.log \in Ledgers /\ LogGrows(w.log, v.log)
        BY DEF WorldOK, WorldRead, Moves
    <2>2. \A f \in Fams : Len(w.log[f]) \in Nat /\ Len(v.log[f]) \in Nat
                          /\ Len(w.log[f]) <= Len(v.log[f])
        BY <2>1, LedgersAre DEF LogGrows
    <2> QED
        BY <1>2, <2>2 DEF HighWithin
<1> QED
    BY <1>1, <1>2 DEF ObserverOK

-----------------------------------------------------------------------------
(* The terminal corpus and audit. *)

Proofs == Chunks \X {"ok", "error", "pending"}
Audits == [pc : {"idle", "backup", "manifests", "reprobe", "rebackup", "ready", "audit", "verify",
                 "aborted"},
           cert : Nat, high : {<<>>} \cup [Fams -> Nat], mans : SUBSET Chunks, corpus : BOOLEAN,
           shards : Seq(Proofs), memory : Seq(Proofs), verified : SUBSET Nat,
           hurt : SUBSET Copies, root : {"none", "PASS_CANDIDATE", "FAIL"},
           final : {"none", "eligible", "not"}, kills : Nat]

Frozen == {"manifests", "reprobe", "rebackup", "ready", "audit", "verify"}

\* What a chunk that was read again without complaint was not.
Sound(w, t, c) ==
    /\ <<c, "archive">> \in t.hurt => ChunkState(w.log, t.high, c) \notin {Life[i] : i \in 6..8}
    /\ <<c, "local">> \in t.hurt => c \notin w.local

VerifiedOK(w, t, i) ==
    t.shards[i][1] \in t.mans /\ t.shards[i][2] = "ok" => Sound(w, t, t.shards[i][1])

Named(t) == \A c \in t.mans : \E i \in 1..Len(t.shards) : t.shards[i][1] = c

VerifyOK(w, t) ==
    /\ t.hurt \subseteq w.bad
    /\ \E k \in 0..Len(t.shards) : t.verified = 1..k
    /\ Named(t)
    /\ \A i \in t.verified : VerifiedOK(w, t, i)

RootOK(w, t) ==
    /\ \A c \in t.mans : Sound(w, t, c) /\ (w.edge[c] = "silent" => c \in w.old)
    /\ t.mans = {c \in Chunks : ChunkState(w.log, t.high, c) # "none"}

AuditOK(w, t) ==
    /\ t \in Audits
    /\ t.mans \subseteq w.man
    /\ t.pc \in Frozen => HighWithin(w.log, t.high)
    /\ t.root # "none" => t.pc = "ready"
    /\ t.pc = "verify" => VerifyOK(w, t)
    /\ t.root = "PASS_CANDIDATE" => RootOK(w, t)

LEMMA FrozenStateStays ==
    ASSUME NEW w, NEW v, WorldOK(w), WorldOK(v), Moves(w, v), NEW high, HighWithin(w.log, high), NEW c
    PROVE  ChunkState(v.log, high, c) = ChunkState(w.log, high, c)
<1>1. w.log \in Ledgers /\ v.log \in Ledgers /\ LogGrows(w.log, v.log)
    BY DEF WorldOK, WorldRead, Moves
<1>2. high["chunk"] \in Nat /\ high["chunk"] <= Len(w.log["chunk"])
    BY DEF HighWithin, Fams
<1> QED
    BY <1>1, <1>2, ChunkStateGrows

LEMMA SoundStays ==
    ASSUME NEW w, NEW v, WorldOK(w), WorldOK(v), Moves(w, v), NEW t, HighWithin(w.log, t.high),
           NEW c \in w.man, Sound(w, t, c)
    PROVE  Sound(v, t, c)
<1>1. ChunkState(v.log, t.high, c) = ChunkState(w.log, t.high, c)
    BY FrozenStateStays
<1>2. c \in v.local => c \in w.local
    BY DEF Moves
<1> QED
    BY <1>1, <1>2 DEF Sound

LEMMA HighStays ==
    ASSUME NEW w, NEW v, WorldOK(w), WorldOK(v), Moves(w, v), NEW high, HighWithin(w.log, high)
    PROVE  HighWithin(v.log, high)
<1>1. w.log \in Ledgers /\ v.log \in Ledgers /\ LogGrows(w.log, v.log)
    BY DEF WorldOK, WorldRead, Moves
<1>2. \A f \in Fams : Len(w.log[f]) \in Nat /\ Len(v.log[f]) \in Nat
                      /\ Len(w.log[f]) <= Len(v.log[f])
    BY <1>1, LedgersAre DEF LogGrows
<1> QED
    BY <1>2 DEF HighWithin

\* Nothing that the world does takes a verified proof or a root back.
LEMMA AuditStays ==
    ASSUME NEW w, NEW v, WorldOK(w), WorldOK(v), Moves(w, v), NEW t, AuditOK(w, t)
    PROVE  AuditOK(v, t)
<1>1. t.mans \subseteq w.man /\ w.man \subseteq v.man /\ w.bad \subseteq v.bad /\ t.mans \subseteq Chunks
    BY DEF AuditOK, Moves, Audits
<1>2. t.pc \in Frozen => HighWithin(v.log, t.high)
    BY HighStays DEF AuditOK
<1>3. ASSUME t.pc = "verify" PROVE VerifyOK(v, t)
    <2>1. VerifyOK(w, t) /\ HighWithin(w.log, t.high)
        BY <1>3 DEF AuditOK, Frozen
    <2>2. ASSUME NEW i \in t.verified PROVE VerifiedOK(v, t, i)
        <3>1. VerifiedOK(w, t, i)
            BY <2>1 DEF VerifyOK
        <3>2. ASSUME t.shards[i][1] \in t.mans, t.shards[i][2] = "ok"
              PROVE  Sound(v, t, t.shards[i][1])
            <4>1. Sound(w, t, t.shards[i][1]) /\ t.shards[i][1] \in w.man
                BY <1>1, <3>1, <3>2 DEF VerifiedOK
            <4> QED
                BY <2>1, <4>1, SoundStays
        <3> QED
            BY <3>2 DEF VerifiedOK
    <2> QED
        BY <1>1, <2>1, <2>2 DEF VerifyOK
<1>4. ASSUME t.root = "PASS_CANDIDATE" PROVE RootOK(v, t)
    <2>1. RootOK(w, t) /\ HighWithin(w.log, t.high)
        BY <1>4 DEF AuditOK, Frozen
    <2>2. ASSUME NEW c \in t.mans PROVE Sound(v, t, c) /\ (v.edge[c] = "silent" => c \in v.old)
        <3>1. c \in w.man /\ c \in Chunks /\ Sound(w, t, c) /\ (w.edge[c] = "silent" => c \in w.old)
            BY <1>1, <2>1 DEF RootOK
        <3>2. Sound(v, t, c)
            BY <2>1, <3>1, SoundStays
        <3>3. StateOf(w, c) # "none"
            BY <3>1, LifeSets DEF WorldOK, ManSealed
        <3>4. WrittenRow(w, c)
            BY <3>1, <3>3, WrittenIs
        <3>5. v.edge[c] = w.edge[c] /\ (c \in v.old <=> c \in w.old)
            BY <3>1, <3>4 DEF Moves
        <3> QED
            BY <3>1, <3>2, <3>5
    <2>3. \A c \in Chunks : ChunkState(v.log, t.high, c) = ChunkState(w.log, t.high, c)
        BY <2>1, FrozenStateStays
    <2> QED
        BY <2>1, <2>2, <2>3 DEF RootOK
<1> QED
    BY <1>1, <1>2, <1>3, <1>4 DEF AuditOK

LEMMA QualifyIs ==
    ASSUME NEW w, NEW state, NEW c
    PROVE  /\ QualifyUnit(w, state, c) \in {"ok", "error", "pending"}
           /\ QualifyUnit(w, state, c) = "ok" =>
                 /\ <<c, "local">> \in w.bad => c \notin w.local
                 /\ <<c, "archive">> \in w.bad => state \notin {Life[i] : i \in 6..8}
<1> DEFINE archived == state \in {Life[i] : i \in 6..8}
           broken == (c \in w.local /\ <<c, "local">> \in w.bad)
                        \/ (archived /\ <<c, "archive">> \in w.bad)
           gone == c \in w.local \/ state \in {"LOCAL_DELETE_PENDING", "LOCAL_DELETED"}
<1>1. QualifyUnit(w, state, c) = IF broken THEN "error" ELSE IF gone THEN "ok" ELSE "pending"
    BY DEF QualifyUnit
<1> HIDE DEF gone
<1> QED
    BY <1>1

\* Before there is a root only the corpus and what is frozen of it matter.
LEMMA BeforeRoot ==
    ASSUME NEW w, NEW u \in Audits, u.root = "none", u.mans \subseteq w.man, u.pc # "verify",
           u.pc \in Frozen => HighWithin(w.log, u.high)
    PROVE  AuditOK(w, u)
BY DEF AuditOK

LEMMA FreezingKeeps ==
    ASSUME WorldOK(vw), AuditOK(vw, vt),
           FreezeProbe \/ FreezeCatalog \/ FreezeManifests \/ FreezeReprobe \/ FreezePublish
    PROVE  AuditOK(vw, vt') /\ vt'.root = "none" /\ vt.root = "none" /\ vt'.final = vt.final
<1>1. /\ vt \in Audits /\ vt.mans \subseteq vw.man /\ (vt.pc # "ready" => vt.root = "none")
      /\ (vt.pc \in Frozen => HighWithin(vw.log, vt.high))
    BY DEF AuditOK
<1>2. vw.inv \in Nat /\ vw.man \subseteq Chunks
    BY DEF WorldOK, Worlds
<1>3. HighWithin(vw.log, HighWater(vw.log)) /\ HighWater(vw.log) \in [Fams -> Nat]
    BY HighWaterIs DEF HighWithin, WorldOK, WorldRead
<1>4. CASE FreezeProbe
    <2>1. vt' = [vt EXCEPT !.pc = "backup", !.cert = vw.inv] /\ vt.pc = "idle"
        BY <1>4 DEF FreezeProbe
    <2>2. /\ vt' \in Audits /\ vt'.pc = "backup" /\ vt'.root = "none" /\ vt'.mans = vt.mans
          /\ vt.root = "none" /\ vt'.final = vt.final
        BY <1>1, <1>2, <2>1 DEF Audits
    <2> QED
        BY <1>1, <2>2, BeforeRoot DEF Frozen
<1>5. CASE FreezeCatalog
    <2>1. vt' = [vt EXCEPT !.pc = "manifests", !.high = HighWater(vw.log)] /\ vt.pc = "backup"
        BY <1>5 DEF FreezeCatalog
    <2>2. /\ vt' \in Audits /\ vt'.pc = "manifests" /\ vt'.root = "none" /\ vt'.mans = vt.mans
          /\ vt'.high = HighWater(vw.log) /\ vt.root = "none" /\ vt'.final = vt.final
        BY <1>1, <1>3, <2>1 DEF Audits
    <2> QED
        BY <1>1, <1>3, <2>2, BeforeRoot
<1>6. CASE FreezeManifests
    <2>1. vt' = [vt EXCEPT !.pc = "reprobe", !.mans = vw.man] /\ vt.pc = "manifests"
        BY <1>6 DEF FreezeManifests
    <2>2. /\ vt' \in Audits /\ vt'.pc = "reprobe" /\ vt'.root = "none" /\ vt'.mans = vw.man
          /\ vt'.high = vt.high /\ vt.root = "none" /\ vt'.final = vt.final
        BY <1>1, <1>2, <2>1 DEF Audits
    <2>3. HighWithin(vw.log, vt'.high)
        BY <1>1, <2>1, <2>2 DEF Frozen
    <2> QED
        BY <2>2, <2>3, BeforeRoot
<1>7. CASE FreezeReprobe
    <2>1. vt.pc = "reprobe" /\ (vt' = [vt EXCEPT !.pc = "rebackup"] \/ vt' = [vt EXCEPT !.pc = "aborted"])
        BY <1>7 DEF FreezeReprobe, Aborted
    <2>2. /\ vt' \in Audits /\ vt'.pc \in {"rebackup", "aborted"} /\ vt'.root = "none"
          /\ vt'.mans = vt.mans /\ vt'.high = vt.high /\ vt.root = "none" /\ vt'.final = vt.final
        <3>1. CASE vt' = [vt EXCEPT !.pc = "rebackup"]
            BY <1>1, <2>1, <3>1 DEF Audits
        <3>2. CASE vt' = [vt EXCEPT !.pc = "aborted"]
            BY <1>1, <2>1, <3>2 DEF Audits
        <3> QED
            BY <2>1, <3>1, <3>2
    <2>3. HighWithin(vw.log, vt'.high)
        BY <1>1, <2>1, <2>2 DEF Frozen
    <2> QED
        BY <1>1, <2>2, <2>3, BeforeRoot
<1>8. CASE FreezePublish
    <2>1. vt.pc = "rebackup" /\ (vt' = [vt EXCEPT !.pc = "ready", !.corpus = TRUE]
                                   \/ vt' = [vt EXCEPT !.pc = "aborted"])
        BY <1>8 DEF FreezePublish, Aborted
    <2>2. /\ vt' \in Audits /\ vt'.pc \in {"ready", "aborted"} /\ vt'.root = "none"
          /\ vt'.mans = vt.mans /\ vt'.high = vt.high /\ vt.root = "none" /\ vt'.final = vt.final
        <3>1. CASE vt' = [vt EXCEPT !.pc = "ready", !.corpus = TRUE]
            BY <1>1, <2>1, <3>1 DEF Audits
        <3>2. CASE vt' = [vt EXCEPT !.pc = "aborted"]
            BY <1>1, <2>1, <3>2 DEF Audits
        <3> QED
            BY <2>1, <3>1, <3>2
    <2>3. HighWithin(vw.log, vt'.high)
        BY <1>1, <2>1, <2>2 DEF Frozen
    <2> QED
        BY <1>1, <2>2, <2>3, BeforeRoot
<1> QED
    BY <1>4, <1>5, <1>6, <1>7, <1>8

LEMMA ProofIs ==
    ASSUME NEW w, NEW t, NEW c \in Chunks
    PROVE  /\ Proof(w, t, c) \in Proofs /\ Proof(w, t, c)[1] = c
           /\ Proof(w, t, c)[2] = QualifyUnit(w, ChunkState(w.log, t.high, c), c)
BY QualifyIs DEF Proof, Proofs

LEMMA RemainingIs ==
    ASSUME NEW t \in Audits
    PROVE  /\ Remaining(t) \subseteq t.mans /\ Remaining(t) \subseteq Chunks
           /\ \A c \in t.mans : c \notin Remaining(t) =>
                 \E i \in 1..Len(t.memory) : t.memory[i][1] = c
           /\ Remaining(t) # {} => Min(Remaining(t)) \in Remaining(t)
<1>1. t.mans \subseteq Chunks /\ t.memory \in Seq(Proofs)
    BY DEF Audits
<1>2. Remaining(t) = t.mans \ {p[1] : p \in {t.memory[i] : i \in 1..Len(t.memory)}}
    BY <1>1 DEF Remaining, Range
<1>3. Remaining(t) \subseteq Nat
    BY <1>1, <1>2 DEF Chunks
<1>4. Remaining(t) # {} => Min(Remaining(t)) \in Remaining(t)
    BY <1>3, MinOfNumbers
<1> QED
    BY <1>1, <1>2, <1>4

\* The audit reads what it has no proof of.
LEMMA AuditingKeeps ==
    ASSUME WorldOK(vw), AuditOK(vw, vt), AuditBegins \/ AuditUnit \/ AuditorDies
    PROVE  AuditOK(vw, vt') /\ vt'.root = vt.root /\ vt'.final = vt.final
<1>1. /\ vt \in Audits /\ vt.mans \subseteq vw.man /\ (vt.pc # "ready" => vt.root = "none")
      /\ (vt.pc \in Frozen => HighWithin(vw.log, vt.high))
    BY DEF AuditOK
<1>2. CASE AuditBegins
    <2>1. CASE vt' = vt
        BY <2>1
    <2>2. CASE vt' # vt
        <3>1. /\ vt.pc = "ready" /\ vt.root = "none"
              /\ vt' = [vt EXCEPT !.pc = "audit", !.memory = vt.shards]
            BY <1>2, <2>2 DEF AuditBegins
        <3>2. /\ vt' \in Audits /\ vt'.pc = "audit" /\ vt'.root = "none" /\ vt'.mans = vt.mans
              /\ vt'.high = vt.high /\ vt'.final = vt.final
            BY <1>1, <3>1 DEF Audits
        <3>3. HighWithin(vw.log, vt'.high)
            BY <1>1, <3>1, <3>2 DEF Frozen
        <3> QED
            BY <1>1, <3>1, <3>2, <3>3, BeforeRoot
    <2> QED
        BY <2>1, <2>2
<1>3. CASE AuditUnit
    <2> DEFINE item == Proof(vw, vt, Min(Remaining(vt)))
    <2>1. PICK publish \in BOOLEAN :
             vt' = [vt EXCEPT !.memory = Append(@, item),
                              !.shards = IF publish THEN Append(vt.memory, item) ELSE @]
        BY <1>3 DEF AuditUnit
    <2>2. vt.pc = "audit" /\ Remaining(vt) # {}
        BY <1>3 DEF AuditUnit
    <2>3. item \in Proofs
        BY <1>1, <2>2, RemainingIs, ProofIs
    <2> HIDE DEF item
    <2>4. Append(vt.memory, item) \in Seq(Proofs)
        BY <1>1, <2>3 DEF Audits
    <2>5. /\ vt' \in Audits /\ vt'.pc = "audit" /\ vt'.root = vt.root /\ vt'.mans = vt.mans
          /\ vt'.high = vt.high /\ vt'.final = vt.final
        BY <1>1, <2>1, <2>2, <2>4 DEF Audits
    <2>6. HighWithin(vw.log, vt'.high) /\ vt'.root = "none"
        BY <1>1, <2>2, <2>5 DEF Frozen
    <2> QED
        BY <1>1, <2>5, <2>6, BeforeRoot
<1>4. CASE AuditorDies
    <2>1. /\ vt.pc \in {"audit", "verify"}
          /\ vt' = [vt EXCEPT !.pc = "ready", !.memory = <<>>, !.kills = @ + 1]
        BY <1>4 DEF AuditorDies
    <2> DEFINE none == <<>>
               kills == vt.kills + 1
    <2>4. none \in Seq(Proofs) /\ kills \in Nat
        BY <1>1 DEF Audits
    <2>5. vt' = [vt EXCEPT !.pc = "ready", !.memory = none, !.kills = kills]
        BY <2>1
    <2> HIDE DEF none, kills
    <2>2. /\ vt' \in Audits /\ vt'.pc = "ready" /\ vt'.root = vt.root /\ vt'.mans = vt.mans
          /\ vt'.high = vt.high /\ vt'.final = vt.final
        BY <1>1, <2>4, <2>5 DEF Audits
    <2>3. HighWithin(vw.log, vt'.high) /\ vt'.root = "none"
        BY <1>1, <2>1, <2>2 DEF Frozen
    <2> QED
        BY <1>1, <2>2, <2>3, BeforeRoot
<1> QED
    BY <1>2, <1>3, <1>4

\* The final reading starts from nothing.
LEMMA VerifyBeginsKeeps ==
    ASSUME WorldOK(vw), AuditOK(vw, vt), VerifyBegins
    PROVE  AuditOK(vw, vt') /\ vt'.root = vt.root /\ vt'.final = vt.final
<1>1. /\ vt \in Audits /\ vt.mans \subseteq vw.man /\ vt.pc = "audit" /\ vt.root = "none"
      /\ HighWithin(vw.log, vt.high) /\ Remaining(vt) = {}
    BY DEF AuditOK, VerifyBegins, Frozen
<1>2. CASE vt' = [vt EXCEPT !.pc = "ready"]
    <2>1. /\ vt' \in Audits /\ vt'.pc = "ready" /\ vt'.root = vt.root /\ vt'.mans = vt.mans
          /\ vt'.high = vt.high /\ vt'.final = vt.final
        BY <1>1, <1>2 DEF Audits
    <2> QED
        BY <1>1, <2>1, BeforeRoot
<1>3. CASE vt' = [vt EXCEPT !.pc = "verify", !.shards = vt.memory, !.verified = {}, !.hurt = vw.bad]
    <2>1. vw.bad \in SUBSET Copies
        BY DEF WorldOK, Worlds
    <2>2. /\ vt' \in Audits /\ vt'.pc = "verify" /\ vt'.root = vt.root /\ vt'.mans = vt.mans
          /\ vt'.high = vt.high /\ vt'.final = vt.final /\ vt'.shards = vt.memory
          /\ vt'.verified = {} /\ vt'.hurt = vw.bad
        BY <1>1, <1>3, <2>1 DEF Audits
    <2>3. Named(vt')
        BY <1>1, <2>2, RemainingIs DEF Named
    <2>4. 0 \in 0..Len(vt'.shards) /\ vt'.verified = 1..0
        <3>1. vt'.shards \in Seq(Proofs)
            BY <2>2 DEF Audits
        <3>2. Len(vt'.shards) \in Nat
            BY <3>1
        <3> QED
            BY <2>2, <3>2
    <2>5. VerifyOK(vw, vt')
        BY <2>2, <2>3, <2>4 DEF VerifyOK
    <2> QED
        BY <1>1, <2>2, <2>5 DEF AuditOK
<1> QED
    BY <1>2, <1>3 DEF VerifyBegins

LEMMA VerifyUnitKeeps ==
    ASSUME WorldOK(vw), AuditOK(vw, vt), VerifyUnit
    PROVE  AuditOK(vw, vt') /\ vt'.root = vt.root /\ vt'.final = vt.final
<1>1. /\ vt \in Audits /\ vt.mans \subseteq vw.man /\ vt.pc = "verify" /\ vt.root = "none"
      /\ HighWithin(vw.log, vt.high) /\ VerifyOK(vw, vt)
    BY DEF AuditOK, VerifyUnit, Frozen
<1> DEFINE i == Cardinality(vt.verified) + 1
<1>2. CASE vt' = [vt EXCEPT !.pc = "ready"]
    <2>1. /\ vt' \in Audits /\ vt'.pc = "ready" /\ vt'.root = vt.root /\ vt'.mans = vt.mans
          /\ vt'.high = vt.high /\ vt'.final = vt.final
        BY <1>1, <1>2 DEF Audits
    <2> QED
        BY <1>1, <2>1, BeforeRoot
<1>3. CASE vt' # [vt EXCEPT !.pc = "ready"]
    <2>1. /\ Cardinality(vt.verified) < Len(vt.shards)
          /\ vt' = [vt EXCEPT !.verified = @ \cup {i}] /\ VerifyProof(vw, vt, i) = vt.shards[i]
        BY <1>3 DEF VerifyUnit
    <2>2. PICK k \in 0..Len(vt.shards) : vt.verified = 1..k
        BY <1>1 DEF VerifyOK
    <2>3. vt.shards \in Seq(Proofs) /\ k \in Nat
        BY <1>1 DEF Audits
    <2>4. Cardinality(1..k) = k
        BY <2>3, FS_Interval
    <2>5. i = k + 1 /\ i \in 1..Len(vt.shards) /\ 1..k \cup {i} = 1..i
        BY <2>1, <2>2, <2>3, <2>4
    <2> HIDE DEF i
    <2> DEFINE more == vt.verified \cup {i}
    <2>12. more \in SUBSET Nat /\ vt' = [vt EXCEPT !.verified = more]
        BY <1>1, <2>1, <2>5 DEF Audits
    <2> HIDE DEF more
    <2>6. /\ vt' \in Audits /\ vt'.pc = "verify" /\ vt'.root = vt.root /\ vt'.mans = vt.mans
          /\ vt'.high = vt.high /\ vt'.final = vt.final /\ vt'.shards = vt.shards
          /\ vt'.verified = more /\ vt'.hurt = vt.hurt
        BY <1>1, <2>12 DEF Audits
    <2>7. VerifiedOK(vw, vt, i)
        <3> DEFINE c == vt.shards[i][1]
        <3>1. vt.shards[i] \in Proofs
            BY <2>3, <2>5
        <3>2. c \in Chunks
            BY <3>1 DEF Proofs
        <3>3. vt.shards[i][2] = QualifyUnit(vw, ChunkState(vw.log, vt.high, c), c)
            BY <2>1, <3>2, ProofIs DEF VerifyProof
        <3>4. vt.hurt \subseteq vw.bad
            BY <1>1 DEF VerifyOK
        <3> QED
            BY <3>3, <3>4, QualifyIs DEF VerifiedOK, Sound
    <2>8. \A j \in vt'.verified : VerifiedOK(vw, vt', j)
        <3>1. \A j \in vt.verified : VerifiedOK(vw, vt, j)
            BY <1>1 DEF VerifyOK
        <3> QED
            BY <2>6, <2>7, <3>1 DEF VerifiedOK, Sound, more
    <2>9. i \in 0..Len(vt'.shards) /\ vt'.verified = 1..i
        BY <2>2, <2>3, <2>5, <2>6 DEF more
    <2>10. Named(vt') /\ vt'.hurt \subseteq vw.bad
        BY <1>1, <2>6 DEF Named, VerifyOK
    <2>11. VerifyOK(vw, vt')
        BY <2>8, <2>9, <2>10 DEF VerifyOK
    <2> QED
        BY <1>1, <2>6, <2>11 DEF AuditOK
<1> QED
    BY <1>2, <1>3

LEMMA NoFindings ==
    ASSUME NEW t, NEW proofs \in Seq(Proofs), AuditFindings(t, proofs) = {}
    PROVE  /\ \A i \in 1..Len(proofs) :
                 proofs[i][2] = "ok" /\ ReconnectOf(vw, proofs[i][1]) # "silent"
           /\ t.mans = {c \in Chunks : ChunkState(vw.log, t.high, c) # "none"}
<1> DEFINE a == \E p \in Range(proofs) : p[2] # "ok"
           b == \E c \in 1..V5Chunks : ChunkState(vw.log, t.high, c) \in Unsealed
           sealed == {c \in 1..V5Chunks :
                        ChunkState(vw.log, t.high, c) \notin Unsealed \cup {"none"}}
           c1 == sealed # t.mans
           e == \E p \in Range(proofs) : p[2] = "ok" /\ ReconnectOf(vw, p[1]) = "silent"
<1>1. AuditFindings(t, proofs) =
          (IF a THEN {"raw_or_archive_integrity_failure"} ELSE {})
          \cup (IF b THEN {"unfinished_chunk_at_quiescence"} ELSE {})
          \cup (IF c1 THEN {"catalog_manifest_disagreement"} ELSE {})
          \cup (IF OnlineOmits(t) THEN {"online_delta_omission"} ELSE {})
          \cup (IF e THEN {"unmarked_reconnect"} ELSE {})
    BY DEF AuditFindings
<1>2. ~a /\ ~b /\ ~c1 /\ ~e
    <2> HIDE DEF a, b, c1, e
    <2> QED
        BY <1>1
<1>3. \A i \in 1..Len(proofs) : proofs[i] \in Range(proofs)
    BY DEF Range
<1>4. \A i \in 1..Len(proofs) : proofs[i][2] = "ok" /\ ReconnectOf(vw, proofs[i][1]) # "silent"
    <2> SUFFICES ASSUME NEW i \in 1..Len(proofs)
                 PROVE  proofs[i][2] = "ok" /\ ReconnectOf(vw, proofs[i][1]) # "silent"
        OBVIOUS
    <2>1. proofs[i] \in Range(proofs)
        BY <1>3
    <2> QED
        BY <1>2, <2>1
<1>5. t.mans = {c \in Chunks : ChunkState(vw.log, t.high, c) # "none"}
    <2>1. sealed = t.mans /\ \A c \in Chunks : ChunkState(vw.log, t.high, c) \notin Unsealed
        BY <1>2 DEF Chunks
    <2> QED
        BY <2>1 DEF Chunks
<1> QED
    BY <1>4, <1>5

LEMMA PublishRootKeeps ==
    ASSUME WorldOK(vw), AuditOK(vw, vt), PublishRoot
    PROVE  AuditOK(vw, vt') /\ vt.root = "none" /\ vt'.final = vt.final
<1>1. /\ vt \in Audits /\ vt.mans \subseteq vw.man /\ vt.pc = "verify" /\ vt.root = "none"
      /\ HighWithin(vw.log, vt.high) /\ VerifyOK(vw, vt)
    BY DEF AuditOK, PublishRoot, Frozen
<1> DEFINE clean == AuditFindings(vt, vt.shards) = {}
           root == IF clean THEN "PASS_CANDIDATE" ELSE "FAIL"
<1>2. vt' = [vt EXCEPT !.pc = "ready", !.root = root] /\ Cardinality(vt.verified) = Len(vt.shards)
    BY DEF PublishRoot
<1>3. root = "PASS_CANDIDATE" => clean
    OBVIOUS
<1>4. root \in {"PASS_CANDIDATE", "FAIL"}
    OBVIOUS
<1> HIDE DEF root
<1>5. /\ vt' \in Audits /\ vt'.pc = "ready" /\ vt'.root = root /\ vt'.mans = vt.mans
      /\ vt'.high = vt.high /\ vt'.final = vt.final /\ vt'.hurt = vt.hurt
    BY <1>1, <1>2, <1>4 DEF Audits
<1>6. vt.shards \in Seq(Proofs)
    BY <1>1 DEF Audits
<1>7. ASSUME clean PROVE RootOK(vw, vt)
    <2>1. /\ \A i \in 1..Len(vt.shards) :
                vt.shards[i][2] = "ok" /\ ReconnectOf(vw, vt.shards[i][1]) # "silent"
          /\ vt.mans = {c \in Chunks : ChunkState(vw.log, vt.high, c) # "none"}
        BY <1>6, <1>7, NoFindings
    <2>2. PICK k \in 0..Len(vt.shards) : vt.verified = 1..k
        BY <1>1 DEF VerifyOK
    <2>3. Cardinality(1..k) = k
        BY <2>2, FS_Interval
    <2>4. vt.verified = 1..Len(vt.shards)
        BY <1>2, <2>2, <2>3
    <2>5. ASSUME NEW c \in vt.mans
          PROVE  Sound(vw, vt, c) /\ (vw.edge[c] = "silent" => c \in vw.old)
        <3>1. PICK i \in 1..Len(vt.shards) : vt.shards[i][1] = c
            BY <1>1 DEF VerifyOK, Named
        <3>2. VerifiedOK(vw, vt, i)
            BY <1>1, <2>4 DEF VerifyOK
        <3>3. Sound(vw, vt, c)
            BY <2>1, <3>1, <3>2 DEF VerifiedOK
        <3>4. ReconnectOf(vw, c) # "silent"
            BY <2>1, <3>1
        <3> QED
            BY <3>3, <3>4 DEF ReconnectOf
    <2> QED
        BY <2>1, <2>5 DEF RootOK
<1> HIDE DEF clean
<1>8. vt'.root = "PASS_CANDIDATE" => RootOK(vw, vt')
    BY <1>3, <1>5, <1>7 DEF RootOK, Sound
<1> QED
    BY <1>1, <1>5, <1>8 DEF AuditOK, Frozen

LEMMA SameForFinal ==
    ASSUME NEW w, NEW t, NEW u \in Audits, AuditOK(w, t), u.pc = t.pc, u.high = t.high,
           u.mans = t.mans, u.shards = t.shards, u.verified = t.verified, u.hurt = t.hurt,
           u.root = t.root
    PROVE  AuditOK(w, u)
<1>1. VerifyOK(w, t) => VerifyOK(w, u)
    BY DEF VerifyOK, VerifiedOK, Named, Sound
<1>2. RootOK(w, t) => RootOK(w, u)
    BY DEF RootOK, Sound
<1> QED
    BY <1>1, <1>2 DEF AuditOK

-----------------------------------------------------------------------------
(* The invariant. *)

TargetOK == vtarget # NoTarget => vdocs # <<>> /\ vtarget = TargetOf(LastDoc) /\ vo.pc = "idle"

FinalOK ==
    vt.final = "eligible" =>
        vt.root = "PASS_CANDIDATE" /\ vtarget # NoTarget /\ vtarget.found = {}

V5Inv ==
    /\ WorldOK(vw) /\ DocsOK(vw, vdocs) /\ ObserverOK(vw, vo, vdocs)
    /\ TargetOK /\ AuditOK(vw, vt) /\ FinalOK

LEMMA NoTargetIs == NoTarget.result = "none"
BY DEF NoTarget

LEMMA PublishFinalKeeps ==
    ASSUME V5Inv, PublishFinal
    PROVE  AuditOK(vw, vt') /\ FinalOK'
<1> DEFINE good == vt.root = "PASS_CANDIDATE" /\ vtarget.result = "PASS_CANDIDATE"
                     /\ vtarget.found = {}
           final == IF good THEN "eligible" ELSE "not"
<1>1. vt' = [vt EXCEPT !.final = final] /\ vt \in Audits /\ vtarget' = vtarget
    BY DEF PublishFinal, V5Inv, AuditOK
<1>2. final \in {"eligible", "not"} /\ (final = "eligible" => good)
    OBVIOUS
<1> HIDE DEF final
<1>3. /\ vt' \in Audits /\ vt'.final = final /\ vt'.pc = vt.pc /\ vt'.high = vt.high
      /\ vt'.mans = vt.mans /\ vt'.shards = vt.shards /\ vt'.verified = vt.verified
      /\ vt'.hurt = vt.hurt /\ vt'.root = vt.root
    BY <1>1, <1>2 DEF Audits
<1>4. AuditOK(vw, vt')
    BY <1>3, SameForFinal DEF V5Inv
<1>5. FinalOK'
    BY <1>1, <1>2, <1>3, NoTargetIs DEF FinalOK
<1> QED
    BY <1>4, <1>5

LEMMA ObserverDiesKeeps ==
    ASSUME V5Inv, V5ObserverDies
    PROVE  ObserverOK(vw, vo', vdocs) /\ AuditOK(vw, vt') /\ FinalOK'
<1>1. /\ vo' = [vo EXCEPT !.pc = "dead"] /\ vt' = [vt EXCEPT !.kills = @ + 1] /\ vt \in Audits
      /\ vtarget' = vtarget
    BY DEF V5ObserverDies, V5Inv, AuditOK
<1>2. ObserverOK(vw, vo', vdocs)
    BY <1>1, FailingKeeps DEF V5Inv
<1>3. /\ vt' \in Audits /\ vt'.final = vt.final /\ vt'.pc = vt.pc /\ vt'.high = vt.high
      /\ vt'.mans = vt.mans /\ vt'.shards = vt.shards /\ vt'.verified = vt.verified
      /\ vt'.hurt = vt.hurt /\ vt'.root = vt.root
    <2> DEFINE kills == vt.kills + 1
    <2>1. kills \in Nat /\ vt' = [vt EXCEPT !.kills = kills]
        BY <1>1 DEF Audits
    <2> HIDE DEF kills
    <2> QED
        BY <1>1, <2>1 DEF Audits
<1>4. AuditOK(vw, vt')
    BY <1>3, SameForFinal DEF V5Inv
<1>5. FinalOK'
    BY <1>1, <1>3 DEF FinalOK, V5Inv
<1> QED
    BY <1>2, <1>4, <1>5

LEMMA TargetKeeps ==
    ASSUME V5Inv, V5Target
    PROVE  V5Inv'
<1>1. /\ vtarget = NoTarget /\ vo.pc = "idle" /\ vtarget' = TargetOf(LastDoc) /\ Len(vdocs) > 1
      /\ vw' = [vw EXCEPT !.n = MaxV5Moves] /\ vo' = vo /\ vdocs' = vdocs /\ vt' = vt
    BY DEF V5Target
<1>2. WorldOK(vw) /\ vw \in Worlds /\ MaxV5Moves \in Int
    BY V5BoundsAssumption DEF V5Inv, WorldOK
<1>3. /\ vw' \in Worlds /\ vw'.log = vw.log /\ vw'.base = vw.base /\ vw'.edge = vw.edge
      /\ vw'.old = vw.old /\ vw'.man = vw.man /\ vw'.bad = vw.bad /\ vw'.local = vw.local
      /\ vw'.gap = vw.gap
    BY <1>1, <1>2 DEF Worlds
<1>4. WorldOK(vw') /\ Moves(vw, vw')
    BY <1>2, <1>3, QuietStep
<1>5. DocsOK(vw', vdocs) /\ ObserverOK(vw', vo, vdocs) /\ AuditOK(vw', vt)
    BY <1>2, <1>4, DocsStay, ObserverStays, AuditStays DEF V5Inv
<1>6. TargetOK'
    <2>1. TargetOf(LastDoc)' = TargetOf(LastDoc)
        BY <1>1 DEF TargetOf, LastDoc
    <2>2. vdocs # <<>>
        BY <1>1
    <2> QED
        BY <1>1, <2>1, <2>2 DEF TargetOK
<1>7. FinalOK'
    BY <1>1 DEF FinalOK, V5Inv
<1> QED
    BY <1>1, <1>4, <1>5, <1>6, <1>7 DEF V5Inv

LEMMA DocsChange ==
    ASSUME V5Inv, vw' = vw, vt' = vt, vtarget' = vtarget, DocsOK(vw, vdocs'),
           ObserverOK(vw, vo', vdocs'), TargetOK'
    PROVE  V5Inv'
<1>1. FinalOK'
    BY DEF FinalOK, V5Inv
<1> QED
    BY <1>1 DEF V5Inv

LEMMA AuditChange ==
    ASSUME V5Inv, vw' = vw, vo' = vo, vdocs' = vdocs, vtarget' = vtarget, AuditOK(vw, vt'), FinalOK'
    PROVE  V5Inv'
<1>1. TargetOK'
    <2>1. TargetOf(LastDoc)' = TargetOf(LastDoc)
        BY DEF TargetOf, LastDoc
    <2> QED
        BY <2>1 DEF TargetOK, V5Inv
<1> QED
    BY <1>1 DEF V5Inv

LEMMA V5NextKeeps == V5Inv /\ [V5Next]_v5vars => V5Inv'
<1> SUFFICES ASSUME V5Inv, [V5Next]_v5vars PROVE V5Inv'
    OBVIOUS
<1>0. /\ WorldOK(vw) /\ DocsOK(vw, vdocs) /\ ObserverOK(vw, vo, vdocs)
      /\ TargetOK /\ AuditOK(vw, vt) /\ FinalOK
    BY DEF V5Inv
<1>1. CASE UNCHANGED v5vars
    <2>1. vw' = vw /\ vo' = vo /\ vdocs' = vdocs /\ vtarget' = vtarget /\ vt' = vt
        BY <1>1 DEF v5vars
    <2>2. FinalOK'
        BY <1>0, <2>1 DEF FinalOK
    <2> QED
        BY <1>0, <2>1, <2>2, AuditChange
<1>2. CASE WorldAction
    <2>1. WorldOK(vw') /\ Moves(vw, vw') /\ UNCHANGED <<vo, vdocs, vtarget, vt>>
        BY <1>0, <1>2, WorldActionMoves
    <2>2. DocsOK(vw', vdocs) /\ ObserverOK(vw', vo, vdocs) /\ AuditOK(vw', vt)
        BY <1>0, <2>1, DocsStay, ObserverStays, AuditStays
    <2>3. TargetOK'
        <3>1. TargetOf(LastDoc)' = TargetOf(LastDoc)
            BY <2>1 DEF TargetOf, LastDoc
        <3> QED
            BY <1>0, <2>1, <3>1 DEF TargetOK
    <2>4. FinalOK'
        BY <1>0, <2>1 DEF FinalOK
    <2> QED
        BY <2>1, <2>2, <2>3, <2>4 DEF V5Inv
<1>3. CASE V5Snapshot
    <2>1. ObserverOK(vw, vo', vdocs)
        BY <1>0, <1>3, SnapshotKeeps
    <2>2. UNCHANGED <<vw, vdocs, vtarget, vt>> /\ vtarget = NoTarget
        BY <1>0, <1>3 DEF V5Snapshot, TargetOK
    <2>3. TargetOK'
        BY <2>2 DEF TargetOK
    <2> QED
        BY <1>0, <2>1, <2>2, <2>3, DocsChange
<1>12. CASE V5Begins
    <2>1. ObserverOK(vw, vo', vdocs)
        BY <1>0, <1>12, BeginsKeeps
    <2>2. UNCHANGED <<vw, vdocs, vtarget, vt>> /\ vtarget = NoTarget
        BY <1>12 DEF V5Begins
    <2>3. TargetOK'
        BY <2>2 DEF TargetOK
    <2> QED
        BY <1>0, <2>1, <2>2, <2>3, DocsChange
<1>4. CASE V5Observes
    <2>1. DocsOK(vw, vdocs') /\ ObserverOK(vw, vo', vdocs') /\ UNCHANGED <<vw, vtarget, vt>>
        BY <1>0, <1>4, ObservesKeeps
    <2>2. TargetOK'
        <3>1. vo.pc = "snapped"
            BY <1>4 DEF V5Observes
        <3> QED
            BY <1>0, <2>1, <3>1 DEF TargetOK
    <2> QED
        BY <2>1, <2>2, DocsChange
<1>5. CASE V5Target
    BY <1>5, TargetKeeps
<1>6. CASE V5ObserverDies
    <2>1. ObserverOK(vw, vo', vdocs) /\ AuditOK(vw, vt') /\ FinalOK'
        BY <1>6, ObserverDiesKeeps
    <2>2. UNCHANGED <<vw, vdocs, vtarget>> /\ vtarget = NoTarget
        BY <1>6 DEF V5ObserverDies
    <2>3. TargetOK'
        BY <2>2 DEF TargetOK
    <2> QED
        BY <1>0, <2>1, <2>2, <2>3 DEF V5Inv
<1>7. CASE V5Resume
    <2>1. ObserverOK(vw, vo', vdocs)
        BY <1>0, <1>7, ResumeKeeps
    <2>2. UNCHANGED <<vw, vdocs, vtarget, vt>> /\ vtarget = NoTarget
        BY <1>7 DEF V5Resume
    <2>3. TargetOK'
        BY <2>2 DEF TargetOK
    <2> QED
        BY <1>0, <2>1, <2>2, <2>3, DocsChange
<1>8. CASE FreezeProbe \/ FreezeCatalog \/ FreezeManifests \/ FreezeReprobe \/ FreezePublish
    <2>1. AuditOK(vw, vt') /\ vt'.root = "none" /\ vt.root = "none" /\ vt'.final = vt.final
        BY <1>0, <1>8, FreezingKeeps
    <2>2. UNCHANGED <<vw, vo, vdocs, vtarget>>
        BY <1>8 DEF FreezeProbe, FreezeCatalog, FreezeManifests, FreezeReprobe, FreezePublish
    <2>3. FinalOK'
        BY <1>0, <2>1, <2>2 DEF FinalOK
    <2> QED
        BY <2>1, <2>2, <2>3, AuditChange
<1>9. CASE AuditBegins \/ AuditUnit \/ AuditorDies \/ VerifyBegins \/ VerifyUnit
    <2>1. AuditOK(vw, vt') /\ vt'.root = vt.root /\ vt'.final = vt.final
        BY <1>0, <1>9, AuditingKeeps, VerifyBeginsKeeps, VerifyUnitKeeps
    <2>2. UNCHANGED <<vw, vo, vdocs, vtarget>>
        BY <1>9 DEF AuditBegins, AuditUnit, AuditorDies, VerifyBegins, VerifyUnit
    <2>3. FinalOK'
        BY <1>0, <2>1, <2>2 DEF FinalOK
    <2> QED
        BY <2>1, <2>2, <2>3, AuditChange
<1>10. CASE PublishRoot
    <2>1. AuditOK(vw, vt') /\ vt.root = "none" /\ vt'.final = vt.final
        BY <1>0, <1>10, PublishRootKeeps
    <2>2. UNCHANGED <<vw, vo, vdocs, vtarget>>
        BY <1>10 DEF PublishRoot
    <2>3. FinalOK'
        BY <1>0, <2>1, <2>2 DEF FinalOK
    <2> QED
        BY <2>1, <2>2, <2>3, AuditChange
<1>11. CASE PublishFinal
    <2>1. AuditOK(vw, vt') /\ FinalOK'
        BY <1>11, PublishFinalKeeps
    <2>2. UNCHANGED <<vw, vo, vdocs, vtarget>>
        BY <1>11 DEF PublishFinal
    <2> QED
        BY <2>1, <2>2, AuditChange
<1> QED
    BY <1>1, <1>2, <1>3, <1>4, <1>5, <1>6, <1>7, <1>8, <1>9, <1>10, <1>11, <1>12 DEF V5Next, WorldAction

-----------------------------------------------------------------------------
(* What the invariant says of a published cursor. *)

LEMMA EntriesAre ==
    ASSUME WorldOK(vw), DocsOK(vw, vdocs)
    PROVE  AckedEntries = EntriesOf(vw, vdocs)
<1>1. ASSUME NEW doc PROVE AckedIn(doc) = DeltaEntries(vw.log, doc.high, doc.pages)
    BY DEF AckedIn, DeltaEntries, PageEntries
<1>2. \A d \in DOMAIN vdocs :
         AckedIn(vdocs[d]) = DeltaEntries(vw.log, vdocs[d].high, vdocs[d].pages)
    BY <1>1
<1> QED
    BY <1>2 DEF AckedEntries, EntriesOf

\* What the last row of a ledger about a chunk says.
EndsAt(rows, n, s) ==
    {c \in {d \in 1..V5Chunks : \E i \in 1..n : rows[i].c = d} :
        rows[Max({i \in 1..n : rows[i].c = c})].to = s}

LEMMA EndsAre ==
    ASSUME NEW rows, NEW n \in Nat, NEW s, s # "none"
    PROVE  EndsAt(rows, n, s) = {c \in Chunks : LastTo(rows, n, c) = s}
<1>1. ASSUME NEW c \in Chunks
      PROVE  LastTo(rows, n, c) = s <=> /\ \E i \in 1..n : rows[i].c = c
                                        /\ rows[Max({i \in 1..n : rows[i].c = c})].to = s
    BY DEF LastTo
<1> QED
    BY <1>1 DEF Chunks, EndsAt

LEMMA GapIsLast ==
    ASSUME NEW w, WorldRead(w), NEW cont, cont.processed["oper"] \in Nat, GapOK(w, cont), NEW gaps,
           gaps = {i \in (w.base["oper"] + 1)..cont.processed["oper"] : w.log["oper"][i].c # 0},
           gaps # {}
    PROVE  cont.gap # 0 <=> w.log["oper"][Max(gaps)].to = "started"
<1> DEFINE done == cont.processed["oper"]
           base == w.base["oper"]
           m == Max(gaps)
<1>1. base \in Nat /\ done \in Nat
    BY DEF WorldRead, Fams
<1>2. gaps \in SUBSET Nat /\ \A y \in gaps : y <= done
    BY <1>1
<1>3. m \in gaps /\ \A y \in gaps : y <= m
    BY <1>1, <1>2, MaxOfBounded
<1> HIDE DEF m
<1>4. m \in (base + 1)..done /\ w.log["oper"][m].c # 0
    BY <1>3
<1>5. \A k \in (m + 1)..done : w.log["oper"][k].c = 0
    BY <1>1, <1>3, <1>4
<1>6. cont.gap # 0 <=> w.log["oper"][m].to = "started"
    BY <1>4, <1>5 DEF GapOK
<1> QED
    BY <1>6 DEF m

LEMMA CursorOfInv == V5Inv => CursorIsExact
<1> SUFFICES ASSUME V5Inv, vdocs # <<>> PROVE CursorIsExact
    BY DEF CursorIsExact
<1> DEFINE cont == LastDoc.cont
           done == cont.processed
           gaps == {i \in (vw.base["oper"] + 1)..done["oper"] : vw.log["oper"][i].c # 0}
           ends == {c \in 1..V5Chunks : \E i \in 1..done["arch"] : vw.log["arch"][i].c = c}
           last(c) == vw.log["arch"][Max({i \in 1..done["arch"] : vw.log["arch"][i].c = c})].to
<1>1. WorldOK(vw) /\ WorldRead(vw) /\ DocsOK(vw, vdocs) /\ ObserverOK(vw, vo, vdocs)
    BY DEF V5Inv, WorldOK
<1>2. cont = Standing(vw, vdocs)
    BY DEF Standing, LastDoc
<1>3. Good(vw, cont, AckedEntries)
    BY <1>1, <1>2, EntriesAre DEF DocsOK
<1> HIDE DEF cont
<1>4. done \in [Fams -> Nat] /\ "oper" \in Fams /\ "arch" \in Fams
    BY <1>3 DEF Good, Conts, Fams
<1>5. ASSUME NEW f \in Fams, NEW id \in (vw.base[f] + 1)..done[f]
      PROVE  \E e \in AckedEntries :
                /\ e.f = f /\ e.id = id
                /\ f = "chunk" /\ e.row.to = "SEALED" => e.unit = ReconnectOf(vw, e.row.c)
    <2>1. PICK e \in AckedEntries : e.f = f /\ e.id = id
        BY <1>3 DEF Good, EveryRowAcked
    <2>2. EntryOK(vw, e)
        BY <1>3 DEF Good
    <2> QED
        BY <2>1, <2>2 DEF EntryOK
<1>6. cont.refs = {r \in UNION {e.refs : e \in AckedEntries} : r[2] > done[r[1]]}
    BY <1>3 DEF Good, RefsOK, RefsOf
<1>7. Cardinality(cont.refs) <= ReferenceCap
    BY <1>1, <1>2 DEF DocsOK
<1>8. \A s \in Backlog : cont.counts[s] = Cardinality({c \in ends : last(c) = s})
    <2> SUFFICES ASSUME NEW s \in Backlog
                 PROVE  cont.counts[s] = Cardinality({c \in ends : last(c) = s})
        OBVIOUS
    <2>1. cont.counts[s] = ArchCount(vw.log["arch"], done["arch"], s)
        BY <1>3 DEF Good, CountsOK
    <2>2. s # "none" /\ done["arch"] \in Nat
        BY <1>4, LifeSets
    <2> DEFINE rows == vw.log["arch"]
               n == done["arch"]
    <2>4. {c \in ends : last(c) = s} = EndsAt(rows, n, s)
        BY DEF EndsAt
    <2>5. n \in Nat
        BY <2>2
    <2> HIDE DEF rows, n
    <2>6. EndsAt(rows, n, s) = {c \in Chunks : LastTo(rows, n, c) = s}
        BY <2>2, <2>5, EndsAre
    <2>3. {c \in ends : last(c) = s} = {c \in Chunks : LastTo(vw.log["arch"], done["arch"], c) = s}
        BY <2>4, <2>6 DEF rows, n
    <2> QED
        BY <2>1, <2>3 DEF ArchCount, Chunks
<1>9. gaps # {} => (cont.gap # 0 <=> vw.log["oper"][Max(gaps)].to = "started")
    <2>1. GapOK(vw, cont) /\ done["oper"] \in Nat
        BY <1>3, <1>4 DEF Good
    <2> QED
        BY <1>1, <2>1, GapIsLast
<1>10. vo.pc \in {"idle", "begun", "snapped"} => vo.cont = cont
    BY <1>1, <1>2 DEF ObserverOK
<1> QED
    BY <1>5, <1>6, <1>7, <1>8, <1>9, <1>10 DEF CursorIsExact, cont

-----------------------------------------------------------------------------
(* What it says of an eligible stage. *)

LEMMA LastDocSays ==
    ASSUME V5Inv, vdocs # <<>>
    PROVE  /\ LastDoc.cont = Standing(vw, vdocs)
           /\ ~LastDoc.pending => LastDoc.cont.processed = LastDoc.high
           /\ LastDoc.cont.found \subseteq LastDoc.found
           /\ \A d \in DOMAIN vdocs :
                 vdocs[d].inv # vdocs[1].inv => "process_incarnation_changed" \in LastDoc.found
<1>1. DocsOK(vw, vdocs) /\ vdocs \in Seq(Docs) /\ LastDoc = vdocs[Len(vdocs)]
    BY DEF V5Inv, DocsOK, LastDoc
<1>2. Len(vdocs) \in 1..Len(vdocs) /\ DOMAIN vdocs = 1..Len(vdocs)
    BY <1>1
<1>3. LastDoc.cont = Standing(vw, vdocs)
    BY <1>1 DEF Standing
<1>4. DocOK(vw, vdocs, Len(vdocs))
    BY <1>1, <1>2 DEF DocsOK
<1>5. /\ ~LastDoc.pending => LastDoc.cont.processed = LastDoc.high
      /\ LastDoc.cont.found \subseteq LastDoc.found
    BY <1>1, <1>4 DEF DocOK
<1>6. ASSUME NEW d \in DOMAIN vdocs, vdocs[d].inv # vdocs[1].inv
      PROVE  "process_incarnation_changed" \in LastDoc.found
    <2>1. DocOK(vw, vdocs, d)
        BY <1>1, <1>2 DEF DocsOK
    <2> QED
        BY <1>1, <1>6, <2>1 DEF DocOK
<1> QED
    BY <1>3, <1>5, <1>6

\* A target with no finding is that of a document with none.
LEMMA CleanTarget ==
    ASSUME NEW doc, NEW target, target = TargetOf(doc), target.found = {}
    PROVE  /\ doc.found = {} /\ ~doc.pending /\ doc.cont.refs = {} /\ doc.cont.gap = 0
           /\ target.high = doc.high /\ target.processed = doc.cont.processed
<1> DEFINE a == IF doc.pending \/ doc.cont.refs # {} THEN {"target_delta_pending"} ELSE {}
           b == IF doc.cont.gap # 0 THEN {"unresolved_discontinuity"} ELSE {}
<1>1. /\ target.found = doc.found \cup a \cup b
      /\ target.high = doc.high /\ target.processed = doc.cont.processed
    BY DEF TargetOf
<1>2. doc.found = {} /\ a = {} /\ b = {}
    <2> HIDE DEF a, b
    <2> QED
        BY <1>1
<1> QED
    BY <1>1, <1>2

\* Every gap that starts before a cursor with no open gap ends before it.
LEMMA GapEnds ==
    ASSUME NEW w, WorldOK(w), NEW cont, cont \in Conts, CursorsOK(w, cont), GapOK(w, cont), cont.gap = 0,
           NEW i \in (w.base["oper"] + 1)..cont.processed["oper"], w.log["oper"][i].to = "started"
    PROVE  \E k \in (i + 1)..cont.processed["oper"] : w.log["oper"][k].c = w.log["oper"][i].c
<1> DEFINE rows == w.log["oper"]
           done == cont.processed["oper"]
           base == w.base["oper"]
           about == {k \in (i + 1)..done : rows[k].c # 0}
<1>1. /\ "oper" \in Fams /\ base \in Nat /\ done \in Nat /\ done <= Len(rows) /\ Len(rows) \in Nat
      /\ i \in Nat /\ i <= done /\ i >= base + 1
    BY LedgersAre DEF WorldOK, WorldRead, CursorsOK, Conts, Fams
<1>2. GapChain(rows, w.gap)
    BY DEF WorldOK
<1>3. i \in 1..Len(rows) /\ rows[i].to = "started" /\ rows[i].c # 0
    BY <1>1, <1>2 DEF GapChain
<1>4. about # {}
    <2> SUFFICES ASSUME about = {} PROVE FALSE
        OBVIOUS
    <2>1. \A k \in (i + 1)..done : rows[k].c = 0
        OBVIOUS
    <2> QED
        BY <1>3, <2>1 DEF GapOK
<1>5. about \in SUBSET Nat
    BY <1>1
<1> DEFINE k == Min(about)
<1>6. k \in about /\ \A y \in about : k <= y
    BY <1>4, <1>5, MinOfNumbers
<1> HIDE DEF k
<1>7. k \in (i + 1)..done /\ k \in (i + 1)..Len(rows) /\ rows[k].c # 0
    BY <1>1, <1>6
<1>8. \A m \in (i + 1)..(k - 1) : rows[m].c = 0
    <2> SUFFICES ASSUME NEW m \in (i + 1)..(k - 1), rows[m].c # 0 PROVE FALSE
        OBVIOUS
    <2>1. m \in about /\ m < k
        BY <1>1, <1>7
    <2> QED
        BY <1>1, <1>6, <1>7, <2>1
<1>9. rows[k].c = rows[i].c
    BY <1>2, <1>3, <1>7, <1>8 DEF GapChain
<1> QED
    BY <1>7, <1>9

LEMMA EligibleOfInv == V5Inv => V5EligibleIsTrue
<1> SUFFICES ASSUME V5Inv, vt.final = "eligible" PROVE V5EligibleIsTrue
    BY DEF V5EligibleIsTrue
<1> DEFINE cont == LastDoc.cont
<1>1. /\ WorldOK(vw) /\ DocsOK(vw, vdocs) /\ AuditOK(vw, vt) /\ vt.root = "PASS_CANDIDATE"
      /\ vtarget.found = {} /\ vdocs # <<>> /\ vtarget = TargetOf(LastDoc)
    BY DEF V5Inv, FinalOK, TargetOK
<1>2. RootOK(vw, vt)
    BY <1>1 DEF AuditOK
<1>3. /\ LastDoc.found = {} /\ ~LastDoc.pending /\ cont.gap = 0
      /\ vtarget.high = LastDoc.high /\ vtarget.processed = cont.processed
    BY <1>1, CleanTarget
<1>4. /\ cont = Standing(vw, vdocs) /\ cont.processed = LastDoc.high /\ cont.found = {}
      /\ \A d \in DOMAIN vdocs : vdocs[d].inv = vdocs[1].inv
    BY <1>1, <1>3, LastDocSays
<1>5. cont \in Conts /\ CursorsOK(vw, cont) /\ GapOK(vw, cont) /\ FoundOK(vw, cont)
    BY <1>1, <1>4 DEF DocsOK, Good
<1> HIDE DEF cont
<1>6. ASSUME NEW i \in (vw.base["oper"] + 1)..vtarget.high["oper"]
      PROVE  /\ vw.log["oper"][i].to = "stopped" => vw.log["oper"][i].from # "since"
             /\ vw.log["oper"][i].to = "started" =>
                   \E k \in (i + 1)..vtarget.high["oper"] :
                       vw.log["oper"][k].c = vw.log["oper"][i].c
    <2>1. vtarget.high = cont.processed
        BY <1>3, <1>4
    <2>2. vw.log["oper"][i].to = "stopped" => vw.log["oper"][i].from # "since"
        BY <1>1, <1>4, <1>5, <2>1 DEF FoundOK, Stops
    <2>3. vw.log["oper"][i].to = "started" =>
             \E k \in (i + 1)..vtarget.high["oper"] : vw.log["oper"][k].c = vw.log["oper"][i].c
        BY <1>1, <1>3, <1>5, <2>1, GapEnds
    <2> QED
        BY <2>2, <2>3
<1>7. \A c \in vt.mans : LET state == ChunkState(vw.log, vt.high, c) IN
            /\ <<c, "archive">> \in vt.hurt => state \notin {Life[i] : i \in 6..8}
            /\ <<c, "local">> \in vt.hurt => c \notin vw.local
            /\ vw.edge[c] = "silent" => c \in vw.old
    BY <1>2 DEF RootOK, Sound
<1>8. vt.mans = {c \in 1..V5Chunks : ChunkState(vw.log, vt.high, c) # "none"}
    BY <1>2 DEF RootOK, Chunks
<1>9. vtarget.processed = vtarget.high
    BY <1>3, <1>4
<1> QED
    BY <1>4, <1>6, <1>7, <1>8, <1>9 DEF V5EligibleIsTrue

-----------------------------------------------------------------------------
(* The initial states. *)

Reached(k) == IF k = 0 THEN "none" ELSE Life[k]
ArchRows(k) == IF k > 3 THEN k - 3 ELSE 0

BaselineOK(log, k) ==
    /\ log \in Ledgers /\ Len(log["oper"]) = 0
    /\ Len(log["chunk"]) = k /\ Len(log["arch"]) = ArchRows(k)
    /\ \A i \in 1..k : log["chunk"][i].c = 1 /\ log["chunk"][i].to = Life[i]
    /\ \A i \in 1..ArchRows(k) :
          /\ log["arch"][i].c = 1 /\ log["arch"][i].to = Life[i+3]
          /\ log["arch"][i].from = (IF i = 1 THEN "none" ELSE Life[i+2])

LEMMA BaselineRows ==
    ASSUME NEW k \in 0..8
    PROVE  /\ BaselineLog(k) = [oper |-> <<>>,
                                chunk |-> [i \in 1..k |-> Row(1, IF i = 1 THEN "none" ELSE Life[i-1], Life[i])],
                                arch |-> [i \in 1..ArchRows(k) |->
                                            Row(1, IF i = 1 THEN "none" ELSE Life[i+2], Life[i+3])]]
           /\ ArchRows(k) \in 0..5
           /\ BaselineOK(BaselineLog(k), k)
<1> DEFINE chunkRows == [i \in 1..k |-> Row(1, IF i = 1 THEN "none" ELSE Life[i-1], Life[i])]
           arch == [i \in 1..ArchRows(k) |-> Row(1, IF i = 1 THEN "none" ELSE Life[i+2], Life[i+3])]
<1>1. ArchRows(k) \in 0..5 /\ (ArchRows(k) > 0 => ArchRows(k) + 3 = k)
    BY DEF ArchRows
<1>2. BaselineLog(k) = [oper |-> <<>>, chunk |-> chunkRows, arch |-> arch]
    BY DEF BaselineLog, ArchRows
<1>3. \A i \in 1..8 : Life[i] \in LedgerWords
    BY DEF LedgerWords
<1>4. "none" \in LedgerWords
    BY WordsAre
<1>5. ASSUME NEW i \in 1..k
      PROVE  chunkRows[i] \in LedgerRows /\ chunkRows[i].c = 1 /\ chunkRows[i].to = Life[i]
    <2> DEFINE from == IF i = 1 THEN "none" ELSE Life[i-1]
    <2>1. i \in 1..8 /\ (i # 1 => i - 1 \in 1..8)
        OBVIOUS
    <2>2. from \in LedgerWords /\ Life[i] \in LedgerWords
        BY <1>3, <1>4, <2>1
    <2>3. chunkRows[i] = Row(1, from, Life[i])
        OBVIOUS
    <2> HIDE DEF from
    <2> QED
        BY <2>2, <2>3, RowIs
<1>6. ASSUME NEW i \in 1..ArchRows(k)
      PROVE  /\ arch[i] \in LedgerRows /\ arch[i].c = 1 /\ arch[i].to = Life[i+3]
             /\ arch[i].from = IF i = 1 THEN "none" ELSE Life[i+2]
    <2> DEFINE from == IF i = 1 THEN "none" ELSE Life[i+2]
    <2>1. i + 2 \in 1..8 /\ i + 3 \in 1..8
        BY <1>1
    <2>2. from \in LedgerWords /\ Life[i+3] \in LedgerWords
        BY <1>3, <1>4, <2>1
    <2>3. arch[i] = Row(1, from, Life[i+3])
        OBVIOUS
    <2>4. arch[i] \in LedgerRows /\ arch[i].c = 1 /\ arch[i].to = Life[i+3] /\ arch[i].from = from
        <3> HIDE DEF from
        <3> QED
            BY <2>2, <2>3, RowIs
    <2> QED
        BY <2>4
<1>7. chunkRows \in Seq(LedgerRows) /\ Len(chunkRows) = k
    BY <1>5
<1>8. arch \in Seq(LedgerRows) /\ Len(arch) = ArchRows(k)
    BY <1>1, <1>6
<1>9. <<>> \in Seq(LedgerRows) /\ Len(<<>>) = 0
    OBVIOUS
<1> HIDE DEF chunkRows, arch
<1>10. BaselineLog(k) \in Ledgers
    BY <1>2, <1>7, <1>8, <1>9 DEF Ledgers
<1>11. /\ BaselineLog(k)["oper"] = <<>> /\ BaselineLog(k)["chunk"] = chunkRows
       /\ BaselineLog(k)["arch"] = arch
    BY <1>2
<1> QED
    BY <1>1, <1>2, <1>5, <1>6, <1>7, <1>8, <1>9, <1>10, <1>11 DEF chunkRows, arch, BaselineOK

\* A chunk that the baseline knows is where its life cycle has come to.
LEMMA BaselineLast ==
    ASSUME NEW k \in 0..8, NEW c \in Chunks
    PROVE  /\ LastTo(BaselineLog(k)["chunk"], k, c) = IF c = 1 THEN Reached(k) ELSE "none"
           /\ \A n \in 0..ArchRows(k) :
                 LastTo(BaselineLog(k)["arch"], n, c)
                     = IF c = 1 /\ n > 0 THEN Life[n + 3] ELSE "none"
<1> DEFINE chunkRows == BaselineLog(k)["chunk"]
           arch == BaselineLog(k)["arch"]
<1>1. /\ ArchRows(k) \in 0..5
      /\ \A i \in 1..k : chunkRows[i].c = 1 /\ chunkRows[i].to = Life[i]
      /\ \A i \in 1..ArchRows(k) : arch[i].c = 1 /\ arch[i].to = Life[i+3]
    BY BaselineRows DEF BaselineOK
<1> HIDE DEF chunkRows, arch
<1>2. LastTo(chunkRows, k, c) = IF c = 1 THEN Reached(k) ELSE "none"
    <2>1. CASE c # 1
        BY <1>1, <2>1 DEF LastTo
    <2>2. CASE c = 1 /\ k = 0
        BY <2>2, LastToOfNone DEF Reached
    <2>3. CASE c = 1 /\ k # 0
        <3>1. k >= 1 /\ k \in Nat /\ k \in 1..k
            BY <2>3
        <3>2. chunkRows[k].c = c /\ chunkRows[k].to = Life[k]
            BY <1>1, <2>3, <3>1
        <3>3. LastTo(chunkRows, k, c) = IF chunkRows[k].c = c THEN chunkRows[k].to ELSE LastTo(chunkRows, k - 1, c)
            BY <3>1, LastToStep
        <3> QED
            BY <2>3, <3>2, <3>3 DEF Reached
    <2> QED
        BY <2>1, <2>2, <2>3
<1>3. ASSUME NEW n \in 0..ArchRows(k)
      PROVE  LastTo(arch, n, c) = IF c = 1 /\ n > 0 THEN Life[n + 3] ELSE "none"
    <2>1. CASE c # 1
        BY <1>1, <2>1 DEF LastTo
    <2>2. CASE c = 1 /\ n = 0
        BY <2>2, LastToOfNone
    <2>3. CASE c = 1 /\ n # 0
        <3>1. n >= 1 /\ n \in Nat /\ n \in 1..ArchRows(k) /\ n > 0
            BY <1>1, <2>3
        <3>2. arch[n].c = c /\ arch[n].to = Life[n + 3]
            BY <1>1, <2>3, <3>1
        <3>3. LastTo(arch, n, c) = IF arch[n].c = c THEN arch[n].to ELSE LastTo(arch, n - 1, c)
            BY <3>1, LastToStep
        <3> QED
            BY <2>3, <3>1, <3>2, <3>3
    <2> QED
        BY <2>1, <2>2, <2>3
<1> QED
    BY <1>2, <1>3 DEF chunkRows, arch

LEMMA ReachedIs ==
    ASSUME NEW k \in 0..8
    PROVE  /\ Reached(k) \in ArchiveSteps <=> k > 3
           /\ k > 2 => Reached(k) \in Done
           /\ k > 3 => Reached(k) = Life[ArchRows(k) + 3] /\ ArchRows(k) > 0
           /\ k <= 3 => ArchRows(k) = 0
<1>1. k > 2 => Reached(k) \in Done
    BY DEF Reached, Done
<1>2. Reached(k) \in ArchiveSteps <=> k > 3
    BY LifeIs, LifeSets DEF Reached
<1>3. k > 3 => ArchRows(k) + 3 = k /\ k # 0 /\ ArchRows(k) > 0
    BY DEF ArchRows
<1> QED
    BY <1>1, <1>2, <1>3 DEF Reached, ArchRows

LEMMA BaselineWorld ==
    ASSUME NEW k \in 0..8, NEW w \in Worlds, w.log = BaselineLog(k),
           \A f \in Fams : w.base[f] <= Len(w.log[f]),
           w.man = {c \in {1} : k > 2}, w.gap = 0
    PROVE  WorldOK(w)
<1> DEFINE chunkRows == w.log["chunk"]
           arch == w.log["arch"]
<1>1. /\ ArchRows(k) \in 0..5 /\ w.log \in Ledgers
      /\ Len(w.log["oper"]) = 0 /\ Len(chunkRows) = k /\ Len(arch) = ArchRows(k)
      /\ \A i \in 1..k : chunkRows[i].c = 1 /\ chunkRows[i].to = Life[i]
      /\ \A i \in 1..ArchRows(k) : /\ arch[i].c = 1 /\ arch[i].to = Life[i+3]
                                   /\ arch[i].from = (IF i = 1 THEN "none" ELSE Life[i+2])
    <2>1. BaselineOK(w.log, k) /\ ArchRows(k) \in 0..5
        BY BaselineRows
    <2> QED
        BY <2>1 DEF BaselineOK
<1>2. 1 \in Chunks
    BY V5ChunksAssumption DEF Chunks
<1>3. \A c \in Chunks : /\ LastTo(chunkRows, k, c) = IF c = 1 THEN Reached(k) ELSE "none"
                        /\ \A n \in 0..ArchRows(k) :
                              LastTo(arch, n, c) = IF c = 1 /\ n > 0 THEN Life[n + 3] ELSE "none"
    BY BaselineLast
<1>4. \A c \in Chunks : StateOf(w, c) = IF c = 1 THEN Reached(k) ELSE "none"
    BY <1>1, <1>3 DEF StateOf
<1> HIDE DEF chunkRows, arch
<1>5. \A i \in 1..Len(arch) : arch[i].c \in Chunks /\ arch[i].from = LastTo(arch, i - 1, arch[i].c)
    <2> SUFFICES ASSUME NEW i \in 1..ArchRows(k)
                 PROVE  arch[i].c \in Chunks /\ arch[i].from = LastTo(arch, i - 1, arch[i].c)
        BY <1>1
    <2>1. i - 1 \in 0..ArchRows(k) /\ (i = 1 <=> ~(i - 1 > 0)) /\ (i - 1) + 3 = i + 2
        BY <1>1
    <2>2. arch[i].c = 1 /\ arch[i].from = (IF i = 1 THEN "none" ELSE Life[i+2])
        BY <1>1
    <2>3. LastTo(arch, i - 1, 1) = IF i - 1 > 0 THEN Life[(i - 1) + 3] ELSE "none"
        BY <1>2, <1>3, <2>1
    <2> QED
        BY <1>2, <2>1, <2>2, <2>3
<1>6. WorldRead(w)
    <2>1. ArchChained(w.log)
        BY <1>5 DEF ArchChained, Chunks, arch
    <2>2. w.base \in [Fams -> Nat]
        BY DEF Worlds
    <2> QED
        BY <1>1, <2>1, <2>2 DEF WorldRead
<1>7. ChunkRowsOK(chunkRows)
    <2>1. \A i \in 1..k : i \in 1..8
        OBVIOUS
    <2> QED
        BY <1>1, <1>2, <2>1 DEF ChunkRowsOK
<1>8. ArchAgrees(w)
    <2> SUFFICES ASSUME NEW c \in Chunks
                 PROVE  LastTo(arch, ArchRows(k), c)
                           = IF StateOf(w, c) \in ArchiveSteps THEN StateOf(w, c) ELSE "none"
        BY <1>1 DEF ArchAgrees, arch
    <2>1. LastTo(arch, ArchRows(k), c)
             = IF c = 1 /\ ArchRows(k) > 0 THEN Life[ArchRows(k) + 3] ELSE "none"
        BY <1>1, <1>3
    <2>2. "none" \notin ArchiveSteps
        BY LifeSets
    <2> QED
        BY <1>4, <2>1, <2>2, ReachedIs
<1>9. ManSealed(w)
    BY <1>2, <1>4, ReachedIs DEF ManSealed
<1>10. GapChain(w.log["oper"], w.gap)
    BY <1>1 DEF GapChain
<1> QED
    BY <1>6, <1>7, <1>8, <1>9, <1>10 DEF WorldOK, chunkRows

\* The ledgers up to the baseline are those of the baseline audit.
LEMMA BaselinePrefix ==
    ASSUME NEW b \in 0..8, NEW k \in b..8, NEW w, w.log = BaselineLog(k),
           w.base = HighWater(BaselineLog(b))
    PROVE  /\ PrefixOf(w) = BaselineLog(b) /\ w.base \in [Fams -> Nat]
           /\ w.base["oper"] = 0 /\ w.base["chunk"] = b /\ w.base["arch"] = ArchRows(b)
           /\ \A f \in Fams : w.base[f] <= Len(w.log[f])
<1>1. k \in 0..8 /\ ArchRows(b) \in Nat /\ ArchRows(b) <= ArchRows(k) /\ ArchRows(k) \in Nat
    BY DEF ArchRows
<1> DEFINE chunkRows(j) == [i \in 1..j |-> Row(1, IF i = 1 THEN "none" ELSE Life[i-1], Life[i])]
           arch(j) == [i \in 1..j |-> Row(1, IF i = 1 THEN "none" ELSE Life[i+2], Life[i+3])]
<1>2. /\ BaselineLog(b) = [oper |-> <<>>, chunk |-> chunkRows(b), arch |-> arch(ArchRows(b))]
      /\ BaselineLog(b) \in Ledgers /\ Len(BaselineLog(b)["oper"]) = 0
      /\ Len(BaselineLog(b)["chunk"]) = b /\ Len(BaselineLog(b)["arch"]) = ArchRows(b)
    BY BaselineRows DEF BaselineOK
<1>3. /\ w.log = [oper |-> <<>>, chunk |-> chunkRows(k), arch |-> arch(ArchRows(k))]
      /\ Len(BaselineLog(k)["oper"]) = 0
      /\ Len(BaselineLog(k)["chunk"]) = k /\ Len(BaselineLog(k)["arch"]) = ArchRows(k)
    BY <1>1, BaselineRows DEF BaselineOK
<1>4. /\ w.base \in [Fams -> Nat]
      /\ w.base["oper"] = 0 /\ w.base["chunk"] = b /\ w.base["arch"] = ArchRows(b)
    BY <1>2, HighWaterIs DEF Fams
<1>5. \A f \in Fams : w.base[f] <= Len(w.log[f])
    BY <1>1, <1>3, <1>4 DEF Fams
<1>6. ASSUME NEW m \in Nat, NEW n \in Nat, n <= m
      PROVE  SubSeq(chunkRows(m), 1, n) = chunkRows(n) /\ SubSeq(arch(m), 1, n) = arch(n)
    <2> DEFINE C(i) == Row(1, IF i = 1 THEN "none" ELSE Life[i-1], Life[i])
               A(i) == Row(1, IF i = 1 THEN "none" ELSE Life[i+2], Life[i+3])
    <2>1. chunkRows(m) = [i \in 1..m |-> C(i)] /\ chunkRows(n) = [i \in 1..n |-> C(i)]
        OBVIOUS
    <2>2. arch(m) = [i \in 1..m |-> A(i)] /\ arch(n) = [i \in 1..n |-> A(i)]
        OBVIOUS
    <2> HIDE DEF chunkRows, arch, C, A
    <2>3. SubSeq([i \in 1..m |-> C(i)], 1, n) = [i \in 1..n |-> C(i)]
        BY <1>6
    <2>4. SubSeq([i \in 1..m |-> A(i)], 1, n) = [i \in 1..n |-> A(i)]
        BY <1>6
    <2> QED
        BY <2>1, <2>2, <2>3, <2>4
<1> HIDE DEF chunkRows, arch
<1>7. /\ SubSeq(w.log["oper"], 1, w.base["oper"]) = <<>>
      /\ SubSeq(w.log["chunk"], 1, w.base["chunk"]) = chunkRows(b)
      /\ SubSeq(w.log["arch"], 1, w.base["arch"]) = arch(ArchRows(b))
    <2>1. /\ w.log["oper"] = <<>> /\ w.log["chunk"] = chunkRows(k)
          /\ w.log["arch"] = arch(ArchRows(k))
        BY <1>3
    <2>2. SubSeq(<<>>, 1, 0) = <<>>
        OBVIOUS
    <2>3. SubSeq(chunkRows(k), 1, b) = chunkRows(b)
        BY <1>1, <1>6
    <2>4. SubSeq(arch(ArchRows(k)), 1, ArchRows(b)) = arch(ArchRows(b))
        BY <1>1, <1>6
    <2> QED
        BY <1>4, <2>1, <2>2, <2>3, <2>4
<1>8. PrefixOf(w) = BaselineLog(b)
    <2> DEFINE want == [oper |-> <<>>, chunk |-> chunkRows(b), arch |-> arch(ArchRows(b))]
    <2>1. PrefixOf(w) = [f \in {"oper", "chunk", "arch"} |-> SubSeq(w.log[f], 1, w.base[f])]
        BY DEF PrefixOf, Fams
    <2>2. want = [f \in {"oper", "chunk", "arch"} |-> want[f]]
        OBVIOUS
    <2>3. \A f \in {"oper", "chunk", "arch"} : SubSeq(w.log[f], 1, w.base[f]) = want[f]
        <3>1. /\ want["oper"] = <<>> /\ want["chunk"] = chunkRows(b)
              /\ want["arch"] = arch(ArchRows(b))
            OBVIOUS
        <3> HIDE DEF want
        <3> QED
            BY <1>7, <3>1
    <2> HIDE DEF want
    <2>4. PrefixOf(w) = want
        BY <2>1, <2>2, <2>3
    <2> QED
        BY <1>2, <2>4 DEF want
<1> QED
    BY <1>4, <1>5, <1>8

\* The observer starts from a continuation that stands for no row.
LEMMA StartIsGood ==
    ASSUME NEW b \in 0..8, NEW k \in b..8, NEW w, w.log = BaselineLog(k),
           w.base = HighWater(BaselineLog(b)), WorldOK(w)
    PROVE  /\ StartOf(w) = EmptyContinuation(BaselineLog(b))
           /\ Good(w, StartOf(w), {}) /\ SeenOK(w, StartOf(w)) /\ StartOf(w).refs = {}
<1> DEFINE log == BaselineLog(b)
           cont == EmptyContinuation(log)
<1>1. /\ PrefixOf(w) = log /\ w.base \in [Fams -> Nat]
      /\ w.base["oper"] = 0 /\ w.base["chunk"] = b /\ w.base["arch"] = ArchRows(b)
      /\ \A f \in Fams : w.base[f] <= Len(w.log[f])
    BY BaselinePrefix
<1>2. StartOf(w) = cont
    BY <1>1 DEF StartOf
<1> DEFINE counts == ArchiveBacklog(log, w.base)
           none == {}
<1>3. cont = [processed |-> w.base, seen |-> w.base, refs |-> none, gap |-> 0,
              counts |-> counts, found |-> none]
    BY DEF EmptyContinuation
<1>4. counts = [s \in Backlog |-> Cardinality({c \in 1..V5Chunks : ChunkState(log, w.base, c) = s})]
    BY DEF ArchiveBacklog
<1> HIDE DEF counts, none, cont
<1>5. ASSUME NEW s \in Backlog
      PROVE  counts[s] = ArchCount(w.log["arch"], w.base["arch"], s) /\ counts[s] \in Int
    <2> DEFINE n == ArchRows(b)
    <2>1. ASSUME NEW c \in Chunks
          PROVE  ChunkState(log, w.base, c) = s <=> LastTo(w.log["arch"], n, c) = s
        <3>1. ChunkState(log, w.base, c) = LastTo(log["chunk"], b, c)
            BY <1>1, ChunkStateIsLastTo
        <3>2. LastTo(log["chunk"], b, c) = IF c = 1 THEN Reached(b) ELSE "none"
            BY BaselineLast
        <3>3. k \in 0..8 /\ n \in 0..ArchRows(k)
            BY DEF ArchRows
        <3>4. LastTo(w.log["arch"], n, c) = IF c = 1 /\ n > 0 THEN Life[n + 3] ELSE "none"
            BY <3>3, BaselineLast
        <3>5. s # "none" /\ s \in ArchiveSteps
            BY LifeSets
        <3> HIDE DEF n
        <3>6. /\ Reached(b) \in ArchiveSteps <=> b > 3
              /\ b > 3 => Reached(b) = Life[n + 3] /\ n > 0
              /\ b <= 3 => n = 0
            BY ReachedIs DEF n
        <3> QED
            BY <3>1, <3>2, <3>4, <3>5, <3>6
    <2> DEFINE S == {c \in 1..V5Chunks : ChunkState(log, w.base, c) = s}
    <2>2. counts[s] = Cardinality(S)
        BY <1>4
    <2>3. S = {c \in 1..V5Chunks : LastTo(w.log["arch"], n, c) = s}
        BY <2>1 DEF Chunks
    <2>4. IsFiniteSet(1..V5Chunks)
        BY V5ChunksAssumption, FS_Interval
    <2>5. IsFiniteSet(S)
        BY <2>4, FS_Subset
    <2>6. Cardinality(S) \in Nat
        BY <2>5, FS_CardinalityType
    <2> HIDE DEF S
    <2> QED
        BY <1>1, <2>2, <2>3, <2>6 DEF ArchCount
<1>6. counts \in [Backlog -> Int]
    BY <1>4, <1>5
<1>7. none \in SUBSET (Fams \X Nat) /\ none \in SUBSET Findings /\ IsFiniteSet(none)
    BY FS_EmptySet DEF none
<1>8. cont \in Conts
    BY <1>1, <1>3, <1>6, <1>7 DEF Conts
<1>9. /\ cont.processed = w.base /\ cont.seen = w.base /\ cont.refs = none /\ cont.counts = counts
    BY <1>3
<1>10. CursorsOK(w, cont) /\ SeenOK(w, cont)
    BY <1>1, <1>9 DEF CursorsOK, SeenOK
<1>11. \A f \in Fams : (w.base[f] + 1)..cont.processed[f] = {}
    BY <1>1, <1>9
<1>12. EveryRowAcked(w, cont, {})
    BY <1>11 DEF EveryRowAcked
<1>13. RefsOK(cont, {})
    <2>1. RefsOf({}) = {}
        BY DEF RefsOf
    <2>2. UNION RefsOf({}) = {}
        BY <2>1
    <2> QED
        BY <1>7, <1>9, <2>2 DEF RefsOK, none
<1>14. CountsOK(w, cont)
    BY <1>5, <1>9 DEF CountsOK
<1>15. GapOK(w, cont) /\ FoundOK(w, cont)
    BY <1>11 DEF GapOK, FoundOK, Fams
<1>16. Good(w, cont, {})
    BY <1>8, <1>10, <1>12, <1>13, <1>14, <1>15 DEF Good
<1> QED
    BY <1>2, <1>9, <1>10, <1>16 DEF none, cont

LEMMA V5InitOK == V5Init => V5Inv
<1> SUFFICES ASSUME V5Init PROVE V5Inv
    OBVIOUS
<1>1. PICK b \in V5Baselines :
        LET base == BaselineLog(b[1])
            k == b[2]
        IN
        /\ vw = [log |-> BaselineLog(k), base |-> HighWater(base),
                 old |-> {c \in {1} : b[1] > 0},
                 local |-> {c \in {1} : k \in 3..7}, man |-> {c \in {1} : k > 2},
                 edge |-> [c \in 1..V5Chunks |-> "same"], bad |-> {}, gap |-> 0,
                 gaps |-> 0, svc |-> TRUE, inv |-> 1, t |-> 0,
                 n |-> IF b[1] = k THEN 0 ELSE MaxV5Moves - 1]
        /\ vo = FreshObserver(base)
        /\ vdocs = <<>>
        /\ vtarget = NoTarget
        /\ vt = FreshAudit
    BY DEF V5Init
<1> DEFINE k == b[2]
           a == b[1]
           n == IF a = k THEN 0 ELSE MaxV5Moves - 1
           old == {c \in {1} : a > 0}
           local == {c \in {1} : k \in 3..7}
           man == {c \in {1} : k > 2}
           edge == [c \in 1..V5Chunks |-> "same"]
           bad == {}
           base == HighWater(BaselineLog(a))
           log == BaselineLog(k)
<1>2. a \in 0..8 /\ k \in a..8 /\ k \in 0..8
    BY V5BaselinesAssumption
<1>3. vw = [log |-> log, base |-> base, old |-> old, local |-> local, man |-> man, edge |-> edge,
            bad |-> bad, gap |-> 0, gaps |-> 0, svc |-> TRUE, inv |-> 1, t |-> 0, n |-> n]
      /\ vo = FreshObserver(BaselineLog(a)) /\ vdocs = <<>> /\ vtarget = NoTarget /\ vt = FreshAudit
    BY <1>1
<1> HIDE DEF a, k
<1>4. n \in Int
    BY V5BoundsAssumption
<1>5. 1 \in Chunks
    BY V5ChunksAssumption DEF Chunks
<1>6. /\ old \in SUBSET Chunks /\ local \in SUBSET Chunks /\ man \in SUBSET Chunks
      /\ bad \in SUBSET Copies
    BY <1>5
<1>7. edge \in [Chunks -> {"same", "marked", "silent"}]
    BY DEF Chunks
<1>8. log \in Ledgers /\ BaselineLog(a) \in Ledgers
    BY <1>2, BaselineRows DEF BaselineOK
<1>9. base \in [Fams -> Nat]
    BY <1>8, HighWaterIs
<1> HIDE DEF n, old, local, edge, bad, base, log
<1>10. /\ vw \in Worlds /\ vw.log = log /\ vw.base = base /\ vw.man = man /\ vw.gap = 0
    BY <1>3, <1>4, <1>6, <1>7, <1>8, <1>9 DEF Worlds
<1>11. \A f \in Fams : vw.base[f] <= Len(vw.log[f])
    BY <1>2, <1>10, BaselinePrefix DEF base, log
<1>12. WorldOK(vw)
    BY <1>2, <1>10, <1>11, BaselineWorld DEF log, man
<1>13. /\ StartOf(vw) = EmptyContinuation(BaselineLog(a))
       /\ Good(vw, StartOf(vw), {}) /\ SeenOK(vw, StartOf(vw)) /\ StartOf(vw).refs = {}
    BY <1>2, <1>10, <1>12, StartIsGood DEF base, log
<1>14. DocsOK(vw, vdocs) /\ Standing(vw, vdocs) = StartOf(vw)
    <2>1. Standing(vw, vdocs) = StartOf(vw)
        BY <1>3 DEF Standing
    <2>2. DOMAIN vdocs = {} /\ 1..Len(vdocs) = {} /\ vdocs \in Seq(Docs)
        BY <1>3
    <2>3. EntriesOf(vw, vdocs) = {}
        BY <2>2 DEF EntriesOf
    <2> QED
        BY <1>3, <1>13, <2>1, <2>2, <2>3 DEF DocsOK
<1>15. ObserverOK(vw, vo, vdocs)
    <2>1. vo = [pc |-> "off", live |-> [inv |-> 0, t |-> 0], snap |-> base,
                cont |-> EmptyContinuation(BaselineLog(a))]
        BY <1>3 DEF FreshObserver, base
    <2>2. vo = [pc |-> "off", live |-> [inv |-> 0, t |-> 0], snap |-> base, cont |-> StartOf(vw)]
          /\ StartOf(vw) \in Conts /\ [inv |-> 0, t |-> 0] \in Readings
        BY <1>13, <2>1 DEF Good, Readings
    <2>3. vo \in Observers /\ vo.pc = "off" /\ vo.cont = Standing(vw, vdocs)
        BY <1>9, <1>14, <2>2 DEF Observers
    <2> QED
        BY <2>3 DEF ObserverOK
<1>16. TargetOK
    BY <1>3 DEF TargetOK
<1>17. AuditOK(vw, vt) /\ FinalOK
    <2> DEFINE none == {}
               nothing == <<>>
    <2>1. /\ none \in SUBSET Chunks /\ none \in SUBSET Nat /\ none \in SUBSET Copies
          /\ nothing \in Seq(Proofs) /\ nothing \in {<<>>} \cup [Fams -> Nat]
        OBVIOUS
    <2>2. vt = [pc |-> "idle", cert |-> 0, high |-> nothing, mans |-> none, corpus |-> FALSE,
                shards |-> nothing, memory |-> nothing, verified |-> none, hurt |-> none,
                root |-> "none", final |-> "none", kills |-> 0]
        BY <1>3 DEF FreshAudit
    <2>3. none \subseteq vw.man
        OBVIOUS
    <2> HIDE DEF none, nothing
    <2>4. vt \in Audits /\ vt.pc = "idle" /\ vt.root = "none" /\ vt.final = "none" /\ vt.mans = none
        BY <2>1, <2>2 DEF Audits
    <2> QED
        BY <2>3, <2>4, BeforeRoot DEF FinalOK, Frozen
<1> QED
    BY <1>12, <1>14, <1>15, <1>16, <1>17 DEF V5Inv

\* Published cursors stand for exactly the rows behind them, in every state of
\* every stage, however often the observer is killed and resumes.
THEOREM CursorsAreExact == V5Spec => []CursorIsExact
<1>1. V5Spec => []V5Inv
    BY V5InitOK, V5NextKeeps, PTL DEF V5Spec
<1> QED
    BY <1>1, CursorOfInv, PTL

\* A stage that is published as eligible was a good one.
THEOREM EligibleStagesAreTrue == V5Spec => []V5EligibleIsTrue
<1>1. V5Spec => []V5Inv
    BY V5InitOK, V5NextKeeps, PTL DEF V5Spec
<1> QED
    BY <1>1, EligibleOfInv, PTL

=============================================================================
