--------------------------- MODULE Reconstructor ----------------------------
(***************************************************************************)
(* The local order book: LocalBookReconstructor (orderbook/reconstructor)  *)
(* bridges buffered depth events to a snapshot and applies later events to *)
(* an OrderBook (orderbook/model) with a cached best price;                *)
(* OrderBookCheckpointStore saves and restores it.                         *)
(*                                                                         *)
(* The exchange numbers its changes and sends them in events [U, u] of one *)
(* or two changes, whose levels are absolute.  Events may be lost, come    *)
(* again or late; a snapshot may be older than the buffer.  One side of    *)
(* the book is modelled, the bids; the other is its mirror image.          *)
(***************************************************************************)
EXTENDS Integers, Sequences, SequencesExt, FiniteSets, FiniteSetsExt

CONSTANTS Prices,          \* price levels, numbers above 0
          BufferCap,       \* bootstrap_buffer_capacity
          MaxChanges,      \* bound: changes of the exchange
          MaxRestarts      \* bound: restarts and restored checkpoints

ASSUME ReconstructorAssumption == Prices \subseteq Nat \ {0} /\ BufferCap \in Nat \ {0, 1}

VARIABLES market,    \* "spot" or "usdm": which sequence rule holds
          changes,   \* the changes of the exchange, in order
          sent,      \* its events: [U, u, pu]
          lbr,       \* the reconstructor
          kept,      \* books in checkpoints
          restarts

rcvars == <<market, changes, sent, lbr, kept, restarts>>

(***************************************************************************)
(* The exchange.                                                           *)
(***************************************************************************)
NoLevels == [p \in Prices |-> 0]

\* The true quantities after change n.
TrueLevels(n) ==
    [p \in Prices |->
        LET touched == {i \in 1..n : changes[i].price = p}
        IN  IF touched = {} THEN 0 ELSE changes[Max(touched)].quantity]

\* The levels of an event are the last quantity of each price that changed in it.
LevelsOf(event) == [p \in {changes[i].price : i \in event.U..event.u} |-> TrueLevels(event.u)[p]]

Changes == [price : Prices, quantity : 0..1]

ExchangeSends(batch) ==
    /\ Len(changes) + Len(batch) <= MaxChanges
    /\ changes' = changes \o batch
    /\ sent' = Append(sent, [U |-> Len(changes) + 1, u |-> Len(changes) + Len(batch),
                             pu |-> Len(changes)])
    /\ UNCHANGED <<market, lbr, kept, restarts>>

(***************************************************************************)
(* OrderBook: quantities, the cached best price and the update id.         *)
(***************************************************************************)
PricesIn(levels) == {p \in Prices : levels[p] > 0}
RecomputeBest(levels) == IF PricesIn(levels) = {} THEN 0 ELSE Max(PricesIn(levels))

BookOf(snapshot) == [levels |-> TrueLevels(snapshot), best |-> RecomputeBest(TrueLevels(snapshot)),
                     id |-> snapshot]

\* _apply_side: a new price above the best one becomes the best; the whole side is read
\* again only when the best price was deleted or has gone.
ApplySide(book, levels) ==
    LET after == [p \in Prices |-> IF p \in DOMAIN levels THEN levels[p] ELSE book.levels[p]]
        added == {p \in DOMAIN levels : levels[p] > 0 /\ p > book.best}
        raised == IF added = {} THEN book.best ELSE Max(added)
        deleted == \E p \in DOMAIN levels : levels[p] = 0 /\ p = book.best
    IN  [levels |-> after,
         best |-> IF deleted \/ raised \notin PricesIn(after) THEN RecomputeBest(after) ELSE raised]

Apply(book, event) == [levels |-> ApplySide(book, LevelsOf(event)).levels,
                       best |-> ApplySide(book, LevelsOf(event)).best, id |-> event.u]

(***************************************************************************)
(* LocalBookReconstructor.                                                 *)
(***************************************************************************)
NoBook == [levels |-> NoLevels, best |-> 0, id |-> -1]

\* Of the unreliable intervals only the latest is ever read again.
NoInterval == [last |-> 0, first |-> 0, ended |-> 0]

NewReconstructor == [state |-> "BUFFERING", buffer |-> <<>>, book |-> NoBook, overflowed |-> FALSE,
                     interval |-> NoInterval]

RcInit ==
    /\ market \in {"spot", "usdm"}
    /\ changes = <<>> /\ sent = <<>> /\ kept = {} /\ restarts = 0
    /\ lbr = NewReconstructor

\* The mutant lets a Spot event start one change too late.
FollowsLoosely(book, event) ==
    IF market = "spot" THEN event.U <= book.id + 2 ELSE event.pu = book.id

\* The sequence rule of a live event: Spot compares U, USD-M compares pu.
Follows(book, event) ==
    IF market = "spot" THEN event.U <= book.id + 1 ELSE event.pu = book.id

\* _mark_gap
MarkGap(r, event) ==
    [r EXCEPT !.state = "RESYNC_REQUIRED", !.buffer = <<event>>,
              !.interval = [last |-> r.book.id, first |-> event.U, ended |-> -1]]

\* _apply_live: what is already covered changes nothing.
ApplyLive(r, event) ==
    IF event.u <= r.book.id THEN r
    ELSE IF Follows(r.book, event) THEN [r EXCEPT !.book = Apply(@, event)]
    ELSE MarkGap(r, event)

\* offer before the book is synchronised: the bounded buffer.
Buffered(r, event) ==
    IF r.overflowed THEN r
    ELSE IF Len(r.buffer) >= BufferCap THEN [r EXCEPT !.buffer = <<>>, !.overflowed = TRUE]
    ELSE [r EXCEPT !.buffer = Append(@, event)]

Offer(event) ==
    /\ lbr' = IF lbr.state = "SYNCHRONIZED" THEN ApplyLive(lbr, event) ELSE Buffered(lbr, event)
    /\ UNCHANGED <<market, changes, sent, kept, restarts>>

\* The first change that the bridging event must contain.
BootstrapTarget(snapshot) == IF market = "spot" THEN snapshot + 1 ELSE snapshot

\* _close_unreliable_interval
CloseInterval(r) ==
    IF r.interval.ended = -1 THEN [r EXCEPT !.interval.ended = r.book.id] ELSE r

\* The rest of the candidates is applied until one leaves a gap; those behind it stay.
ApplyOrKeep(r, event) ==
    IF r.state = "SYNCHRONIZED" THEN ApplyLive(r, event)
    ELSE [r EXCEPT !.buffer = Append(@, event)]

ApplyRest(r, events) ==
    LET done[i \in 0..Len(events)] ==
            IF i = 0 THEN r ELSE ApplyOrKeep(done[i - 1], events[i])
    IN  done[Len(events)]

\* The buffered events that reach the target, in order.
StillNeeded(events, target) ==
    LET found[i \in 0..Len(events)] ==
            IF i = 0 THEN <<>>
            ELSE IF events[i].u >= target THEN Append(found[i - 1], events[i]) ELSE found[i - 1]
    IN  found[Len(events)]

Synchronized(r, snapshot) ==
    LET target == BootstrapTarget(snapshot)
        candidates == StillNeeded(r.buffer, target)
        bridged == [r EXCEPT !.state = "SYNCHRONIZED", !.buffer = <<>>, !.overflowed = FALSE,
                             !.book = Apply(BookOf(snapshot), candidates[1])]
        result == ApplyRest(bridged, Tail(candidates))
    IN  IF r.buffer = <<>> THEN r
        ELSE IF candidates = <<>> THEN [r EXCEPT !.buffer = <<>>]
        ELSE IF candidates[1].U > target THEN r
        ELSE IF result.state = "SYNCHRONIZED" /\ r.state = "RESYNC_REQUIRED"
        THEN CloseInterval(result) ELSE result

\* synchronize, with a snapshot that may be old.  The book of a synchronised
\* reconstructor has no buffer and stays.
Synchronize(snapshot) ==
    /\ lbr' = Synchronized(lbr, snapshot)
    /\ lbr' # lbr
    /\ UNCHANGED <<market, changes, sent, kept, restarts>>

RestartBootstrap ==
    /\ restarts < MaxRestarts
    /\ restarts' = restarts + 1
    /\ lbr' = [NewReconstructor EXCEPT !.interval = lbr.interval]
    /\ UNCHANGED <<market, changes, sent, kept>>

\* OrderBookCheckpointStore.save refuses a book that is not reliable; the mapping that
\* it stores has no cached price.
SaveBook ==
    /\ lbr.state = "SYNCHRONIZED" /\ kept = {}
    /\ kept' = {[levels |-> lbr.book.levels, id |-> lbr.book.id, interval |-> lbr.interval]}
    /\ UNCHANGED <<market, changes, sent, lbr, restarts>>

\* restore and from_checkpoint, in a new process.
RestoreBook(c) ==
    /\ restarts < MaxRestarts
    /\ restarts' = restarts + 1
    /\ lbr' = [NewReconstructor EXCEPT !.state = "SYNCHRONIZED", !.interval = c.interval,
                 !.book = [levels |-> c.levels, best |-> RecomputeBest(c.levels), id |-> c.id]]
    /\ UNCHANGED <<market, changes, sent, kept>>

RcNext ==
    \/ \E n \in 1..2 : \E batch \in [1..n -> Changes] : ExchangeSends(batch)
    \/ \E k \in DOMAIN sent : Offer(sent[k])
    \/ \E snapshot \in 0..Len(changes) : Synchronize(snapshot)
    \/ RestartBootstrap \/ SaveBook
    \/ \E c \in kept : RestoreBook(c)

RcSpec == RcInit /\ [][RcNext]_rcvars

\* compare_book_ticker: what the exchange says of its best price at one change.
Comparison(book, n) ==
    IF n < book.id THEN "STALE" ELSE IF n > book.id THEN "AHEAD"
    ELSE IF RecomputeBest(TrueLevels(n)) = book.best THEN "MATCH" ELSE "MISMATCH"

(***************************************************************************)
(* Properties.                                                             *)
(***************************************************************************)
\* While the reconstructor says that its book is reliable, the book is the one the
\* exchange had after the change it names: no event was left out, whichever were lost,
\* repeated, late or cut off by a full buffer, before or after a restored checkpoint, and
\* a ticker of that change agrees with the cached best price (offer, synchronize,
\* _apply_live, _apply_side, restore, compare_book_ticker).
BookIsTrue ==
    lbr.state = "SYNCHRONIZED" =>
        /\ lbr.book.levels = TrueLevels(lbr.book.id)
        /\ Comparison(lbr.book, lbr.book.id) = "MATCH"

=============================================================================
