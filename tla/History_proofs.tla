--------------------------- MODULE History_proofs ---------------------------
(* Theorems about the local order book, Reconstructor, the history import,   *)
(* Backfill, and the reconnect audit, BoundaryAudit: a reliable book is the  *)
(* exchange's, an import accounts for each day once, from the official       *)
(* bytes, and an audit made in increments says what one audit of all says.   *)
(* They compute by recursion over a sequence or a calendar; CountingUp is    *)
(* the induction that such definitions are reasoned about with.              *)
EXTENDS Reconstructor, Backfill, BoundaryAudit, FiniteSetTheorems, NaturalsInduction,
        WellFoundedInduction, SequenceTheorems, TLAPS

(* Induction up to a number: no i is the first that is not in the set. *)
LEMMA CountingUp ==
    ASSUME NEW n \in Nat, NEW S, 0 \in S, \A i \in 1..n : i - 1 \in S => i \in S
    PROVE  \A i \in 0..n : i \in S
<1> DEFINE Off == {i \in 0..n : i \notin S}
<1>1. SUFFICES ASSUME Off # {} PROVE FALSE
    OBVIOUS
<1>2. Off \subseteq Nat
    OBVIOUS
<1>3. PICK i \in Off : \A k \in Off : ~(<<k, i>> \in OpToRel(<, Nat))
    BY <1>1, <1>2, NatLessThanWellFounded, WFMin
<1>4. \A k \in Off : i <= k
    <2> SUFFICES ASSUME NEW k \in Off PROVE i <= k
        OBVIOUS
    <2>1. <<k, i>> \in Nat \X Nat /\ ~(<<k, i>>[1] < <<k, i>>[2])
        BY <1>2, <1>3 DEF OpToRel
    <2> QED
        BY <2>1
<1>5. i \in 1..n /\ i - 1 \in 0..n /\ ~(i <= i - 1)
    OBVIOUS
<1>6. i - 1 \in S
    BY <1>4, <1>5
<1> QED
    BY <1>5, <1>6

(* Maxima of bounded sets of numbers. *)

\* Max is the greatest element of a set that has one.
LEMMA GreatestIsMax ==
    ASSUME NEW S \in SUBSET Nat, NEW m \in S, \A y \in S : y <= m
    PROVE  Max(S) = m
<1>1. /\ Max(S) \in S
      /\ \A y \in S : Max(S) >= y
    BY DEF Max
<1>2. Max(S) \in Nat /\ m \in Nat /\ Max(S) >= m /\ Max(S) <= m
    BY <1>1
<1> QED
    BY <1>2

\* A bounded set of numbers has a greatest element.
LEMMA MaxOfBounded ==
    ASSUME NEW S \in SUBSET Nat, S # {}, NEW B \in Nat, \A y \in S : y <= B
    PROVE  Max(S) \in S /\ \A y \in S : y <= Max(S)
<1> DEFINE Room == {B - x : x \in S}
<1>1. Room \subseteq Nat /\ Room # {}
    <2>1. \A x \in S : x \in Nat /\ x <= B /\ B - x \in Nat
        OBVIOUS
    <2> QED
        BY <2>1
<1>2. PICK n \in Room : \A k \in Room : ~(<<k, n>> \in OpToRel(<, Nat))
    BY <1>1, NatLessThanWellFounded, WFMin
<1>3. \A k \in Room : n <= k
    <2> SUFFICES ASSUME NEW k \in Room PROVE n <= k
        OBVIOUS
    <2>1. <<k, n>> \in Nat \X Nat /\ ~(<<k, n>>[1] < <<k, n>>[2])
        BY <1>1, <1>2 DEF OpToRel
    <2> QED
        BY <2>1
<1>4. PICK m \in S : n = B - m
    OBVIOUS
<1>5. \A y \in S : y <= m
    <2> SUFFICES ASSUME NEW y \in S PROVE y <= m
        OBVIOUS
    <2>1. B - y \in Room /\ y \in Nat /\ m \in Nat
        OBVIOUS
    <2>2. n <= B - y
        BY <1>3, <2>1
    <2> QED
        BY <1>4, <2>1, <2>2
<1> QED
    BY <1>5, GreatestIsMax

-----------------------------------------------------------------------------
(* The exchange's changes and what is true after them. *)

\* The changes are numbered and touch a price of the book.
ChangesOK == market \in {"spot", "usdm"} /\ changes \in Seq(Changes)

\* Of the events, that they hold whole changes and name what preceded them.
Events ==
    {e \in [U : Nat, u : Nat, pu : Nat] :
        1 <= e.U /\ e.U <= e.u /\ e.u <= Len(changes) /\ e.pu = e.U - 1}

Moments == 0..Len(changes)

ChangedLevels(n, p) == {i \in 1..n : changes[i].price = p}

LEMMA ChangeTypes ==
    ASSUME ChangesOK
    PROVE  /\ Len(changes) \in Nat /\ Moments \subseteq Nat
           /\ \A i \in 1..Len(changes) :
                changes[i].price \in Prices /\ changes[i].quantity \in 0..1
           /\ \A p \in Prices : p \in Nat /\ p > 0
<1>1. \A i \in 1..Len(changes) : changes[i] \in Changes
    BY DEF ChangesOK
<1>2. Len(changes) \in Nat
    BY DEF ChangesOK
<1> QED
    BY <1>1, <1>2, ReconstructorAssumption DEF Changes, Moments

LEMMA TrueLevelsPlainly ==
    ASSUME NEW n, NEW p \in Prices
    PROVE  /\ TrueLevels(n)[p] = IF ChangedLevels(n, p) = {} THEN 0
                                  ELSE changes[Max(ChangedLevels(n, p))].quantity
           /\ DOMAIN TrueLevels(n) = Prices
BY DEF TrueLevels, ChangedLevels

\* After every number of changes each price has a quantity.
LEMMA TrueLevelsTyped ==
    ASSUME ChangesOK, NEW n \in Moments
    PROVE  TrueLevels(n) \in [Prices -> Nat]
<1> USE ChangeTypes
<1>1. SUFFICES ASSUME NEW p \in Prices PROVE TrueLevels(n)[p] \in Nat
    BY DEF TrueLevels
<1>2. CASE ChangedLevels(n, p) = {}
    BY <1>2, TrueLevelsPlainly
<1>3. CASE ChangedLevels(n, p) # {}
    <2>1. ChangedLevels(n, p) \in SUBSET Nat /\ \A i \in ChangedLevels(n, p) : i <= n
        BY DEF ChangedLevels, Moments
    <2>2. Max(ChangedLevels(n, p)) \in ChangedLevels(n, p)
        BY <1>3, <2>1, MaxOfBounded DEF Moments
    <2>3. Max(ChangedLevels(n, p)) \in 1..Len(changes)
        BY <2>2 DEF ChangedLevels, Moments
    <2> QED
        BY <1>3, <2>3, TrueLevelsPlainly
<1> QED
    BY <1>2, <1>3

\* A price that no change touched keeps its quantity.
LEMMA UntouchedStays ==
    ASSUME ChangesOK, NEW n \in Moments, NEW k \in 0..n, NEW p \in Prices,
           \A i \in (k + 1)..n : changes[i].price # p
    PROVE  TrueLevels(k)[p] = TrueLevels(n)[p]
<1>1. ChangedLevels(k, p) = ChangedLevels(n, p)
    BY DEF ChangedLevels, Moments
<1> QED
    BY <1>1, TrueLevelsPlainly

\* The prices ever touched are bounded: there is no first n at which they are not.
LEMMA PricesAreBounded ==
    ASSUME ChangesOK
    PROVE  \E B \in Nat : \A i \in 1..Len(changes) : changes[i].price <= B
<1> DEFINE Bounded == {n \in Moments : \E B \in Nat : \A i \in 1..n : changes[i].price <= B}
<1>1. 0 \in Bounded
    BY ChangeTypes DEF Moments
<1>2. ASSUME NEW n \in 1..Len(changes), n - 1 \in Bounded
      PROVE  n \in Bounded
    <2>1. PICK B \in Nat : \A i \in 1..(n - 1) : changes[i].price <= B
        BY <1>2
    <2>2. changes[n].price \in Nat /\ B + changes[n].price \in Nat
        <3>1. changes[n].price \in Nat
            BY ChangeTypes
        <3> QED
            BY <3>1
    <2>3. \A i \in 1..n : changes[i].price <= B + changes[n].price
        <3> SUFFICES ASSUME NEW i \in 1..n PROVE changes[i].price <= B + changes[n].price
            OBVIOUS
        <3>1. i \in 1..Len(changes)
            BY ChangeTypes
        <3>2. changes[i].price \in Nat
            BY <3>1, ChangeTypes
        <3>3. i = n \/ i \in 1..(n - 1)
            BY <3>1
        <3>4. changes[i].price <= B \/ changes[i].price = changes[n].price
            BY <2>1, <3>3
        <3> HIDE <2>1
        <3> QED
            BY <2>2, <3>2, <3>4
    <2>4. n \in Moments
        BY ChangeTypes DEF Moments
    <2> QED
        BY <2>2, <2>3, <2>4
<1> HIDE DEF Bounded
<1>3. \A n \in 0..Len(changes) : n \in Bounded
    BY <1>1, <1>2, ChangeTypes, CountingUp
<1>4. Len(changes) \in Bounded
    BY <1>3, ChangeTypes
<1> QED
    BY <1>4 DEF Bounded

\* Only prices that were touched have a quantity.
LEMMA HeldPricesAreBounded ==
    ASSUME ChangesOK, NEW B \in Nat, \A i \in 1..Len(changes) : changes[i].price <= B,
           NEW n \in Moments
    PROVE  /\ PricesIn(TrueLevels(n)) \in SUBSET Nat
           /\ \A y \in PricesIn(TrueLevels(n)) : y <= B
<1> SUFFICES ASSUME NEW y \in PricesIn(TrueLevels(n)) PROVE y \in Nat /\ y <= B
    OBVIOUS
<1>1. y \in Prices /\ y \in Nat /\ TrueLevels(n)[y] > 0
    BY ChangeTypes DEF PricesIn
<1>2. ChangedLevels(n, y) # {}
    BY <1>1, TrueLevelsPlainly
<1>3. PICK i \in 1..n : changes[i].price = y
    BY <1>2 DEF ChangedLevels
<1>4. i \in 1..Len(changes)
    BY ChangeTypes DEF Moments
<1> QED
    BY <1>1, <1>3, <1>4

-----------------------------------------------------------------------------
(* A book that is true, and what an event makes of it. *)

TrueBook(b) ==
    /\ b.id \in Moments
    /\ b.levels = TrueLevels(b.id)
    /\ b.best = RecomputeBest(b.levels)

\* The event covers the change behind the book's, if it goes beyond the book.
Reaches(b, e) == e.U <= b.id + 1 /\ b.id <= e.u

After(b, e) == [p \in Prices |-> IF p \in DOMAIN LevelsOf(e) THEN LevelsOf(e)[p] ELSE b.levels[p]]

\* The levels of such an event, laid over the book, are the true ones.
LEMMA LevelsStayTrue ==
    ASSUME ChangesOK, NEW b, TrueBook(b), NEW e \in Events, Reaches(b, e)
    PROVE  After(b, e) = TrueLevels(e.u) /\ e.u \in Moments
<1>1. /\ e.U \in Nat /\ e.u \in Nat /\ 1 <= e.U /\ e.U <= e.u /\ e.u <= Len(changes)
      /\ Len(changes) \in Nat
    BY ChangeTypes DEF Events
<1>2. e.u \in Moments /\ b.id \in 0..e.u
    BY <1>1 DEF Moments, Reaches, TrueBook
<1>3. \A p \in Prices : After(b, e)[p] = TrueLevels(e.u)[p]
    <2> SUFFICES ASSUME NEW p \in Prices PROVE After(b, e)[p] = TrueLevels(e.u)[p]
        OBVIOUS
    <2>1. CASE p \in DOMAIN LevelsOf(e)
        BY <2>1 DEF After, LevelsOf
    <2>2. CASE p \notin DOMAIN LevelsOf(e)
        <3>1. \A i \in e.U..e.u : changes[i].price # p
            BY <2>2 DEF LevelsOf
        <3>2. \A i \in (b.id + 1)..e.u : i \in e.U..e.u
            BY <1>1, <1>2 DEF Reaches
        <3>3. TrueLevels(b.id)[p] = TrueLevels(e.u)[p]
            BY <1>2, <3>1, <3>2, UntouchedStays
        <3> QED
            BY <2>2, <3>3 DEF After, TrueBook
    <2> QED
        BY <2>1, <2>2
<1> QED
    BY <1>2, <1>3 DEF After, TrueLevels

\* The best price of what is true is the greatest price with a quantity, if there is one.
LEMMA BestOfTrue ==
    ASSUME ChangesOK, NEW n \in Moments
    PROVE  /\ RecomputeBest(TrueLevels(n)) \in Nat
           /\ \A y \in PricesIn(TrueLevels(n)) : y <= RecomputeBest(TrueLevels(n))
<1> DEFINE held == PricesIn(TrueLevels(n))
<1>1. PICK B \in Nat : \A i \in 1..Len(changes) : changes[i].price <= B
    BY PricesAreBounded
<1>2. held \in SUBSET Nat /\ \A y \in held : y <= B
    BY <1>1, HeldPricesAreBounded
<1> HIDE DEF held
<1>3. CASE held = {}
    BY <1>3 DEF RecomputeBest, held
<1>4. CASE held # {}
    <2>1. Max(held) \in held /\ \A y \in held : y <= Max(held)
        BY <1>2, <1>4, MaxOfBounded
    <2>2. RecomputeBest(TrueLevels(n)) = Max(held)
        BY <1>4 DEF RecomputeBest, held
    <2> QED
        BY <1>2, <2>1, <2>2 DEF held
<1> QED
    BY <1>3, <1>4

\* A raised best price that has a quantity is the greatest one.
LEMMA BestStaysTrue ==
    ASSUME ChangesOK, NEW b, TrueBook(b), NEW e \in Events, Reaches(b, e)
    PROVE  ApplySide(b, LevelsOf(e)).best = RecomputeBest(TrueLevels(e.u))
<1> DEFINE levels == LevelsOf(e)
           after == After(b, e)
           added == {p \in DOMAIN levels : levels[p] > 0 /\ p > b.best}
           raised == IF added = {} THEN b.best ELSE Max(added)
           deleted == \E p \in DOMAIN levels : levels[p] = 0 /\ p = b.best
<1>1. after = TrueLevels(e.u) /\ e.u \in Moments
    BY LevelsStayTrue
<1>2. ApplySide(b, levels).best =
          IF deleted \/ raised \notin PricesIn(after) THEN RecomputeBest(after) ELSE raised
    BY DEF ApplySide, After
<1>3. SUFFICES ASSUME raised \in PricesIn(after) PROVE raised = RecomputeBest(after)
    BY <1>1, <1>2
<1>4. b.best \in Nat /\ \A y \in PricesIn(b.levels) : y <= b.best
    BY BestOfTrue DEF TrueBook
<1>5. PICK B \in Nat : \A i \in 1..Len(changes) : changes[i].price <= B
    BY PricesAreBounded
<1>6. DOMAIN levels \subseteq Prices /\ \A p \in DOMAIN levels : p \in Nat /\ p <= B
    <2> SUFFICES ASSUME NEW p \in DOMAIN levels PROVE p \in Prices /\ p \in Nat /\ p <= B
        OBVIOUS
    <2>1. PICK i \in e.U..e.u : changes[i].price = p
        BY DEF LevelsOf
    <2>2. i \in 1..Len(changes)
        BY ChangeTypes DEF Events
    <2> QED
        BY <1>5, <2>1, <2>2, ChangeTypes
<1>7. added \in SUBSET Nat /\ \A p \in added : p <= B
    BY <1>6
<1>8. added # {} => Max(added) \in added /\ \A p \in added : p <= Max(added)
    <2> HIDE DEF added
    <2> QED
        BY <1>7, MaxOfBounded
<1>9. b.best <= raised /\ \A p \in added : p <= raised
    BY <1>4, <1>6, <1>8
<1>10. PricesIn(after) \in SUBSET Nat
    BY <1>1, <1>5, HeldPricesAreBounded
<1>11. \A y \in PricesIn(after) : y <= raised
    <2> SUFFICES ASSUME NEW y \in PricesIn(after) PROVE y <= raised
        OBVIOUS
    <2>1. y \in Prices /\ after[y] > 0 /\ y \in Nat /\ raised \in Nat
        BY <1>3, <1>10 DEF PricesIn
    <2>2. CASE y \in DOMAIN levels
        <3>1. levels[y] > 0
            BY <2>1, <2>2 DEF After
        <3>2. CASE y > b.best
            <4>1. y \in added
                BY <2>2, <3>1, <3>2
            <4> QED
                BY <1>9, <4>1
        <3>3. CASE ~(y > b.best)
            <4> HIDE DEF raised
            <4> QED
                BY <1>4, <1>9, <2>1, <3>3
        <3> QED
            BY <3>2, <3>3
    <2>3. CASE y \notin DOMAIN levels
        <3>1. b.levels[y] > 0
            BY <2>1, <2>3 DEF After
        <3>2. y \in PricesIn(b.levels)
            BY <2>1, <3>1 DEF PricesIn
        <3>3. y <= b.best
            BY <1>4, <3>2
        <3> HIDE DEF raised
        <3> QED
            BY <1>4, <1>9, <2>1, <3>3
    <2> QED
        BY <2>2, <2>3
<1>12. Max(PricesIn(after)) = raised
    <2> HIDE DEF raised, after
    <2> QED
        BY <1>3, <1>10, <1>11, GreatestIsMax
<1> QED
    BY <1>3, <1>12 DEF RecomputeBest

\* So an event that reaches makes a true book a true one.
LEMMA ApplyKeepsTruth ==
    ASSUME ChangesOK, NEW b, TrueBook(b), NEW e \in Events, Reaches(b, e)
    PROVE  TrueBook(Apply(b, e))
<1>1. ApplySide(b, LevelsOf(e)).levels = After(b, e)
    BY DEF ApplySide, After
<1>2. After(b, e) = TrueLevels(e.u) /\ e.u \in Moments
    BY LevelsStayTrue
<1> QED
    BY <1>1, <1>2, BestStaysTrue DEF Apply, TrueBook

\* A snapshot is a true book.
LEMMA SnapshotIsTrue ==
    ASSUME NEW n \in Moments
    PROVE  TrueBook(BookOf(n))
BY DEF TrueBook, BookOf


-----------------------------------------------------------------------------
(* The reconstructor. *)

Books == [levels : [Prices -> Nat], best : Nat, id : Int]
Intervals == [last : Int, first : Int, ended : Int]

Reconstructors ==
    [state : {"BUFFERING", "SYNCHRONIZED", "RESYNC_REQUIRED"}, buffer : Seq(Events),
     book : Books, overflowed : BOOLEAN, interval : Intervals]

\* What every operation keeps: a reconstructor that is synchronised has a true book and
\* nothing in its buffer.
Sound(r) ==
    /\ r \in Reconstructors
    /\ r.state = "SYNCHRONIZED" => TrueBook(r.book) /\ r.buffer = << >>

LEMMA TrueBooksAreTyped ==
    ASSUME ChangesOK, NEW b, b = [levels |-> b.levels, best |-> b.best, id |-> b.id], TrueBook(b)
    PROVE  b \in Books
<1>1. b.id \in Moments /\ b.id \in Int
    BY ChangeTypes DEF TrueBook
<1>2. b.levels \in [Prices -> Nat] /\ b.best \in Nat
    BY <1>1, TrueLevelsTyped, BestOfTrue DEF TrueBook
<1> QED
    BY <1>1, <1>2 DEF Books

LEMMA AppliedBook ==
    ASSUME ChangesOK, NEW b, TrueBook(b), NEW e \in Events, Reaches(b, e)
    PROVE  Apply(b, e) \in Books /\ TrueBook(Apply(b, e))
<1> DEFINE c == Apply(b, e)
<1>1. TrueBook(c)
    BY ApplyKeepsTruth
<1>2. c = [levels |-> c.levels, best |-> c.best, id |-> c.id]
    BY DEF Apply
<1> HIDE DEF c
<1>3. c \in Books
    BY <1>1, <1>2, TrueBooksAreTyped
<1> QED
    BY <1>1, <1>3 DEF c

\* _apply_live keeps it: an event that follows the book reaches, any other is not applied.
LEMMA ApplyLiveIsSound ==
    ASSUME ChangesOK, NEW r, Sound(r), r.state = "SYNCHRONIZED", NEW e \in Events
    PROVE  Sound(ApplyLive(r, e))
<1>1. r \in Reconstructors /\ TrueBook(r.book)
    BY DEF Sound
<1>2. /\ e.U \in Nat /\ e.u \in Nat /\ e.pu = e.U - 1 /\ r.book.id \in Nat
      /\ market = "spot" \/ market = "usdm"
    BY <1>1, ChangeTypes DEF Events, TrueBook, ChangesOK
<1>3. CASE e.u <= r.book.id
    BY <1>3 DEF ApplyLive
<1>4. CASE ~(e.u <= r.book.id) /\ Follows(r.book, e)
    <2>1. Reaches(r.book, e)
        BY <1>2, <1>4 DEF Follows, Reaches
    <2>2. Apply(r.book, e) \in Books /\ TrueBook(Apply(r.book, e))
        BY <1>1, <2>1, AppliedBook
    <2>3. ApplyLive(r, e) = [r EXCEPT !.book = Apply(r.book, e)]
        BY <1>4 DEF ApplyLive
    <2> QED
        BY <1>1, <2>2, <2>3 DEF Sound, Reconstructors
<1>5. CASE ~(e.u <= r.book.id) /\ ~Follows(r.book, e)
    <2> DEFINE gap == [last |-> r.book.id, first |-> e.U, ended |-> -1]
    <2>1. gap \in Intervals /\ <<e>> \in Seq(Events)
        BY <1>2 DEF Intervals
    <2>2. ApplyLive(r, e) =
              [r EXCEPT !.state = "RESYNC_REQUIRED", !.buffer = <<e>>, !.interval = gap]
        BY <1>5 DEF ApplyLive, MarkGap
    <2> HIDE DEF gap
    <2> QED
        BY <1>1, <2>1, <2>2 DEF Sound, Reconstructors
<1> QED
    BY <1>3, <1>4, <1>5

LEMMA ApplyOrKeepIsSound ==
    ASSUME ChangesOK, NEW r, Sound(r), NEW e \in Events
    PROVE  Sound(ApplyOrKeep(r, e))
<1>1. CASE r.state = "SYNCHRONIZED"
    BY <1>1, ApplyLiveIsSound DEF ApplyOrKeep
<1>2. CASE r.state # "SYNCHRONIZED"
    <2>1. ApplyOrKeep(r, e) = [r EXCEPT !.buffer = Append(r.buffer, e)]
        BY <1>2 DEF ApplyOrKeep
    <2>2. r \in Reconstructors /\ Append(r.buffer, e) \in Seq(Events)
        BY DEF Sound, Reconstructors
    <2> QED
        BY <1>2, <2>1, <2>2 DEF Sound, Reconstructors
<1> QED
    BY <1>1, <1>2

\* The candidates are applied one after the other.
IsDone(d, r, events, n) ==
    d = [i \in 0..n |-> IF i = 0 THEN r ELSE ApplyOrKeep(d[i - 1], events[i])]

LEMMA DoneExists ==
    ASSUME NEW r, NEW events, NEW n \in Nat
    PROVE  \E d : IsDone(d, r, events, n)
<1> DEFINE Reached == {k \in 0..n : \E d : IsDone(d, r, events, k)}
<1>1. 0 \in Reached
    <2> DEFINE d == [i \in 0..0 |-> r]
    <2>1. IsDone(d, r, events, 0)
        BY DEF IsDone
    <2> QED
        BY <2>1
<1>2. ASSUME NEW k \in 1..n, k - 1 \in Reached
      PROVE  k \in Reached
    <2>1. PICK d : IsDone(d, r, events, k - 1)
        BY <1>2
    <2> DEFINE g == [i \in 0..k |-> IF i = k THEN ApplyOrKeep(d[k - 1], events[k]) ELSE d[i]]
    <2>2. ASSUME NEW i \in 0..k
          PROVE  g[i] = IF i = 0 THEN r ELSE ApplyOrKeep(g[i - 1], events[i])
        <3>1. CASE i = k
            <4>1. k # 0 /\ k - 1 \in 0..k /\ k - 1 # k
                OBVIOUS
            <4> QED
                BY <3>1, <4>1
        <3>2. CASE i # k
            <4>1. i \in 0..(k - 1)
                BY <3>2
            <4>2. d[i] = IF i = 0 THEN r ELSE ApplyOrKeep(d[i - 1], events[i])
                BY <2>1, <4>1 DEF IsDone
            <4>3. i # 0 => i - 1 \in 0..k /\ i - 1 # k
                BY <4>1
            <4> QED
                BY <3>2, <4>2, <4>3
        <3> QED
            BY <3>1, <3>2
    <2>3. IsDone(g, r, events, k)
        BY <2>2 DEF IsDone
    <2> HIDE DEF g
    <2> QED
        BY <2>3
<1> HIDE DEF Reached
<1>3. n \in Reached
    BY <1>1, <1>2, CountingUp
<1> QED
    BY <1>3 DEF Reached

LEMMA ApplyRestIsSound ==
    ASSUME ChangesOK, NEW r, Sound(r), NEW events \in Seq(Events)
    PROVE  Sound(ApplyRest(r, events))
<1> DEFINE n == Len(events)
           d == CHOOSE f : IsDone(f, r, events, n)
           Fine == {i \in 0..n : Sound(d[i])}
<1>1. n \in Nat /\ \A i \in 1..n : events[i] \in Events
    OBVIOUS
<1>2. IsDone(d, r, events, n)
    BY <1>1, DoneExists
<1>3. ApplyRest(r, events) = d[n]
    BY DEF ApplyRest, IsDone
<1> HIDE DEF d
<1>4. 0 \in Fine
    BY <1>1, <1>2 DEF IsDone
<1>5. ASSUME NEW i \in 1..n, i - 1 \in Fine
      PROVE  i \in Fine
    <2>1. d[i] = ApplyOrKeep(d[i - 1], events[i])
        BY <1>1, <1>2 DEF IsDone
    <2>2. Sound(d[i])
        BY <1>1, <1>5, <2>1, ApplyOrKeepIsSound
    <2> QED
        BY <2>2
<1>6. n \in Nat
    BY <1>1
<1> HIDE DEF Fine, n
<1>7. \A i \in 1..n : i - 1 \in Fine => i \in Fine
    BY <1>5
<1>8. n \in 0..n
    BY <1>6
<1>9. n \in Fine
    BY ONLY <1>4, <1>6, <1>7, <1>8, CountingUp
<1> QED
    BY <1>3, <1>9 DEF Fine


\* The candidates of a buffer are events of it that reach the target.
IsFound(d, events, target, n) ==
    d = [i \in 0..n |->
            IF i = 0 THEN << >>
            ELSE IF events[i].u >= target THEN Append(d[i - 1], events[i]) ELSE d[i - 1]]

LEMMA FoundExists ==
    ASSUME NEW events, NEW target, NEW n \in Nat
    PROVE  \E d : IsFound(d, events, target, n)
<1> DEFINE Next1(s, i) == IF events[i].u >= target THEN Append(s, events[i]) ELSE s
           Reached == {k \in 0..n : \E d : IsFound(d, events, target, k)}
<1>1. 0 \in Reached
    <2> DEFINE d == [i \in 0..0 |-> << >>]
    <2>1. IsFound(d, events, target, 0)
        BY DEF IsFound
    <2> QED
        BY <2>1
<1>2. ASSUME NEW k \in 1..n, k - 1 \in Reached
      PROVE  k \in Reached
    <2>1. PICK d : IsFound(d, events, target, k - 1)
        BY <1>2
    <2> DEFINE g == [i \in 0..k |-> IF i = k THEN Next1(d[k - 1], k) ELSE d[i]]
    <2>2. ASSUME NEW i \in 0..k
          PROVE  g[i] = IF i = 0 THEN << >> ELSE Next1(g[i - 1], i)
        <3>1. CASE i = k
            <4> HIDE DEF Next1
            <4>1. k # 0 /\ k - 1 \in 0..k /\ k - 1 # k
                OBVIOUS
            <4> QED
                BY <3>1, <4>1
        <3>2. CASE i # k
            <4>1. i \in 0..(k - 1)
                BY <3>2
            <4>2. d[i] = IF i = 0 THEN << >> ELSE Next1(d[i - 1], i)
                BY <2>1, <4>1 DEF IsFound
            <4>3. i # 0 => i - 1 \in 0..k /\ i - 1 # k
                BY <4>1
            <4> HIDE DEF Next1
            <4> QED
                BY <3>2, <4>2, <4>3
        <3> QED
            BY <3>1, <3>2
    <2>3. g = [i \in 0..k |-> IF i = 0 THEN << >> ELSE Next1(g[i - 1], i)]
        <3> HIDE DEF Next1
        <3> QED
            BY <2>2
    <2>4. IsFound(g, events, target, k)
        BY <2>3 DEF IsFound
    <2> HIDE DEF g
    <2> QED
        BY <2>4
<1> HIDE DEF Reached
<1>3. n \in Reached
    BY <1>1, <1>2, CountingUp
<1> QED
    BY <1>3 DEF Reached

LEMMA CandidatesReach ==
    ASSUME NEW events \in Seq(Events), NEW target
    PROVE  StillNeeded(events, target) \in Seq({e \in Events : e.u >= target})
<1> DEFINE n == Len(events)
           Wanted == {e \in Events : e.u >= target}
           d == CHOOSE f : IsFound(f, events, target, n)
           Fine == {i \in 0..n : d[i] \in Seq(Wanted)}
<1>1. n \in Nat /\ \A i \in 1..n : events[i] \in Events
    OBVIOUS
<1>2. IsFound(d, events, target, n)
    BY <1>1, FoundExists
<1>3. StillNeeded(events, target) = d[n]
    BY DEF StillNeeded, IsFound
<1> HIDE DEF d
<1>4. 0 \in Fine
    BY <1>1, <1>2 DEF IsFound
<1>5. ASSUME NEW i \in 1..n, i - 1 \in Fine
      PROVE  i \in Fine
    <2>1. d[i] = IF events[i].u >= target THEN Append(d[i - 1], events[i]) ELSE d[i - 1]
        <3>1. i \in 0..n /\ i # 0
            BY <1>1
        <3> HIDE DEF n
        <3> QED
            BY <1>2, <3>1 DEF IsFound
    <2>2. d[i - 1] \in Seq(Wanted) /\ events[i] \in Events
        BY <1>1, <1>5
    <2>3. CASE events[i].u >= target
        <3>1. events[i] \in Wanted
            BY <2>2, <2>3
        <3> HIDE DEF Wanted
        <3>2. Append(d[i - 1], events[i]) \in Seq(Wanted)
            BY <2>2, <3>1
        <3>3. d[i] \in Seq(Wanted)
            BY <2>1, <2>3, <3>2
        <3>4. i \in 0..n
            BY <1>1
        <3> HIDE DEF n
        <3> QED
            BY <3>3, <3>4
    <2>4. CASE ~(events[i].u >= target)
        BY <2>1, <2>2, <2>4
    <2> QED
        BY <2>3, <2>4
<1>6. n \in Nat
    BY <1>1
<1> HIDE DEF Fine, n
<1>7. \A i \in 1..n : i - 1 \in Fine => i \in Fine
    BY <1>5
<1>8. n \in 0..n
    BY <1>6
<1>9. n \in Fine
    BY ONLY <1>4, <1>6, <1>7, <1>8, CountingUp
<1> QED
    BY <1>3, <1>9 DEF Fine

\* _close_unreliable_interval leaves state and book alone.
LEMMA CloseIntervalIsSound ==
    ASSUME NEW r, Sound(r)
    PROVE  Sound(CloseInterval(r))
<1> DEFINE closed == [r.interval EXCEPT !.ended = r.book.id]
<1>1. r \in Reconstructors /\ r.interval \in Intervals /\ r.book.id \in Int
    BY DEF Sound, Reconstructors, Books
<1>2. closed \in Intervals
    BY <1>1 DEF Intervals
<1>3. CloseInterval(r) = IF r.interval.ended = -1 THEN [r EXCEPT !.interval = closed] ELSE r
    BY <1>1 DEF CloseInterval, Reconstructors, Intervals
<1> HIDE DEF closed
<1> QED
    BY <1>1, <1>2, <1>3 DEF Sound, Reconstructors

\* synchronize bridges with an event that reaches the snapshot, and applies the rest.
LEMMA SynchronizedIsSound ==
    ASSUME ChangesOK, NEW r, Sound(r), NEW snapshot \in Moments
    PROVE  Sound(Synchronized(r, snapshot))
<1> DEFINE target == BootstrapTarget(snapshot)
           candidates == StillNeeded(r.buffer, target)
           first == candidates[1]
           book == Apply(BookOf(snapshot), first)
           bridged == [r EXCEPT !.state = "SYNCHRONIZED", !.buffer = << >>, !.overflowed = FALSE,
                                !.book = book]
           result == ApplyRest(bridged, Tail(candidates))
<1>1. r \in Reconstructors /\ r.buffer \in Seq(Events)
    BY DEF Sound, Reconstructors
<1>2. candidates \in Seq({e \in Events : e.u >= target})
    BY <1>1, CandidatesReach
<1>3. ASSUME r.buffer # << >>
      PROVE  Sound([r EXCEPT !.buffer = << >>])
    <2>1. r.state # "SYNCHRONIZED" /\ << >> \in Seq(Events)
        BY <1>3 DEF Sound
    <2> QED
        BY <1>1, <2>1 DEF Sound, Reconstructors
<1>4. ASSUME candidates # << >>, ~(first.U > target)
      PROVE  Sound(result)
    <2>1. first \in Events /\ first.u >= target /\ Tail(candidates) \in Seq(Events)
        <3> HIDE DEF candidates, target
        <3>1. /\ candidates \in Seq(Events) /\ Len(candidates) \in Nat /\ Len(candidates) > 0
              /\ \A i \in 1..Len(candidates) : candidates[i].u >= target
            BY <1>2, <1>4
        <3> QED
            BY <1>4, <3>1
    <2>2. BookOf(snapshot).id = snapshot /\ TrueBook(BookOf(snapshot))
        BY SnapshotIsTrue DEF BookOf
    <2>3. Reaches(BookOf(snapshot), first)
        <3>1. snapshot \in Nat /\ first.U \in Nat /\ first.u \in Nat
            BY <2>1, ChangeTypes DEF Events
        <3>2. target = snapshot \/ target = snapshot + 1
            BY DEF BootstrapTarget
        <3> HIDE DEF target
        <3> QED
            BY <1>4, <2>1, <2>2, <3>1, <3>2 DEF Reaches
    <2>4. book \in Books /\ TrueBook(book)
        BY <2>1, <2>2, <2>3, AppliedBook
    <2>5. Sound(bridged)
        <3>1. << >> \in Seq(Events)
            OBVIOUS
        <3> HIDE DEF book
        <3>2. bridged = [r EXCEPT !.state = "SYNCHRONIZED", !.buffer = << >>,
                                  !.overflowed = FALSE, !.book = book]
            OBVIOUS
        <3>3. bridged \in Reconstructors
            BY <1>1, <2>4, <3>1 DEF Reconstructors
        <3>4. bridged.book = book /\ bridged.buffer = << >>
            BY <1>1 DEF Reconstructors
        <3> HIDE DEF bridged
        <3> QED
            BY <2>4, <3>3, <3>4 DEF Sound
    <2> HIDE DEF bridged, candidates
    <2> QED
        BY <2>1, <2>5, ApplyRestIsSound
<1>5. Synchronized(r, snapshot) =
          IF r.buffer = << >> THEN r
          ELSE IF candidates = << >> THEN [r EXCEPT !.buffer = << >>]
          ELSE IF first.U > target THEN r
          ELSE IF result.state = "SYNCHRONIZED" /\ r.state = "RESYNC_REQUIRED"
          THEN CloseInterval(result) ELSE result
    BY DEF Synchronized
<1> HIDE DEF result, candidates, first, target
<1> QED
    BY <1>3, <1>4, <1>5, CloseIntervalIsSound

-----------------------------------------------------------------------------
(* The inductive invariant of the local order book. *)

KeptBooks == [levels : [Prices -> Nat], id : Moments, interval : Intervals]

RcInv ==
    /\ ChangesOK
    /\ sent \in Seq(Events)
    /\ Sound(lbr)
    /\ \A c \in kept : c \in KeptBooks /\ c.levels = TrueLevels(c.id)

\* What is true of the past does not depend on the changes to come.
LEMMA HistoryStays ==
    ASSUME ChangesOK, NEW batch \in Seq(Changes), changes' = changes \o batch
    PROVE  /\ \A n \in Moments : TrueLevels(n)' = TrueLevels(n)
           /\ Moments \subseteq Moments'
           /\ Events \subseteq Events'
<1>1. /\ Len(changes) \in Nat /\ Len(batch) \in Nat /\ Len(changes') = Len(changes) + Len(batch)
      /\ \A i \in 1..Len(changes) : changes'[i] = changes[i]
    BY DEF ChangesOK
<1>2. ASSUME NEW n \in Moments
      PROVE  TrueLevels(n)' = TrueLevels(n)
    <2>1. \A i \in 1..n : i \in 1..Len(changes)
        BY <1>1, <1>2 DEF Moments
    <2>2. ASSUME NEW p \in Prices
          PROVE  TrueLevels(n)'[p] = TrueLevels(n)[p]
        <3>1. ChangedLevels(n, p)' = ChangedLevels(n, p)
            BY <1>1, <2>1 DEF ChangedLevels
        <3>2. TrueLevels(n)'[p] =
                  IF ChangedLevels(n, p) = {} THEN 0 ELSE changes'[Max(ChangedLevels(n, p))].quantity
            BY <3>1, <2>2 DEF TrueLevels, ChangedLevels
        <3>3. ASSUME ChangedLevels(n, p) # {}
              PROVE  Max(ChangedLevels(n, p)) \in 1..n
            <4>1. ChangedLevels(n, p) \in SUBSET Nat /\ (\A i \in ChangedLevels(n, p) : i <= n) /\ n \in Nat
                BY <1>1, <1>2 DEF ChangedLevels, Moments
            <4>2. Max(ChangedLevels(n, p)) \in ChangedLevels(n, p)
                BY <3>3, <4>1, MaxOfBounded
            <4> QED
                BY <4>2 DEF ChangedLevels
        <3> QED
            BY <1>1, <2>1, <2>2, <3>2, <3>3, TrueLevelsPlainly
    <2> QED
        BY <2>2 DEF TrueLevels
<1>3. Moments \subseteq Moments'
    BY <1>1 DEF Moments
<1>4. Events \subseteq Events'
    BY <1>1 DEF Events
<1> QED
    BY <1>2, <1>3, <1>4


LEMMA RcInvInit == RcInit => RcInv
<1> SUFFICES ASSUME RcInit PROVE RcInv
    OBVIOUS
<1>1. ChangesOK /\ sent \in Seq(Events)
    BY DEF RcInit, ChangesOK
<1>2. NewReconstructor \in Reconstructors
    BY DEF NewReconstructor, Reconstructors, NoBook, Books, NoLevels, NoInterval, Intervals
<1>3. Sound(lbr)
    BY <1>2 DEF RcInit, Sound, NewReconstructor
<1> QED
    BY <1>1, <1>3 DEF RcInit, RcInv

\* The exchange's next event numbers its changes, and what was true stays so.
LEMMA SendingKeepsRcInv ==
    ASSUME RcInv, NEW n \in 1..2, NEW batch \in [1..n -> Changes], ExchangeSends(batch)
    PROVE  RcInv'
<1> DEFINE event == [U |-> Len(changes) + 1, u |-> Len(changes) + Len(batch), pu |-> Len(changes)]
<1>1. /\ batch \in Seq(Changes) /\ Len(batch) = n
      /\ changes' = changes \o batch /\ changes \in Seq(Changes)
      /\ sent' = Append(sent, event)
      /\ UNCHANGED <<market, lbr, kept>>
    BY DEF ExchangeSends, RcInv, ChangesOK
<1>2. ChangesOK'
    BY <1>1 DEF RcInv, ChangesOK
<1>3. /\ \A k \in Moments : TrueLevels(k)' = TrueLevels(k)
      /\ Moments \subseteq Moments' /\ Events \subseteq Events'
    BY <1>1, HistoryStays DEF RcInv
<1>4. sent' \in Seq(Events')
    <2>1. event \in Events'
        BY <1>1 DEF Events
    <2>2. sent \in Seq(Events')
        BY <1>3 DEF RcInv
    <2> HIDE DEF event
    <2> QED
        BY <1>1, <2>1, <2>2
<1>5. Sound(lbr)'
    <2>1. lbr.buffer \in Seq(Events)'
        BY <1>3 DEF RcInv, Sound, Reconstructors
    <2>2. lbr \in Reconstructors'
        BY <2>1 DEF RcInv, Sound, Reconstructors, Books, Intervals
    <2>3. ASSUME lbr.state = "SYNCHRONIZED"
          PROVE  TrueBook(lbr.book)' /\ lbr.buffer = << >>
        <3>1. TrueBook(lbr.book) /\ lbr.buffer = << >>
            BY <2>3 DEF RcInv, Sound
        <3>2. PICK k \in Moments : lbr.book.id = k /\ lbr.book.levels = TrueLevels(k)
            BY <3>1 DEF TrueBook
        <3>3. lbr'.book.id = k /\ k \in Moments' /\ lbr'.book.levels = TrueLevels(k)'
            BY <1>1, <1>3, <3>2
        <3>4. TrueLevels(lbr.book.id)' = TrueLevels(k)'
            BY <3>3 DEF TrueLevels
        <3>5. RecomputeBest(lbr.book.levels)' = RecomputeBest(lbr.book.levels)
            BY <1>1 DEF RecomputeBest, PricesIn
        <3> QED
            BY <1>1, <3>1, <3>3, <3>4, <3>5 DEF TrueBook
    <2> QED
        BY <1>1, <2>2, <2>3 DEF Sound
<1>6. ASSUME NEW c \in kept'
      PROVE  c \in KeptBooks' /\ c.levels = TrueLevels(c.id)'
    <2>1. c \in KeptBooks /\ c.levels = TrueLevels(c.id)
        BY <1>1, <1>6 DEF RcInv
    <2>2. c.id \in Moments
        BY <2>1 DEF KeptBooks
    <2> QED
        BY <1>3, <2>1, <2>2 DEF KeptBooks, Intervals
<1> QED
    BY <1>2, <1>4, <1>5, <1>6 DEF RcInv

\* A step that writes only the reconstructor, and writes a sound one.
LEMMA SoundStepKeepsRcInv ==
    ASSUME RcInv, UNCHANGED <<market, changes, sent, kept>>, Sound(lbr')
    PROVE  RcInv'
<1>1. ChangesOK' /\ (sent \in Seq(Events))'
    BY DEF RcInv, ChangesOK, Events
<1>2. Sound(lbr)'
    BY DEF Sound, Reconstructors, Books, Intervals, Events, TrueBook, Moments, TrueLevels,
           RecomputeBest, PricesIn
<1>3. (\A c \in kept : c \in KeptBooks /\ c.levels = TrueLevels(c.id))'
    BY DEF RcInv, KeptBooks, Moments, Intervals, TrueLevels
<1> QED
    BY <1>1, <1>2, <1>3 DEF RcInv

LEMMA OfferIsSound ==
    ASSUME RcInv, NEW e \in Events, Offer(e)
    PROVE  Sound(lbr')
<1>1. ChangesOK /\ Sound(lbr)
    BY DEF RcInv
<1>2. CASE lbr.state = "SYNCHRONIZED"
    BY <1>1, <1>2, ApplyLiveIsSound DEF Offer
<1>3. CASE lbr.state # "SYNCHRONIZED"
    <2>1. lbr \in Reconstructors /\ lbr' = Buffered(lbr, e)
        BY <1>1, <1>3 DEF Offer, Sound
    <2>2. << >> \in Seq(Events) /\ Append(lbr.buffer, e) \in Seq(Events)
        BY <2>1 DEF Reconstructors
    <2>3. lbr' \in Reconstructors /\ lbr'.state = lbr.state
        BY <2>1, <2>2 DEF Buffered, Reconstructors
    <2> QED
        BY <1>3, <2>3 DEF Sound
<1> QED
    BY <1>2, <1>3

LEMMA RestoreIsSound ==
    ASSUME RcInv, NEW c \in kept, RestoreBook(c)
    PROVE  Sound(lbr')
<1> DEFINE book == [levels |-> c.levels, best |-> RecomputeBest(c.levels), id |-> c.id]
<1>1. /\ ChangesOK /\ c \in KeptBooks /\ c.levels = TrueLevels(c.id)
    BY DEF RcInv
<1>2. TrueBook(book)
    BY <1>1 DEF TrueBook, KeptBooks
<1>3. book \in Books
    BY <1>1, <1>2, TrueBooksAreTyped
<1>4. NewReconstructor \in Reconstructors /\ NewReconstructor.buffer = << >>
    BY DEF NewReconstructor, Reconstructors, NoBook, Books, NoLevels, NoInterval, Intervals
<1>5. lbr' = [NewReconstructor EXCEPT !.state = "SYNCHRONIZED", !.interval = c.interval,
                                      !.book = book]
    BY DEF RestoreBook
<1> HIDE DEF book
<1>6. c.interval \in Intervals
    BY <1>1 DEF KeptBooks
<1> QED
    BY <1>2, <1>3, <1>4, <1>5, <1>6 DEF Sound, Reconstructors

LEMMA RcInvInductive == RcInv /\ [RcNext]_rcvars => RcInv'
<1> SUFFICES ASSUME RcInv, [RcNext]_rcvars PROVE RcInv'
    OBVIOUS
<1>1. ASSUME NEW n \in 1..2, NEW batch \in [1..n -> Changes], ExchangeSends(batch)
      PROVE  RcInv'
    BY <1>1, SendingKeepsRcInv
<1>2. ASSUME NEW k \in DOMAIN sent, Offer(sent[k])
      PROVE  RcInv'
    <2>1. sent[k] \in Events
        BY <1>2 DEF RcInv
    <2>2. Sound(lbr')
        BY <1>2, <2>1, OfferIsSound
    <2> QED
        BY <1>2, <2>2, SoundStepKeepsRcInv DEF Offer
<1>3. ASSUME NEW snapshot \in 0..Len(changes), Synchronize(snapshot)
      PROVE  RcInv'
    <2>1. ChangesOK /\ Sound(lbr) /\ snapshot \in Moments
        BY <1>3 DEF RcInv, Moments
    <2>2. Sound(lbr')
        BY <1>3, <2>1, SynchronizedIsSound DEF Synchronize
    <2> QED
        BY <1>3, <2>2, SoundStepKeepsRcInv DEF Synchronize
<1>4. ASSUME RestartBootstrap
      PROVE  RcInv'
    <2>1. NewReconstructor \in Reconstructors /\ lbr.interval \in Intervals
        BY DEF RcInv, Sound, NewReconstructor, Reconstructors, NoBook, Books, NoLevels,
               NoInterval, Intervals
    <2>2. lbr' \in Reconstructors /\ lbr'.state = "BUFFERING"
        <3>1. NewReconstructor.state = "BUFFERING"
            BY DEF NewReconstructor
        <3> QED
            BY <1>4, <2>1, <3>1 DEF RestartBootstrap, Reconstructors
    <2>3. Sound(lbr')
        BY <2>2 DEF Sound
    <2> QED
        BY <1>4, <2>3, SoundStepKeepsRcInv DEF RestartBootstrap
<1>5. ASSUME SaveBook
      PROVE  RcInv'
    <2> DEFINE c == [levels |-> lbr.book.levels, id |-> lbr.book.id, interval |-> lbr.interval]
    <2>1. ChangesOK /\ lbr \in Reconstructors /\ TrueBook(lbr.book)
        BY <1>5 DEF RcInv, Sound, SaveBook
    <2>2. c \in KeptBooks /\ c.levels = TrueLevels(c.id)
        BY <2>1 DEF Reconstructors, Books, TrueBook, KeptBooks
    <2>3. kept' = {c} /\ UNCHANGED <<market, changes, sent, lbr>>
        BY <1>5 DEF SaveBook
    <2> HIDE DEF c
    <2>4. /\ ChangesOK' /\ (sent \in Seq(Events))' /\ Sound(lbr)'
        BY <2>3 DEF RcInv, ChangesOK, Events, Sound, Reconstructors, Books, Intervals, TrueBook,
                    Moments, TrueLevels, RecomputeBest, PricesIn
    <2>5. (\A b \in kept : b \in KeptBooks /\ b.levels = TrueLevels(b.id))'
        BY <2>2, <2>3 DEF KeptBooks, Moments, Intervals, TrueLevels
    <2> QED
        BY <2>4, <2>5 DEF RcInv
<1>6. ASSUME NEW c \in kept, RestoreBook(c)
      PROVE  RcInv'
    BY <1>6, RestoreIsSound, SoundStepKeepsRcInv DEF RestoreBook
<1>7. CASE UNCHANGED rcvars
    <2>1. UNCHANGED <<market, changes, sent, kept>> /\ lbr' = lbr
        BY <1>7 DEF rcvars
    <2>2. Sound(lbr')
        BY <2>1 DEF RcInv
    <2> QED
        BY <2>1, <2>2, SoundStepKeepsRcInv
<1> QED
    BY <1>1, <1>2, <1>3, <1>4, <1>5, <1>6, <1>7 DEF RcNext

(* THE THEOREM of the local order book: for every set of prices, every length of the     *)
(* buffer and every history of changes, a book that is called reliable is the exchange's *)
(* after the change it names, and its cached best price is the one a ticker of that      *)
(* change names, whichever events were lost, repeated or late and whatever was restored. *)
THEOREM BooksAreTrue == RcSpec => []BookIsTrue
<1>1. RcInv => BookIsTrue
    <2> SUFFICES ASSUME RcInv, lbr.state = "SYNCHRONIZED"
                 PROVE  /\ lbr.book.levels = TrueLevels(lbr.book.id)
                        /\ Comparison(lbr.book, lbr.book.id) = "MATCH"
        BY DEF BookIsTrue
    <2>1. TrueBook(lbr.book) /\ lbr.book.id \in Nat
        BY ChangeTypes DEF RcInv, Sound, TrueBook
    <2> QED
        BY <2>1 DEF TrueBook, Comparison
<1> QED
    BY <1>1, RcInvInit, RcInvInductive, PTL DEF RcSpec


-----------------------------------------------------------------------------
(* The plan of a history import. *)

LEMMA MinOfNumbers ==
    ASSUME NEW S \in SUBSET Nat, S # {}
    PROVE  Min(S) \in S /\ \A y \in S : Min(S) <= y
<1>1. PICK n \in S : \A k \in S : ~(<<k, n>> \in OpToRel(<, Nat))
    BY NatLessThanWellFounded, WFMin
<1>2. \A k \in S : n <= k
    <2> SUFFICES ASSUME NEW k \in S PROVE n <= k
        OBVIOUS
    <2>1. <<k, n>> \in Nat \X Nat /\ ~(<<k, n>>[1] < <<k, n>>[2])
        BY <1>1 DEF OpToRel
    <2> QED
        BY <2>1
<1> QED
    BY <1>2 DEF Min

\* The last month start ends the horizon.
LEMMA HorizonIsEnd ==
    /\ Horizon \in Nat /\ Horizon >= 1 /\ Horizon + 1 \in MonthStarts
    /\ \A m \in MonthStarts : m \in Nat /\ m > 0 /\ m <= Horizon + 1
<1>1. PICK last \in MonthStarts : last > 1 /\ \A m \in MonthStarts : m <= last
    BY BackfillAssumption
<1>2. MonthStarts \in SUBSET Nat /\ \A m \in MonthStarts : m > 0
    BY BackfillAssumption
<1>3. Max(MonthStarts) = last
    BY <1>1, <1>2, GreatestIsMax
<1> QED
    BY <1>1, <1>2, <1>3 DEF Horizon

LEMMA MonthEndIsLater ==
    ASSUME NEW day \in 1..Horizon
    PROVE  MonthEnd(day) \in day..Horizon
<1> DEFINE later == {m \in MonthStarts : m > day}
<1>1. later \in SUBSET Nat /\ Horizon + 1 \in later
    BY HorizonIsEnd
<1>2. Min(later) \in later
    BY <1>1, MinOfNumbers
<1>3. MonthEnd(day) = Min(later) - 1
    BY DEF MonthEnd, NextMonth
<1> QED
    BY <1>2, <1>3, HorizonIsEnd

LEMMA MonthStartIsEarlier ==
    ASSUME NEW day \in 1..Horizon
    PROVE  MonthStart(day) \in 1..day
<1> DEFINE earlier == {m \in MonthStarts : m <= day}
<1>1. earlier \in SUBSET Nat /\ 1 \in earlier /\ \A m \in earlier : m <= day
    <2>1. 1 \in MonthStarts /\ 1 <= day /\ day \in Nat
        BY BackfillAssumption
    <2>2. MonthStarts \subseteq Nat
        BY BackfillAssumption
    <2> QED
        BY <2>1, <2>2
<1>2. Max(earlier) \in earlier
    <2> HIDE DEF earlier
    <2> QED
        BY <1>1, HorizonIsEnd, MaxOfBounded
<1> QED
    BY <1>2, HorizonIsEnd DEF MonthStart

PlanEntries == [granularity : {"monthly", "daily"}, first : Nat, last : Nat]

\* The files of s hold every day of first..end, none twice, and none outside first..limit.
Tiles(s, first, end, limit) ==
    /\ s \in Seq(PlanEntries)
    /\ \A i \in DOMAIN s : first <= s[i].first /\ s[i].first <= s[i].last /\ s[i].last <= limit
    /\ \A day \in first..end : \E i \in DOMAIN s : day \in s[i].first..s[i].last
    /\ \A i, j \in DOMAIN s, day \in Nat :
          day \in s[i].first..s[i].last /\ day \in s[j].first..s[j].last => i = j

\* A file in front of the files of the days behind it.
LEMMA FileInFront ==
    ASSUME NEW e \in PlanEntries, NEW end \in Nat, NEW limit \in Nat,
           e.first <= e.last, e.last <= limit,
           NEW t, Tiles(t, e.last + 1, end, limit)
    PROVE  Tiles(<<e>> \o t, e.first, end, limit)
<1> DEFINE s == <<e>> \o t
<1>1. /\ t \in Seq(PlanEntries) /\ Len(t) \in Nat /\ s \in Seq(PlanEntries)
      /\ Len(s) = Len(t) + 1 /\ s[1] = e /\ DOMAIN s = 1..Len(s) /\ DOMAIN t = 1..Len(t)
      /\ \A i \in 2..Len(s) : s[i] = t[i - 1]
    BY DEF Tiles
<1>2. e.first \in Nat /\ e.last \in Nat /\ \A i \in DOMAIN t : t[i].first \in Nat /\ t[i].last \in Nat
    <2>1. \A i \in DOMAIN t : t[i] \in PlanEntries
        BY <1>1
    <2> QED
        BY <2>1 DEF PlanEntries
<1> HIDE DEF s
<1>3. \A i \in DOMAIN s : i = 1 \/ (i \in 2..Len(s) /\ i - 1 \in DOMAIN t /\ s[i] = t[i - 1])
    BY <1>1
<1>4. ASSUME NEW i \in DOMAIN t
      PROVE  e.last + 1 <= t[i].first /\ t[i].first <= t[i].last /\ t[i].last <= limit
    BY DEF Tiles
<1>5. ASSUME NEW i \in DOMAIN s
      PROVE  e.first <= s[i].first /\ s[i].first <= s[i].last /\ s[i].last <= limit
    <2>1. CASE i = 1
        BY <1>1, <1>2, <2>1
    <2>2. CASE i # 1
        <3>1. i - 1 \in DOMAIN t /\ s[i] = t[i - 1]
            BY <1>3, <2>2
        <3> DEFINE b == t[i - 1]
        <3>2. /\ e.last + 1 <= b.first /\ b.first <= b.last /\ b.last <= limit
              /\ b.first \in Nat /\ b.last \in Nat
            BY <1>2, <1>4, <3>1
        <3> HIDE DEF b
        <3>3. e.first <= b.first
            BY <1>2, <3>2
        <3> QED
            BY <3>1, <3>2, <3>3 DEF b
    <2> QED
        BY <2>1, <2>2
<1>6. ASSUME NEW day \in e.first..end
      PROVE  \E i \in DOMAIN s : day \in s[i].first..s[i].last
    <2>1. CASE day <= e.last
        <3>1. 1 \in DOMAIN s
            BY <1>1
        <3> QED
            BY <1>1, <1>2, <2>1, <3>1
    <2>2. CASE day > e.last
        <3>1. PICK j \in DOMAIN t : day \in t[j].first..t[j].last
            BY <1>2, <2>2 DEF Tiles
        <3>2. j + 1 \in DOMAIN s /\ s[j + 1] = t[j]
            BY <1>1
        <3> QED
            BY <3>1, <3>2
    <2> QED
        BY <1>2, <2>1, <2>2
<1>7. ASSUME NEW i \in DOMAIN s, NEW j \in DOMAIN s, NEW day \in Nat,
             day \in s[i].first..s[i].last, day \in s[j].first..s[j].last
      PROVE  i = j
    <2>1. CASE i = 1 /\ j # 1
        BY <1>1, <1>2, <1>3, <1>4, <1>7, <2>1
    <2>2. CASE i # 1 /\ j = 1
        BY <1>1, <1>2, <1>3, <1>4, <1>7, <2>2
    <2>3. CASE i # 1 /\ j # 1
        <3>1. /\ i - 1 \in DOMAIN t /\ j - 1 \in DOMAIN t
              /\ s[i] = t[i - 1] /\ s[j] = t[j - 1]
            BY <1>3, <2>3
        <3>2. i - 1 = j - 1
            BY <1>7, <3>1 DEF Tiles
        <3> QED
            BY <1>1, <3>2
    <2> QED
        BY <2>1, <2>2, <2>3
<1> QED
    BY <1>1, <1>5, <1>6, <1>7 DEF Tiles, s

\* What FilesFrom needs of the file at each day.
FilesOK(file, start, end, limit) ==
    \A c \in start..end :
        /\ file[c] \in PlanEntries /\ file[c].first = c
        /\ c <= file[c].last /\ file[c].last <= limit

IsPlan(f, file, a, end) ==
    f = [cursor \in a..(Horizon + 1) |->
            IF cursor > end THEN << >> ELSE <<file[cursor]>> \o f[file[cursor].last + 1]]

LEMMA PlanExists ==
    ASSUME NEW start \in 1..Horizon, NEW end \in 1..Horizon, NEW limit \in end..Horizon,
           NEW file, FilesOK(file, start, end, limit)
    PROVE  \E f : IsPlan(f, file, start, end)
<1> DEFINE H == Horizon + 1
           n == H - start
           Reached == {k \in 0..n : \E f : IsPlan(f, file, H - k, end)}
<1>1. n \in Nat /\ H \in Nat /\ H > end
    BY HorizonIsEnd
<1>2. 0 \in Reached
    <2> DEFINE f == [cursor \in (H - 0)..H |-> << >>]
    <2>1. \A cursor \in (H - 0)..H : cursor > end
        BY <1>1
    <2>2. IsPlan(f, file, H - 0, end)
        BY <2>1 DEF IsPlan
    <2> QED
        BY <1>1, <2>2
<1>3. ASSUME NEW k \in 1..n, k - 1 \in Reached
      PROVE  k \in Reached
    <2> DEFINE a == H - k
    <2>1. a \in start..Horizon /\ H - (k - 1) = a + 1 /\ a \in Nat
        BY <1>1, HorizonIsEnd
    <2>2. PICK f : IsPlan(f, file, a + 1, end)
        BY <1>3, <2>1
    <2> DEFINE Step(c, h) == IF c > end THEN << >> ELSE <<file[c]>> \o h[file[c].last + 1]
               g == [c \in a..H |-> IF c = a THEN Step(a, f) ELSE f[c]]
    <2> HIDE DEF a, H
    <2>3. \A c \in (a + 1)..H : f[c] = Step(c, f)
        BY <2>2 DEF IsPlan, H
    <2>4. ASSUME NEW c \in a..H, c <= end
          PROVE  file[c].last + 1 \in (a + 1)..H /\ g[file[c].last + 1] = f[file[c].last + 1]
        <3>1. c \in start..end
            BY <1>1, <2>1, <2>4
        <3>2. file[c].last \in Nat /\ c <= file[c].last /\ file[c].last <= Horizon
            BY <3>1, HorizonIsEnd DEF FilesOK, PlanEntries
        <3>3. file[c].last + 1 \in (a + 1)..H
            BY <1>1, <2>1, <3>1, <3>2, HorizonIsEnd DEF H
        <3> QED
            BY <2>1, <3>3
    <2>5. ASSUME NEW c \in a..H
          PROVE  g[c] = Step(c, g)
        <3>1. c > end \/ c <= end
            BY <1>1, <2>1
        <3>2. Step(c, f) = Step(c, g)
            BY <2>4, <3>1
        <3>3. g[c] = Step(c, f)
            <4>1. c = a \/ c \in (a + 1)..H
                BY <2>1
            <4> HIDE DEF Step
            <4> QED
                BY <2>3, <4>1
        <3> QED
            BY <3>2, <3>3
    <2>6. g = [c \in a..H |-> Step(c, g)]
        <3> HIDE DEF Step
        <3> QED
            BY <2>5
    <2>7. IsPlan(g, file, a, end)
        BY <2>6 DEF IsPlan, H
    <2> HIDE DEF g
    <2> QED
        BY <2>7 DEF a
<1> HIDE DEF Reached, H, n
<1>4. n \in 0..n
    BY <1>1
<1>5. n \in Reached
    BY <1>1, <1>2, <1>3, <1>4, CountingUp
<1>6. H - n = start
    BY HorizonIsEnd DEF n, H
<1> QED
    BY <1>5, <1>6 DEF Reached

LEMMA FilesFromTiles ==
    ASSUME NEW start \in 1..Horizon, NEW end \in 1..Horizon, NEW limit \in end..Horizon,
           NEW file, FilesOK(file, start, end, limit)
    PROVE  Tiles(FilesFrom(file, start, end), start, end, limit)
<1> DEFINE H == Horizon + 1
           n == H - start
           f == CHOOSE g : IsPlan(g, file, start, end)
           Right == {k \in 0..n : \A c \in (H - k)..H : Tiles(f[c], c, end, limit)}
<1>1. n \in Nat /\ H \in Nat /\ H > end /\ limit \in Nat /\ end \in Nat
    BY HorizonIsEnd
<1>2. IsPlan(f, file, start, end)
    BY PlanExists
<1>3. FilesFrom(file, start, end) = f[start]
    BY DEF FilesFrom, IsPlan
<1> HIDE DEF f
<1>4. \A c \in start..H :
          f[c] = IF c > end THEN << >> ELSE <<file[c]>> \o f[file[c].last + 1]
    BY <1>2 DEF IsPlan
<1>5. ASSUME NEW c \in start..H, c > end
      PROVE  Tiles(f[c], c, end, limit)
    <2>1. f[c] = << >>
        BY <1>4, <1>5
    <2>2. DOMAIN f[c] = {} /\ f[c] \in Seq(PlanEntries)
        BY <2>1
    <2>3. c..end = {}
        BY <1>1, <1>5
    <2> QED
        BY <2>2, <2>3 DEF Tiles
<1> HIDE DEF H
<1>6. 0 \in Right
    <2>1. ASSUME NEW c \in (H - 0)..H PROVE c \in start..H /\ c > end
        BY <1>1, HorizonIsEnd DEF H
    <2> QED
        BY <1>1, <1>5, <2>1
<1>7. ASSUME NEW k \in 1..n, k - 1 \in Right
      PROVE  k \in Right
    <2>1. ASSUME NEW c \in (H - k)..H
          PROVE  Tiles(f[c], c, end, limit)
        <3>1. c \in start..H /\ c \in Nat
            BY <1>1, HorizonIsEnd
        <3>2. CASE c > end
            BY <1>5, <3>1, <3>2
        <3>3. CASE ~(c > end)
            <4>1. /\ file[c] \in PlanEntries /\ file[c].first = c /\ c <= file[c].last
                  /\ file[c].last <= limit /\ file[c].last \in Nat
                BY <1>1, <3>1, <3>3 DEF FilesOK, PlanEntries
            <4>2. file[c].last + 1 \in (H - (k - 1))..H
                BY <1>1, <3>1, <4>1, HorizonIsEnd DEF H
            <4>3. Tiles(f[file[c].last + 1], file[c].last + 1, end, limit)
                BY <1>7, <4>2
            <4>4. f[c] = <<file[c]>> \o f[file[c].last + 1]
                BY <1>4, <3>1, <3>3
            <4> QED
                BY <1>1, <4>1, <4>3, <4>4, FileInFront
        <3> QED
            BY <3>2, <3>3
    <2> HIDE DEF n
    <2> QED
        BY <1>1, <2>1
<1>8. n \in 0..n /\ start \in (H - n)..H
    BY <1>1, HorizonIsEnd DEF H
<1> HIDE DEF Right, n
<1>9. n \in Right
    BY <1>1, <1>6, <1>7, <1>8, CountingUp
<1> QED
    BY <1>3, <1>8, <1>9 DEF Right

\* Bars: whole months where they fit, days where they do not.
LEMMA BarsPlanTiles ==
    ASSUME NEW start \in 1..Horizon, NEW end \in start..Horizon
    PROVE  Tiles(BarsPlan(start, end), start, end, end)
<1> DEFINE file == [cursor \in start..end |->
                       IF WholeMonth(cursor, end) THEN PlanEntry("monthly", cursor, MonthEnd(cursor))
                       ELSE PlanEntry("daily", cursor, cursor)]
<1>1. ASSUME NEW c \in start..end
      PROVE  /\ file[c] \in PlanEntries /\ file[c].first = c
             /\ c <= file[c].last /\ file[c].last <= end
    <2>1. c \in 1..Horizon /\ c \in Nat /\ end \in Nat
        BY HorizonIsEnd
    <2>2. MonthEnd(c) \in c..Horizon
        BY <2>1, MonthEndIsLater
    <2>3. MonthEnd(c) \in Nat /\ c <= MonthEnd(c)
        BY <2>1, <2>2, HorizonIsEnd
    <2>4. CASE WholeMonth(c, end)
        BY <2>1, <2>3, <2>4 DEF PlanEntry, PlanEntries, WholeMonth
    <2>5. CASE ~WholeMonth(c, end)
        BY <2>1, <2>5 DEF PlanEntry, PlanEntries
    <2> QED
        BY <2>4, <2>5
<1>2. FilesOK(file, start, end, end)
    BY <1>1 DEF FilesOK
<1>3. end \in 1..Horizon /\ end \in end..Horizon
    BY HorizonIsEnd
<1>4. BarsPlan(start, end) = FilesFrom(file, start, end)
    BY DEF BarsPlan
<1> HIDE DEF file
<1> QED
    BY <1>2, <1>3, <1>4, FilesFromTiles

\* Funding rates: months, from one that has begun to one that may not have ended.
LEMMA FundingPlanTiles ==
    ASSUME NEW start \in 1..Horizon, NEW end \in start..Horizon
    PROVE  Tiles(FundingPlan(start, end), start, end, Horizon)
<1> DEFINE file == [month \in start..end |-> PlanEntry("monthly", month, MonthEnd(month))]
<1>1. ASSUME NEW c \in start..end
      PROVE  /\ file[c] \in PlanEntries /\ file[c].first = c
             /\ c <= file[c].last /\ file[c].last <= Horizon
    <2>1. c \in 1..Horizon /\ c \in Nat
        BY HorizonIsEnd
    <2>2. MonthEnd(c) \in c..Horizon
        BY <2>1, MonthEndIsLater
    <2>3. MonthEnd(c) \in Nat /\ c <= MonthEnd(c) /\ MonthEnd(c) <= Horizon
        BY <2>1, <2>2, HorizonIsEnd
    <2> QED
        BY <2>1, <2>3 DEF PlanEntry, PlanEntries
<1>2. FilesOK(file, start, end, Horizon)
    BY <1>1 DEF FilesOK
<1>3. end \in 1..Horizon /\ Horizon \in end..Horizon
    BY HorizonIsEnd
<1>4. FundingPlan(start, end) = FilesFrom(file, start, end)
    BY DEF FundingPlan
<1> HIDE DEF file
<1> QED
    BY <1>2, <1>3, <1>4, FilesFromTiles

LEMMA DailyTradesPlanTiles ==
    ASSUME NEW start \in 1..Horizon, NEW end \in start..Horizon
    PROVE  Tiles(DailyTradesPlan(start, end), start, end, end)
<1> DEFINE n == end - start + 1
           s == DailyTradesPlan(start, end)
<1>1. n \in Nat /\ start \in Nat /\ end \in Nat /\ start >= 1
    BY HorizonIsEnd
<1>2. s = [i \in 1..n |-> PlanEntry("daily", start + i - 1, start + i - 1)]
    BY DEF DailyTradesPlan
<1>3. \A i \in 1..n : /\ s[i] \in PlanEntries
                      /\ s[i].first = start + i - 1 /\ s[i].last = start + i - 1
    BY <1>1, <1>2 DEF PlanEntry, PlanEntries
<1> HIDE DEF s
<1>4. s \in Seq(PlanEntries) /\ DOMAIN s = 1..n
    <2>1. s \in [1..n -> PlanEntries]
        <3>1. DOMAIN s = 1..n /\ s = [i \in 1..n |-> s[i]]
            BY <1>2
        <3> HIDE DEF n
        <3> QED
            BY <1>3, <3>1
    <2> HIDE DEF n
    <2> QED
        BY <1>1, <2>1
<1>5. ASSUME NEW day \in start..end
      PROVE  \E i \in DOMAIN s : day \in s[i].first..s[i].last
    <2>1. day - start + 1 \in 1..n /\ start + (day - start + 1) - 1 = day
        BY <1>1
    <2> DEFINE j == day - start + 1
    <2>2. j \in DOMAIN s /\ s[j].first = day /\ s[j].last = day /\ day \in Nat
        BY <1>1, <1>3, <1>4, <2>1
    <2> HIDE DEF j
    <2>3. day \in s[j].first..s[j].last
        BY <2>2
    <2> QED
        BY <2>2, <2>3
<1>6. \A i, j \in 1..n, day \in Nat :
          day \in s[i].first..s[i].last /\ day \in s[j].first..s[j].last => i = j
    BY <1>1, <1>3
<1>7. \A i \in 1..n : start <= s[i].first /\ s[i].first <= s[i].last /\ s[i].last <= end
    BY <1>1, <1>3
<1> QED
    BY <1>4, <1>5, <1>6, <1>7 DEF Tiles, s

Requests ==
    {q \in [start : 1..Horizon, end : 1..Horizon, data : {"klines", "fundingRate", "dailyTrades"}] :
        q.start <= q.end}

\* Every request is split so that each day lies in one file, and only funding rates
\* reach beyond it.
LEMMA PlanIsExact ==
    ASSUME NEW q \in Requests
    PROVE  /\ BuildPlan(q) \in Seq(PlanEntries) /\ Len(BuildPlan(q)) > 0
           /\ \A day \in q.start..q.end :
                Cardinality({i \in DOMAIN BuildPlan(q) :
                                day \in BuildPlan(q)[i].first..BuildPlan(q)[i].last}) = 1
           /\ q.data # "fundingRate" =>
                \A i \in DOMAIN BuildPlan(q) :
                    BuildPlan(q)[i].first..BuildPlan(q)[i].last \subseteq q.start..q.end
<1> DEFINE s == BuildPlan(q)
<1>1. /\ q.start \in 1..Horizon /\ q.end \in q.start..Horizon /\ q.start \in Nat /\ q.end \in Nat
      /\ q.data \in {"klines", "fundingRate", "dailyTrades"}
    BY HorizonIsEnd DEF Requests
<1>2. PICK first \in 1..q.start, limit \in q.end..Horizon :
          /\ Tiles(s, first, q.end, limit)
          /\ q.data # "fundingRate" => first = q.start /\ limit = q.end
    <2>1. CASE q.data = "fundingRate"
        <3>1. /\ MonthStart(q.start) \in 1..q.start /\ MonthStart(q.start) \in 1..Horizon
              /\ q.end \in MonthStart(q.start)..Horizon /\ Horizon \in q.end..Horizon
            BY <1>1, MonthStartIsEarlier, HorizonIsEnd
        <3>2. Tiles(s, MonthStart(q.start), q.end, Horizon)
            BY <2>1, <3>1, FundingPlanTiles DEF BuildPlan
        <3> QED
            BY <2>1, <3>1, <3>2
    <2>2. CASE q.data = "dailyTrades"
        <3>1. Tiles(s, q.start, q.end, q.end)
            BY <1>1, <2>2, DailyTradesPlanTiles DEF BuildPlan
        <3> QED
            BY <1>1, <3>1
    <2>3. CASE q.data = "klines"
        <3>1. Tiles(s, q.start, q.end, q.end)
            BY <1>1, <2>3, BarsPlanTiles DEF BuildPlan
        <3> QED
            BY <1>1, <3>1
    <2> QED
        BY <1>1, <2>1, <2>2, <2>3
<1> HIDE DEF s
<1>3. s \in Seq(PlanEntries)
    BY <1>2 DEF Tiles
<1>4. ASSUME NEW day \in q.start..q.end
      PROVE  Cardinality({i \in DOMAIN s : day \in s[i].first..s[i].last}) = 1
    <2>1. day \in first..q.end /\ day \in Nat
        BY <1>1
    <2>2. PICK i \in DOMAIN s : day \in s[i].first..s[i].last
        BY <1>2, <2>1 DEF Tiles
    <2>3. {j \in DOMAIN s : day \in s[j].first..s[j].last} = {i}
        BY <1>2, <2>1, <2>2 DEF Tiles
    <2> QED
        BY <2>3, FS_Singleton
<1>5. Len(s) > 0
    <2>1. q.start \in first..q.end
        BY <1>1
    <2>2. PICK i \in DOMAIN s : q.start \in s[i].first..s[i].last
        BY <1>2, <2>1 DEF Tiles
    <2> QED
        BY <1>3, <2>2
<1>6. ASSUME q.data # "fundingRate", NEW i \in DOMAIN s
      PROVE  s[i].first..s[i].last \subseteq q.start..q.end
    <2>1. q.start <= s[i].first /\ s[i].last <= q.end
        BY <1>2, <1>6 DEF Tiles
    <2>2. s[i].first \in Nat /\ s[i].last \in Nat
        <3>1. s[i] \in PlanEntries
            BY <1>3
        <3> QED
            BY <3>1 DEF PlanEntries
    <2> QED
        BY <1>1, <2>1, <2>2
<1> QED
    BY <1>3, <1>4, <1>5, <1>6 DEF s

-----------------------------------------------------------------------------
(* The importer. *)

Urls == Range(Plan)
Versioned == 1..Versions

Revisions == [partial : Seq(Nat), zip : Seq(Nat), sum : BOOLEAN, manifest : BOOLEAN,
              parquet : Seq(Nat)]

ImportSteps == {"checksum", "download", "verify", "sum", "manifest", "normalise"}

BfTypeOK ==
    /\ request \in Requests
    /\ server \in [Urls -> [zip : 0..Versions, sum : 0..Versions]]
    /\ revs \in [Urls -> [Versioned -> Revisions]]
    /\ imp \in [pc : ImportSteps \cup {"idle"}, entry : Nat, version : 0..Versions, calm : BOOLEAN]
    /\ refusals \in [Urls -> Nat]

\* A file is kept under its checksum only when it is the one of the checksum.
RevOK(r, v) ==
    /\ r.manifest => r.sum /\ r.zip = Content(v)
    /\ r.zip # << >> => r.zip = Content(v)
    /\ r.parquet # << >> => r.manifest /\ r.parquet = Content(v)

RevsOK == \A u \in Urls, v \in Versioned : RevOK(revs[u][v], v)

\* A file of the plan is accounted for.
Accounted(e) == \/ \E v \in Versioned : revs[e][v].parquet # << >>
                \/ \E gap \in bgaps : gap[1] = e

\* How far the importer is with its file.  While it is calm, the server still shows the
\* checksum that it fetched; when it is not, no refusal counts.
StepOK ==
    /\ imp.entry \in DOMAIN Plan
    /\ imp.pc # "checksum" => imp.version \in Versioned
    /\ ~imp.calm => refusals[Here] = 0
    /\ imp.calm /\ imp.pc # "checksum" => imp.version = server[Here].sum
    /\ imp.pc = "verify" /\ refusals[Here] # 0 => Revision.partial = Content(imp.version)
    /\ imp.pc \in {"sum", "manifest"} => Revision.zip = Content(imp.version)
    /\ imp.pc = "manifest" => Revision.sum
    /\ imp.pc = "normalise" => Revision.manifest
    /\ \A i \in 1..(imp.entry - 1) : Accounted(Plan[i])

ImpOK == IF imp.pc = "idle" THEN imp = NoImport ELSE StepOK

\* After a refusal the partial file of the version that the server shows is gone or whole.
RefusalOK(u) ==
    refusals[u] # 0 =>
        /\ refusals[u] = 1
        /\ server[u].zip = server[u].sum /\ server[u].sum # 0
        /\ revs[u][server[u].sum].partial \in {<< >>, Content(server[u].sum)}

RefusalsOK == \A u \in Urls : RefusalOK(u)

RunOK == completed => \A i \in DOMAIN Plan : Accounted(Plan[i])

BfInv == BfTypeOK /\ RevsOK /\ ImpOK /\ RefusalsOK /\ RunOK

LEMMA PlanTypes ==
    ASSUME BfTypeOK
    PROVE  /\ Plan \in Seq(PlanEntries) /\ Len(Plan) \in Nat /\ Len(Plan) > 0
           /\ DOMAIN Plan = 1..Len(Plan)
           /\ \A i \in DOMAIN Plan : Plan[i] \in Urls
           /\ \A u \in Urls : \E i \in DOMAIN Plan : u = Plan[i]
<1>1. Plan \in Seq(PlanEntries) /\ Len(Plan) > 0
    BY PlanIsExact DEF BfTypeOK, Plan
<1> QED
    BY <1>1 DEF Urls, Range

LEMMA ContentTyped ==
    ASSUME NEW v \in Nat
    PROVE  /\ Content(v) \in Seq(Nat) /\ Content(v) # << >>
           /\ Len(Content(v)) \in Nat /\ Len(Content(v)) > 0
<1>1. 1 + (v % 2) \in Nat /\ 1 + (v % 2) > 0
    OBVIOUS
<1> DEFINE n == 1 + (v % 2)
<1> HIDE DEF n
<1>2. Content(v) = [i \in 1..n |-> v]
    BY DEF Content, n
<1>3. n \in Nat /\ n > 0
    BY <1>1 DEF n
<1> QED
    BY <1>2, <1>3

\* What the revision at hand is, while a file is imported.
LEMMA HereTypes ==
    ASSUME BfInv, imp.pc # "idle"
    PROVE  /\ StepOK /\ Here \in Urls
           /\ imp.entry \in Nat /\ imp.entry >= 1 /\ imp.entry <= Len(Plan)
           /\ imp.pc # "checksum" =>
                /\ imp.version \in Versioned /\ imp.version \in Nat
                /\ Revision \in Revisions /\ RevOK(Revision, imp.version)
<1>1. StepOK
    BY DEF BfInv, ImpOK
<1>2. imp.entry \in DOMAIN Plan /\ Here \in Urls
    BY <1>1, PlanTypes DEF StepOK, Here, BfInv
<1>3. imp.entry \in Nat /\ imp.entry >= 1 /\ imp.entry <= Len(Plan)
    BY <1>2, PlanTypes DEF BfInv
<1>4. ASSUME imp.pc # "checksum"
      PROVE  /\ imp.version \in Versioned /\ imp.version \in Nat
             /\ Revision \in Revisions /\ RevOK(Revision, imp.version)
    <2>1. imp.version \in Versioned /\ imp.version \in Nat
        BY <1>1, <1>4, BackfillAssumption DEF StepOK, Versioned
    <2> QED
        BY <1>2, <2>1 DEF BfInv, BfTypeOK, RevsOK, Revision
<1> QED
    BY <1>1, <1>2, <1>3, <1>4

\* The plan, and all that is named by it, stays.
LEMMA PlanStays ==
    ASSUME UNCHANGED request
    PROVE  Plan' = Plan /\ Urls' = Urls
BY DEF Plan, Urls

LEMMA AccountedStays ==
    ASSUME UNCHANGED revs, bgaps \subseteq bgaps', NEW e, Accounted(e)
    PROVE  Accounted(e)'
BY DEF Accounted

-----------------------------------------------------------------------------
(* A write into the revision at hand. *)

\* Writes(r): the importer has written r there, and r is as good as what it replaces.
Writes(r) ==
    /\ imp.pc \notin {"idle", "checksum"}
    /\ Files(r) /\ r \in Revisions /\ RevOK(r, imp.version)
    /\ Revision.parquet # << >> => r.parquet # << >>
    /\ UNCHANGED <<request, bgaps>>

LEMMA WritesPlainly ==
    ASSUME BfInv, NEW r, Writes(r)
    PROVE  /\ revs' \in [Urls -> [Versioned -> Revisions]]
           /\ revs'[Here][imp.version] = r
           /\ \A u \in Urls, v \in Versioned :
                u # Here \/ v # imp.version => revs'[u][v] = revs[u][v]
<1>1. Here \in Urls /\ imp.version \in Versioned
    BY HereTypes DEF Writes
<1>2. revs \in [Urls -> [Versioned -> Revisions]]
    BY DEF BfInv, BfTypeOK
<1>3. revs' = [revs EXCEPT ![Here] = [revs[Here] EXCEPT ![imp.version] = r]]
    BY DEF Writes, Files
<1> DEFINE h == Here
           w == [revs[Here] EXCEPT ![imp.version] = r]
<1>4. w \in [Versioned -> Revisions] /\ w[imp.version] = r
    BY <1>1, <1>2 DEF Writes
<1>5. \A v \in Versioned : v # imp.version => w[v] = revs[Here][v]
    BY <1>1, <1>2
<1>6. revs' = [revs EXCEPT ![h] = w] /\ h \in Urls
    BY <1>1, <1>3
<1> HIDE DEF h, w
<1>7. revs' \in [Urls -> [Versioned -> Revisions]]
    BY <1>2, <1>4, <1>6
<1>8. revs'[h] = w /\ \A u \in Urls : u # h => revs'[u] = revs[u]
    BY <1>2, <1>6
<1> QED
    BY <1>4, <1>5, <1>7, <1>8 DEF h

LEMMA WritesKeep ==
    ASSUME BfInv, NEW r, Writes(r)
    PROVE  /\ (revs \in [Urls -> [Versioned -> Revisions]])' /\ RevsOK'
           /\ \A e \in Urls : Accounted(e) => Accounted(e)'
<1>1. Urls' = Urls
    BY PlanStays DEF Writes
<1>2. RevsOK'
    BY <1>1, WritesPlainly DEF Writes, BfInv, RevsOK, RevOK, Versioned
<1>3. ASSUME NEW e \in Urls, Accounted(e)
      PROVE  Accounted(e)'
    <2>1. CASE \E gap \in bgaps : gap[1] = e
        BY <2>1 DEF Accounted, Writes
    <2>2. CASE \E v \in Versioned : revs[e][v].parquet # << >>
        <3>1. PICK v \in Versioned : revs[e][v].parquet # << >>
            BY <2>2
        <3>2. revs'[e][v].parquet # << >>
            <4>1. CASE e = Here /\ v = imp.version
                BY <3>1, <4>1, WritesPlainly DEF Writes, Revision
            <4>2. CASE ~(e = Here /\ v = imp.version)
                BY <3>1, <4>2, WritesPlainly
            <4> QED
                BY <4>1, <4>2
        <3> QED
            BY <3>2 DEF Accounted, Versioned
    <2> QED
        BY <1>3, <2>1, <2>2 DEF Accounted
<1> QED
    BY <1>1, <1>2, <1>3, WritesPlainly DEF Versioned

\* A write that leaves the partial file alone, or empties or completes it, keeps what
\* is known of refusals.
LEMMA WritesKeepRefusals ==
    ASSUME BfInv, NEW r, Writes(r), UNCHANGED <<server, refusals>>,
           refusals[Here] # 0 =>
               r.partial = Revision.partial \/ r.partial \in {<< >>, Content(imp.version)}
    PROVE  RefusalsOK'
<1>1. Urls' = Urls
    BY PlanStays DEF Writes
<1>2. ASSUME NEW u \in Urls, refusals[u] # 0
      PROVE  revs'[u][server[u].sum].partial \in {<< >>, Content(server[u].sum)}
    <2>1. /\ server[u].sum \in Versioned
          /\ revs[u][server[u].sum].partial \in {<< >>, Content(server[u].sum)}
        BY <1>2 DEF BfInv, BfTypeOK, RefusalsOK, RefusalOK, Versioned
    <2>2. CASE u = Here /\ server[u].sum = imp.version
        BY <1>2, <2>1, <2>2, WritesPlainly DEF Revision
    <2>3. CASE ~(u = Here /\ server[u].sum = imp.version)
        BY <2>1, <2>3, WritesPlainly
    <2> QED
        BY <2>2, <2>3
<1> QED
    BY <1>1, <1>2 DEF BfInv, RefusalsOK, RefusalOK

LEMMA HereStays ==
    ASSUME UNCHANGED request, imp'.entry = imp.entry
    PROVE  Here' = Here /\ (imp'.version = imp.version => Revision' = revs'[Here][imp.version])
<1>1. Here' = Here
    BY PlanStays DEF Here
<1> QED
    BY <1>1 DEF Revision

\* The rest of a step that writes a revision, or nothing, and goes on with the file.
LEMMA GoingOn ==
    ASSUME BfInv, imp.pc \notin {"idle", "checksum"},
           NEW pc \in ImportSteps \ {"checksum"}, imp' = [imp EXCEPT !.pc = pc],
           UNCHANGED <<request, server, refusals, completed, bgaps>>,
           (revs \in [Urls -> [Versioned -> Revisions]])', RevsOK', RefusalsOK',
           \A e \in Urls : Accounted(e) => Accounted(e)',
           pc = "verify" /\ refusals[Here] # 0 =>
               revs'[Here][imp.version].partial = Content(imp.version),
           pc \in {"sum", "manifest"} => revs'[Here][imp.version].zip = Content(imp.version),
           pc = "manifest" => revs'[Here][imp.version].sum,
           pc = "normalise" => revs'[Here][imp.version].manifest
    PROVE  BfInv'
<1>1. StepOK /\ imp.entry \in Nat /\ imp.entry >= 1 /\ imp.entry <= Len(Plan)
    BY HereTypes
<1>2. /\ imp' \in [pc : ImportSteps \cup {"idle"}, entry : Nat, version : 0..Versions, calm : BOOLEAN]
      /\ imp'.pc = pc /\ imp'.entry = imp.entry /\ imp'.version = imp.version
      /\ imp'.calm = imp.calm
    BY DEF BfInv, BfTypeOK
<1>3. Plan' = Plan /\ Urls' = Urls
    BY PlanStays
<1>4. Here' = Here /\ Revision' = revs'[Here][imp.version]
    BY <1>2, HereStays
<1>5. BfTypeOK'
    BY <1>2, <1>3 DEF BfInv, BfTypeOK
<1>6. \A i \in DOMAIN Plan : Plan[i] \in Urls /\ (Accounted(Plan[i]) => Accounted(Plan[i])')
    BY <1>3, PlanTypes DEF BfInv, Accounted
<1>7. \A i \in 1..(imp.entry - 1) : i \in DOMAIN Plan
    BY <1>1, PlanTypes DEF BfInv
<1>8. StepOK'
    <2>1. (\A i \in 1..(imp.entry - 1) : Accounted(Plan[i]))'
        BY <1>1, <1>2, <1>3, <1>6, <1>7 DEF StepOK, Accounted
    <2>2. (imp.calm /\ imp.pc # "checksum" => imp.version = server[Here].sum)'
        BY <1>1, <1>2, <1>4 DEF StepOK
    <2>3. (~imp.calm => refusals[Here] = 0)'
        BY <1>1, <1>2, <1>4 DEF StepOK
    <2>4. (imp.entry \in DOMAIN Plan)' /\ (imp.pc # "checksum" => imp.version \in Versioned)'
        BY <1>1, <1>2, <1>3 DEF StepOK, Versioned
    <2>5. (imp.pc = "verify" /\ refusals[Here] # 0 => Revision.partial = Content(imp.version))'
        BY <1>2, <1>4
    <2>6. (imp.pc \in {"sum", "manifest"} => Revision.zip = Content(imp.version))'
        BY <1>2, <1>4
    <2>7. (imp.pc = "manifest" => Revision.sum)' /\ (imp.pc = "normalise" => Revision.manifest)'
        BY <1>2, <1>4
    <2> QED
        BY <2>1, <2>2, <2>3, <2>4, <2>5, <2>6, <2>7 DEF StepOK
<1>9. RunOK'
    BY <1>3, <1>6 DEF BfInv, RunOK, Accounted
<1> QED
    BY <1>2, <1>5, <1>8, <1>9 DEF BfInv, ImpOK, ImportSteps

\* The end of a file: the next one, or the end of the run.
LEMMA FinishedKeeps ==
    ASSUME BfInv, imp.pc # "idle", Finished, UNCHANGED <<request, server>>, NEW here, here = Here,
           (revs \in [Urls -> [Versioned -> Revisions]])', RevsOK', RefusalsOK',
           \A e \in Urls : Accounted(e) => Accounted(e)', Accounted(here)'
    PROVE  BfInv'
<1>1. StepOK /\ imp.entry \in Nat /\ imp.entry >= 1 /\ imp.entry <= Len(Plan)
    BY HereTypes
<1>2. Plan' = Plan /\ Urls' = Urls
    BY PlanStays
<1>3. UNCHANGED refusals
    BY DEF Finished, Calm
<1>4. \A i \in DOMAIN Plan : Plan[i] \in Urls /\ (Accounted(Plan[i]) => Accounted(Plan[i])')
    BY <1>2, PlanTypes DEF BfInv, Accounted
<1>5. \A i \in 1..imp.entry : i \in DOMAIN Plan /\ Accounted(Plan[i])'
    <2> SUFFICES ASSUME NEW i \in 1..imp.entry
                 PROVE  i \in DOMAIN Plan /\ Accounted(Plan[i])'
        OBVIOUS
    <2>1. i \in DOMAIN Plan
        BY <1>1, PlanTypes DEF BfInv
    <2>2. CASE i = imp.entry
        <3>1. Plan'[i] = here
            BY <1>2, <2>2 DEF Here
        <3> QED
            BY <2>1, <3>1 DEF Accounted
    <2>3. CASE i # imp.entry
        <3>1. i \in 1..(imp.entry - 1)
            BY <1>1, <2>3
        <3> QED
            BY <1>1, <1>4, <2>1, <3>1 DEF StepOK
    <2> QED
        BY <2>2, <2>3
<1>6. CASE imp.entry = Len(Plan)
    <2>1. imp' = NoImport
        BY <1>6 DEF Finished
    <2>2. imp' \in [pc : ImportSteps \cup {"idle"}, entry : Nat, version : 0..Versions, calm : BOOLEAN]
        BY <2>1, BackfillAssumption DEF NoImport
    <2>3. BfTypeOK'
        BY <1>2, <1>3, <2>2 DEF BfInv, BfTypeOK
    <2>4. RunOK'
        BY <1>2, <1>5, <1>6, PlanTypes DEF BfInv, RunOK
    <2>5. ImpOK'
        BY <2>1 DEF ImpOK, NoImport
    <2> QED
        BY <2>3, <2>4, <2>5 DEF BfInv
<1>7. CASE imp.entry # Len(Plan)
    <2>1. imp' = [pc |-> "checksum", entry |-> imp.entry + 1, version |-> 0, calm |-> TRUE]
        BY <1>7 DEF Finished
    <2>2. imp' \in [pc : ImportSteps \cup {"idle"}, entry : Nat, version : 0..Versions, calm : BOOLEAN]
        BY <1>1, <2>1, BackfillAssumption DEF ImportSteps
    <2>3. BfTypeOK'
        BY <1>2, <1>3, <2>2 DEF BfInv, BfTypeOK
    <2>4. RunOK'
        BY <1>7 DEF RunOK, Finished
    <2>5. imp'.entry \in DOMAIN Plan'
        BY <1>1, <1>2, <1>7, <2>1, PlanTypes DEF BfInv
    <2>6. (\A i \in 1..(imp.entry - 1) : Accounted(Plan[i]))'
        <3>1. imp'.entry - 1 = imp.entry
            BY <1>1, <2>1
        <3> QED
            BY <1>5, <3>1
    <2>7. StepOK'
        BY <2>1, <2>5, <2>6 DEF StepOK
    <2> QED
        BY <2>1, <2>3, <2>4, <2>7 DEF BfInv, ImpOK
<1> QED
    BY <1>6, <1>7

\* A run that ends without its document: no import is under way.
LEMMA EndedKeeps ==
    ASSUME BfInv, imp.pc # "idle", imp' = NoImport,
           UNCHANGED <<request, server, completed>>,
           (revs \in [Urls -> [Versioned -> Revisions]])', RevsOK', RefusalsOK',
           refusals' \in [Urls -> Nat],
           \A e \in Urls : Accounted(e) => Accounted(e)'
    PROVE  BfInv'
<1>1. Plan' = Plan /\ Urls' = Urls
    BY PlanStays
<1>2. imp' \in [pc : ImportSteps \cup {"idle"}, entry : Nat, version : 0..Versions, calm : BOOLEAN]
    BY BackfillAssumption DEF NoImport
<1>3. BfTypeOK'
    BY <1>1, <1>2 DEF BfInv, BfTypeOK
<1>4. \A i \in DOMAIN Plan : Plan[i] \in Urls /\ (Accounted(Plan[i]) => Accounted(Plan[i])')
    BY <1>1, PlanTypes DEF BfInv, Accounted
<1>5. RunOK'
    BY <1>1, <1>4 DEF BfInv, RunOK
<1>6. ImpOK'
    BY DEF ImpOK, NoImport
<1> QED
    BY <1>3, <1>5, <1>6 DEF BfInv

\* Nothing is written.
LEMMA NothingWritten ==
    ASSUME BfInv, UNCHANGED <<request, revs>>, bgaps \subseteq bgaps'
    PROVE  /\ (revs \in [Urls -> [Versioned -> Revisions]])' /\ RevsOK'
           /\ \A e \in Urls : Accounted(e) => Accounted(e)'
           /\ UNCHANGED <<server, refusals>> => RefusalsOK'
<1>1. Urls' = Urls
    BY PlanStays
<1>2. (revs \in [Urls -> [Versioned -> Revisions]])' /\ RevsOK'
    BY <1>1 DEF BfInv, BfTypeOK, RevsOK, Versioned
<1>3. \A e \in Urls : Accounted(e) => Accounted(e)'
    BY AccountedStays
<1>4. UNCHANGED <<server, refusals>> => RefusalsOK'
    BY <1>1 DEF BfInv, RefusalsOK, RefusalOK
<1> QED
    BY <1>2, <1>3, <1>4

\* A disturbance of one URL forgets its refusals.
LEMMA DisturbedKeeps ==
    ASSUME BfInv, NEW u \in Urls, Troubled(u), UNCHANGED request,
           \A w \in Urls : w # u =>
               server'[w] = server[w] /\ \A v \in Versioned : revs'[w][v] = revs[w][v]
    PROVE  /\ RefusalsOK' /\ refusals' \in [Urls -> Nat] /\ refusals'[u] = 0
           /\ \A w \in Urls : w # u => refusals'[w] = refusals[w]
<1>1. Urls' = Urls
    BY PlanStays
<1>2. refusals \in [Urls -> Nat] /\ refusals' = [refusals EXCEPT ![u] = 0]
    BY DEF Troubled, BfInv, BfTypeOK
<1>3. /\ refusals' \in [Urls -> Nat] /\ refusals'[u] = 0
      /\ \A w \in Urls : w # u => refusals'[w] = refusals[w]
    BY <1>2
<1>4. ASSUME NEW w \in Urls, refusals'[w] # 0
      PROVE  /\ refusals'[w] = 1 /\ server'[w].zip = server'[w].sum /\ server'[w].sum # 0
             /\ revs'[w][server'[w].sum].partial \in {<< >>, Content(server'[w].sum)}
    <2>1. w # u /\ refusals[w] # 0 /\ server'[w] = server[w]
        BY <1>3, <1>4
    <2>2. server[w].sum \in Versioned
        BY <2>1 DEF BfInv, BfTypeOK, RefusalsOK, RefusalOK, Versioned
    <2> QED
        BY <1>3, <2>1, <2>2 DEF BfInv, RefusalsOK, RefusalOK
<1> QED
    BY <1>1, <1>3, <1>4 DEF RefusalsOK, RefusalOK

LEMMA ServerChangesKeeps ==
    ASSUME BfInv, NEW u \in Urls, NEW field \in {"zip", "sum"}, NEW version \in 0..Versions,
           ServerChanges(u, field, version)
    PROVE  BfInv'
<1>1. /\ UNCHANGED <<request, revs, bgaps, completed>> /\ Troubled(u)
      /\ server' = [server EXCEPT ![u][field] = version]
      /\ imp' = [imp EXCEPT !.calm = imp.calm /\ u # Plan[imp.entry]]
    BY DEF ServerChanges
<1>2. Plan' = Plan /\ Urls' = Urls
    BY <1>1, PlanStays
<1>3. /\ server' \in [Urls -> [zip : 0..Versions, sum : 0..Versions]]
      /\ \A w \in Urls : w # u => server'[w] = server[w]
    BY <1>1 DEF BfInv, BfTypeOK
<1>4. /\ RefusalsOK' /\ refusals' \in [Urls -> Nat] /\ refusals'[u] = 0
      /\ \A w \in Urls : w # u => refusals'[w] = refusals[w]
    BY <1>1, <1>3, DisturbedKeeps
<1>5. /\ (revs \in [Urls -> [Versioned -> Revisions]])' /\ RevsOK'
      /\ \A e \in Urls : Accounted(e) => Accounted(e)'
    BY <1>1, NothingWritten
<1> DEFINE calm == imp.calm /\ u # Plan[imp.entry]
<1>6. imp \in [pc : ImportSteps \cup {"idle"}, entry : Nat, version : 0..Versions, calm : BOOLEAN]
    BY DEF BfInv, BfTypeOK
<1>7. /\ imp' \in [pc : ImportSteps \cup {"idle"}, entry : Nat, version : 0..Versions, calm : BOOLEAN]
      /\ imp'.pc = imp.pc /\ imp'.entry = imp.entry /\ imp'.version = imp.version
      /\ imp'.calm = calm
    <2>1. calm \in BOOLEAN
        OBVIOUS
    <2> HIDE DEF calm
    <2>2. imp' = [imp EXCEPT !.calm = calm]
        BY <1>1 DEF calm
    <2> QED
        BY <1>6, <2>1, <2>2
<1>8. BfTypeOK'
    BY <1>1, <1>2, <1>3, <1>4, <1>5, <1>7 DEF BfInv, BfTypeOK
<1>9. \A i \in DOMAIN Plan : Plan[i] \in Urls /\ (Accounted(Plan[i]) => Accounted(Plan[i])')
    BY <1>2, <1>5, PlanTypes DEF BfInv, Accounted
<1>10. RunOK'
    BY <1>1, <1>2, <1>9 DEF BfInv, RunOK
<1>11. ImpOK'
    <2>1. CASE imp.pc = "idle"
        <3>1. imp = NoImport
            BY <2>1 DEF BfInv, ImpOK
        <3>2. calm = FALSE
            BY <3>1 DEF NoImport
        <3> HIDE DEF calm
        <3>3. imp' = NoImport
            BY <1>6, <1>7, <3>1, <3>2 DEF NoImport
        <3> QED
            BY <3>3 DEF ImpOK, NoImport
    <2>2. CASE imp.pc # "idle"
        <3>1. StepOK /\ Here \in Urls /\ imp.entry \in Nat /\ imp.entry <= Len(Plan)
            BY <2>2, HereTypes
        <3>2. Here' = Here /\ Revision' = Revision
            BY <1>1, <1>7, HereStays DEF Revision
        <3>3. (~imp.calm => refusals[Here] = 0)'
            <4>1. CASE u = Here
                BY <1>4, <3>2, <4>1
            <4>2. CASE u # Here
                BY <1>4, <1>7, <3>1, <3>2, <4>2 DEF StepOK, Here
            <4> QED
                BY <4>1, <4>2
        <3>4. (imp.calm /\ imp.pc # "checksum" => imp.version = server[Here].sum)'
            <4>1. CASE u = Here
                BY <1>7, <4>1 DEF Here
            <4>2. CASE u # Here
                BY <1>3, <1>7, <3>1, <3>2, <4>2 DEF StepOK
            <4> QED
                BY <4>1, <4>2
        <3>5. (imp.pc = "verify" /\ refusals[Here] # 0 => Revision.partial = Content(imp.version))'
            <4>1. CASE u = Here
                BY <1>4, <3>2, <4>1
            <4>2. CASE u # Here
                BY <1>4, <1>7, <3>1, <3>2, <4>2 DEF StepOK
            <4> QED
                BY <4>1, <4>2
        <3>6. (\A i \in 1..(imp.entry - 1) : Accounted(Plan[i]))'
            <4>1. \A i \in 1..(imp.entry - 1) : i \in DOMAIN Plan
                BY <3>1, PlanTypes DEF BfInv
            <4> QED
                BY <1>7, <1>9, <3>1, <4>1 DEF StepOK
        <3>7. StepOK'
            BY <1>2, <1>7, <3>1, <3>2, <3>3, <3>4, <3>5, <3>6 DEF StepOK, Versioned
        <3> QED
            BY <1>7, <2>2, <3>7 DEF ImpOK
    <2> QED
        BY <2>1, <2>2
<1> QED
    BY <1>4, <1>5, <1>8, <1>10, <1>11 DEF BfInv

LEMMA RunImportKeeps ==
    ASSUME BfInv, RunImport
    PROVE  BfInv'
<1>1. /\ UNCHANGED <<request, server, revs, bgaps, refusals>> /\ completed' = FALSE
      /\ imp' = [pc |-> "checksum", entry |-> 1, version |-> 0, calm |-> TRUE]
    BY DEF RunImport, Untouched, Calm
<1>2. Plan' = Plan /\ Urls' = Urls
    BY <1>1, PlanStays
<1>3. imp' \in [pc : ImportSteps \cup {"idle"}, entry : Nat, version : 0..Versions, calm : BOOLEAN]
    BY <1>1, BackfillAssumption DEF ImportSteps
<1>4. RevsOK' /\ RefusalsOK' /\ BfTypeOK'
    BY <1>1, <1>2, <1>3, NothingWritten DEF BfInv, BfTypeOK
<1>5. 1 \in DOMAIN Plan
    BY PlanTypes DEF BfInv
<1>6. StepOK'
    BY <1>1, <1>2, <1>5 DEF StepOK
<1> QED
    BY <1>1, <1>4, <1>6 DEF BfInv, ImpOK, RunOK

\* A gap that is recorded accounts for its file.
LEMMA RecordGapKeeps ==
    ASSUME BfInv, imp.pc # "idle", NEW reason, RecordGap(reason), UNCHANGED <<request, server>>
    PROVE  BfInv'
<1>1. /\ UNCHANGED <<revs, refusals>> /\ bgaps' = bgaps \cup {<<Here, reason>>} /\ Finished
    BY DEF RecordGap, Finished, Calm
<1>2. PICK here : here = Here
    OBVIOUS
<1>3. Accounted(here)'
    <2>1. <<Here, reason>> \in bgaps' /\ <<Here, reason>>[1] = here
        BY <1>1, <1>2
    <2> QED
        BY <2>1 DEF Accounted
<1>4. /\ (revs \in [Urls -> [Versioned -> Revisions]])' /\ RevsOK'
      /\ (\A e \in Urls : Accounted(e) => Accounted(e)') /\ RefusalsOK'
    BY <1>1, NothingWritten
<1> QED
    BY <1>1, <1>2, <1>3, <1>4, FinishedKeeps

LEMMA FetchChecksumKeeps ==
    ASSUME BfInv, FetchChecksum
    PROVE  BfInv'
<1> DEFINE version == server[Here].sum
           there == revs[Here][version]
<1>1. UNCHANGED <<request, server>> /\ imp.pc = "checksum"
    BY DEF FetchChecksum, Untouched
<1>2. StepOK /\ Here \in Urls /\ imp.entry \in Nat /\ imp.entry <= Len(Plan)
    BY <1>1, HereTypes
<1>3. CASE version = 0
    <2>1. RecordGap("CHECKSUM_NOT_FOUND")
        BY <1>3 DEF FetchChecksum
    <2> QED
        BY <1>1, <2>1, RecordGapKeeps
<1>4. CASE version # 0
    <2>1. version \in Versioned /\ version \in 0..Versions
        BY <1>2, <1>4, BackfillAssumption DEF BfInv, BfTypeOK, Versioned
    <2>2. there \in Revisions /\ RevOK(there, version)
        BY <1>2, <2>1 DEF BfInv, BfTypeOK, RevsOK
    <2>3. ~(there.manifest /\ there.zip # << >> /\ ~VerifyFile(there.zip, version))
        BY <2>2 DEF RevOK, VerifyFile
    <2> DEFINE pc == IF there.manifest /\ there.zip # << >> THEN "normalise" ELSE "download"
    <2>4. /\ imp' = [imp EXCEPT !.version = version, !.pc = pc]
          /\ UNCHANGED <<revs, bgaps, completed, refusals>>
        BY <1>4, <2>3 DEF FetchChecksum, Calm
    <2>5. imp \in [pc : ImportSteps \cup {"idle"}, entry : Nat, version : 0..Versions, calm : BOOLEAN]
        BY DEF BfInv, BfTypeOK
    <2>6. pc \in {"normalise", "download"} /\ (pc = "normalise" => there.manifest)
        OBVIOUS
    <2> HIDE DEF pc, version, there
    <2>7. /\ imp' \in [pc : ImportSteps \cup {"idle"}, entry : Nat, version : 0..Versions, calm : BOOLEAN]
          /\ imp'.pc = pc /\ imp'.entry = imp.entry /\ imp'.version = version
          /\ imp'.calm = imp.calm
        BY <2>1, <2>4, <2>5, <2>6 DEF ImportSteps
    <2>8. Plan' = Plan /\ Urls' = Urls /\ Here' = Here
        BY <1>1, <2>7, PlanStays, HereStays
    <2>9. RevsOK' /\ RefusalsOK' /\ \A e \in Urls : Accounted(e) => Accounted(e)'
        BY <1>1, <2>4, NothingWritten
    <2>10. BfTypeOK'
        BY <1>1, <2>4, <2>7, <2>8 DEF BfInv, BfTypeOK, Versioned
    <2>11. \A i \in DOMAIN Plan : Plan[i] \in Urls /\ (Accounted(Plan[i]) => Accounted(Plan[i])')
        BY <2>8, <2>9, PlanTypes DEF BfInv, Accounted
    <2>12. RunOK'
        BY <2>4, <2>8, <2>11 DEF BfInv, RunOK
    <2>13. StepOK'
        <3>1. (\A i \in 1..(imp.entry - 1) : Accounted(Plan[i]))'
            <4>1. \A i \in 1..(imp.entry - 1) : i \in DOMAIN Plan
                BY <1>2, PlanTypes DEF BfInv
            <4> QED
                BY <1>2, <2>7, <2>11, <4>1 DEF StepOK
        <3>2. imp'.version \in Versioned' /\ imp'.version = server'[Here'].sum
            BY <1>1, <2>1, <2>7, <2>8 DEF version, Versioned
        <3>3. pc = "normalise" => Revision'.manifest
            BY <1>1, <2>4, <2>6, <2>7, <2>8 DEF Revision, there, version
        <3> QED
            BY <1>2, <2>4, <2>6, <2>7, <2>8, <3>1, <3>2, <3>3 DEF StepOK
    <2> QED
        BY <2>6, <2>7, <2>9, <2>10, <2>12, <2>13 DEF BfInv, ImpOK
<1> QED
    BY <1>3, <1>4

\* What an answer of the server makes of the partial file.
LEMMA AnswerTyped ==
    ASSUME BfInv, imp.pc = "download", NEW ranged \in BOOLEAN, NEW got \in Nat,
           got <= Len(Content(server[Here].zip))
    PROVE  /\ Answer(ranged, got) \in Seq(Nat)
           /\ Revision.partial = << >> /\ got = Len(Content(server[Here].zip)) =>
                Answer(ranged, got) = Content(server[Here].zip)
<1> DEFINE body == Content(server[Here].zip)
           p == Revision.partial
<1>1. server[Here].zip \in Nat /\ p \in Seq(Nat)
    <2>1. Here \in Urls /\ Revision \in Revisions
        BY HereTypes
    <2> QED
        BY <2>1, BackfillAssumption DEF BfInv, BfTypeOK, Revisions
<1>2. body \in Seq(Nat) /\ Len(body) \in Nat
    BY <1>1, ContentTyped
<1>3. Answer(ranged, got) = IF ranged /\ Len(p) > 0 THEN p \o SubSeq(body, Len(p) + 1, got)
                            ELSE SubSeq(body, 1, got)
    BY DEF Answer
<1>4. got <= Len(body) /\ Len(p) \in Nat
    BY <1>1
<1> HIDE DEF body, p
<1>5. SubSeq(body, 1, got) \in Seq(Nat)
    BY <1>2, <1>4
<1>6. ASSUME Len(p) > 0 PROVE SubSeq(body, Len(p) + 1, got) \in Seq(Nat)
    <2>1. \A i \in (Len(p) + 1)..got : i \in 1..Len(body)
        BY <1>2, <1>4
    <2> QED
        BY <1>2, <1>4, <2>1
<1>7. Answer(ranged, got) \in Seq(Nat)
    BY <1>1, <1>3, <1>5, <1>6
<1>8. ASSUME p = << >>, got = Len(body)
      PROVE  Answer(ranged, got) = body
    <2>1. SubSeq(body, 1, Len(body)) = body
        BY <1>2
    <2> QED
        BY <1>3, <1>8, <2>1
<1> QED
    BY <1>7, <1>8 DEF body, p

LEMMA DownloadedKeeps ==
    ASSUME BfInv, Downloaded
    PROVE  BfInv'
<1> DEFINE version == server[Here].zip
           offset == Len(Revision.partial)
<1>1. imp.pc = "download" /\ UNCHANGED <<request, server, malformed>>
    BY DEF Downloaded, Untouched
<1>2. /\ StepOK /\ Here \in Urls /\ imp.version \in Versioned /\ imp.version \in Nat
      /\ Revision \in Revisions /\ RevOK(Revision, imp.version)
    BY <1>1, HereTypes
<1>3. Revision.partial \in Seq(Nat) /\ offset \in Nat /\ version \in Nat
    BY <1>2, BackfillAssumption DEF Revisions, BfInv, BfTypeOK
<1>4. ASSUME refusals[Here] # 0
      PROVE  version = imp.version /\ Revision.partial \in {<< >>, Content(imp.version)}
    BY <1>1, <1>2, <1>4 DEF StepOK, BfInv, RefusalsOK, RefusalOK, Revision
<1>5. CASE version = 0 /\ RecordGap("ZIP_NOT_FOUND")
    BY <1>1, <1>5, RecordGapKeeps
<1>6. CASE /\ version # 0 /\ offset > 0 /\ offset >= Len(Content(version))
           /\ To("verify") /\ Calm /\ UNCHANGED <<revs, bgaps, completed>>
    <2>1. refusals[Here] # 0 => Revision.partial = Content(imp.version)
        <3>1. Revision.partial # << >>
            BY <1>3, <1>6
        <3> QED
            BY <1>4, <3>1
    <2>2. refusals[Here] # 0 => revs'[Here][imp.version].partial = Content(imp.version)
        BY <1>6, <2>1 DEF Revision
    <2>3. UNCHANGED refusals /\ imp' = [imp EXCEPT !.pc = "verify"]
        BY <1>6 DEF Calm, To
    <2>4. /\ (revs \in [Urls -> [Versioned -> Revisions]])' /\ RevsOK' /\ RefusalsOK'
          /\ \A e \in Urls : Accounted(e) => Accounted(e)'
        BY <1>1, <1>6, <2>3, NothingWritten
    <2>5. "verify" \in ImportSteps \ {"checksum"}
        BY DEF ImportSteps
    <2> QED
        BY <1>1, <1>6, <2>2, <2>3, <2>4, <2>5, GoingOn
<1>7. ASSUME version # 0, offset < Len(Content(version)),
             NEW ranged \in BOOLEAN,
             Files([Revision EXCEPT !.partial = Answer(ranged, Len(Content(version)))]),
             To("verify"), Calm, UNCHANGED <<bgaps, completed>>
      PROVE  BfInv'
    <2> DEFINE a == Answer(ranged, Len(Content(version)))
               r == [Revision EXCEPT !.partial = a]
    <2>1. /\ a \in Seq(Nat)
          /\ Revision.partial = << >> => a = Content(version)
        <3>1. Len(Content(version)) \in Nat /\ Len(Content(version)) <= Len(Content(version))
            BY <1>3, ContentTyped
        <3> QED
            BY <1>1, <3>1, AnswerTyped
    <2>2. refusals[Here] # 0 => a = Content(imp.version)
        <3>1. ASSUME refusals[Here] # 0 PROVE Revision.partial = << >>
            <4>1. Revision.partial # Content(version)
                BY <1>3, <1>7, ContentTyped
            <4> QED
                BY <1>4, <3>1, <4>1
        <3> QED
            BY <1>4, <2>1, <3>1
    <2> HIDE DEF a
    <2>3. /\ r \in Revisions /\ r.partial = a /\ r.zip = Revision.zip /\ r.sum = Revision.sum
          /\ r.manifest = Revision.manifest /\ r.parquet = Revision.parquet
        BY <1>2, <2>1 DEF Revisions
    <2>4. Files(r)
        BY <1>7 DEF a
    <2> HIDE DEF r
    <2>5. RevOK(r, imp.version)
        BY <1>2, <2>3 DEF RevOK
    <2>6. Writes(r)
        BY <1>1, <1>7, <2>3, <2>4, <2>5 DEF Writes
    <2>7. UNCHANGED refusals /\ imp' = [imp EXCEPT !.pc = "verify"]
        BY <1>7 DEF Calm, To
    <2>8. /\ (revs \in [Urls -> [Versioned -> Revisions]])' /\ RevsOK'
          /\ (\A e \in Urls : Accounted(e) => Accounted(e)') /\ revs'[Here][imp.version] = r
        BY <2>6, WritesKeep, WritesPlainly
    <2>9. RefusalsOK'
        BY <1>1, <2>2, <2>3, <2>6, <2>7, WritesKeepRefusals
    <2>10. "verify" \in ImportSteps \ {"checksum"}
        BY DEF ImportSteps
    <2> QED
        BY <1>1, <1>7, <2>2, <2>3, <2>7, <2>8, <2>9, <2>10, GoingOn
<1> QED
    BY <1>5, <1>6, <1>7 DEF Downloaded

\* A download that is cut: the partial file is whatever arrived, and the refusals of the
\* URL are forgotten.
LEMMA PartialDisturbed ==
    ASSUME BfInv, imp.pc = "download", NEW a \in Seq(Nat),
           Files([Revision EXCEPT !.partial = a]), Troubled(Here),
           UNCHANGED <<request, server, bgaps>>
    PROVE  /\ (revs \in [Urls -> [Versioned -> Revisions]])' /\ RevsOK'
           /\ \A e \in Urls : Accounted(e) => Accounted(e)'
           /\ RefusalsOK' /\ refusals' \in [Urls -> Nat] /\ refusals'[Here] = 0
<1> DEFINE r == [Revision EXCEPT !.partial = a]
<1>1. /\ Here \in Urls /\ Revision \in Revisions /\ RevOK(Revision, imp.version)
    BY HereTypes
<1>2. /\ r \in Revisions /\ r.zip = Revision.zip /\ r.sum = Revision.sum
      /\ r.manifest = Revision.manifest /\ r.parquet = Revision.parquet
    BY <1>1 DEF Revisions
<1>3. Files(r)
    OBVIOUS
<1> HIDE DEF r
<1>4. RevOK(r, imp.version)
    BY <1>1, <1>2 DEF RevOK
<1>5. Writes(r)
    BY <1>2, <1>3, <1>4 DEF Writes
<1>6. \A w \in Urls : w # Here =>
          server'[w] = server[w] /\ \A v \in Versioned : revs'[w][v] = revs[w][v]
    BY <1>5, WritesPlainly
<1> QED
    BY <1>1, <1>5, <1>6, WritesKeep, DisturbedKeeps

LEMMA DownloadCutKeeps ==
    ASSUME BfInv, NEW noticed \in BOOLEAN, DownloadCut(noticed)
    PROVE  BfInv'
<1>1. /\ imp.pc = "download" /\ UNCHANGED <<request, server, bgaps, completed>>
      /\ Troubled(Here)
      /\ imp' = IF noticed THEN NoImport ELSE [imp EXCEPT !.pc = "verify", !.calm = FALSE]
    BY DEF DownloadCut, Untouched
<1>2. PICK ranged \in BOOLEAN, got \in 0..(Len(Content(server[Here].zip)) - 1) :
          Files([Revision EXCEPT !.partial = Answer(ranged, got)])
    BY DEF DownloadCut
<1>3. /\ StepOK /\ Here \in Urls /\ imp.version \in Versioned
      /\ imp.entry \in Nat /\ imp.entry <= Len(Plan)
    BY <1>1, HereTypes
<1>4. server[Here].zip \in Nat
    BY <1>3, BackfillAssumption DEF BfInv, BfTypeOK
<1>5. got \in Nat /\ got <= Len(Content(server[Here].zip))
    BY <1>2, <1>4, ContentTyped
<1>6. Answer(ranged, got) \in Seq(Nat)
    BY <1>1, <1>5, AnswerTyped
<1>7. /\ (revs \in [Urls -> [Versioned -> Revisions]])' /\ RevsOK'
      /\ \A e \in Urls : Accounted(e) => Accounted(e)'
      /\ RefusalsOK' /\ refusals' \in [Urls -> Nat] /\ refusals'[Here] = 0
    BY <1>1, <1>2, <1>6, PartialDisturbed
<1>8. CASE noticed
    BY <1>1, <1>7, <1>8, EndedKeeps
<1>9. CASE ~noticed
    <2>1. imp \in [pc : ImportSteps \cup {"idle"}, entry : Nat, version : 0..Versions, calm : BOOLEAN]
        BY DEF BfInv, BfTypeOK
    <2>2. /\ imp' \in [pc : ImportSteps \cup {"idle"}, entry : Nat, version : 0..Versions, calm : BOOLEAN]
          /\ imp'.pc = "verify" /\ imp'.entry = imp.entry /\ imp'.version = imp.version
          /\ imp'.calm = FALSE
        BY <1>1, <1>9, <2>1 DEF ImportSteps
    <2>3. Plan' = Plan /\ Urls' = Urls /\ Here' = Here
        BY <1>1, <2>2, PlanStays, HereStays
    <2>4. BfTypeOK'
        BY <1>1, <1>7, <2>2, <2>3 DEF BfInv, BfTypeOK
    <2>5. \A i \in DOMAIN Plan : Plan[i] \in Urls /\ (Accounted(Plan[i]) => Accounted(Plan[i])')
        BY <1>7, <2>3, PlanTypes DEF BfInv, Accounted
    <2>6. RunOK'
        BY <1>1, <2>3, <2>5 DEF BfInv, RunOK
    <2>7. (\A i \in 1..(imp.entry - 1) : Accounted(Plan[i]))'
        <3>1. \A i \in 1..(imp.entry - 1) : i \in DOMAIN Plan
            BY <1>3, PlanTypes DEF BfInv
        <3> QED
            BY <1>3, <2>2, <2>5, <3>1 DEF StepOK
    <2>8. StepOK'
        BY <1>3, <1>7, <2>2, <2>3, <2>7 DEF StepOK, Versioned
    <2> QED
        BY <1>7, <2>2, <2>4, <2>6, <2>8 DEF BfInv, ImpOK
<1> QED
    BY <1>8, <1>9

LEMMA WrongRangeKeeps ==
    ASSUME BfInv, WrongRange
    PROVE  BfInv'
<1>1. /\ imp.pc = "download" /\ UNCHANGED <<request, server, bgaps, completed>>
      /\ Troubled(Here) /\ Files([Revision EXCEPT !.partial = << >>]) /\ imp' = NoImport
    BY DEF WrongRange, Untouched
<1>2. << >> \in Seq(Nat)
    OBVIOUS
<1> QED
    BY <1>1, <1>2, PartialDisturbed, EndedKeeps

LEMMA KillImportKeeps ==
    ASSUME BfInv, KillImport
    PROVE  BfInv'
<1>1. /\ imp.pc # "idle" /\ Troubled(Here) /\ imp' = NoImport
      /\ UNCHANGED <<request, server, revs, bgaps, completed>>
    BY DEF KillImport
<1>2. Here \in Urls
    BY <1>1, HereTypes
<1>3. RefusalsOK' /\ refusals' \in [Urls -> Nat]
    BY <1>1, <1>2, DisturbedKeeps
<1> QED
    BY <1>1, <1>3, NothingWritten, EndedKeeps

\* A verified partial file becomes the file; another one is removed and refuses once.
LEMMA VerifyPartialKeeps ==
    ASSUME BfInv, VerifyPartial
    PROVE  BfInv'
<1>1. imp.pc = "verify" /\ UNCHANGED <<request, server, bgaps, completed>>
    BY DEF VerifyPartial, Untouched
<1>2. /\ StepOK /\ Here \in Urls /\ imp.version \in Versioned /\ imp.version \in Nat
      /\ Revision \in Revisions /\ RevOK(Revision, imp.version)
    BY <1>1, HereTypes
<1>3. CASE Verified(Revision, imp.version)
    <2> DEFINE r == [Revision EXCEPT !.zip = Revision.partial, !.partial = << >>]
    <2>1. Revision.partial = Content(imp.version)
        BY <1>3 DEF Verified, VerifyFile
    <2>2. << >> \in Seq(Nat) /\ Revision.partial \in Seq(Nat)
        BY <1>2 DEF Revisions
    <2>3. /\ r \in Revisions /\ r.partial = << >> /\ r.zip = Content(imp.version)
          /\ r.sum = Revision.sum /\ r.manifest = Revision.manifest
          /\ r.parquet = Revision.parquet
        BY <1>2, <2>1, <2>2 DEF Revisions
    <2>4. Files(r) /\ To("sum") /\ Calm
        BY <1>3 DEF VerifyPartial
    <2> HIDE DEF r
    <2>5. RevOK(r, imp.version)
        BY <1>2, <2>3 DEF RevOK
    <2>6. Writes(r)
        BY <1>1, <2>3, <2>4, <2>5 DEF Writes
    <2>7. UNCHANGED refusals /\ imp' = [imp EXCEPT !.pc = "sum"]
        BY <2>4 DEF Calm, To
    <2>8. /\ (revs \in [Urls -> [Versioned -> Revisions]])' /\ RevsOK'
          /\ (\A e \in Urls : Accounted(e) => Accounted(e)') /\ revs'[Here][imp.version] = r
        BY <2>6, WritesKeep, WritesPlainly
    <2>9. RefusalsOK'
        BY <1>1, <2>3, <2>6, <2>7, WritesKeepRefusals
    <2>10. "sum" \in ImportSteps \ {"checksum"}
        BY DEF ImportSteps
    <2> QED
        BY <1>1, <2>3, <2>7, <2>8, <2>9, <2>10, GoingOn
<1>4. CASE ~Verified(Revision, imp.version)
    <2> DEFINE r == Mismatch(Revision)
               counted == /\ imp.calm /\ server[Here].zip = server[Here].sum
                          /\ ~Malformed(imp.version)
    <2>1. << >> \in Seq(Nat)
        OBVIOUS
    <2>2. /\ r \in Revisions /\ r.partial = << >> /\ r.zip = Revision.zip
          /\ r.sum = Revision.sum /\ r.manifest = Revision.manifest
          /\ r.parquet = Revision.parquet
        BY <1>2, <2>1 DEF Revisions, Mismatch
    <2>3. Files(r) /\ RaiseImport
        BY <1>4 DEF VerifyPartial
    <2> HIDE DEF r
    <2>4. RevOK(r, imp.version)
        BY <1>2, <2>2 DEF RevOK
    <2>5. Writes(r)
        BY <1>1, <2>2, <2>3, <2>4 DEF Writes
    <2>6. /\ (revs \in [Urls -> [Versioned -> Revisions]])' /\ RevsOK'
          /\ (\A e \in Urls : Accounted(e) => Accounted(e)')
          /\ revs'[Here][imp.version] = r
          /\ \A u \in Urls, v \in Versioned :
                u # Here \/ v # imp.version => revs'[u][v] = revs[u][v]
        BY <2>5, WritesKeep, WritesPlainly
    <2>7. refusals[Here] = 0
        BY <1>1, <1>2, <1>4 DEF StepOK, Verified, VerifyFile
    <2>8. /\ imp' = NoImport
          /\ refusals' = [refusals EXCEPT ![Here] = IF counted THEN @ + 1 ELSE @]
        BY <2>3 DEF RaiseImport
    <2>9. /\ refusals' \in [Urls -> Nat]
          /\ refusals'[Here] = IF counted THEN 1 ELSE 0
          /\ \A u \in Urls : u # Here => refusals'[u] = refusals[u]
        <3>1. refusals \in [Urls -> Nat]
            BY DEF BfInv, BfTypeOK
        <3> HIDE DEF counted
        <3> QED
            BY <1>2, <2>7, <2>8, <3>1
    <2>10. Urls' = Urls
        BY <1>1, PlanStays
    <2>11. ASSUME NEW u \in Urls, refusals'[u] # 0
           PROVE  /\ refusals'[u] = 1 /\ server[u].zip = server[u].sum /\ server[u].sum # 0
                  /\ revs'[u][server[u].sum].partial \in {<< >>, Content(server[u].sum)}
        <3>1. CASE u = Here
            <4>1. counted /\ refusals'[u] = 1
                BY <2>9, <2>11, <3>1
            <4>2. imp.version = server[Here].sum
                BY <1>1, <1>2, <4>1 DEF StepOK
            <4>3. imp.version # 0
                BY <1>2 DEF Versioned
            <4> QED
                BY <2>2, <2>6, <3>1, <4>1, <4>2, <4>3
        <3>2. CASE u # Here
            <4>1. server[u].sum \in Versioned /\ refusals[u] # 0
                BY <2>9, <2>11, <3>2 DEF BfInv, BfTypeOK, RefusalsOK, RefusalOK, Versioned
            <4> QED
                BY <2>6, <2>9, <3>2, <4>1 DEF BfInv, RefusalsOK, RefusalOK
        <3> QED
            BY <3>1, <3>2
    <2>12. RefusalsOK'
        BY <1>1, <2>10, <2>11 DEF RefusalsOK, RefusalOK
    <2> QED
        BY <1>1, <2>6, <2>8, <2>9, <2>12, EndedKeeps
<1> QED
    BY <1>3, <1>4

LEMMA WriteChecksumKeeps ==
    ASSUME BfInv, WriteChecksum
    PROVE  BfInv'
<1>1. imp.pc = "sum" /\ UNCHANGED <<request, server, bgaps, completed>>
    BY DEF WriteChecksum, Untouched
<1>2. /\ StepOK /\ Here \in Urls /\ imp.version \in Versioned
      /\ Revision \in Revisions /\ RevOK(Revision, imp.version)
    BY <1>1, HereTypes
<1> DEFINE r == [Revision EXCEPT !.sum = TRUE]
<1>3. /\ r \in Revisions /\ r.partial = Revision.partial /\ r.zip = Revision.zip
      /\ r.sum = TRUE /\ r.manifest = Revision.manifest /\ r.parquet = Revision.parquet
    BY <1>2 DEF Revisions
<1>4. Files(r) /\ To("manifest") /\ Calm
    BY DEF WriteChecksum
<1> HIDE DEF r
<1>5. RevOK(r, imp.version) /\ r.zip = Content(imp.version)
    BY <1>1, <1>2, <1>3 DEF RevOK, StepOK
<1>6. Writes(r)
    BY <1>1, <1>3, <1>4, <1>5 DEF Writes
<1>7. UNCHANGED refusals /\ imp' = [imp EXCEPT !.pc = "manifest"]
    BY <1>4 DEF Calm, To
<1>8. /\ (revs \in [Urls -> [Versioned -> Revisions]])' /\ RevsOK' /\ RefusalsOK'
      /\ (\A e \in Urls : Accounted(e) => Accounted(e)') /\ revs'[Here][imp.version] = r
    BY <1>1, <1>3, <1>6, <1>7, WritesKeep, WritesPlainly, WritesKeepRefusals
<1>9. "manifest" \in ImportSteps \ {"checksum"}
    BY DEF ImportSteps
<1> QED
    BY <1>1, <1>3, <1>5, <1>7, <1>8, <1>9, GoingOn

LEMMA WriteSourceManifestKeeps ==
    ASSUME BfInv, WriteSourceManifest
    PROVE  BfInv'
<1>1. imp.pc = "manifest" /\ UNCHANGED <<request, server, bgaps, completed>>
    BY DEF WriteSourceManifest, Untouched
<1>2. /\ StepOK /\ Here \in Urls /\ imp.version \in Versioned
      /\ Revision \in Revisions /\ RevOK(Revision, imp.version)
    BY <1>1, HereTypes
<1> DEFINE r == [Revision EXCEPT !.manifest = TRUE]
<1>3. /\ r \in Revisions /\ r.partial = Revision.partial /\ r.zip = Revision.zip
      /\ r.sum = Revision.sum /\ r.manifest = TRUE /\ r.parquet = Revision.parquet
    BY <1>2 DEF Revisions
<1>4. Files(r) /\ To("normalise") /\ Calm
    BY DEF WriteSourceManifest
<1> HIDE DEF r
<1>5. RevOK(r, imp.version)
    BY <1>1, <1>2, <1>3 DEF RevOK, StepOK
<1>6. Writes(r)
    BY <1>1, <1>3, <1>4, <1>5 DEF Writes
<1>7. UNCHANGED refusals /\ imp' = [imp EXCEPT !.pc = "normalise"]
    BY <1>4 DEF Calm, To
<1>8. /\ (revs \in [Urls -> [Versioned -> Revisions]])' /\ RevsOK' /\ RefusalsOK'
      /\ (\A e \in Urls : Accounted(e) => Accounted(e)') /\ revs'[Here][imp.version] = r
    BY <1>1, <1>3, <1>6, <1>7, WritesKeep, WritesPlainly, WritesKeepRefusals
<1>9. "normalise" \in ImportSteps \ {"checksum"}
    BY DEF ImportSteps
<1> QED
    BY <1>1, <1>3, <1>7, <1>8, <1>9, GoingOn

\* The Parquet of a revision accounts for its file.
LEMMA NormaliseKeeps ==
    ASSUME BfInv, Normalise
    PROVE  BfInv'
<1>1. imp.pc = "normalise" /\ UNCHANGED <<request, server, bgaps>>
    BY DEF Normalise, Untouched
<1>2. /\ StepOK /\ Here \in Urls /\ imp.version \in Versioned /\ imp.version \in Nat
      /\ Revision \in Revisions /\ RevOK(Revision, imp.version) /\ Revision.manifest
    BY <1>1, HereTypes DEF StepOK
<1>3. PICK here : here = Here
    OBVIOUS
<1>4. CASE Revision.parquet # << >>
    <2>1. Finished /\ UNCHANGED revs
        BY <1>4 DEF Normalise
    <2>2. Accounted(here)'
        <3>1. revs'[here][imp.version].parquet # << >>
            BY <1>3, <1>4, <2>1 DEF Revision
        <3> QED
            BY <1>2, <3>1 DEF Accounted, Versioned
    <2>3. /\ (revs \in [Urls -> [Versioned -> Revisions]])' /\ RevsOK' /\ RefusalsOK'
          /\ \A e \in Urls : Accounted(e) => Accounted(e)'
        BY <1>1, <2>1, NothingWritten DEF Finished, Calm
    <2> QED
        BY <1>1, <1>3, <2>1, <2>2, <2>3, FinishedKeeps
<1>5. CASE Revision.parquet = << >> /\ Malformed(imp.version)
    <2>1. RaiseImport /\ UNCHANGED <<revs, completed>>
        BY <1>5 DEF Normalise
    <2>2. imp' = NoImport /\ refusals' = refusals
        <3>1. refusals \in [Urls -> Nat]
            BY DEF BfInv, BfTypeOK
        <3> QED
            BY <1>5, <2>1, <3>1 DEF RaiseImport
    <2>3. /\ (revs \in [Urls -> [Versioned -> Revisions]])' /\ RevsOK' /\ RefusalsOK'
          /\ \A e \in Urls : Accounted(e) => Accounted(e)'
        BY <1>1, <2>1, <2>2, NothingWritten
    <2>4. refusals' \in [Urls -> Nat]
        BY <2>2 DEF BfInv, BfTypeOK
    <2> QED
        BY <1>1, <2>1, <2>2, <2>3, <2>4, EndedKeeps
<1>6. CASE Revision.parquet = << >> /\ ~Malformed(imp.version)
    <2> DEFINE r == [Revision EXCEPT !.parquet = RowsOf(Revision.zip)]
    <2>1. Revision.zip = Content(imp.version) /\ Revision.zip \in Seq(Nat)
        BY <1>2 DEF RevOK, Revisions
    <2>2. /\ r \in Revisions /\ r.partial = Revision.partial /\ r.zip = Revision.zip
          /\ r.sum = Revision.sum /\ r.manifest = Revision.manifest
          /\ r.parquet = Content(imp.version)
        BY <1>2, <2>1 DEF Revisions, RowsOf
    <2>3. Files(r) /\ Finished
        BY <1>6 DEF Normalise
    <2> HIDE DEF r
    <2>4. RevOK(r, imp.version) /\ r.parquet # << >>
        BY <1>2, <2>2, ContentTyped DEF RevOK
    <2>5. Writes(r)
        BY <1>1, <2>2, <2>3, <2>4 DEF Writes
    <2>6. /\ (revs \in [Urls -> [Versioned -> Revisions]])' /\ RevsOK' /\ RefusalsOK'
          /\ (\A e \in Urls : Accounted(e) => Accounted(e)') /\ revs'[Here][imp.version] = r
        BY <1>1, <2>2, <2>3, <2>5, WritesKeep, WritesPlainly, WritesKeepRefusals DEF Finished, Calm
    <2>7. Accounted(here)'
        <3>1. revs'[here][imp.version].parquet # << >>
            BY <1>3, <2>4, <2>6
        <3> QED
            BY <1>2, <3>1 DEF Accounted, Versioned
    <2> QED
        BY <1>1, <1>3, <2>3, <2>6, <2>7, FinishedKeeps
<1> QED
    BY <1>4, <1>5, <1>6

-----------------------------------------------------------------------------

LEMMA BfInvInit == BfInit => BfInv
<1> SUFFICES ASSUME BfInit PROVE BfInv
    OBVIOUS
<1>1. request \in Requests
    BY DEF BfInit, Requests
<1>2. /\ revs = [u \in Urls |-> [v \in Versioned |-> EmptyRevision]]
      /\ refusals = [u \in Urls |-> 0] /\ imp = NoImport /\ completed = FALSE
    BY DEF BfInit, Urls, Versioned
<1>3. server \in [Urls -> [zip : 0..Versions, sum : 0..Versions]]
    <2>1. PICK missing \in SUBSET Urls :
              server = [u \in Urls |-> IF u \in missing THEN [zip |-> 0, sum |-> 0]
                                       ELSE [zip |-> 1, sum |-> 1]]
        BY DEF BfInit, Urls
    <2>2. 0 \in 0..Versions /\ 1 \in 0..Versions
        BY BackfillAssumption
    <2> QED
        BY <2>1, <2>2
<1>4. /\ EmptyRevision \in Revisions
      /\ ~EmptyRevision.manifest /\ EmptyRevision.zip = << >> /\ EmptyRevision.parquet = << >>
    BY DEF EmptyRevision, Revisions
<1>5. BfTypeOK
    <2>1. imp \in [pc : ImportSteps \cup {"idle"}, entry : Nat, version : 0..Versions, calm : BOOLEAN]
        BY <1>2, BackfillAssumption DEF NoImport
    <2> QED
        BY <1>1, <1>2, <1>3, <1>4, <2>1 DEF BfTypeOK
<1>6. RevsOK
    BY <1>2, <1>4 DEF RevsOK, RevOK
<1>7. ImpOK /\ RunOK
    BY <1>2 DEF ImpOK, RunOK, NoImport
<1>8. RefusalsOK
    BY <1>2 DEF RefusalsOK, RefusalOK
<1> QED
    BY <1>5, <1>6, <1>7, <1>8 DEF BfInv

LEMMA BfInvInductive == BfInv /\ [BfNext]_bfvars => BfInv'
<1> SUFFICES ASSUME BfInv, [BfNext]_bfvars PROVE BfInv'
    OBVIOUS
<1>1. ASSUME NEW u \in Range(Plan), NEW field \in {"zip", "sum"}, NEW version \in 0..Versions,
             ServerChanges(u, field, version)
      PROVE  BfInv'
    BY <1>1, ServerChangesKeeps DEF Urls
<1>2. CASE RunImport
    BY <1>2, RunImportKeeps
<1>3. CASE FetchChecksum
    BY <1>3, FetchChecksumKeeps
<1>4. CASE Downloaded
    BY <1>4, DownloadedKeeps
<1>5. CASE WrongRange
    BY <1>5, WrongRangeKeeps
<1>6. CASE VerifyPartial
    BY <1>6, VerifyPartialKeeps
<1>7. ASSUME NEW noticed \in BOOLEAN, DownloadCut(noticed)
      PROVE  BfInv'
    BY <1>7, DownloadCutKeeps
<1>8. CASE WriteChecksum
    BY <1>8, WriteChecksumKeeps
<1>9. CASE WriteSourceManifest
    BY <1>9, WriteSourceManifestKeeps
<1>10. CASE Normalise
    BY <1>10, NormaliseKeeps
<1>11. CASE KillImport
    BY <1>11, KillImportKeeps
<1>12. CASE UNCHANGED bfvars
    <2>1. UNCHANGED <<request, server, revs, bgaps, imp, completed, refusals>>
        BY <1>12 DEF bfvars
    <2>2. Plan' = Plan /\ Urls' = Urls /\ Here' = Here /\ Revision' = Revision
        BY <2>1, PlanStays, HereStays DEF Revision
    <2>3. RevsOK' /\ RefusalsOK'
        BY <2>1, NothingWritten
    <2>4. BfTypeOK' /\ ImpOK' /\ RunOK'
        BY <2>1, <2>2 DEF BfInv, BfTypeOK, ImpOK, StepOK, RunOK, Accounted, Versioned
    <2> QED
        BY <2>3, <2>4 DEF BfInv
<1> QED
    BY <1>1, <1>2, <1>3, <1>4, <1>5, <1>6, <1>7, <1>8, <1>9, <1>10, <1>11, <1>12 DEF BfNext

LEMMA BfInvImplies == BfInv => ImportIsExact
<1> SUFFICES ASSUME BfInv PROVE ImportIsExact
    OBVIOUS
<1>1. SourceIsOfficial
    <2> SUFFICES ASSUME NEW u \in DOMAIN revs, NEW v \in 1..Versions
                 PROVE  /\ revs[u][v].manifest => revs[u][v].sum /\ revs[u][v].zip = Content(v)
                        /\ revs[u][v].parquet # << >> =>
                              /\ revs[u][v].manifest /\ revs[u][v].parquet = Content(v)
                              /\ VerifyRevision(u, v)
        BY DEF SourceIsOfficial
    <2>1. RevOK(revs[u][v], v) /\ v \in Nat
        BY BackfillAssumption DEF BfInv, BfTypeOK, RevsOK, Versioned
    <2>2. Content(v) # << >>
        BY <2>1, ContentTyped
    <2> QED
        BY <2>1, <2>2 DEF RevOK, VerifyRevision, VerifyFile, ParquetIsOf, RowsOf
<1>2. RunAccountsForDays
    <2>1. request \in Requests /\ Plan = BuildPlan(request)
        BY DEF BfInv, BfTypeOK, Plan
    <2> SUFFICES ASSUME completed
                 PROVE  /\ \A day \in request.start..request.end :
                              Cardinality({i \in DOMAIN Plan : day \in Plan[i].first..Plan[i].last}) = 1
                        /\ request.data # "fundingRate" =>
                              \A i \in DOMAIN Plan :
                                  Plan[i].first..Plan[i].last \subseteq request.start..request.end
                        /\ \A i \in DOMAIN Plan :
                              \/ \E v \in 1..Versions : revs[Plan[i]][v].parquet # << >>
                              \/ \E gap \in bgaps : gap[1] = Plan[i]
        BY DEF RunAccountsForDays
    <2>2. \A i \in DOMAIN Plan : Accounted(Plan[i])
        BY DEF BfInv, RunOK
    <2>3. \A i \in DOMAIN Plan :
              \/ \E v \in 1..Versions : revs[Plan[i]][v].parquet # << >>
              \/ \E gap \in bgaps : gap[1] = Plan[i]
        BY <2>2 DEF Accounted, Versioned
    <2> QED
        BY <2>1, <2>3, PlanIsExact
<1>3. RetrySucceeds
    <2> SUFFICES ASSUME NEW u \in DOMAIN refusals PROVE refusals[u] <= 1
        BY DEF RetrySucceeds
    <2>1. u \in Urls /\ refusals[u] \in Nat
        BY DEF BfInv, BfTypeOK
    <2> QED
        BY <2>1 DEF BfInv, RefusalsOK, RefusalOK
<1> QED
    BY <1>1, <1>2, <1>3 DEF ImportIsExact

(* THE THEOREM of the history import: for every calendar, every number of versions that  *)
(* the server publishes of a file and every series of changes, cuts, wrong answers and   *)
(* kills, what is kept is official, a completed run accounts for each day once, and no   *)
(* partial file stands in the way for ever.                                              *)
THEOREM ImportsAreExact == BfSpec => []ImportIsExact
    BY BfInvInit, BfInvInductive, BfInvImplies, PTL DEF BfSpec

-----------------------------------------------------------------------------
(* Boundary audit: scanned chunks, and what a continuation keeps of them. *)

Frame == [conn : Nat, mark : {"none", "gap", "overlap"}]

Flags == {"none", "reconnect_gap", "process_boundary"}

ScannedChunk ==
    [id : Nat, readable : BOOLEAN, frames : Seq(Frame), conns : SUBSET Nat, count : Nat,
     flag : Flags, evidence : BOOLEAN]

ScanOK(c) ==
    /\ c \in ScannedChunk
    /\ Len(c.frames) = IF c.readable THEN c.count ELSE 0

\* A chunk with frames, then frame-less ones.
NearOK(near) ==
    /\ near \in Seq(ScannedChunk)
    /\ \A i \in 1..Len(near) : ScanOK(near[i]) /\ (i = 1 <=> ~ZeroRecord(near[i]))

Compact(near) == [i \in 1..Len(near) |-> ContextDocument(near[i])]

\* The first two or fewer: what Max is of.
LEMMA LaterOfTwo ==
    ASSUME NEW n \in Nat
    PROVE  Max({1, n - 1}) = IF n - 1 <= 1 THEN 1 ELSE n - 1
<1>1. CASE n - 1 <= 1
    <2>1. 1 \in {1, n - 1} /\ \A y \in {1, n - 1} : y <= 1
        BY <1>1
    <2>2. \A x \in {1, n - 1} : (\A y \in {1, n - 1} : x >= y) => x = 1
        BY <1>1
    <2> QED
        BY <1>1, <2>1, <2>2 DEF Max
<1>2. CASE ~(n - 1 <= 1)
    <2>1. n - 1 \in {1, n - 1} /\ \A y \in {1, n - 1} : n - 1 >= y
        BY <1>2
    <2>2. \A x \in {1, n - 1} : (\A y \in {1, n - 1} : x >= y) => x = n - 1
        BY <1>2
    <2> QED
        BY <1>2, <2>1, <2>2 DEF Max
<1> QED
    BY <1>1, <1>2

LEMMA DocumentKeeps ==
    ASSUME NEW c, ScanOK(c)
    PROVE  LET d == ContextDocument(c) IN
           /\ ScanOK(d) \/ d.readable
           /\ d \in ScannedChunk /\ d = [c EXCEPT !.frames = d.frames]
           /\ c.frames = <<>> => d = c
           /\ c.frames # <<>> =>
                 /\ d.frames # <<>> /\ Last(d.frames) = Last(c.frames)
                 /\ MarkerIsEndEvidence(d.frames, Len(d.frames))
                      <=> MarkerIsEndEvidence(c.frames, Len(c.frames))
<1> DEFINE fs == c.frames
           n == Len(fs)
           a == IF n - 1 <= 1 THEN 1 ELSE n - 1
           gs == SubSeq(fs, a, n)
<1>1. fs \in Seq(Frame) /\ n \in Nat /\ a \in Nat \ {0} /\ (n > 0 => a \in 1..n)
    BY DEF ScanOK, ScannedChunk
<1>2. ContextDocument(c) = [c EXCEPT !.frames = gs]
    BY <1>1, LaterOfTwo DEF ContextDocument
<1>3. gs \in Seq(Frame) /\ Len(gs) = (IF a <= n THEN n - a + 1 ELSE 0)
          /\ \A k \in 1..Len(gs) : gs[k] = fs[a + k - 1]
    BY <1>1
<1>4. CASE n = 0
    <2>1. fs = <<>> /\ a = 1
        BY <1>1, <1>4
    <2>2. gs = <<>>
        BY <1>3, <1>4, <2>1
    <2>3. ContextDocument(c) = c
        BY <1>2, <2>1, <2>2 DEF ScanOK, ScannedChunk
    <2> QED
        BY <2>1, <2>3 DEF ScanOK, ScannedChunk
<1>5. CASE n # 0
    <2>1. fs # <<>> /\ a \in 1..n /\ Len(gs) = n - a + 1 /\ Len(gs) \in Nat /\ Len(gs) # 0
        <3>1. n > 0 /\ fs # <<>>
            BY <1>1, <1>5
        <3>2. a \in 1..n
            BY <1>1, <3>1
        <3>3. Len(gs) = n - a + 1
            BY <1>3, <3>2
        <3> HIDE DEF gs, a
        <3>4. Len(gs) \in Nat /\ Len(gs) # 0
            BY <1>1, <3>2, <3>3
        <3> QED
            BY <3>1, <3>2, <3>3, <3>4
    <2>2. gs # <<>> /\ Last(gs) = Last(fs)
        <3>1. a + Len(gs) - 1 = n
            BY <1>1, <2>1
        <3>2. gs[Len(gs)] = fs[n]
            BY <1>3, <2>1, <3>1
        <3> QED
            BY <2>1, <3>2 DEF Last
    <2>3. MarkerIsEndEvidence(gs, Len(gs)) <=> MarkerIsEndEvidence(fs, n)
        <3>1. CASE n = 1
            BY <2>1, <3>1 DEF MarkerIsEndEvidence
        <3>2. CASE n > 1
            <4>1. Len(gs) = 2 /\ a = n - 1 /\ a + 1 - 1 = n - 1 /\ a + 2 - 1 = n
                BY <1>1, <2>1, <3>2
            <4>2. gs[1] = fs[n - 1] /\ gs[2] = fs[n]
                BY <1>3, <4>1
            <4>3. MarkerIsEndEvidence(gs, Len(gs)) <=> gs[1].conn = gs[2].conn
                <5>1. Len(gs) - 1 = 1
                    BY <4>1
                <5> HIDE DEF gs
                <5> QED
                    BY <4>1, <5>1 DEF MarkerIsEndEvidence
            <4>4. MarkerIsEndEvidence(fs, n) <=> fs[n - 1].conn = fs[n].conn
                <5> HIDE DEF fs, n
                <5> QED
                    BY <3>2 DEF MarkerIsEndEvidence
            <4> QED
                BY <4>2, <4>3, <4>4
        <3>3. n = 1 \/ n > 1
            <4> HIDE DEF n
            <4> QED
                BY <1>1, <1>5
        <3> QED
            BY <3>1, <3>2, <3>3
    <2>4. c.readable
        BY <1>5 DEF ScanOK
    <2> HIDE DEF gs
    <2>5. ContextDocument(c).frames = gs /\ ContextDocument(c).readable
            /\ ContextDocument(c) \in ScannedChunk
        BY <1>2, <1>3, <2>4 DEF ScanOK, ScannedChunk
    <2> QED
        BY <1>2, <2>1, <2>2, <2>3, <2>5
<1> QED
    BY <1>4, <1>5

\* A chunk says the same of the boundary after it when only its document is left.
LEMMA DocumentConnects ==
    ASSUME NEW c, ScanOK(c), ~ZeroRecord(c)
    PROVE  LET d == ContextDocument(c) IN
           /\ LastConnection(d) = LastConnection(c)
           /\ \A gaps, x, mid :
                 ClassifyInterChunk(gaps, d, x, mid) = ClassifyInterChunk(gaps, c, x, mid)
<1> DEFINE d == ContextDocument(c)
<1>1. /\ d.readable = c.readable /\ d.conns = c.conns /\ d.flag = c.flag
      /\ d.evidence = c.evidence
      /\ c.readable => c.frames # <<>>
    BY DocumentKeeps DEF ScanOK, ScannedChunk, ZeroRecord
<1>2. c.readable => /\ Last(d.frames) = Last(c.frames)
                    /\ MarkerIsEndEvidence(d.frames, Len(d.frames))
                         <=> MarkerIsEndEvidence(c.frames, Len(c.frames))
    BY <1>1, DocumentKeeps
<1> HIDE DEF d
<1>3. LastConnection(d) = LastConnection(c)
    BY <1>1, <1>2 DEF LastConnection, OnlyConnection
<1>4. ASSUME NEW gaps, NEW x, NEW mid
      PROVE  ClassifyInterChunk(gaps, d, x, mid) = ClassifyInterChunk(gaps, c, x, mid)
    <2> DEFINE last(y) == IF y.readable THEN Last(y.frames).mark ELSE "none"
               end(y) == MarkerIsEndEvidence(y.frames, Len(y.frames))
               some(y) == \E z \in {y, x} \cup Range(mid) : ManifestEvidence(z)
               match(y) == CatalogGapMatch(gaps, LastConnection(y), FirstConnection(x))
    <2>1. last(d) = last(c) /\ match(d) = match(c)
        BY <1>1, <1>2, <1>3
    <2>2. last(c) = "gap" => (end(d) <=> end(c))
        BY <1>2
    <2>3. some(d) <=> some(c)
        BY <1>1 DEF ManifestEvidence
    <2>4. Cardinality(d.conns) = 1 /\ d.flag = "reconnect_gap"
            <=> Cardinality(c.conns) = 1 /\ c.flag = "reconnect_gap"
        BY <1>1
    <2> DEFINE judged(l, e, one, m, s) ==
            LET first == IF x.readable THEN Head(x.frames).mark ELSE "none" IN
            IF first = "gap" \/ x.flag = "process_boundary" THEN "EXPLICIT"
            ELSE IF l = "gap" THEN IF e THEN "EXPLICIT" ELSE "UNKNOWN"
            ELSE IF l = "overlap" /\ first = "overlap" THEN "OVERLAP"
            ELSE IF one \/ (\E z \in Range(mid) : z.flag = "reconnect_gap") \/ m = "EXACT_PAIR"
            THEN "EXPLICIT"
            ELSE IF m # "NONE" \/ s THEN "UNKNOWN" ELSE "UNMARKED"
           one(y) == Cardinality(y.conns) = 1 /\ y.flag = "reconnect_gap"
    <2>5. ASSUME NEW y PROVE ClassifyInterChunk(gaps, y, x, mid)
                               = judged(last(y), end(y), one(y), match(y), some(y))
        BY Zenon DEF ClassifyInterChunk
    <2> HIDE DEF last, end, some, match
    <2>6. judged(last(d), end(d), one(d), match(d), some(d))
            = judged(last(c), end(c), one(c), match(c), some(c))
        BY <2>1, <2>2, <2>3, <2>4
    <2> HIDE DEF judged, one
    <2> QED
        BY <2>5, <2>6
<1> QED
    BY <1>3, <1>4 DEF d

LEMMA CompactIs ==
    ASSUME NEW near, NearOK(near)
    PROVE  /\ Compact(near) \in Seq(ScannedChunk) /\ Len(Compact(near)) = Len(near)
           /\ (near = <<>> => Compact(near) = <<>>) /\ (near # <<>> => Compact(near) # <<>>)
           /\ near # <<>> => /\ Head(Compact(near)) = ContextDocument(Head(near))
                             /\ Tail(Compact(near)) = Tail(near)
                             /\ ScanOK(Head(near)) /\ ~ZeroRecord(Head(near))
           /\ \A i \in 1..Len(near) : ~(i = 1) => Compact(near)[i] = near[i]
<1>1. near \in Seq(ScannedChunk) /\ Len(near) \in Nat
    BY DEF NearOK
<1>2. \A i \in 1..Len(near) : ContextDocument(near[i]) \in ScannedChunk
    BY DocumentKeeps DEF NearOK
<1>3. Compact(near) \in Seq(ScannedChunk) /\ Len(Compact(near)) = Len(near)
        /\ \A i \in 1..Len(near) : Compact(near)[i] = ContextDocument(near[i])
    BY <1>1, <1>2 DEF Compact
<1>4. ASSUME NEW i \in 1..Len(near), i # 1 PROVE Compact(near)[i] = near[i]
    <2>1. ScanOK(near[i]) /\ near[i].frames = <<>>
        BY <1>4 DEF NearOK, ScanOK, ScannedChunk, ZeroRecord
    <2> QED
        BY <1>3, <2>1, DocumentKeeps
<1>5. ASSUME near # <<>>
      PROVE  /\ Compact(near) # <<>>
             /\ Head(Compact(near)) = ContextDocument(Head(near))
             /\ Tail(Compact(near)) = Tail(near)
             /\ ScanOK(Head(near)) /\ ~ZeroRecord(Head(near))
    <2>1. 1 \in 1..Len(near) /\ Len(near) # 0
        BY <1>1, <1>5
    <2>2. Compact(near) # <<>> /\ Head(Compact(near)) = ContextDocument(Head(near))
        BY <1>3, <2>1
    <2>3. Tail(Compact(near)) = Tail(near)
        <3> DEFINE a == Compact(near)  ta == Tail(a)  tn == Tail(near)
        <3>1. a \in Seq(ScannedChunk) /\ a # <<>> /\ Len(a) = Len(near)
            BY <1>3, <2>2
        <3> HIDE DEF a
        <3>2. ta \in Seq(ScannedChunk) /\ Len(ta) = Len(near) - 1
                /\ \A i \in 1..Len(ta) : ta[i] = a[i + 1]
            BY <3>1
        <3>3. tn \in Seq(ScannedChunk) /\ Len(tn) = Len(near) - 1
                /\ \A i \in 1..Len(tn) : tn[i] = near[i + 1]
            BY <1>1, <1>5
        <3>4. ASSUME NEW i \in 1..Len(ta) PROVE ta[i] = tn[i]
            <4>1. i + 1 \in 1..Len(near) /\ i + 1 # 1 /\ i \in 1..Len(tn)
                BY <1>1, <3>2, <3>3
            <4>2. a[i + 1] = near[i + 1]
                BY <1>4, <4>1 DEF a
            <4> QED
                BY <3>2, <3>3, <4>1, <4>2
        <3> HIDE DEF ta, tn
        <3>5. \A x, y \in Seq(ScannedChunk) :
                 Len(x) = Len(y) /\ (\A i \in 1..Len(x) : x[i] = y[i]) => x = y
            BY SeqEqual
        <3>6. ta = tn
            BY <3>2, <3>3, <3>4, <3>5
        <3> QED
            BY <3>6 DEF ta, tn, a
    <2>5. ScanOK(near[1]) /\ ~ZeroRecord(near[1]) /\ Head(near) = near[1]
        BY <1>1, <1>5, <2>1 DEF NearOK
    <2> QED
        BY <2>2, <2>3, <2>5
<1>6. near = <<>> => Compact(near) = <<>>
    BY <1>3
<1> QED
    BY <1>3, <1>4, <1>5, <1>6

\* The next boundary is the same from the compact form of the chunks before it.
LEMMA CompactCrosses ==
    ASSUME NEW near, NearOK(near), near # <<>>, NEW gaps, NEW c
    PROVE  InterTransition(gaps, Compact(near), c) = InterTransition(gaps, near, c)
<1> DEFINE p == Head(near)  d == ContextDocument(p)
<1>1. Head(Compact(near)) = d /\ Tail(Compact(near)) = Tail(near) /\ ScanOK(p) /\ ~ZeroRecord(p)
    BY CompactIs
<1>2. LastConnection(d) = LastConnection(p)
      /\ ClassifyInterChunk(gaps, d, c, Tail(near)) = ClassifyInterChunk(gaps, p, c, Tail(near))
    BY <1>1, DocumentConnects
<1>3. d.id = p.id
    BY <1>1, DocumentKeeps DEF ScanOK, ScannedChunk
<1> HIDE DEF p, d
<1>4. Head(near) = p
    BY DEF p
<1> QED
    BY <1>1, <1>2, <1>3, <1>4 DEF InterTransition

\* The chunks that the next boundary needs, and their compact form, follow a scan.
LEMMA NearestIs ==
    ASSUME NEW near, NearOK(near), NEW c, ScanOK(c)
    PROVE  /\ NearOK(Nearest(near, c))
           /\ UpdatedContext(Compact(near), c) = Compact(Nearest(near, c))
           /\ Nearest(Compact(near), c)
                = IF ZeroRecord(c) THEN Compact(Nearest(near, c)) ELSE Nearest(near, c)
           /\ \A i \in 1..Len(Nearest(near, c)) :
                 Nearest(near, c)[i] = c \/ \E k \in 1..Len(near) : Nearest(near, c)[i] = near[k]
<1> DEFINE d == ContextDocument(c)
<1>1. /\ near \in Seq(ScannedChunk) /\ Len(near) \in Nat /\ c \in ScannedChunk
      /\ d \in ScannedChunk /\ (ZeroRecord(d) <=> ZeroRecord(c))
    <2>1. near \in Seq(ScannedChunk) /\ Len(near) \in Nat /\ c \in ScannedChunk
        BY DEF NearOK, ScanOK
    <2>2. d \in ScannedChunk /\ d = [c EXCEPT !.frames = d.frames]
        BY DocumentKeeps
    <2> HIDE DEF d
    <2>3. d.count = c.count
        BY <2>1, <2>2 DEF ScannedChunk
    <2> QED
        BY <2>1, <2>2, <2>3 DEF ZeroRecord
<1>2. ZeroRecord(c) => d = c
    BY DocumentKeeps DEF ScanOK, ScannedChunk, ZeroRecord
<1> HIDE DEF d
<1>3. CASE ~ZeroRecord(c)
    <2>1. Nearest(near, c) = <<c>> /\ Nearest(Compact(near), c) = <<c>>
              /\ UpdatedContext(Compact(near), c) = <<d>>
        BY <1>1, <1>3 DEF Nearest, UpdatedContext, d
    <2>2. NearOK(<<c>>)
        BY <1>1, <1>3 DEF NearOK
    <2>3. Compact(<<c>>) = <<d>>
        <3>1. \A i \in 1..1 : <<c>>[i] = c
            OBVIOUS
        <3> QED
            BY <3>1 DEF Compact, d
    <2> QED
        BY <1>3, <2>1, <2>2, <2>3
<1>4. CASE ZeroRecord(c) /\ near = <<>>
    <2>1. Nearest(near, c) = near /\ Compact(near) = <<>>
            /\ Nearest(Compact(near), c) = <<>> /\ UpdatedContext(Compact(near), c) = <<>>
        BY <1>1, <1>4, CompactIs DEF Nearest, UpdatedContext, d
    <2> QED
        BY <1>4, <2>1
<1>5. CASE ZeroRecord(c) /\ near # <<>>
    <2> DEFINE next == Append(near, c)
    <2>1. Nearest(near, c) = next
        BY <1>5 DEF Nearest
    <2>2. next \in Seq(ScannedChunk) /\ Len(next) = Len(near) + 1
            /\ (\A i \in 1..Len(near) : next[i] = near[i]) /\ next[Len(near) + 1] = c
        BY <1>1
    <2>3. Len(near) # 0
        BY <1>1, <1>5
    <2>4. \A i \in 1..Len(next) : i \in 1..Len(near) \/ (i = Len(near) + 1 /\ i # 1)
        BY <1>1, <2>2, <2>3
    <2> HIDE DEF next
    <2>5. NearOK(next)
        BY <1>5, <2>2, <2>4 DEF NearOK
    <2>6. Compact(near) # <<>>
            /\ Nearest(Compact(near), c) = Append(Compact(near), c)
            /\ UpdatedContext(Compact(near), c) = Append(Compact(near), c)
        BY <1>1, <1>2, <1>5, CompactIs DEF Nearest, UpdatedContext, d
    <2>7. Append(Compact(near), c) = Compact(next)
        <3>1. Compact(near) \in Seq(ScannedChunk) /\ Len(Compact(near)) = Len(near)
            BY CompactIs
        <3>2. /\ Append(Compact(near), c) \in Seq(ScannedChunk)
              /\ Len(Append(Compact(near), c)) = Len(next)
              /\ Compact(next) \in Seq(ScannedChunk) /\ Len(Compact(next)) = Len(next)
            BY <1>1, <2>2, <2>5, <3>1, CompactIs
        <3>3. ASSUME NEW i \in 1..Len(next)
              PROVE  Append(Compact(near), c)[i] = Compact(next)[i]
            <4>1. CASE i \in 1..Len(near)
                <5>1. Append(Compact(near), c)[i] = Compact(near)[i]
                    BY <3>1, <4>1, <1>1
                <5>2. Compact(near)[i] = ContextDocument(near[i])
                        /\ Compact(next)[i] = ContextDocument(next[i])
                    BY <4>1 DEF Compact
                <5> QED
                    BY <2>2, <4>1, <5>1, <5>2
            <4>2. CASE i = Len(near) + 1 /\ i # 1
                <5>1. Append(Compact(near), c)[i] = c
                    BY <3>1, <4>2, <1>1
                <5>2. Compact(next)[i] = next[i]
                    BY <2>5, <4>2, CompactIs
                <5> QED
                    BY <2>2, <4>2, <5>1, <5>2
            <4> QED
                BY <2>4, <4>1, <4>2
        <3> HIDE DEF Compact
        <3> QED
            BY <3>2, <3>3
    <2>8. \A i \in 1..Len(next) : next[i] = c \/ \E k \in 1..Len(near) : next[i] = near[k]
        BY <2>2, <2>4
    <2> QED
        BY <1>5, <2>1, <2>5, <2>6, <2>7, <2>8
<1> QED
    BY <1>3, <1>4, <1>5

-----------------------------------------------------------------------------
(* Boundary audit: scans of lists. *)

Begun == [near |-> << >>, found |-> {}]

IsScan(f, gaps, chunks, emit, n) ==
    f = [k \in 0..n |-> IF k = 0 THEN Begun ELSE CollectChunk(gaps, emit, f[k - 1], chunks[k])]

LEMMA ScanExists ==
    ASSUME NEW gaps, NEW chunks, NEW emit, NEW n \in Nat
    PROVE  \E f : IsScan(f, gaps, chunks, emit, n)
<1> DEFINE Reached == {k \in 0..n : \E f : IsScan(f, gaps, chunks, emit, k)}
<1>1. 0 \in Reached
    <2> DEFINE f == [i \in 0..0 |-> Begun]
    <2>1. IsScan(f, gaps, chunks, emit, 0)
        BY DEF IsScan
    <2> QED
        BY <2>1
<1>2. ASSUME NEW k \in 1..n, k - 1 \in Reached PROVE k \in Reached
    <2>1. PICK f : IsScan(f, gaps, chunks, emit, k - 1)
        BY <1>2
    <2> DEFINE g == [i \in 0..k |-> IF i = k THEN CollectChunk(gaps, emit, f[k - 1], chunks[k])
                                    ELSE f[i]]
    <2>2. ASSUME NEW i \in 0..k
          PROVE  g[i] = IF i = 0 THEN Begun ELSE CollectChunk(gaps, emit, g[i - 1], chunks[i])
        <3>1. CASE i = k
            <4>1. k # 0 /\ k - 1 \in 0..k /\ k - 1 # k
                OBVIOUS
            <4> QED
                BY <3>1, <4>1
        <3>2. CASE i # k
            <4>1. i \in 0..(k - 1)
                BY <3>2
            <4>2. f[i] = IF i = 0 THEN Begun ELSE CollectChunk(gaps, emit, f[i - 1], chunks[i])
                BY <2>1, <4>1 DEF IsScan
            <4>3. i # 0 => i - 1 \in 0..k /\ i - 1 # k
                BY <4>1
            <4> QED
                BY <3>2, <4>2, <4>3
        <3> QED
            BY <3>1, <3>2
    <2>3. IsScan(g, gaps, chunks, emit, k)
        BY <2>2 DEF IsScan
    <2> HIDE DEF g
    <2> QED
        BY <2>3
<1> HIDE DEF Reached
<1>3. n \in Reached
    BY <1>1, <1>2, CountingUp
<1> QED
    BY <1>3 DEF Reached

LEMMA CollectIs ==
    ASSUME NEW gaps, NEW chunks, NEW emit, Len(chunks) \in Nat
    PROVE  \E f : /\ IsScan(f, gaps, chunks, emit, Len(chunks))
                  /\ CollectTransitions(gaps, chunks, emit) = f[Len(chunks)].found
<1> DEFINE f == CHOOSE x : IsScan(x, gaps, chunks, emit, Len(chunks))
<1>1. IsScan(f, gaps, chunks, emit, Len(chunks))
    BY ScanExists
<1>2. CollectTransitions(gaps, chunks, emit) = f[Len(chunks)].found
    BY DEF CollectTransitions, IsScan, Begun
<1> HIDE DEF f
<1> QED
    BY <1>1, <1>2

LEMMA ScanStep ==
    ASSUME NEW f, NEW gaps, NEW chunks, NEW emit, NEW n \in Nat,
           IsScan(f, gaps, chunks, emit, n)
    PROVE  /\ f[0].near = << >> /\ f[0].found = {}
           /\ \A k \in 1..n :
                 /\ k - 1 \in 0..n
                 /\ f[k].near = Nearest(f[k - 1].near, chunks[k])
                 /\ f[k].found = f[k - 1].found
                      \cup (IF chunks[k].id \in emit THEN IntraTransitions(chunks[k]) ELSE {})
                      \cup (IF f[k - 1].near = << >> \/ ZeroRecord(chunks[k]) THEN {}
                            ELSE InterTransition(gaps, f[k - 1].near, chunks[k]))
<1>1. f[0] = Begun
    BY DEF IsScan
<1>2. ASSUME NEW k \in 1..n
      PROVE  k - 1 \in 0..n /\ f[k] = CollectChunk(gaps, emit, f[k - 1], chunks[k])
    <2>1. k \in 0..n /\ k # 0 /\ k - 1 \in 0..n
        OBVIOUS
    <2> QED
        BY <2>1 DEF IsScan
<1>3. \A acc, c :
         /\ CollectChunk(gaps, emit, acc, c).near = Nearest(acc.near, c)
         /\ CollectChunk(gaps, emit, acc, c).found = acc.found
              \cup (IF c.id \in emit THEN IntraTransitions(c) ELSE {})
              \cup (IF acc.near = << >> \/ ZeroRecord(c) THEN {}
                    ELSE InterTransition(gaps, acc.near, c))
    BY DEF CollectChunk
<1>4. f[0].near = << >> /\ f[0].found = {}
    BY <1>1 DEF Begun
<1> QED
    BY <1>2, <1>3, <1>4

LEMMA ScanNear ==
    ASSUME NEW f, NEW gaps, NEW chunks, NEW emit, NEW n \in Nat,
           IsScan(f, gaps, chunks, emit, n), \A k \in 1..n : ScanOK(chunks[k])
    PROVE  \A k \in 0..n :
              /\ NearOK(f[k].near)
              /\ \A i \in 1..Len(f[k].near) : \E j \in 1..k : f[k].near[i] = chunks[j]
<1> DEFINE Fine == {k \in 0..n : /\ NearOK(f[k].near)
                                 /\ \A i \in 1..Len(f[k].near) :
                                       \E j \in 1..k : f[k].near[i] = chunks[j]}
<1>1. 0 \in Fine
    <2>1. f[0].near = << >> /\ 0 \in 0..n
        BY ScanStep
    <2>2. << >> \in Seq(ScannedChunk) /\ Len(<< >>) = 0 /\ 1..0 = {}
        OBVIOUS
    <2> QED
        BY <2>1, <2>2 DEF NearOK
<1>2. ASSUME NEW k \in 1..n, k - 1 \in Fine PROVE k \in Fine
    <2>1. f[k].near = Nearest(f[k - 1].near, chunks[k])
        BY ScanStep
    <2>2. NearOK(f[k - 1].near) /\ ScanOK(chunks[k])
        BY <1>2
    <2>3. /\ NearOK(f[k].near)
          /\ \A i \in 1..Len(f[k].near) :
                f[k].near[i] = chunks[k]
                  \/ \E x \in 1..Len(f[k - 1].near) : f[k].near[i] = f[k - 1].near[x]
        <3> DEFINE near == f[k - 1].near  c == chunks[k]
        <3>1. NearOK(near) /\ ScanOK(c) /\ f[k].near = Nearest(near, c)
            BY <2>1, <2>2
        <3> HIDE DEF near, c
        <3>2. /\ NearOK(Nearest(near, c))
              /\ \A i \in 1..Len(Nearest(near, c)) :
                    Nearest(near, c)[i] = c \/ \E x \in 1..Len(near) : Nearest(near, c)[i] = near[x]
            BY <3>1, NearestIs
        <3>3. /\ NearOK(f[k].near)
              /\ \A i \in 1..Len(f[k].near) :
                    f[k].near[i] = c \/ \E x \in 1..Len(near) : f[k].near[i] = near[x]
            BY <3>1, <3>2
        <3> QED
            BY <3>3 DEF near, c
    <2>4. ASSUME NEW i \in 1..Len(f[k].near) PROVE \E j \in 1..k : f[k].near[i] = chunks[j]
        <3>1. CASE f[k].near[i] = chunks[k]
            BY <3>1
        <3>2. CASE \E x \in 1..Len(f[k - 1].near) : f[k].near[i] = f[k - 1].near[x]
            <4>1. PICK x \in 1..Len(f[k - 1].near) : f[k].near[i] = f[k - 1].near[x]
                BY <3>2
            <4>2. PICK j \in 1..(k - 1) : f[k - 1].near[x] = chunks[j]
                BY <1>2
            <4>3. j \in 1..k
                OBVIOUS
            <4> QED
                BY <4>1, <4>2, <4>3
        <3> QED
            BY <2>3, <3>1, <3>2
    <2>5. k \in 0..n
        OBVIOUS
    <2> QED
        BY <2>3, <2>4, <2>5
<1> HIDE DEF Fine
<1>3. \A k \in 0..n : k \in Fine
    BY <1>1, <1>2, CountingUp
<1> QED
    BY <1>3 DEF Fine

IsUpdated(u, context, chunks, n) ==
    u = [k \in 0..n |-> IF k = 0 THEN context ELSE UpdatedContext(u[k - 1], chunks[k])]

LEMMA UpdatedExists ==
    ASSUME NEW context, NEW chunks, NEW n \in Nat
    PROVE  \E u : IsUpdated(u, context, chunks, n)
<1> DEFINE Reached == {k \in 0..n : \E u : IsUpdated(u, context, chunks, k)}
<1>1. 0 \in Reached
    <2> DEFINE u == [i \in 0..0 |-> context]
    <2>1. IsUpdated(u, context, chunks, 0)
        BY DEF IsUpdated
    <2> QED
        BY <2>1
<1>2. ASSUME NEW k \in 1..n, k - 1 \in Reached PROVE k \in Reached
    <2>1. PICK u : IsUpdated(u, context, chunks, k - 1)
        BY <1>2
    <2> DEFINE g == [i \in 0..k |-> IF i = k THEN UpdatedContext(u[k - 1], chunks[k]) ELSE u[i]]
    <2>2. ASSUME NEW i \in 0..k
          PROVE  g[i] = IF i = 0 THEN context ELSE UpdatedContext(g[i - 1], chunks[i])
        <3>1. CASE i = k
            <4>1. k # 0 /\ k - 1 \in 0..k /\ k - 1 # k
                OBVIOUS
            <4> QED
                BY <3>1, <4>1
        <3>2. CASE i # k
            <4>1. i \in 0..(k - 1)
                BY <3>2
            <4>2. u[i] = IF i = 0 THEN context ELSE UpdatedContext(u[i - 1], chunks[i])
                BY <2>1, <4>1 DEF IsUpdated
            <4>3. i # 0 => i - 1 \in 0..k /\ i - 1 # k
                BY <4>1
            <4> QED
                BY <3>2, <4>2, <4>3
        <3> QED
            BY <3>1, <3>2
    <2>3. IsUpdated(g, context, chunks, k)
        BY <2>2 DEF IsUpdated
    <2> HIDE DEF g
    <2> QED
        BY <2>3
<1> HIDE DEF Reached
<1>3. n \in Reached
    BY <1>1, <1>2, CountingUp
<1> QED
    BY <1>3 DEF Reached

LEMMA UpdatedIs ==
    ASSUME NEW context, NEW chunks, Len(chunks) \in Nat
    PROVE  \E u : /\ IsUpdated(u, context, chunks, Len(chunks))
                  /\ UpdatedContexts(context, chunks) = u[Len(chunks)]
<1> DEFINE u == CHOOSE x : IsUpdated(x, context, chunks, Len(chunks))
<1>1. IsUpdated(u, context, chunks, Len(chunks))
    BY UpdatedExists
<1>2. UpdatedContexts(context, chunks) = u[Len(chunks)]
    BY DEF UpdatedContexts, IsUpdated
<1> HIDE DEF u
<1> QED
    BY <1>1, <1>2

\* The chunks of a root in their order, each with its number.
ListOK(all, n) == \A k \in 1..n : ScanOK(all[k]) /\ all[k].id = k

\* Scanning the context of a continuation finds nothing and leaves the context.
LEMMA ContextIsScanned ==
    ASSUME NEW h, NEW gaps, NEW chunks, NEW emit, NEW n \in Nat,
           IsScan(h, gaps, chunks, emit, n),
           NEW near, NearOK(near), Len(near) <= n,
           \A i \in 1..Len(near) : chunks[i] = Compact(near)[i] /\ near[i].id \notin emit
    PROVE  h[Len(near)].near = Compact(near) /\ h[Len(near)].found = {}
<1> DEFINE ctx == Compact(near)  L == Len(near)
           Fine == {k \in 0..L : /\ h[k].found = {} /\ h[k].near \in Seq(ScannedChunk)
                                 /\ Len(h[k].near) = k
                                 /\ \A i \in 1..k : h[k].near[i] = ctx[i]}
<1>1. ctx \in Seq(ScannedChunk) /\ Len(ctx) = L /\ L \in Nat
    BY CompactIs DEF NearOK
<1>2. ASSUME NEW i \in 1..L
      PROVE  /\ ctx[i] \in ScannedChunk /\ ctx[i].id \notin emit
             /\ (i = 1 <=> ~ZeroRecord(ctx[i]))
    <2>1. ScanOK(near[i]) /\ (i = 1 <=> ~ZeroRecord(near[i]))
        BY DEF NearOK
    <2>2. ctx[i] = ContextDocument(near[i])
        BY DEF Compact
    <2>3. ctx[i] = [near[i] EXCEPT !.frames = ctx[i].frames] /\ ctx[i] \in ScannedChunk
        BY <2>1, <2>2, DocumentKeeps
    <2> HIDE DEF ctx
    <2>4. ctx[i].id = near[i].id /\ ctx[i].count = near[i].count
        BY <2>1, <2>3 DEF ScanOK, ScannedChunk
    <2> QED
        BY <2>1, <2>3, <2>4 DEF ZeroRecord
<1> HIDE DEF ctx
<1>3. 0 \in Fine
    <2>1. h[0].near = << >> /\ h[0].found = {}
        BY ScanStep
    <2>2. << >> \in Seq(ScannedChunk) /\ Len(<< >>) = 0 /\ 1..0 = {} /\ 0 \in 0..L
        BY <1>1
    <2> QED
        BY <2>1, <2>2
<1>4. ASSUME NEW k \in 1..L, k - 1 \in Fine PROVE k \in Fine
    <2> DEFINE old == h[k - 1].near
    <2>1. k \in 1..n /\ chunks[k] = ctx[k]
        BY <1>1 DEF ctx
    <2>2. /\ h[k].near = Nearest(old, ctx[k])
          /\ h[k].found = h[k - 1].found
               \cup (IF ctx[k].id \in emit THEN IntraTransitions(ctx[k]) ELSE {})
               \cup (IF old = << >> \/ ZeroRecord(ctx[k]) THEN {}
                     ELSE InterTransition(gaps, old, ctx[k]))
        BY <2>1, ScanStep
    <2>3. old \in Seq(ScannedChunk) /\ Len(old) = k - 1 /\ h[k - 1].found = {}
            /\ \A i \in 1..(k - 1) : old[i] = ctx[i]
        BY <1>4
    <2> HIDE DEF old
    <2>4. old = << >> <=> k = 1
        BY <2>3
    <2>5. h[k].found = {}
        BY <1>2, <2>2, <2>3, <2>4
    <2>6. h[k].near = Append(old, ctx[k])
        <3>1. CASE k = 1
            <4>1. old = << >> /\ ~ZeroRecord(ctx[k])
                BY <1>2, <2>4, <3>1
            <4>2. Append(<< >>, ctx[k]) = <<ctx[k]>>
                OBVIOUS
            <4> QED
                BY <2>2, <4>1, <4>2 DEF Nearest
        <3>2. CASE k # 1
            BY <1>2, <2>2, <2>4, <3>2 DEF Nearest
        <3> QED
            BY <3>1, <3>2
    <2>7. /\ Append(old, ctx[k]) \in Seq(ScannedChunk) /\ Len(Append(old, ctx[k])) = k
          /\ \A i \in 1..k : Append(old, ctx[k])[i] = ctx[i]
        <3>1. ctx[k] \in ScannedChunk
            BY <1>2
        <3>2. Append(old, ctx[k]) \in Seq(ScannedChunk) /\ Len(Append(old, ctx[k])) = Len(old) + 1
                /\ (\A i \in 1..Len(old) : Append(old, ctx[k])[i] = old[i])
                /\ Append(old, ctx[k])[Len(old) + 1] = ctx[k]
            BY <2>3, <3>1
        <3>3. Len(old) + 1 = k /\ \A i \in 1..k : i = k \/ i \in 1..(k - 1)
            BY <2>3
        <3> QED
            BY <2>3, <3>2, <3>3
    <2>8. k \in 0..L
        BY <1>1
    <2> QED
        BY <2>5, <2>6, <2>7, <2>8
<1> HIDE DEF Fine
<1>5. L \in Fine
    <2>1. L \in Nat /\ L \in 0..L
        BY <1>1
    <2> HIDE DEF L
    <2> QED
        BY <1>3, <1>4, <2>1, CountingUp
<1>6. /\ h[L].found = {} /\ h[L].near \in Seq(ScannedChunk) /\ Len(h[L].near) = Len(ctx)
      /\ \A i \in 1..Len(h[L].near) : h[L].near[i] = ctx[i]
    BY <1>1, <1>5 DEF Fine
<1>7. \A x, y \in Seq(ScannedChunk) :
         Len(x) = Len(y) /\ (\A i \in 1..Len(x) : x[i] = y[i]) => x = y
    BY SeqEqual
<1>8. h[L].near = ctx
    BY <1>1, <1>6, <1>7
<1> QED
    BY <1>6, <1>8 DEF ctx

LEMMA ConcatAt ==
    ASSUME NEW S, NEW a \in Seq(S), NEW b \in Seq(S), NEW k \in 1..Len(b)
    PROVE  (a \o b)[Len(a) + k] = b[k]
<1>1. /\ a \o b \in Seq(S) /\ Len(a \o b) = Len(a) + Len(b)
      /\ \A i \in 1..(Len(a) + Len(b)) : (a \o b)[i] = IF i <= Len(a) THEN a[i] ELSE b[i - Len(a)]
    BY ConcatProperties
<1>2. /\ Len(a) + k \in 1..(Len(a) + Len(b)) /\ ~(Len(a) + k <= Len(a))
      /\ (Len(a) + k) - Len(a) = k
    OBVIOUS
<1> QED
    BY ONLY <1>1, <1>2

\* The chunks of a list after its first m.
IsRest(chunks, all, m, r) ==
    /\ chunks \in Seq(ScannedChunk) /\ Len(chunks) = r - m
    /\ \A k \in 1..(r - m) : chunks[k] = all[m + k]

\* What is left of a scan at m is all that the scan of the rest needs.
LEMMA IncrementIsExact ==
    ASSUME NEW gaps, NEW m \in Nat, NEW r \in Nat, m <= r, NEW all, ListOK(all, r),
           NEW g, IsScan(g, gaps, all, 1..r, r),
           NEW chunks, IsRest(chunks, all, m, r)
    PROVE  /\ g[r].found = g[m].found
                \cup CollectTransitions(gaps, Compact(g[m].near) \o chunks, (m + 1)..r)
           /\ UpdatedContexts(Compact(g[m].near), chunks) = Compact(g[r].near)
<1> DEFINE near == g[m].near
           ctx == Compact(near)
           L == Len(near)
           n == r - m
           list == ctx \o chunks
           emit == (m + 1)..r
<1>0. chunks \in Seq(ScannedChunk) /\ \A k \in 1..n : chunks[k] = all[m + k]
    BY DEF IsRest
<1>1. n \in Nat /\ m \in 0..r /\ m + n = r /\ Len(chunks) = n
    BY DEF IsRest
<1>2. \A k \in 0..r : /\ NearOK(g[k].near)
                      /\ \A i \in 1..Len(g[k].near) : \E j \in 1..k : g[k].near[i] = all[j]
    BY ScanNear DEF ListOK
<1>3. NearOK(near) /\ L \in Nat /\ \A i \in 1..L : near[i].id \notin emit
    <2>1. NearOK(near) /\ \A i \in 1..L : \E j \in 1..m : near[i] = all[j]
        BY <1>1, <1>2
    <2>2. L \in Nat
        BY <2>1 DEF NearOK
    <2>3. ASSUME NEW i \in 1..L PROVE near[i].id \notin emit
        <3>1. PICK j \in 1..m : near[i] = all[j]
            BY <2>1
        <3>2. all[j].id = j /\ j \notin emit
            BY <3>1 DEF ListOK
        <3> QED
            BY <3>1, <3>2
    <2> QED
        BY <2>1, <2>2, <2>3
<1> HIDE DEF near
<1>4. ctx \in Seq(ScannedChunk) /\ Len(ctx) = L
    BY <1>3, CompactIs
<1> HIDE DEF ctx
<1>5. /\ list \in Seq(ScannedChunk) /\ Len(list) = L + n
      /\ \A i \in 1..L : list[i] = ctx[i]
      /\ \A k \in 1..n : L + k \in 1..(L + n) /\ list[L + k] = chunks[k]
    <2>1. list \in Seq(ScannedChunk) /\ Len(list) = Len(ctx) + Len(chunks)
        BY <1>0, <1>4
    <2>a. /\ ctx \in Seq(ScannedChunk) /\ chunks \in Seq(ScannedChunk)
          /\ Len(ctx) = L /\ Len(chunks) = n /\ L \in Nat /\ n \in Nat
          /\ list = ctx \o chunks
        BY <1>0, <1>1, <1>3, <1>4
    <2> HIDE DEF L, n, list
    <2>2. \A i \in 1..L : list[i] = ctx[i]
        BY ONLY <2>a
    <2>3. ASSUME NEW k \in 1..n PROVE L + k \in 1..(L + n) /\ list[L + k] = chunks[k]
        <3>1. /\ L \in Nat /\ n \in Nat /\ k \in Nat /\ L + k \in 1..(L + n)
              /\ ~(L + k <= L) /\ (L + k) - L = k
            BY <2>a
        <3>2. (ctx \o chunks)[Len(ctx) + k] = chunks[k]
            BY <2>a, ConcatAt
        <3> QED
            BY ONLY <2>a, <3>1, <3>2
    <2> QED
        BY <1>1, <1>4, <2>1, <2>2, <2>3
<1>6. ASSUME NEW k \in 1..n
      PROVE  /\ m + k \in 1..r /\ m + k \in emit /\ (m + k) - 1 = m + (k - 1)
             /\ (L + k) - 1 = L + (k - 1)
             /\ ScanOK(all[m + k]) /\ all[m + k].id = m + k
             /\ chunks[k] = all[m + k] /\ list[L + k] = all[m + k]
    <2>1. m + k \in 1..r /\ m + k \in emit /\ (m + k) - 1 = m + (k - 1) /\ (L + k) - 1 = L + (k - 1)
        BY <1>1, <1>3
    <2>2. chunks[k] = all[m + k]
        BY <1>0
    <2> QED
        BY <1>5, <2>1, <2>2 DEF ListOK
<1>7. PICK h : /\ IsScan(h, gaps, list, emit, L + n)
               /\ CollectTransitions(gaps, list, emit) = h[L + n].found
    <2>1. Len(list) \in Nat /\ Len(list) = L + n
        BY <1>1, <1>3, <1>5
    <2> HIDE DEF list, emit, n, L
    <2>2. \E f : /\ IsScan(f, gaps, list, emit, Len(list))
                 /\ CollectTransitions(gaps, list, emit) = f[Len(list)].found
        BY <2>1, CollectIs
    <2> QED
        BY <2>1, <2>2
<1> HIDE DEF list, emit
<1>8. h[L].near = ctx /\ h[L].found = {}
    <2> DEFINE N == L + n
    <2>1. N \in Nat /\ Len(near) <= N
        BY <1>1, <1>3
    <2>2. \A i \in 1..Len(near) : list[i] = Compact(near)[i] /\ near[i].id \notin emit
        BY <1>3, <1>5 DEF ctx
    <2>3. IsScan(h, gaps, list, emit, N)
        BY <1>7
    <2> HIDE DEF N
    <2>4. h[Len(near)].near = Compact(near) /\ h[Len(near)].found = {}
        BY <1>3, <2>1, <2>2, <2>3, ContextIsScanned
    <2> QED
        BY <2>4 DEF ctx
<1> DEFINE Fine == {k \in 0..n :
                       /\ h[L + k].near \in {g[m + k].near, Compact(g[m + k].near)}
                       /\ g[m + k].found = g[m].found \cup h[L + k].found}
<1>9. 0 \in Fine
    <2>1. L + 0 = L /\ m + 0 = m /\ 0 \in 0..n
        BY <1>1, <1>3
    <2> QED
        BY <1>8, <2>1 DEF ctx, near
<1>10. ASSUME NEW k \in 1..n, k - 1 \in Fine PROVE k \in Fine
    <2> DEFINE c == all[m + k]
               old == g[m + (k - 1)].near
               less == h[L + (k - 1)].near
               intra == IntraTransitions(c)
    <2>1. /\ g[m + k].near = Nearest(old, c)
          /\ g[m + k].found = g[m + (k - 1)].found \cup intra
               \cup (IF old = << >> \/ ZeroRecord(c) THEN {} ELSE InterTransition(gaps, old, c))
        <3>1. (m + k) - 1 = m + (k - 1) /\ m + k \in 1..r /\ c.id \in 1..r
            <4>1. (m + k) - 1 = m + (k - 1) /\ m + k \in 1..r /\ c.id = m + k
                BY <1>6
            <4> QED
                BY ONLY <4>1
        <3> DEFINE p == m + k
        <3>2. IsScan(g, gaps, all, 1..r, r) /\ r \in Nat
            OBVIOUS
        <3>3. p \in 1..r /\ p - 1 = m + (k - 1)
            BY ONLY <3>1
        <3> HIDE DEF p
        <3> DEFINE Step(z) ==
                      /\ g[z].near = Nearest(g[z - 1].near, all[z])
                      /\ g[z].found = g[z - 1].found
                           \cup (IF all[z].id \in 1..r THEN IntraTransitions(all[z]) ELSE {})
                           \cup (IF g[z - 1].near = << >> \/ ZeroRecord(all[z]) THEN {}
                                 ELSE InterTransition(gaps, g[z - 1].near, all[z]))
        <3>4. \A z \in 1..r : Step(z)
            BY ONLY <3>2, ScanStep
        <3>5. Step(p)
            <4> HIDE DEF Step
            <4> QED
                BY ONLY <3>3, <3>4
        <3> QED
            BY <3>1, <3>3, <3>5 DEF p
    <2>2. /\ h[L + k].near = Nearest(less, c)
          /\ h[L + k].found = h[L + (k - 1)].found \cup intra
               \cup (IF less = << >> \/ ZeroRecord(c) THEN {} ELSE InterTransition(gaps, less, c))
        <3>1. /\ (L + k) - 1 = L + (k - 1) /\ L + k \in 1..(L + n) /\ list[L + k] = c
              /\ c.id \in emit /\ L + n \in Nat
            <4>1. L + n \in Nat
                BY <1>1, <1>3
            <4>2. L + k \in 1..(L + n)
                BY <1>5
            <4>3. /\ (L + k) - 1 = L + (k - 1) /\ list[L + k] = c
                  /\ c.id = m + k /\ m + k \in emit
                BY <1>6
            <4> HIDE DEF c
            <4> QED
                BY ONLY <4>1, <4>2, <4>3
        <3>2. IsScan(h, gaps, list, emit, L + n)
            BY <1>7
        <3> HIDE DEF n
        <3> QED
            BY <3>1, <3>2, ScanStep
    <2>3. NearOK(old) /\ ScanOK(c)
        <3>1. m + (k - 1) \in 0..r
            BY <1>1
        <3> QED
            BY <1>2, <1>6, <3>1
    <2>4. less \in {old, Compact(old)}
            /\ g[m + (k - 1)].found = g[m].found \cup h[L + (k - 1)].found
        BY <1>10
    <2> HIDE DEF c, old, less
    <2>5. less = << >> <=> old = << >>
        BY <2>3, <2>4, CompactIs
    <2>6. old # << >> => InterTransition(gaps, less, c) = InterTransition(gaps, old, c)
        BY <2>3, <2>4, CompactCrosses
    <2>7. Nearest(less, c) \in {Nearest(old, c), Compact(Nearest(old, c))}
        BY <2>3, <2>4, NearestIs
    <2> HIDE DEF intra
    <2>8. g[m + k].found = g[m].found \cup h[L + k].found
        BY <2>1, <2>2, <2>4, <2>5, <2>6
    <2>9. h[L + k].near \in {g[m + k].near, Compact(g[m + k].near)}
        BY <2>1, <2>2, <2>7
    <2>10. k \in 0..n
        BY <1>1
    <2> QED
        BY <2>8, <2>9, <2>10
<1> HIDE DEF Fine
<1>11. n \in Fine
    <2>1. n \in Nat /\ n \in 0..n
        BY <1>1
    <2> HIDE DEF n
    <2>2. \A k \in 1..n : k - 1 \in Fine => k \in Fine
        BY <1>10
    <2> QED
        BY ONLY <1>9, <2>1, <2>2, CountingUp
<1>12. g[r].found = g[m].found \cup CollectTransitions(gaps, list, emit)
    BY <1>1, <1>7, <1>11 DEF Fine
<1>13. PICK u : /\ IsUpdated(u, ctx, chunks, Len(chunks))
                /\ UpdatedContexts(ctx, chunks) = u[Len(chunks)]
    BY <1>1, UpdatedIs
<1> DEFINE Kept == {k \in 0..n : u[k] = Compact(g[m + k].near)}
<1>14. 0 \in Kept
    <2>1. m + 0 = m /\ 0 \in 0..n /\ u[0] = ctx
        BY <1>1, <1>13 DEF IsUpdated
    <2> QED
        BY <2>1 DEF ctx, near
<1>15. ASSUME NEW k \in 1..n, k - 1 \in Kept PROVE k \in Kept
    <2> DEFINE c == all[m + k]  old == g[m + (k - 1)].near
    <2>1. g[m + k].near = Nearest(old, c)
        <3>1. (m + k) - 1 = m + (k - 1) /\ m + k \in 1..r
            BY <1>6
        <3> QED
            BY <3>1, ScanStep
    <2>2. u[k] = UpdatedContext(u[k - 1], c)
        <3>1. k \in 0..Len(chunks) /\ k # 0 /\ chunks[k] = c
            BY <1>1, <1>6
        <3> QED
            BY <1>13, <3>1 DEF IsUpdated
    <2>3. NearOK(old) /\ ScanOK(c)
        <3>1. m + (k - 1) \in 0..r
            BY <1>1
        <3> QED
            BY <1>2, <1>6, <3>1
    <2>4. u[k - 1] = Compact(old)
        BY <1>15
    <2> HIDE DEF c, old
    <2>5. u[k] = Compact(g[m + k].near)
        BY <2>1, <2>2, <2>3, <2>4, NearestIs
    <2>6. k \in 0..n
        BY <1>1
    <2> QED
        BY <2>5, <2>6
<1> HIDE DEF Kept
<1>16. n \in Kept
    <2>1. n \in Nat /\ n \in 0..n
        BY <1>1
    <2> HIDE DEF n
    <2>2. \A k \in 1..n : k - 1 \in Kept => k \in Kept
        BY <1>15
    <2> QED
        BY ONLY <1>14, <2>1, <2>2, CountingUp
<1>17. UpdatedContexts(ctx, chunks) = Compact(g[r].near)
    BY <1>1, <1>13, <1>16 DEF Kept
<1> QED
    BY <1>12, <1>17 DEF ctx, near, list, emit

\* Chunks in the order of their creation: an interval in its order.
LEMMA ByCreationIs ==
    ASSUME NEW a \in Nat, NEW b \in Nat, a <= b
    PROVE  ByCreation((a + 1)..b) = [k \in 1..(b - a) |-> a + k]
<1> DEFINE S == (a + 1)..b
<1>1. Cardinality(S) = b - a
    <2>1. Cardinality((a + 1)..b) = IF a + 1 > b THEN 0 ELSE b - (a + 1) + 1
        BY FS_Interval
    <2> QED
        BY <2>1
<1>2. ASSUME NEW i \in S PROVE Cardinality({j \in S : j <= i}) = i - a
    <2>1. {j \in S : j <= i} = (a + 1)..i
        OBVIOUS
    <2>2. Cardinality((a + 1)..i) = IF a + 1 > i THEN 0 ELSE i - (a + 1) + 1
        BY FS_Interval
    <2>3. i \in Nat /\ ~(a + 1 > i) /\ i - (a + 1) + 1 = i - a
        OBVIOUS
    <2>4. Cardinality((a + 1)..i) = i - a
        BY <2>2, <2>3
    <2> HIDE DEF S
    <2> QED
        BY <2>1, <2>4
<1> HIDE DEF S
<1>3. ASSUME NEW k \in 1..(b - a)
      PROVE  (CHOOSE i \in S : Cardinality({j \in S : j <= i}) = k) = a + k
    <2>1. a + k \in S /\ Cardinality({j \in S : j <= a + k}) = k
        <3>1. a + k \in S
            BY DEF S
        <3>2. Cardinality({j \in S : j <= a + k}) = (a + k) - a
            BY <1>2, <3>1
        <3> QED
            BY <3>1, <3>2
    <2>2. ASSUME NEW i \in S, Cardinality({j \in S : j <= i}) = k PROVE i = a + k
        <3>1. i \in Nat /\ i - a = k
            BY <1>2, <2>2 DEF S
        <3> QED
            BY <3>1
    <2> QED
        BY <2>1, <2>2
<1>4. ByCreation(S) = [k \in 1..(b - a) |-> CHOOSE i \in S : Cardinality({j \in S : j <= i}) = k]
    BY <1>1 DEF ByCreation
<1>5. ByCreation(S) = [k \in 1..(b - a) |-> a + k]
    BY <1>3, <1>4
<1> QED
    BY <1>5 DEF S

-----------------------------------------------------------------------------
(* Boundary audit: the inductive invariant. *)

SealedChunk == [frames : Seq(Frame), flag : Flags, row : BOOLEAN]

Lives ==
    [state : {"none", "COPYING", "LOCAL_DELETE_PENDING", "LOCAL_DELETED",
              "REMOTE_DELETE_PENDING", "REMOTE_DELETED"},
     raw : BOOLEAN, lost : BOOLEAN]

BaTypeOK ==
    /\ sealed \in Seq(SealedChunk)
    /\ life \in Seq(Lives) /\ Len(life) = Len(sealed)
    /\ view.pc \in {"idle", "scan", "classify"}

\* Only the chunk sealed last may be without its row.
RowsOK == \A i \in 1..Len(sealed) : i < Len(sealed) => sealed[i].row

\* What an entitled deletion leaves, and what a loss leaves.
LifeOK ==
    \A i \in 1..Len(life) :
        /\ life[i].lost => life[i].state \in {"none", "COPYING"} /\ ~life[i].raw
        /\ ~life[i].raw /\ ~life[i].lost =>
             life[i].state \in {"LOCAL_DELETE_PENDING", "LOCAL_DELETED",
                                "REMOTE_DELETE_PENDING", "REMOTE_DELETED"}

\* The chunks met so far are the first ones, of which some were unreadable then.
Met == Cardinality(cont.members)

MetOK ==
    /\ Met \in Nat /\ Met <= Len(sealed) /\ cont.members = 1..Met
    /\ \A i \in 1..Met : sealed[i].row
    /\ out.unread \subseteq 1..Met

\* What a running observation has frozen stays true of the chunks.
ViewOK ==
    /\ view.pc # "idle" =>
         /\ \E r \in Nat : view.rows = 1..r /\ Met <= r /\ r <= Len(sealed)
         /\ \A i \in view.rows :
               /\ sealed[i].row
               /\ view.states[i] = "LOCAL_DELETED" => life[i].state = "LOCAL_DELETED"
    /\ view.pc = "classify" =>
         /\ view.rows \subseteq view.members
         /\ \A i \in view.absent : i \in 1..Len(life) /\ ~life[i].raw

\* Connections only rise from frame to frame.
ConnsOK ==
    \A i, j \in 1..Len(sealed) :
      \A k \in 1..Len(sealed[i].frames), l \in 1..Len(sealed[j].frames) :
        i < j \/ (i = j /\ k <= l) => sealed[i].frames[k].conn <= sealed[j].frames[l].conn

Audited == [k \in 1..Met |-> Scanned(k, k \notin out.unread)]

\* What was reported and what the continuation holds are those of one scan.
ScansAgree ==
    \A g : IsScan(g, intervals, Audited, 1..Met, Met) =>
             out.transitions = g[Met].found /\ cont.context = Compact(g[Met].near)

BaInv ==
    /\ BaTypeOK /\ RowsOK /\ LifeOK /\ MetOK /\ ViewOK /\ ConnsOK /\ ScansAgree
    /\ AbsenceIsJudgedRight

LEMMA ScannedIs ==
    ASSUME NEW i \in 1..Len(sealed), sealed \in Seq(SealedChunk), NEW readable \in BOOLEAN
    PROVE  ScanOK(Scanned(i, readable)) /\ Scanned(i, readable).id = i
<1> DEFINE frames == sealed[i].frames
           flag == sealed[i].flag
           some == flag # "none" \/ \E k \in DOMAIN frames : frames[k].mark # "none"
           conns == {frames[k].conn : k \in DOMAIN frames}
<1>1. frames \in Seq(Frame) /\ flag \in Flags /\ Len(frames) \in Nat /\ i \in Nat
    <2>1. sealed[i] \in SealedChunk
        OBVIOUS
    <2> QED
        BY <2>1 DEF SealedChunk
<1>2. conns \in SUBSET Nat /\ some \in BOOLEAN
    <2> HIDE DEF frames, flag
    <2>1. \A k \in DOMAIN frames : frames[k] \in Frame
        BY <1>1
    <2>2. \A k \in DOMAIN frames : frames[k].conn \in Nat
        BY <2>1 DEF Frame
    <2> QED
        BY <2>2
<1>3. Scanned(i, readable)
        = [id |-> i, readable |-> readable, frames |-> IF readable THEN frames ELSE << >>,
           conns |-> conns, count |-> Len(frames), flag |-> flag, evidence |-> some]
    BY DEF Scanned
<1> HIDE DEF frames, flag, some, conns
<1>4. << >> \in Seq(Frame) /\ Len(<< >>) = 0
    OBVIOUS
<1>5. Scanned(i, readable) \in ScannedChunk
    BY <1>1, <1>2, <1>3, <1>4 DEF ScannedChunk
<1> QED
    BY <1>3, <1>4, <1>5 DEF ScanOK

LEMMA AuditedIs ==
    ASSUME BaInv
    PROVE  ListOK(Audited, Met) /\ Audited \in Seq(ScannedChunk) /\ Len(Audited) = Met
<1>1. Met \in Nat /\ Met <= Len(sealed) /\ sealed \in Seq(SealedChunk) /\ Len(sealed) \in Nat
    BY DEF BaInv, MetOK, BaTypeOK
<1>2. ASSUME NEW k \in 1..Met
      PROVE  ScanOK(Scanned(k, k \notin out.unread)) /\ Scanned(k, k \notin out.unread).id = k
    <2>1. k \in 1..Len(sealed)
        BY <1>1
    <2> QED
        BY <1>1, <2>1, ScannedIs
<1>3. ListOK(Audited, Met)
    BY <1>2 DEF ListOK, Audited
<1>4. \A k \in 1..Met : Scanned(k, k \notin out.unread) \in ScannedChunk
    BY <1>2 DEF ScanOK
<1> QED
    BY <1>1, <1>3, <1>4 DEF Audited

\* Two scans of the same chunks that find the same gaps are one.
LEMMA ScanCarries ==
    ASSUME NEW m \in Nat, NEW r \in Nat, m <= r, NEW gaps, NEW old, NEW all, NEW emit, NEW g,
           IsScan(g, gaps, all, emit, r), ListOK(all, r),
           NEW less, NEW fewer, \A k \in 1..m : less[k] = all[k] /\ (k \in fewer <=> k \in emit),
           \A near : \A k \in 1..m :
              NearOK(near) /\ near # << >> /\ ~ZeroRecord(all[k])
                /\ (\A i \in 1..Len(near) : \E j \in 1..(k - 1) : near[i] = all[j])
              => InterTransition(gaps, near, all[k]) = InterTransition(old, near, all[k])
    PROVE  IsScan([k \in 0..m |-> g[k]], old, less, fewer, m)
<1> DEFINE f == [k \in 0..m |-> g[k]]
<1>1. f[0] = Begun
    <2>1. 0 \in 0..r /\ 0 \in 0..m
        OBVIOUS
    <2> QED
        BY <2>1 DEF IsScan
<1>2. ASSUME NEW k \in 1..m PROVE f[k] = CollectChunk(old, fewer, f[k - 1], less[k])
    <2> DEFINE near == g[k - 1].near  c == all[k]
    <2>1. k \in 0..r /\ k # 0 /\ k \in 1..r /\ k - 1 \in 0..m /\ k \in 0..m /\ k - 1 \in 0..r
        OBVIOUS
    <2>2. g[k] = CollectChunk(gaps, emit, g[k - 1], c)
        BY <2>1 DEF IsScan
    <2>3. /\ NearOK(near)
          /\ \A i \in 1..Len(near) : \E j \in 1..(k - 1) : near[i] = all[j]
        BY <2>1, ScanNear DEF ListOK
    <2>4. less[k] = c /\ c.id = k /\ (c.id \in fewer <=> c.id \in emit)
        BY <2>1 DEF ListOK
    <2>5. f[k] = g[k] /\ f[k - 1] = g[k - 1]
        BY <2>1
    <2> HIDE DEF c, f
    <2>6. near # << >> /\ ~ZeroRecord(c)
            => InterTransition(gaps, near, c) = InterTransition(old, near, c)
        BY <2>3 DEF c
    <2> HIDE DEF near
    <2>7. CollectChunk(old, fewer, g[k - 1], c) = CollectChunk(gaps, emit, g[k - 1], c)
        BY <2>4, <2>6 DEF CollectChunk, near
    <2> QED
        BY <2>2, <2>4, <2>5, <2>7
<1> HIDE DEF f
<1>3. f = [k \in 0..m |-> IF k = 0 THEN Begun ELSE CollectChunk(old, fewer, f[k - 1], less[k])]
    <2>1. f = [k \in 0..m |-> f[k]]
        BY DEF f
    <2>2. ASSUME NEW k \in 0..m
          PROVE  f[k] = IF k = 0 THEN Begun ELSE CollectChunk(old, fewer, f[k - 1], less[k])
        <3>1. CASE k = 0
            BY <1>1, <3>1
        <3>2. CASE k # 0
            <4>1. k \in 1..m
                BY <3>2
            <4> QED
                BY <1>2, <3>2, <4>1
        <3> QED
            BY <3>1, <3>2
    <2> QED
        BY <2>1, <2>2
<1> QED
    BY <1>3 DEF IsScan, f

\* The audit is one scan of what was audited.
LEMMA AuditIsOneScan == BaInv => AuditIsRight
<1> SUFFICES ASSUME BaInv PROVE IncrementalIsFull
    BY DEF AuditIsRight, BaInv
<1>1. Met \in Nat /\ cont.members = 1..Met
    BY DEF BaInv, MetOK
<1>2. ByCreation(cont.members) = [k \in 1..Met |-> k]
    <2>1. ByCreation((0 + 1)..Met) = [k \in 1..(Met - 0) |-> 0 + k]
        BY <1>1, ByCreationIs
    <2> QED
        BY <1>1, <2>1
<1>3. AuditDataRoot = CollectTransitions(intervals, Audited, cont.members)
    <2> DEFINE order == ByCreation(cont.members)
    <2>1. [k \in DOMAIN order |-> Scanned(order[k], order[k] \notin out.unread)] = Audited
        BY <1>2 DEF Audited
    <2> QED
        BY <2>1 DEF AuditDataRoot
<1>4. Len(Audited) = Met
    BY AuditedIs
<1> HIDE DEF BaInv
<1>5. PICK g : IsScan(g, intervals, Audited, cont.members, Met)
               /\ CollectTransitions(intervals, Audited, cont.members) = g[Met].found
    <2>1. Len(Audited) \in Nat
        BY <1>1, <1>4
    <2>2. \E g : /\ IsScan(g, intervals, Audited, cont.members, Len(Audited))
                 /\ CollectTransitions(intervals, Audited, cont.members) = g[Len(Audited)].found
        BY <2>1, CollectIs
    <2> QED
        BY <1>4, <2>2
<1>6. out.transitions = g[Met].found
    BY <1>1, <1>5 DEF BaInv, ScansAgree
<1> QED
    BY <1>3, <1>5, <1>6 DEF IncrementalIsFull

-----------------------------------------------------------------------------
(* Boundary audit: the steps. *)

\* Nothing that was audited changes.
LEMMA AuditedStays ==
    ASSUME BaInv, UNCHANGED <<cont, out>>,
           \A k \in 1..Met : sealed'[k].frames = sealed[k].frames /\ sealed'[k].flag = sealed[k].flag
    PROVE  Met' = Met /\ Audited' = Audited
<1>1. Met' = Met
    BY DEF Met
<1>2. ASSUME NEW k \in 1..Met, NEW b PROVE Scanned(k, b)' = Scanned(k, b)
    BY DEF Scanned
<1> QED
    BY <1>1, <1>2 DEF Audited

LEMMA ScansStay ==
    ASSUME BaInv, UNCHANGED <<intervals, cont, out>>, Met' = Met, Audited' = Audited
    PROVE  ScansAgree'
BY DEF BaInv, ScansAgree

\* Steps of the archive and the disk: one chunk's life changes.
LEMMA LivesKeepBaInv ==
    ASSUME BaInv, NEW i \in 1..Len(sealed), NEW x \in Lives,
           life' = [life EXCEPT ![i] = x], UNCHANGED <<sealed, intervals, view, cont, out>>,
           x.lost => x.state \in {"none", "COPYING"} /\ ~x.raw,
           ~x.raw /\ ~x.lost =>
               x.state \in {"LOCAL_DELETE_PENDING", "LOCAL_DELETED",
                            "REMOTE_DELETE_PENDING", "REMOTE_DELETED"},
           life[i].state = "LOCAL_DELETED" => x.state = "LOCAL_DELETED",
           x.raw => life[i].raw
    PROVE  BaInv'
<1>1. sealed \in Seq(SealedChunk) /\ life \in Seq(Lives) /\ Len(life) = Len(sealed)
        /\ Len(sealed) \in Nat
    BY DEF BaInv, BaTypeOK
<1>2. /\ life' \in Seq(Lives) /\ Len(life') = Len(life) /\ life'[i] = x
      /\ \A k \in 1..Len(life) : k # i => life'[k] = life[k]
    BY <1>1
<1>3. Met' = Met /\ Audited' = Audited
    BY AuditedStays
<1>4. BaTypeOK' /\ RowsOK' /\ ConnsOK'
    BY <1>1, <1>2 DEF BaInv, BaTypeOK, RowsOK, ConnsOK
<1>5. LifeOK'
    BY <1>2 DEF BaInv, LifeOK
<1>6. MetOK'
    BY <1>3 DEF BaInv, MetOK
<1>7. \A k \in 1..Len(life) : /\ life'[k].raw => life[k].raw
                              /\ life[k].state = "LOCAL_DELETED" => life'[k].state = "LOCAL_DELETED"
    BY <1>2
<1>8. ViewOK'
    <2>1. view.pc # "idle" => view.rows \subseteq 1..Len(life)
        BY <1>1 DEF BaInv, ViewOK
    <2> QED
        BY <1>2, <1>3, <1>7, <2>1 DEF BaInv, ViewOK
<1>9. ScansAgree'
    BY <1>3, ScansStay
<1>10. AbsenceIsJudgedRight'
    BY DEF BaInv, AbsenceIsJudgedRight
<1> QED
    BY <1>4, <1>5, <1>6, <1>8, <1>9, <1>10 DEF BaInv

\* What one step makes of a chunk's life.
Fits(y, z) ==
    /\ z \in Lives
    /\ z.lost => z.state \in {"none", "COPYING"} /\ ~z.raw
    /\ ~z.raw /\ ~z.lost =>
         z.state \in {"LOCAL_DELETE_PENDING", "LOCAL_DELETED",
                     "REMOTE_DELETE_PENDING", "REMOTE_DELETED"}
    /\ y.state = "LOCAL_DELETED" => z.state = "LOCAL_DELETED"
    /\ z.raw => y.raw

LEMMA StateFits ==
    ASSUME NEW y \in Lives, Fits(y, y), y.state # "LOCAL_DELETED",
           NEW s \in {"COPYING", "LOCAL_DELETE_PENDING", "LOCAL_DELETED",
                     "REMOTE_DELETE_PENDING", "REMOTE_DELETED"},
           ~y.lost,
           s = "COPYING" => y.state = "none"
    PROVE  Fits(y, [y EXCEPT !.state = s])
<1> DEFINE z == [y EXCEPT !.state = s]
<1>1. z \in Lives /\ z.state = s /\ z.raw = y.raw /\ z.lost = y.lost
    BY DEF Lives
<1>2. s = "COPYING" => y.raw
    BY DEF Fits
<1> HIDE DEF z
<1>3. Fits(y, z)
    BY <1>1, <1>2 DEF Fits
<1> QED
    BY <1>3 DEF z

LEMMA CopyFits ==
    ASSUME NEW y \in Lives, Fits(y, y), y.state = "none"
    PROVE  Fits(y, [y EXCEPT !.state = "COPYING"])
<1> DEFINE z == [y EXCEPT !.state = "COPYING"]
<1>1. z \in Lives /\ z.state = "COPYING" /\ z.raw = y.raw /\ z.lost = y.lost
    BY DEF Lives
<1>2. y.raw \/ y.lost
    BY DEF Fits
<1> HIDE DEF z
<1>3. Fits(y, z)
    BY <1>1, <1>2 DEF Fits
<1> QED
    BY <1>3 DEF z

LEMMA UnlinkFits ==
    ASSUME NEW y \in Lives, y.raw, Fits(y, y),
           y.state \in {"LOCAL_DELETE_PENDING", "REMOTE_DELETE_PENDING"}
    PROVE  Fits(y, [y EXCEPT !.raw = FALSE])
<1> DEFINE z == [y EXCEPT !.raw = FALSE]
<1>1. z \in Lives /\ z.state = y.state /\ z.raw = FALSE /\ z.lost = y.lost
    BY DEF Lives
<1> HIDE DEF z
<1>2. Fits(y, z)
    BY <1>1 DEF Fits
<1> QED
    BY <1>2 DEF z

LEMMA LossFits ==
    ASSUME NEW y \in Lives, y.raw, y.state \in {"none", "COPYING"}
    PROVE  Fits(y, [[y EXCEPT !.raw = FALSE] EXCEPT !.lost = TRUE])
<1> DEFINE w == [y EXCEPT !.raw = FALSE]
           z == [w EXCEPT !.lost = TRUE]
<1>1. w \in Lives /\ w.state = y.state /\ w.raw = FALSE
    BY DEF Lives
<1> HIDE DEF w
<1>2. z \in Lives /\ z.state = y.state /\ z.raw = FALSE /\ z.lost = TRUE
    BY <1>1 DEF Lives
<1> HIDE DEF z
<1>3. Fits(y, z)
    BY <1>2 DEF Fits
<1> QED
    BY <1>3 DEF z, w

LEMMA ArchiveKeepsBaInv ==
    ASSUME BaInv, NEW i \in DOMAIN sealed, ArchiveStep(i) \/ RemoteStep(i) \/ Vanish(i)
    PROVE  BaInv'
<1> DEFINE y == life[i]
           Put(z) == life' = [life EXCEPT ![i] = z]
<1>1. i \in 1..Len(sealed) /\ life \in Seq(Lives) /\ Len(life) = Len(sealed)
    BY DEF BaInv, BaTypeOK
<1>2. y \in Lives /\ i \in 1..Len(life) /\ i \in DOMAIN life
    BY <1>1
<1>3. Fits(y, y)
    BY <1>2 DEF BaInv, LifeOK, Fits
<1>4. UNCHANGED <<sealed, intervals, view, cont, out>>
    BY DEF ArchiveStep, RemoteStep, Vanish
<1>5. ASSUME NEW z, Put(z), Fits(y, z) PROVE BaInv'
    BY <1>1, <1>4, <1>5, LivesKeepBaInv DEF Fits
<1>6. y.state \notin {"none", "COPYING"} => ~y.lost
    BY <1>3 DEF Fits
<1>7. y.raw => ~y.lost
    BY <1>3 DEF Fits
<1>8. CASE y.state = "none" /\ Put([y EXCEPT !.state = "COPYING"])
    <2>1. Fits(y, [y EXCEPT !.state = "COPYING"])
        BY <1>2, <1>3, <1>8, CopyFits
    <2> QED
        BY <1>5, <1>8, <2>1
<1>9. ASSUME NEW s \in {"LOCAL_DELETE_PENDING", "LOCAL_DELETED",
                        "REMOTE_DELETE_PENDING", "REMOTE_DELETED"},
             y.state # "LOCAL_DELETED", ~y.lost, Put([y EXCEPT !.state = s])
      PROVE  BaInv'
    <2>1. Fits(y, [y EXCEPT !.state = s])
        BY <1>2, <1>3, <1>9, StateFits
    <2> QED
        BY <1>5, <1>9, <2>1
<1>10. CASE /\ y.raw /\ y.state \in {"LOCAL_DELETE_PENDING", "REMOTE_DELETE_PENDING"}
            /\ Put([y EXCEPT !.raw = FALSE])
    <2>1. Fits(y, [y EXCEPT !.raw = FALSE])
        BY <1>2, <1>3, <1>10, UnlinkFits
    <2> QED
        BY <1>5, <1>10, <2>1
<1>11. CASE ArchiveStep(i)
    <2>1. \/ y.state = "none" /\ Put([y EXCEPT !.state = "COPYING"])
          \/ y.state = "COPYING" /\ y.raw /\ Put([y EXCEPT !.state = "LOCAL_DELETE_PENDING"])
          \/ y.state = "LOCAL_DELETE_PENDING" /\ y.raw /\ Put([y EXCEPT !.raw = FALSE])
          \/ y.state = "LOCAL_DELETE_PENDING" /\ Put([y EXCEPT !.state = "LOCAL_DELETED"])
        BY <1>11 DEF ArchiveStep
    <2> HIDE DEF y, Put
    <2> QED
        BY <1>6, <1>7, <1>8, <1>9, <1>10, <2>1
<1>12. CASE RemoteStep(i)
    <2>1. \/ y.state = "none" /\ ~y.lost /\ Put([y EXCEPT !.state = "REMOTE_DELETE_PENDING"])
          \/ y.state = "REMOTE_DELETE_PENDING" /\ y.raw /\ Put([y EXCEPT !.raw = FALSE])
          \/ y.state = "REMOTE_DELETE_PENDING" /\ Put([y EXCEPT !.state = "REMOTE_DELETED"])
        BY <1>12 DEF RemoteStep
    <2> HIDE DEF y, Put
    <2> QED
        BY <1>6, <1>9, <1>10, <2>1
<1>13. CASE Vanish(i)
    <2>1. y.raw /\ y.state \in {"none", "COPYING"}
            /\ Put([[y EXCEPT !.raw = FALSE] EXCEPT !.lost = TRUE])
        <3>1. life' = [[life EXCEPT ![i].raw = FALSE] EXCEPT ![i].lost = TRUE]
                /\ y.raw /\ y.state \in {"none", "COPYING"}
            BY <1>13 DEF Vanish
        <3> DEFINE w == [y EXCEPT !.raw = FALSE]  l == [life EXCEPT ![i] = w]
        <3>2. l[i] = w
            BY <1>2
        <3>3. life' = [l EXCEPT ![i] = [w EXCEPT !.lost = TRUE]]
            BY <3>1, <3>2
        <3>4. [l EXCEPT ![i] = [w EXCEPT !.lost = TRUE]] = [life EXCEPT ![i] = [w EXCEPT !.lost = TRUE]]
            BY <1>2
        <3> QED
            BY <3>1, <3>3, <3>4
    <2>2. Fits(y, [[y EXCEPT !.raw = FALSE] EXCEPT !.lost = TRUE])
        BY <1>2, <2>1, LossFits
    <2> QED
        BY <1>5, <2>1, <2>2
<1> QED
    BY <1>11, <1>12, <1>13

LEMMA RowKeepsBaInv == ASSUME BaInv, CommitRow PROVE BaInv'
<1>1. PICK i \in DOMAIN sealed : sealed' = [sealed EXCEPT ![i].row = TRUE]
    BY DEF CommitRow
<1>2. sealed \in Seq(SealedChunk) /\ Len(sealed) \in Nat /\ i \in 1..Len(sealed)
        /\ sealed[i] \in SealedChunk
    BY <1>1 DEF BaInv, BaTypeOK
<1>3. sealed' = [sealed EXCEPT ![i] = [sealed[i] EXCEPT !.row = TRUE]]
    BY <1>1
<1> DEFINE x == [sealed[i] EXCEPT !.row = TRUE]
<1>4. x \in SealedChunk /\ x.frames = sealed[i].frames /\ x.flag = sealed[i].flag /\ x.row
    BY <1>2 DEF SealedChunk
<1> HIDE DEF x
<1>5. sealed' = [sealed EXCEPT ![i] = x]
    BY <1>3 DEF x
<1>6. /\ sealed' \in Seq(SealedChunk) /\ Len(sealed') = Len(sealed)
      /\ \A k \in 1..Len(sealed) :
            /\ sealed'[k].frames = sealed[k].frames /\ sealed'[k].flag = sealed[k].flag
            /\ sealed[k].row => sealed'[k].row
    BY <1>2, <1>4, <1>5
<1>7. UNCHANGED <<intervals, life, view, cont, out>>
    BY DEF CommitRow
<1>8. \A k \in 1..Met : k \in 1..Len(sealed)
    BY <1>2 DEF BaInv, MetOK
<1>9. Met' = Met /\ Audited' = Audited
    BY <1>6, <1>7, <1>8, AuditedStays
<1>10. BaTypeOK' /\ LifeOK'
    BY <1>6, <1>7 DEF BaInv, BaTypeOK, LifeOK
<1>11. RowsOK'
    BY <1>6 DEF BaInv, RowsOK
<1>12. MetOK'
    BY <1>6, <1>7, <1>8, <1>9 DEF BaInv, MetOK
<1>13. ViewOK'
    <2>1. view.pc # "idle" => view.rows \subseteq 1..Len(sealed)
        BY <1>2 DEF BaInv, ViewOK
    <2> QED
        BY <1>6, <1>7, <1>9, <2>1 DEF BaInv, ViewOK
<1>14. ConnsOK'
    BY <1>6 DEF BaInv, ConnsOK
<1>15. ScansAgree'
    BY <1>7, <1>9, ScansStay
<1>16. AbsenceIsJudgedRight'
    BY <1>7 DEF BaInv, AbsenceIsJudgedRight
<1> QED
    BY <1>10, <1>11, <1>12, <1>13, <1>14, <1>15, <1>16 DEF BaInv

LEMMA CaptureKeepsBaInv ==
    ASSUME BaInv, CaptureCatalogBoundary \/ StrictManifestInventory
    PROVE  BaInv'
<1>1. UNCHANGED <<sealed, intervals, life, cont, out>>
    BY DEF CaptureCatalogBoundary, StrictManifestInventory
<1>2. sealed \in Seq(SealedChunk) /\ Len(sealed) \in Nat /\ Len(life) = Len(sealed)
        /\ DOMAIN sealed = 1..Len(sealed)
    BY DEF BaInv, BaTypeOK
<1>3. Met' = Met /\ Audited' = Audited
    BY <1>1, AuditedStays
<1>4. BaTypeOK'
    <2>1. view'.pc \in {"scan", "classify"}
        <3>1. CASE CaptureCatalogBoundary
            BY <3>1 DEF CaptureCatalogBoundary, NoView
        <3>2. CASE StrictManifestInventory
            BY <3>2 DEF StrictManifestInventory, BaInv, BaTypeOK
        <3> QED
            BY <3>1, <3>2
    <2> QED
        BY <1>1, <2>1 DEF BaInv, BaTypeOK
<1>5. RowsOK' /\ LifeOK' /\ MetOK' /\ ConnsOK' /\ AbsenceIsJudgedRight'
    BY <1>1, <1>3 DEF BaInv, RowsOK, LifeOK, MetOK, ConnsOK, AbsenceIsJudgedRight
<1>6. ScansAgree'
    BY <1>1, <1>3, ScansStay
<1>7. CASE CaptureCatalogBoundary
    <2>1. /\ view'.pc = "scan" /\ view'.rows = RowsNow
          /\ \A i \in RowsNow : view'.states[i] = life[i].state
        BY <1>7 DEF CaptureCatalogBoundary, NoView
    <2>2. \E r \in Nat : RowsNow = 1..r /\ Met <= r /\ r <= Len(sealed)
        <3>1. RowsNow = {i \in 1..Len(sealed) : sealed[i].row}
            BY <1>2 DEF RowsNow
        <3>2. \A i \in 1..Len(sealed) : i < Len(sealed) => sealed[i].row
            BY DEF BaInv, RowsOK
        <3>3. Met \in Nat /\ Met <= Len(sealed) /\ \A i \in 1..Met : sealed[i].row
            BY DEF BaInv, MetOK
        <3> DEFINE n == Len(sealed)
        <3> HIDE DEF n
        <3>4. CASE n = 0
            <4>1. RowsNow = 1..0 /\ Met <= 0
                BY <3>1, <3>3, <3>4 DEF n
            <4> QED
                BY <3>3, <3>4, <4>1 DEF n
        <3>5. CASE n # 0 /\ sealed[n].row
            <4>1. \A i \in 1..n : sealed[i].row
                BY <1>2, <3>2, <3>5 DEF n
            <4>2. RowsNow = 1..n
                BY <3>1, <4>1 DEF n
            <4> QED
                BY <1>2, <3>3, <4>2 DEF n
        <3>6. CASE n # 0 /\ ~sealed[n].row
            <4>1. n \in Nat /\ n - 1 \in Nat
                BY <1>2, <3>6 DEF n
            <4>2. \A i \in 1..n : sealed[i].row <=> i \in 1..(n - 1)
                BY <3>2, <3>6, <4>1 DEF n
            <4>3. RowsNow = 1..(n - 1)
                BY <3>1, <4>1, <4>2 DEF n
            <4>4. Met # n
                BY <3>3, <3>6, <4>1
            <4>5. Met <= n - 1 /\ n - 1 <= n
                BY <3>3, <4>1, <4>4 DEF n
            <4> QED
                BY <4>1, <4>3, <4>5 DEF n
        <3> QED
            BY <3>4, <3>5, <3>6
    <2>3. \A i \in RowsNow : sealed[i].row
        BY DEF RowsNow
    <2>4. ViewOK'
        BY <1>1, <1>3, <2>1, <2>2, <2>3 DEF ViewOK
    <2> QED
        BY <1>4, <1>5, <1>6, <2>4 DEF BaInv
<1>8. CASE StrictManifestInventory
    <2>1. /\ view.pc = "scan" /\ view'.rows = view.rows /\ view'.states = view.states
          /\ view'.members = DOMAIN sealed
          /\ view'.absent = {i \in DOMAIN sealed : ~life[i].raw}
        <3>1. view' = [view EXCEPT !.pc = "classify", !.members = DOMAIN sealed,
                                   !.absent = {i \in DOMAIN sealed : ~life[i].raw}]
            BY <1>8 DEF StrictManifestInventory
        <3>2. view.pc = "scan"
            BY <1>8 DEF StrictManifestInventory
        <3> QED
            BY <3>1, <3>2 DEF BaInv, ViewOK
    <2>2. view.rows \subseteq DOMAIN sealed
        BY <1>2, <2>1 DEF BaInv, ViewOK
    <2>3. ViewOK'
        BY <1>1, <1>2, <1>3, <2>1, <2>2 DEF BaInv, ViewOK
    <2> QED
        BY <1>4, <1>5, <1>6, <2>3 DEF BaInv
<1> QED
    BY <1>7, <1>8

\* The connections that a boundary between two scanned chunks names.
LEMMA ConnectionIs ==
    ASSUME NEW i \in 1..Len(sealed), sealed \in Seq(SealedChunk), NEW readable \in BOOLEAN,
           ~ZeroRecord(Scanned(i, readable)),
           NEW x \in {LastConnection(Scanned(i, readable)), FirstConnection(Scanned(i, readable))},
           x # Unknowable
    PROVE  \E k \in 1..Len(sealed[i].frames) : x = sealed[i].frames[k].conn
<1> DEFINE c == Scanned(i, readable)  frames == sealed[i].frames
<1>1. frames \in Seq(Frame) /\ Len(frames) \in Nat
    <2>1. sealed[i] \in SealedChunk
        OBVIOUS
    <2> QED
        BY <2>1 DEF SealedChunk
<1>2. /\ c.readable = readable /\ c.frames = IF readable THEN frames ELSE << >>
      /\ c.conns = {frames[k].conn : k \in DOMAIN frames} /\ c.count = Len(frames)
    BY DEF Scanned
<1>3. Len(frames) # 0 /\ 1 \in 1..Len(frames) /\ Len(frames) \in 1..Len(frames)
    BY <1>1, <1>2 DEF ZeroRecord
<1>4. CASE readable
    <2>1. c.frames = frames /\ Last(frames) = frames[Len(frames)] /\ Head(frames) = frames[1]
        BY <1>1, <1>2, <1>3, <1>4 DEF Last
    <2>2. x \in {frames[Len(frames)].conn, frames[1].conn}
        BY <1>2, <1>4, <2>1 DEF LastConnection, FirstConnection
    <2> QED
        BY <1>3, <2>2
<1>5. CASE ~readable
    <2>1. x = OnlyConnection(c)
        BY <1>2, <1>5 DEF LastConnection, FirstConnection
    <2>2. Cardinality(c.conns) = 1 /\ x = CHOOSE y \in c.conns : TRUE
        BY <2>1 DEF OnlyConnection
    <2>3. c.conns # {}
        BY <2>2, FS_EmptySet
    <2>4. x \in c.conns
        BY <2>2, <2>3
    <2> QED
        BY <1>1, <1>2, <2>4
<1> QED
    BY <1>4, <1>5

\* The last sealed connection is the highest.
LEMMA TailIs ==
    ASSUME BaInv
    PROVE  /\ Tail0 \in Nat
           /\ \A i \in 1..Len(sealed) : \A k \in 1..Len(sealed[i].frames) :
                 sealed[i].frames[k].conn \in Nat /\ sealed[i].frames[k].conn <= Tail0
<1> DEFINE framed == {i \in DOMAIN sealed : sealed[i].frames # << >>}
           m == Max(framed)
<1>1. sealed \in Seq(SealedChunk) /\ Len(sealed) \in Nat /\ DOMAIN sealed = 1..Len(sealed)
    BY DEF BaInv, BaTypeOK
<1>2. \A i \in 1..Len(sealed) : sealed[i] \in SealedChunk
    BY <1>1
<1>3. ASSUME NEW i \in 1..Len(sealed)
      PROVE  /\ sealed[i].frames \in Seq(Frame) /\ Len(sealed[i].frames) \in Nat
             /\ (sealed[i].frames = << >> <=> Len(sealed[i].frames) = 0)
             /\ \A k \in 1..Len(sealed[i].frames) : sealed[i].frames[k].conn \in Nat
    <2> DEFINE frames == sealed[i].frames
    <2>1. frames \in Seq(Frame)
        BY <1>2 DEF SealedChunk
    <2> HIDE DEF frames
    <2>2. Len(frames) \in Nat /\ (frames = << >> <=> Len(frames) = 0)
            /\ \A k \in 1..Len(frames) : frames[k] \in Frame
        BY <2>1
    <2> QED
        BY <2>1, <2>2 DEF frames, Frame
<1>4. CASE framed = {}
    <2>1. Tail0 = 0
        BY <1>4 DEF Tail0
    <2>2. \A i \in 1..Len(sealed) : Len(sealed[i].frames) = 0
        BY <1>1, <1>3, <1>4
    <2> QED
        BY <2>1, <2>2
<1>5. CASE framed # {}
    <2>1. m \in framed /\ \A y \in framed : y <= m
        <3>1. framed \in SUBSET Nat /\ \A y \in framed : y <= Len(sealed)
            BY <1>1
        <3> HIDE DEF framed
        <3> QED
            BY <1>1, <1>5, <3>1, MaxOfBounded
    <2> DEFINE last == sealed[m].frames  n == Len(last)
    <2>2. Tail0 = Last(last).conn
        BY <1>5 DEF Tail0
    <2>3. m \in 1..Len(sealed) /\ last # << >>
        BY <1>1, <2>1
    <2> HIDE DEF m
    <2>4. n \in Nat /\ n # 0 /\ n \in 1..n /\ last \in Seq(Frame)
        BY <1>3, <2>3
    <2>5. Tail0 = last[n].conn
        BY <2>2, <2>4 DEF Last
    <2>6. Tail0 \in Nat
        BY <1>3, <2>3, <2>4, <2>5
    <2>7. ASSUME NEW i \in 1..Len(sealed), NEW k \in 1..Len(sealed[i].frames)
          PROVE  sealed[i].frames[k].conn <= Tail0
        <3>1. sealed[i].frames # << >> /\ i \in framed
            BY <1>1, <1>3
        <3>2. i < m \/ (i = m /\ k <= n)
            <4>1. i <= m
                BY <2>1, <3>1
            <4>2. i \in Nat /\ m \in Nat
                BY <1>1, <2>3
            <4>3. i = m => k <= n
                OBVIOUS
            <4> QED
                BY ONLY <4>1, <4>2, <4>3
        <3>3. m \in 1..Len(sealed) /\ n \in 1..Len(sealed[m].frames)
            BY <2>3, <2>4
        <3> QED
            BY <2>5, <3>2, <3>3 DEF BaInv, ConnsOK
    <2> QED
        BY <1>3, <2>6, <2>7
<1> QED
    BY <1>4, <1>5

\* New frames follow the connections in order.
LEMMA WireRises ==
    ASSUME Tail0 \in Nat, NEW n \in Nat, NEW fs \in Wire(n)
    PROVE  /\ fs \in Seq(Frame) /\ Len(fs) = n
           /\ \A k \in 1..n : fs[k].conn >= Tail0
           /\ \A k \in 1..n : \A l \in k..n : fs[k].conn <= fs[l].conn
           /\ n # 0 => fs[1].conn \in {Tail0, Tail0 + 1}
<1> DEFINE T == Tail0
           Marked == {"none", "gap", "overlap"}
<1>1. /\ fs \in [1..n -> [conn : T..(T + n), mark : Marked]]
      /\ \A k \in 1..n : LET o == IF k = 1 THEN T ELSE fs[k - 1].conn IN
                         fs[k].conn = o + 1 \/ (o > 0 /\ fs[k].conn = o)
    BY DEF Wire
<1>2. T \in Nat
    OBVIOUS
<1> HIDE DEF T
<1>3. \A k \in 1..n : fs[k] \in Frame /\ fs[k].conn \in Nat /\ fs[k].conn >= T
    <2>1. ASSUME NEW k \in 1..n PROVE fs[k] \in Frame /\ fs[k].conn \in Nat /\ fs[k].conn >= T
        <3>1. fs[k] \in [conn : T..(T + n), mark : Marked]
            BY <1>1
        <3>2. \A x \in T..(T + n) : x \in Nat /\ x >= T
            BY <1>2
        <3> HIDE DEF Marked
        <3>3. fs[k].conn \in T..(T + n)
            BY <3>1
        <3>4. fs[k].conn \in Nat /\ fs[k].conn >= T
            BY <3>2, <3>3
        <3>5. fs[k] = [conn |-> fs[k].conn, mark |-> fs[k].mark] /\ fs[k].mark \in Marked
            BY <3>1
        <3> QED
            BY <3>4, <3>5 DEF Frame, Marked
    <2> QED
        BY <2>1
<1>4. fs \in Seq(Frame) /\ Len(fs) = n
    <2>1. fs \in [1..n -> Frame]
        BY <1>1, <1>3
    <2> QED
        BY <2>1
<1>5. ASSUME NEW k \in 1..n, NEW l \in k..n PROVE fs[k].conn <= fs[l].conn
    <2> DEFINE d == n - k
               Above == {e \in 0..d : fs[k].conn <= fs[k + e].conn}
    <2>1. 0 \in Above
        <3>1. k + 0 = k /\ 0 \in 0..d
            OBVIOUS
        <3> QED
            BY <1>3, <3>1
    <2>2. ASSUME NEW e \in 1..d, e - 1 \in Above PROVE e \in Above
        <3>1. k + e \in 1..n /\ k + e # 1 /\ (k + e) - 1 = k + (e - 1) /\ k + (e - 1) \in 1..n
            OBVIOUS
        <3>2. fs[k + e].conn = fs[k + (e - 1)].conn + 1 \/ fs[k + e].conn = fs[k + (e - 1)].conn
            BY <1>1, <3>1
        <3>3. fs[k + (e - 1)].conn \in Nat /\ fs[k].conn \in Nat /\ fs[k].conn <= fs[k + (e - 1)].conn
            BY <1>3, <2>2, <3>1
        <3>4. e \in 0..d
            OBVIOUS
        <3> QED
            BY <3>2, <3>3, <3>4
    <2>3. d \in Nat /\ l - k \in 0..d /\ k + (l - k) = l
        OBVIOUS
    <2>4. \A e \in 1..d : e - 1 \in Above => e \in Above
        BY <2>2
    <2>5. l - k \in Above
        <3> HIDE DEF d, Above
        <3> QED
            BY ONLY <2>1, <2>3, <2>4, CountingUp
    <2> QED
        BY <2>3, <2>5
<1>6. n # 0 => fs[1].conn \in {T, T + 1}
    <2>1. n # 0 => 1 \in 1..n
        OBVIOUS
    <2> QED
        BY <1>1, <2>1
<1> QED
    BY <1>3, <1>4, <1>5, <1>6 DEF T

\* A gap of the boundary sealed last says nothing of an earlier one.
OfBoundary(new, T) ==
    \A g \in new : /\ g.old = T \/ g.old = Unknowable
                   /\ g.new = T + 1 \/ g.new = Unknowable
                   /\ g.at = T + 1

LEMMA LaterGap ==
    ASSUME NEW T \in Nat, NEW gaps, NEW new, OfBoundary(new, T),
           NEW o \in Nat, NEW n \in Nat, o < n, n <= T, o # Unknowable, n # Unknowable
    PROVE  CatalogGapMatch(gaps \cup new, o, n) = CatalogGapMatch(gaps, o, n)
<1>1. \A g \in new : g.old # o /\ g.new # n /\ g.at # n
    BY DEF OfBoundary
<1>2. {g \in gaps \cup new : g.old = o /\ g.new = n /\ o # Unknowable}
        = {g \in gaps : g.old = o /\ g.new = n /\ o # Unknowable}
    BY <1>1
<1> DEFINE exact == {g \in gaps : g.old = o /\ g.new = n /\ o # Unknowable}
<1>3. {g \in (gaps \cup new) \ exact : \/ g.old = o /\ o # Unknowable
                                       \/ g.new = n /\ n # Unknowable}
        = {g \in gaps \ exact : \/ g.old = o /\ o # Unknowable
                                \/ g.new = n /\ n # Unknowable}
    BY <1>1
<1> DEFINE partial == {g \in gaps \ exact : \/ g.old = o /\ o # Unknowable
                                            \/ g.new = n /\ n # Unknowable}
<1>4. {g \in (gaps \cup new) \ (exact \cup partial) : g.at = n}
        = {g \in gaps \ (exact \cup partial) : g.at = n}
    BY <1>1
<1> QED
    BY <1>2, <1>3, <1>4, Zenon DEF CatalogGapMatch

LEMMA SealKeepsBaInv == ASSUME BaInv, SealChunk PROVE BaInv'
<1> DEFINE N == Len(sealed)
<1>1. PICK n \in 0..MaxFrames : \E fs \in Wire(n) : \E flag \in Flags :
         \E g \in IF n = 0 THEN {{}} ELSE Recorded(Tail0, fs[1].conn) :
            /\ sealed' = Append(sealed, [frames |-> fs, flag |-> flag, row |-> FALSE])
            /\ intervals' = intervals \cup g
    BY DEF SealChunk, Flags
<1>a. PICK fs \in Wire(n) : \E flag \in Flags :
         \E g \in IF n = 0 THEN {{}} ELSE Recorded(Tail0, fs[1].conn) :
            /\ sealed' = Append(sealed, [frames |-> fs, flag |-> flag, row |-> FALSE])
            /\ intervals' = intervals \cup g
    BY <1>1
<1>b. PICK flag \in Flags, g \in IF n = 0 THEN {{}} ELSE Recorded(Tail0, fs[1].conn) :
         /\ sealed' = Append(sealed, [frames |-> fs, flag |-> flag, row |-> FALSE])
         /\ intervals' = intervals \cup g
    BY <1>a
<1>2. /\ \A i \in 1..N : sealed[i].row
      /\ life' = Append(life, [state |-> "none", raw |-> TRUE, lost |-> FALSE])
      /\ UNCHANGED <<view, cont, out>>
    <2>1. DOMAIN sealed = 1..N
        BY DEF BaInv, BaTypeOK
    <2>2. /\ \A i \in DOMAIN sealed : sealed[i].row
          /\ life' = Append(life, [state |-> "none", raw |-> TRUE, lost |-> FALSE])
          /\ UNCHANGED <<view, cont, out>>
        BY DEF SealChunk
    <2> QED
        BY <2>1, <2>2
<1>3. sealed \in Seq(SealedChunk) /\ life \in Seq(Lives) /\ N \in Nat /\ Len(life) = N
    BY DEF BaInv, BaTypeOK
<1>4. /\ Tail0 \in Nat
      /\ \A i \in 1..N : \A k \in 1..Len(sealed[i].frames) :
            sealed[i].frames[k].conn \in Nat /\ sealed[i].frames[k].conn <= Tail0
    BY TailIs
<1>5. /\ fs \in Seq(Frame) /\ Len(fs) = n /\ n \in Nat
      /\ \A k \in 1..n : fs[k].conn >= Tail0 /\ fs[k].conn \in Nat
      /\ \A k \in 1..n : \A l \in k..n : fs[k].conn <= fs[l].conn
      /\ n # 0 => fs[1].conn \in {Tail0, Tail0 + 1}
    <2>1. n \in Nat
        OBVIOUS
    <2>2. /\ fs \in Seq(Frame) /\ Len(fs) = n
          /\ \A k \in 1..n : fs[k].conn >= Tail0
          /\ \A k \in 1..n : \A l \in k..n : fs[k].conn <= fs[l].conn
          /\ n # 0 => fs[1].conn \in {Tail0, Tail0 + 1}
        BY <1>4, <2>1, WireRises
    <2>3. \A k \in 1..n : fs[k] \in Frame
        BY <2>2
    <2>4. \A k \in 1..n : fs[k].conn \in Nat
        BY <2>3 DEF Frame
    <2> QED
        BY <2>1, <2>2, <2>4
<1> DEFINE x == [frames |-> fs, flag |-> flag, row |-> FALSE]
           y == [state |-> "none", raw |-> TRUE, lost |-> FALSE]
<1>6. x \in SealedChunk /\ x.frames = fs /\ x.row = FALSE
    BY <1>5 DEF SealedChunk
<1>7. y \in Lives /\ y.raw /\ ~y.lost
    BY DEF Lives
<1> HIDE DEF x, y
<1>8. /\ sealed' \in Seq(SealedChunk) /\ Len(sealed') = N + 1 /\ sealed'[N + 1] = x
      /\ \A i \in 1..N : sealed'[i] = sealed[i]
    BY <1>3, <1>6, <1>b DEF x
<1>9. /\ life' \in Seq(Lives) /\ Len(life') = N + 1 /\ life'[N + 1] = y
      /\ \A i \in 1..N : life'[i] = life[i]
    BY <1>2, <1>3, <1>7 DEF y
<1>10. \A i \in 1..(N + 1) : i # N + 1 => i \in 1..N
    BY <1>3
<1>11. Met \in Nat /\ Met <= N /\ \A k \in 1..Met : k \in 1..N
    BY <1>3 DEF BaInv, MetOK
<1>12. Met' = Met /\ Audited' = Audited
    BY <1>2, <1>8, <1>11, AuditedStays
<1>13. BaTypeOK'
    BY <1>2, <1>8, <1>9 DEF BaInv, BaTypeOK
<1>14. RowsOK'
    <2>1. \A i \in 1..(N + 1) : i < N + 1 => i \in 1..N
        BY <1>3
    <2> QED
        BY <1>2, <1>8, <2>1 DEF RowsOK
<1>15. LifeOK'
    <2> SUFFICES ASSUME NEW i \in 1..(N + 1)
                 PROVE  /\ life'[i].lost => life'[i].state \in {"none", "COPYING"} /\ ~life'[i].raw
                        /\ ~life'[i].raw /\ ~life'[i].lost =>
                             life'[i].state \in {"LOCAL_DELETE_PENDING", "LOCAL_DELETED",
                                                "REMOTE_DELETE_PENDING", "REMOTE_DELETED"}
        BY <1>9 DEF LifeOK
    <2>1. CASE i = N + 1
        BY <1>7, <1>9, <2>1
    <2>2. CASE i \in 1..N
        BY <1>3, <1>9, <2>2 DEF BaInv, LifeOK
    <2> QED
        BY <1>10, <2>1, <2>2
<1>16. MetOK'
    BY <1>2, <1>3, <1>8, <1>11, <1>12 DEF BaInv, MetOK
<1>17. ViewOK'
    <2>1. view.pc # "idle" => view.rows \subseteq 1..N
        BY <1>3 DEF BaInv, ViewOK
    <2>2. \A r \in Nat : r <= N => r <= N + 1
        BY <1>3
    <2>3. \A i \in 1..N : i \in 1..(N + 1)
        BY <1>3
    <2> QED
        BY <1>2, <1>3, <1>8, <1>9, <1>12, <2>1, <2>2, <2>3 DEF BaInv, ViewOK
<1>18. ConnsOK'
    <2> SUFFICES ASSUME NEW i \in 1..(N + 1), NEW j \in 1..(N + 1),
                        NEW k \in 1..Len(sealed'[i].frames), NEW l \in 1..Len(sealed'[j].frames),
                        i < j \/ (i = j /\ k <= l)
                 PROVE  sealed'[i].frames[k].conn <= sealed'[j].frames[l].conn
        BY <1>8 DEF ConnsOK
    <2>1. CASE i \in 1..N /\ j \in 1..N
        BY <1>8, <2>1 DEF BaInv, ConnsOK
    <2>2. CASE i \in 1..N /\ j = N + 1
        <3>1. sealed'[i].frames[k].conn \in Nat /\ sealed'[i].frames[k].conn <= Tail0
            BY <1>4, <1>8, <2>2
        <3>2. sealed'[j].frames[l].conn \in Nat /\ sealed'[j].frames[l].conn >= Tail0
            BY <1>5, <1>6, <1>8, <2>2
        <3>3. \A u, v, t \in Nat : u <= t /\ v >= t => u <= v
            OBVIOUS
        <3> QED
            BY ONLY <1>4, <3>1, <3>2, <3>3
    <2>3. CASE i = N + 1 /\ j = N + 1
        <3>1. k \in 1..n /\ l \in 1..n /\ k <= l
            BY <1>3, <1>5, <1>6, <1>8, <2>3
        <3>2. l \in k..n
            BY <1>5, <3>1
        <3> QED
            BY <1>5, <1>6, <1>8, <2>3, <3>1, <3>2
    <2>4. ~(i = N + 1 /\ j \in 1..N)
        BY <1>3
    <2> QED
        BY <1>10, <2>1, <2>2, <2>3, <2>4
<1>19. ASSUME NEW h, IsScan(h, intervals', Audited, 1..Met, Met)
       PROVE  out.transitions = h[Met].found /\ cont.context = Compact(h[Met].near)
    <2> DEFINE f == [k \in 0..Met |-> h[k]]
    <2>1. ListOK(Audited, Met)
        BY AuditedIs
    <2>2. ASSUME NEW near, NEW k \in 1..Met, NearOK(near), near # << >>, ~ZeroRecord(Audited[k]),
                 \A i \in 1..Len(near) : \E j \in 1..(k - 1) : near[i] = Audited[j]
          PROVE  InterTransition(intervals', near, Audited[k])
                   = InterTransition(intervals, near, Audited[k])
        <3> DEFINE prev == Head(near)  c == Audited[k]
                   o == LastConnection(prev)  m == FirstConnection(c)
        <3>1. near \in Seq(ScannedChunk) /\ Len(near) \in Nat /\ 1 \in 1..Len(near) /\ prev = near[1]
            BY <2>2 DEF NearOK
        <3>2. PICK j \in 1..(k - 1) : prev = Audited[j]
            BY <2>2, <3>1
        <3>3. ~ZeroRecord(prev)
            BY <2>2, <3>1 DEF NearOK
        <3>4. /\ j \in 1..Met /\ j \in 1..N /\ k \in 1..N /\ j < k
              /\ Audited[k] = Scanned(k, k \notin out.unread)
              /\ Audited[j] = Scanned(j, j \notin out.unread)
            BY <1>11 DEF Audited
        <3> HIDE DEF prev, c
        <3>5. o # Unknowable /\ m # Unknowable /\ o # m
                => CatalogGapMatch(intervals', o, m) = CatalogGapMatch(intervals, o, m)
            <4> SUFFICES ASSUME o # Unknowable, m # Unknowable, o # m
                         PROVE  CatalogGapMatch(intervals', o, m) = CatalogGapMatch(intervals, o, m)
                OBVIOUS
            <4>1. PICK a \in 1..Len(sealed[j].frames) : o = sealed[j].frames[a].conn
                BY <1>3, <3>2, <3>3, <3>4, ConnectionIs
            <4>2. PICK b \in 1..Len(sealed[k].frames) : m = sealed[k].frames[b].conn
                BY <1>3, <2>2, <3>4, ConnectionIs DEF c
            <4>3. o <= m
                BY <3>4, <4>1, <4>2 DEF BaInv, ConnsOK
            <4>4. o \in Nat /\ m \in Nat /\ m <= Tail0
                BY <1>4, <3>4, <4>1, <4>2
            <4>5. \A z \in g : /\ z.old = Tail0 \/ z.old = Unknowable
                               /\ z.new = Tail0 + 1 \/ z.new = Unknowable
                               /\ z.at = Tail0 + 1
                <5>1. CASE n = 0
                    BY <5>1
                <5>2. CASE n # 0
                    <6>1. g \in Recorded(Tail0, fs[1].conn)
                        BY <5>2
                    <6>2. fs[1].conn = Tail0 \/ fs[1].conn = Tail0 + 1
                        BY <1>5, <5>2
                    <6> DEFINE T == Tail0  u == fs[1].conn
                    <6> HIDE DEF T, u
                    <6>3. \/ g = {}
                          \/ T # u /\ g \in {{[old |-> T, new |-> u, at |-> u]},
                                             {[old |-> T, new |-> Unknowable, at |-> u]},
                                             {[old |-> Unknowable, new |-> Unknowable, at |-> u]}}
                        BY <6>1 DEF Recorded, T, u
                    <6>4. \A z \in g : /\ z.old = T \/ z.old = Unknowable
                                       /\ z.new = u \/ z.new = Unknowable
                                       /\ z.at = u /\ T # u
                        BY <6>3
                    <6> QED
                        BY <6>2, <6>4 DEF T, u
                <5> QED
                    BY <5>1, <5>2
            <4>6. o < m /\ o # Unknowable /\ m # Unknowable
                BY <4>3, <4>4
            <4> HIDE DEF o, m
            <4> DEFINE T == Tail0
            <4>7. T \in Nat /\ m <= T
                BY <1>4, <4>4
            <4>8. OfBoundary(g, T)
                BY <4>5 DEF OfBoundary
            <4> HIDE DEF T
            <4>9. CatalogGapMatch(intervals \cup g, o, m) = CatalogGapMatch(intervals, o, m)
                BY ONLY <4>4, <4>6, <4>7, <4>8, LaterGap
            <4> QED
                BY <1>b, <4>9
        <3>6. \A mid : o # Unknowable /\ m # Unknowable /\ o # m
                => ClassifyInterChunk(intervals', prev, c, mid)
                     = ClassifyInterChunk(intervals, prev, c, mid)
            BY <3>5 DEF ClassifyInterChunk
        <3> HIDE DEF o, m
        <3>7. /\ InterTransition(intervals', near, c)
                   = IF o # Unknowable /\ m # Unknowable /\ o # m
                     THEN {[old |-> prev.id, new |-> c.id, at |-> 0,
                            kind |-> ClassifyInterChunk(intervals', prev, c, Tail(near))]}
                     ELSE {}
              /\ InterTransition(intervals, near, c)
                   = IF o # Unknowable /\ m # Unknowable /\ o # m
                     THEN {[old |-> prev.id, new |-> c.id, at |-> 0,
                            kind |-> ClassifyInterChunk(intervals, prev, c, Tail(near))]}
                     ELSE {}
            BY DEF InterTransition, o, m, prev
        <3> QED
            BY <3>6, <3>7 DEF c
    <2>3. IsScan(f, intervals, Audited, 1..Met, Met)
        <3> DEFINE M == Met  all == Audited  emit == 1..Met
        <3>1. M \in Nat /\ M <= M
            BY <1>11
        <3>2. IsScan(h, intervals', all, emit, M) /\ ListOK(all, M)
            BY <1>19, <2>1
        <3>3. \A near : \A k \in 1..M :
                  NearOK(near) /\ near # << >> /\ ~ZeroRecord(all[k])
                    /\ (\A i \in 1..Len(near) : \E j \in 1..(k - 1) : near[i] = all[j])
                  => InterTransition(intervals', near, all[k]) = InterTransition(intervals, near, all[k])
            BY <2>2
        <3> HIDE DEF M, all, emit
        <3>4. IsScan([k \in 0..M |-> h[k]], intervals, all, emit, M)
            BY <3>1, <3>2, <3>3, ScanCarries
        <3> QED
            BY <3>4 DEF M, all, emit
    <2>4. f[Met] = h[Met]
        BY <1>11
    <2> HIDE DEF f
    <2>5. out.transitions = f[Met].found /\ cont.context = Compact(f[Met].near)
        BY <2>3 DEF BaInv, ScansAgree
    <2> QED
        BY <2>4, <2>5
<1>20. ScansAgree'
    BY <1>2, <1>12, <1>19 DEF ScansAgree
<1>21. AbsenceIsJudgedRight'
    BY <1>2 DEF BaInv, AbsenceIsJudgedRight
<1> QED
    BY <1>13, <1>14, <1>15, <1>16, <1>17, <1>18, <1>20, <1>21 DEF BaInv

\* A loss is judged by what became of the chunk.
Judged(l) ==
    IF l.life.lost THEN l.class \in {"UNKNOWN", "UNEXPLAINED_ABSENCE"}
    ELSE \/ l.class \in {"AUTHORIZED_LOCAL_DELETE", "AUTHORIZED_REMOTE_DELETE"}
         \/ l.life.state = "REMOTE_DELETE_PENDING"
         \/ l.class = "UNKNOWN" /\ ~l.proven
            /\ l.life.state \in {"LOCAL_DELETE_PENDING", "LOCAL_DELETED"}

LEMMA AbsenceJudged ==
    ASSUME BaInv, view.pc = "classify", NEW i \in view.rows, ~life[i].raw, NEW proven \in BOOLEAN,
           NEW l, l = [chunk |-> i, class |-> Classified(i, proven), life |-> life[i],
                       proven |-> proven]
    PROVE  Judged(l)
<1>1. i \in 1..Len(life) /\ life[i] \in Lives
    BY DEF BaInv, ViewOK, BaTypeOK
<1>2. view.states[i] = "LOCAL_DELETED" => life[i].state = "LOCAL_DELETED"
    BY DEF BaInv, ViewOK
<1>3. /\ life[i].lost => life[i].state \in {"none", "COPYING"}
      /\ ~life[i].lost => life[i].state \in {"LOCAL_DELETE_PENDING", "LOCAL_DELETED",
                                            "REMOTE_DELETE_PENDING", "REMOTE_DELETED"}
    BY <1>1 DEF BaInv, LifeOK
<1>4. l.class = Classified(i, proven) /\ l.life = life[i] /\ l.proven = proven
    OBVIOUS
<1>5. CASE life[i].lost
    <2>1. Classified(i, proven) \in {"UNKNOWN", "UNEXPLAINED_ABSENCE"}
        BY <1>2, <1>3, <1>5
           DEF Classified, BoundaryLocalDeleteAuthorized, ClassifyMissingLocalSource
    <2> QED
        BY <1>4, <1>5, <2>1 DEF Judged
<1>6. CASE ~life[i].lost
    <2>1. \/ Classified(i, proven) \in {"AUTHORIZED_LOCAL_DELETE", "AUTHORIZED_REMOTE_DELETE"}
          \/ life[i].state = "REMOTE_DELETE_PENDING"
          \/ Classified(i, proven) = "UNKNOWN" /\ ~proven
             /\ life[i].state \in {"LOCAL_DELETE_PENDING", "LOCAL_DELETED"}
        BY <1>3, <1>6 DEF Classified, BoundaryLocalDeleteAuthorized, ClassifyMissingLocalSource
    <2> QED
        BY <1>4, <1>6, <2>1 DEF Judged
<1> QED
    BY <1>5, <1>6

LEMMA AuditKeepsBaInv == ASSUME BaInv, IncrementalAudit PROVE BaInv'
<1> DEFINE m == Met
           rows == view.rows
           fresh == (view.members \cap rows) \ cont.members
           readable(i) == life[i].raw /\ i \notin view.absent
           order == ByCreation(fresh)
           chunks == [k \in DOMAIN order |-> Scanned(order[k], readable(order[k]))]
           unread == {i \in fresh : ~readable(i)}
           told(gone, proven) ==
               [transitions |-> out.transitions \cup
                    CollectTransitions(intervals, cont.context \o chunks, fresh),
                losses |-> Losses(gone, proven),
                disagreements |-> rows \ view.members,
                unread |-> out.unread \cup unread]
<1>23. PICK went \in SUBSET (unread \ view.absent) :
           \E proven \in SUBSET ((view.absent \cup went) \cap rows) :
               out' = told((view.absent \cup went) \cap rows, proven)
    BY DEF IncrementalAudit
<1> DEFINE gone == (view.absent \cup went) \cap rows
<1>24. PICK proven : out' = told(gone, proven)
    BY <1>23
<1>1. /\ view.pc = "classify"
      /\ out' = [transitions |-> out.transitions \cup
                     CollectTransitions(intervals, cont.context \o chunks, fresh),
                 losses |-> Losses(gone, proven),
                 disagreements |-> rows \ view.members,
                 unread |-> out.unread \cup unread]
      /\ cont' = [members |-> view.members \cap rows,
                  context |-> UpdatedContexts(cont.context, chunks)]
      /\ view' = NoView
      /\ UNCHANGED <<sealed, intervals, life>>
    BY <1>24 DEF IncrementalAudit
<1>25. \A i \in gone : i \in rows /\ (i \in view.absent \/ ~life[i].raw)
    BY <1>23
<1> HIDE DEF gone, told
<1>2. /\ sealed \in Seq(SealedChunk) /\ Len(sealed) \in Nat /\ Len(life) = Len(sealed)
      /\ life \in Seq(Lives)
    BY DEF BaInv, BaTypeOK
<1>3. m \in Nat /\ m <= Len(sealed) /\ cont.members = 1..m /\ out.unread \subseteq 1..m
    BY DEF BaInv, MetOK
<1>4. PICK r \in Nat : rows = 1..r /\ m <= r /\ r <= Len(sealed)
    BY <1>1 DEF BaInv, ViewOK
<1>5. rows \subseteq view.members /\ \A i \in view.absent : i \in 1..Len(life) /\ ~life[i].raw
    BY <1>1 DEF BaInv, ViewOK
<1> HIDE DEF m
<1>6. fresh = (m + 1)..r /\ view.members \cap rows = 1..r
    <2>1. view.members \cap rows = 1..r
        BY <1>4, <1>5
    <2>2. \A i : i \in (1..r) \ (1..m) <=> i \in (m + 1)..r
        BY <1>3, <1>4
    <2> QED
        BY <1>3, <2>1, <2>2
<1>7. Met' = r /\ cont'.members = 1..r
    <2>1. cont'.members = 1..r
        BY <1>1, <1>6
    <2>2. Cardinality(1..r) = IF 1 > r THEN 0 ELSE r - 1 + 1
        BY FS_Interval
    <2>3. Cardinality(1..r) = r
        BY <2>2
    <2> QED
        BY <2>1, <2>3 DEF Met
<1>8. order = [k \in 1..(r - m) |-> m + k]
    BY <1>3, <1>4, <1>6, ByCreationIs
<1> HIDE DEF order
<1>9. DOMAIN order = 1..(r - m) /\ \A k \in 1..(r - m) : order[k] = m + k
    BY <1>8
<1>10. \A k \in 1..r : k \in 1..Len(sealed) /\ (k \notin (out.unread \cup unread))
                          = IF k \in 1..m THEN k \notin out.unread ELSE readable(k)
    <2> SUFFICES ASSUME NEW k \in 1..r
                 PROVE  k \in 1..Len(sealed) /\ (k \notin (out.unread \cup unread))
                          = IF k \in 1..m THEN k \notin out.unread ELSE readable(k)
        OBVIOUS
    <2>1. k \in 1..Len(sealed)
        BY <1>2, <1>4
    <2>2. CASE k \in 1..m
        <3>1. k \notin (m + 1)..r
            BY <1>3, <2>2
        <3> QED
            BY <1>6, <2>1, <2>2, <3>1
    <2>3. CASE k \notin 1..m
        <3>1. k \in (m + 1)..r
            BY <1>3, <2>3
        <3> QED
            BY <1>3, <1>6, <2>1, <2>3, <3>1
    <2> QED
        BY <2>2, <2>3
<1> DEFINE all == [k \in 1..r |-> Scanned(k, k \notin (out.unread \cup unread))]
<1>11. Audited' = all
    <2>1. out'.unread = out.unread \cup unread
        BY <1>1
    <2>2. \A k, b : Scanned(k, b)' = Scanned(k, b)
        BY <1>1 DEF Scanned
    <2> QED
        BY <1>7, <2>1, <2>2 DEF Audited
<1>12. ListOK(all, r)
    <2>1. ASSUME NEW k \in 1..r PROVE ScanOK(all[k]) /\ all[k].id = k
        <3>1. k \in 1..Len(sealed) /\ (k \notin (out.unread \cup unread)) \in BOOLEAN
            BY <1>10
        <3>2. ScanOK(Scanned(k, k \notin (out.unread \cup unread)))
                /\ Scanned(k, k \notin (out.unread \cup unread)).id = k
            BY <1>2, <3>1, ScannedIs
        <3> QED
            BY <3>2
    <2> QED
        BY <2>1 DEF ListOK
<1>13. \A k \in 1..m : Audited[k] = all[k]
    <2>1. ASSUME NEW k \in 1..m PROVE Audited[k] = all[k]
        <3>1. k \in 1..r
            BY <1>3, <1>4
        <3>2. Audited[k] = Scanned(k, k \notin out.unread)
            BY DEF Audited, m
        <3> QED
            BY <1>10, <3>1, <3>2
    <2> QED
        BY <2>1
<1>14. \A k \in 1..(r - m) : chunks[k] = all[m + k]
    <2>1. ASSUME NEW k \in 1..(r - m) PROVE chunks[k] = all[m + k]
        <3>1. m + k \in 1..r /\ m + k \notin 1..m
            BY <1>3, <1>4
        <3>2. chunks[k] = Scanned(m + k, readable(m + k))
            BY <1>9
        <3>3. (m + k \notin (out.unread \cup unread)) = readable(m + k)
            BY <1>10, <3>1
        <3> HIDE DEF unread, readable
        <3> QED
            BY <3>1, <3>2, <3>3
    <2> QED
        BY <2>1
<1>15. chunks \in Seq(ScannedChunk) /\ Len(chunks) = r - m
    <2>1. r - m \in Nat
        BY <1>3, <1>4
    <2>2. \A k \in 1..(r - m) : chunks[k] \in ScannedChunk
        <3>1. \A k \in 1..(r - m) : m + k \in 1..r
            BY <1>3, <1>4
        <3> HIDE DEF all, chunks
        <3> QED
            BY <1>12, <1>14, <3>1 DEF ListOK, ScanOK
    <2>3. chunks = [k \in 1..(r - m) |-> chunks[k]]
        BY <1>9
    <2> HIDE DEF chunks
    <2> QED
        BY <2>1, <2>2, <2>3
<1>16. out'.transitions = out.transitions \cup
           CollectTransitions(intervals, cont.context \o chunks, (m + 1)..r)
         /\ cont'.context = UpdatedContexts(cont.context, chunks)
    BY <1>1, <1>6
<1> HIDE DEF all, chunks
<1>17. ASSUME NEW g, IsScan(g, intervals, all, 1..r, r)
       PROVE  out'.transitions = g[r].found /\ cont'.context = Compact(g[r].near)
    <2> DEFINE f == [k \in 0..m |-> g[k]]
    <2>1. IsScan(f, intervals, Audited, 1..m, m)
        <3>1. \A k \in 1..m : k \in 1..m <=> k \in 1..r
            BY <1>3, <1>4
        <3> QED
            BY <1>3, <1>4, <1>12, <1>13, <1>17, <3>1, ScanCarries
    <2>2. f[m] = g[m]
        BY <1>3
    <2> HIDE DEF f
    <2>3. out.transitions = g[m].found /\ cont.context = Compact(g[m].near)
        BY <2>1, <2>2 DEF BaInv, ScansAgree, m
    <2>4. /\ g[r].found = g[m].found
                \cup CollectTransitions(intervals, Compact(g[m].near) \o chunks, (m + 1)..r)
          /\ UpdatedContexts(Compact(g[m].near), chunks) = Compact(g[r].near)
        <3>1. m \in Nat /\ r \in Nat /\ m <= r
            BY <1>3, <1>4
        <3>2. IsScan(g, intervals, all, 1..r, r)
            BY <1>17
        <3>3. IsRest(chunks, all, m, r)
            BY <1>14, <1>15 DEF IsRest
        <3> QED
            BY ONLY <1>12, <3>1, <3>2, <3>3, IncrementIsExact
    <2> QED
        BY <1>16, <2>3, <2>4
<1>18. ScansAgree'
    BY <1>1, <1>7, <1>11, <1>17 DEF ScansAgree
<1>19. BaTypeOK' /\ RowsOK' /\ LifeOK' /\ ConnsOK'
    BY <1>1 DEF BaInv, BaTypeOK, RowsOK, LifeOK, ConnsOK, NoView
<1>20. MetOK'
    <2>1. \A i \in 1..r : sealed[i].row
        BY <1>1, <1>4 DEF BaInv, ViewOK
    <2>2. out'.unread \subseteq 1..r
        <3>1. out'.unread = out.unread \cup unread /\ unread \subseteq (m + 1)..r
            BY <1>1, <1>6
        <3>2. \A i : i \in 1..m \/ i \in (m + 1)..r => i \in 1..r
            BY <1>3, <1>4
        <3> HIDE DEF unread
        <3> QED
            BY <1>3, <3>1, <3>2
    <2> QED
        BY <1>1, <1>4, <1>7, <2>1, <2>2 DEF MetOK
<1>21. ViewOK'
    BY <1>1 DEF ViewOK, NoView
<1>22. AbsenceIsJudgedRight'
    <2>1. out'.disagreements = {}
        BY <1>1, <1>5
    <2>2. ASSUME NEW l \in out'.losses PROVE Judged(l)
        <3>1. PICK i \in gone : l = [chunk |-> i, class |-> Classified(i, i \in proven),
                                     life |-> life[i], proven |-> i \in proven]
            BY <1>1 DEF Losses
        <3>2. i \in view.rows /\ ~life[i].raw
            BY <1>5, <1>25
        <3>3. (i \in proven) \in BOOLEAN
            OBVIOUS
        <3> QED
            BY <1>1, <3>1, <3>2, <3>3, AbsenceJudged
    <2> QED
        BY <2>1, <2>2 DEF AbsenceIsJudgedRight, Judged
<1> QED
    BY <1>18, <1>19, <1>20, <1>21, <1>22 DEF BaInv

LEMMA BaInvInitially == BaInit => BaInv
<1> SUFFICES ASSUME BaInit PROVE BaInv
    OBVIOUS
<1>1. /\ sealed = << >> /\ intervals = {} /\ life = << >> /\ view.pc = "idle"
      /\ cont.members = {} /\ cont.context = << >>
      /\ out = [transitions |-> {}, losses |-> {}, disagreements |-> {}, unread |-> {}]
    BY DEF BaInit, NoView
<1>2. << >> \in Seq(SealedChunk) /\ << >> \in Seq(Lives) /\ Len(<< >>) = 0 /\ 1..0 = {}
    OBVIOUS
<1>3. Met = 0
    BY <1>1, FS_EmptySet DEF Met
<1>4. BaTypeOK /\ RowsOK /\ LifeOK /\ MetOK /\ ViewOK /\ ConnsOK /\ AbsenceIsJudgedRight
    BY <1>1, <1>2, <1>3
       DEF BaTypeOK, RowsOK, LifeOK, MetOK, ViewOK, ConnsOK, AbsenceIsJudgedRight
<1>5. ASSUME NEW g, IsScan(g, intervals, Audited, 1..Met, Met)
      PROVE  out.transitions = g[Met].found /\ cont.context = Compact(g[Met].near)
    <2> DEFINE all == Audited
    <2> HIDE DEF all
    <2>1. IsScan(g, intervals, all, 1..0, 0)
        BY <1>3, <1>5 DEF all
    <2>2. g[0].near = << >> /\ g[0].found = {}
        BY <2>1, ScanStep
    <2>3. Compact(<< >>) = << >>
        BY <1>2 DEF Compact
    <2> QED
        BY <1>1, <1>3, <2>2, <2>3
<1> QED
    BY <1>4, <1>5 DEF BaInv, ScansAgree

LEMMA BaSteps == BaInv /\ [BaNext]_baVars => BaInv'
<1> SUFFICES ASSUME BaInv, [BaNext]_baVars PROVE BaInv'
    OBVIOUS
<1>1. CASE UNCHANGED baVars
    <2>1. Met' = Met /\ Audited' = Audited
        BY <1>1, AuditedStays DEF baVars
    <2>2. ScansAgree'
        BY <1>1, <2>1, ScansStay DEF baVars
    <2>3. BaTypeOK' /\ RowsOK' /\ LifeOK' /\ MetOK' /\ ViewOK' /\ ConnsOK' /\ AbsenceIsJudgedRight'
        BY <1>1, <2>1 DEF baVars, BaInv, BaTypeOK, RowsOK, LifeOK, MetOK, ViewOK, ConnsOK,
                          AbsenceIsJudgedRight
    <2> QED
        BY <2>2, <2>3 DEF BaInv
<1>2. CASE SealChunk
    BY <1>2, SealKeepsBaInv
<1>3. CASE CommitRow
    BY <1>3, RowKeepsBaInv
<1>4. ASSUME NEW i \in DOMAIN sealed, ArchiveStep(i) \/ RemoteStep(i) \/ Vanish(i)
      PROVE  BaInv'
    BY <1>4, ArchiveKeepsBaInv
<1>5. CASE CaptureCatalogBoundary \/ StrictManifestInventory
    BY <1>5, CaptureKeepsBaInv
<1>6. CASE IncrementalAudit
    BY <1>6, AuditKeepsBaInv
<1> QED
    BY <1>1, <1>2, <1>3, <1>4, <1>5, <1>6 DEF BaNext

\* For every number of chunks, frames and marks, and however the observations fall
\* between the seals, the archive's steps and the losses: the increments of
\* incremental_audit_data_root together report exactly the boundaries that one
\* audit_data_root of the same chunks reports, an entitled deletion is never
\* reported as a loss, and a loss is never excused.
THEOREM AuditsAreRight == BaSpec => []AuditIsRight
<1>1. BaInit => BaInv
    BY BaInvInitially
<1>2. BaInv /\ [BaNext]_baVars => BaInv'
    BY BaSteps
<1>3. BaInv => AuditIsRight
    BY AuditIsOneScan
<1> QED
    BY <1>1, <1>2, <1>3, PTL DEF BaSpec

=============================================================================
