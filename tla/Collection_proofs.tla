------------------------- MODULE Collection_proofs --------------------------
(***************************************************************************)
(* Proofs about what the collectors hold: what the durable cursor of a     *)
(* five-minute statistic stands for (SideData), that no request is sent    *)
(* inside a block that the exchange has named or over the budget (Wire),   *)
(* and that a depth sequence called reliable leaves out no change (Depth). *)
(***************************************************************************)
EXTENDS SideData, Wire, Depth, NaturalsInduction, WellFoundedInduction, SequenceTheorems,
        TLAPS

-----------------------------------------------------------------------------
\* Induction up to a number: no i is the first that is not in the set.
LEMMA CountingUp ==
    ASSUME NEW n \in Nat, NEW S, 0 \in S, \A i \in 1..n : i - 1 \in S => i \in S
    PROVE  \A i \in 0..n : i \in S
<1> DEFINE Off == {i \in 0..n : i \notin S}
<1>1. SUFFICES ASSUME Off # {} PROVE FALSE
    OBVIOUS
<1>2. Off \subseteq Nat
    OBVIOUS
<1>3. PICK i \in Off : \A k \in Off : ~(<<k, i>> \in OpToRel(<, Nat))
    BY <1>1, <1>2, NatLessThanWellFounded, WFMin
<1>4. \A k \in Off : i <= k
    <2> SUFFICES ASSUME NEW k \in Off PROVE i <= k
        OBVIOUS
    <2>1. <<k, i>> \in Nat \X Nat /\ ~(<<k, i>>[1] < <<k, i>>[2])
        BY <1>2, <1>3 DEF OpToRel
    <2> QED
        BY <2>1
<1>5. i \in 1..n /\ i - 1 \in 0..n /\ ~(i <= i - 1)
    OBVIOUS
<1>6. i - 1 \in S
    BY <1>4, <1>5
<1> QED
    BY <1>5, <1>6

-----------------------------------------------------------------------------
(* The inductive invariant. *)

\* A task that has a request: asked, answered, or durable in Raw.
Requesting == task.pc \in {"ask", "answered", "durable"}

Task == [pc : {"off", "idle", "ask", "answered", "durable"}, next : Nat, last : Nat,
         left : Int, limit : Nat \ {0}, checked : BOOLEAN, upto : Int, full : BOOLEAN]
Table == [cursor : Nat, gaps : SUBSET Nat, empty : SUBSET Nat]

SideTypeOK ==
    /\ kind \in {"dense", "sparse"} /\ closed \in Nat /\ closed > 0
    /\ table \in Table /\ task \in Task
    /\ held \in SUBSET Nat /\ since \in Nat /\ skipped \in SUBSET Nat

\* What may stand for a period in place of the cursor.
Accounted(p) == p \in held \cup table.gaps \/ (p \in skipped /\ p < closed - Retention + 3)

\* Whoever remembers where to go on: a poller looks it up at each attempt.
Remembers == Requesting \/ (owner = "coverage" /\ task.pc # "off")

\* A request is for closed periods; what is durable of its answer is held.
RequestOK ==
    /\ Remembers => task.next > 0
    /\ Requesting => task.next <= task.last
    /\ task.pc \in {"answered", "durable"} /\ kind = "sparse" => task.upto >= task.next
    /\ task.pc = "durable" /\ (kind = "dense" \/ task.full) =>
          \A p \in task.next..task.upto : p \in held

\* Whoever remembers where to go on has left nothing out after the cursor.
NothingBetween ==
    table.cursor # NoPeriod /\ Remembers =>
        \A p \in (table.cursor + 1)..(task.next - 1) : Accounted(p)

CursorOK ==
    /\ table.cursor # NoPeriod => since <= table.cursor
    /\ since = NoPeriod <=> table.cursor = NoPeriod
    /\ \A p \in since..table.cursor : table.cursor # NoPeriod => Accounted(p)

SideInv == SideTypeOK /\ RequestOK /\ NothingBetween /\ CursorOK

-----------------------------------------------------------------------------
LEMMA LargerOfTwo ==
    ASSUME NEW a \in Int, NEW b \in Int
    PROVE  Max({a, b}) = IF a >= b THEN a ELSE b
BY DEF Max

LEMMA SmallerOfTwo ==
    ASSUME NEW a \in Int, NEW b \in Int
    PROVE  Min({a, b}) = IF a <= b THEN a ELSE b
BY DEF Min

LEMMA LeastIsIn ==
    ASSUME NEW S \in SUBSET Nat, S # {} PROVE Min(S) \in S
<1>1. PICK n \in S : \A m \in S : ~(<<m, n>> \in OpToRel(<, Nat))
    BY NatLessThanWellFounded, WFMin
<1>2. \A m \in S : n <= m
    <2> SUFFICES ASSUME NEW m \in S PROVE n <= m
        OBVIOUS
    <2>1. <<m, n>> \in Nat \X Nat /\ ~(<<m, n>>[1] < <<m, n>>[2])
        BY <1>1 DEF OpToRel
    <2> QED
        BY <2>1
<1> QED
    BY <1>2 DEF Min

-----------------------------------------------------------------------------
(* Where to go on. *)

LEMMA EarliestIs ==
    ASSUME SideTypeOK
    PROVE  /\ EarliestRecoverable \in Nat \ {0} /\ EarliestRecoverable <= closed
           /\ EarliestRecoverable >= closed - Retention + 2
BY SideAssumption, LargerOfTwo DEF EarliestRecoverable, SideTypeOK

LEMMA NextIs ==
    ASSUME SideTypeOK, NEW c \in BOOLEAN
    PROVE  /\ NextPeriod(table, c) \in Nat
           /\ table.cursor # NoPeriod => NextPeriod(table, c) <= table.cursor + 1
<1>1. EarliestRecoverable \in Nat
    BY EarliestIs
<1>2. table.cursor \in Nat /\ table.empty \in SUBSET Nat
    BY DEF SideTypeOK, Table
<1>3. table.empty # {} => Min(table.empty) \in Nat
    BY <1>2, LeastIsIn
<1> QED
    BY <1>1, <1>2, <1>3 DEF NextPeriod

\* What lies before the first period that can be had is on record.
LEMMA GapIs ==
    ASSUME SideTypeOK, NEW n \in Nat
    PROVE  LET t == GapRecorded(table, n) IN
           /\ t \in Table /\ t.cursor = table.cursor /\ table.gaps \subseteq t.gaps
           /\ \A p \in n..(EarliestRecoverable - 1) : p \in t.gaps
<1>1. EarliestRecoverable \in Nat
    BY EarliestIs
<1>2. n..(EarliestRecoverable - 1) \in SUBSET Nat
    BY <1>1
<1> QED
    BY <1>1, <1>2 DEF GapRecorded, SideTypeOK, Table

\* A count of periods that is asked for is positive and within the request.
LEMMA CountIs ==
    ASSUME SideTypeOK, RequestOK, Requesting
    PROVE  Count \in Nat \ {0}
<1>1. /\ task.next \in Nat /\ task.last \in Nat /\ task.limit \in Nat \ {0}
      /\ task.next <= task.last
    BY DEF SideTypeOK, Task, RequestOK
<1> QED
    BY <1>1, SmallerOfTwo DEF Count

-----------------------------------------------------------------------------
(* A step that keeps the cursor. *)

\* Records only grow, and the task moves without forgetting a period.
Keeps ==
    /\ owner' = owner /\ kind' = kind /\ closed' >= closed
    /\ table'.cursor = table.cursor /\ since' = since
    /\ table.gaps \subseteq table'.gaps /\ held \subseteq held'
    /\ skipped \subseteq skipped'

LEMMA AccountsKept ==
    ASSUME SideTypeOK, SideTypeOK', Keeps, NEW p \in Int, Accounted(p)
    PROVE  Accounted(p)'
<1>1. closed \in Nat /\ closed' \in Nat /\ Retention \in Nat /\ closed' >= closed
    BY SideAssumption DEF SideTypeOK, Keeps
<1>2. CASE p \in held \cup table.gaps
    BY <1>2 DEF Keeps, Accounted
<1>3. CASE p \in skipped /\ p < closed - Retention + 3
    <2>1. p \in skipped'
        BY <1>3 DEF Keeps
    <2>2. p < closed' - Retention + 3
        <3>1. ASSUME NEW x \in Int, NEW y \in Int, NEW r \in Int, y >= x, p < x - r + 3
              PROVE  p < y - r + 3
            BY ONLY <3>1, p \in Int
        <3>2. p < closed - Retention + 3
            BY <1>3
        <3>3. closed \in Int /\ closed' \in Int /\ Retention \in Int /\ closed' >= closed
            BY <1>1
        <3> QED
            BY ONLY <3>1, <3>2, <3>3
    <2> QED
        BY <2>1, <2>2 DEF Accounted
<1> QED
    BY <1>2, <1>3 DEF Accounted

LEMMA KeepsCursor ==
    ASSUME SideInv, SideTypeOK', Keeps
    PROVE  CursorOK'
<1>1. \A p \in since..table.cursor : p \in Int
    BY DEF SideInv, SideTypeOK, Table
<1> QED
    BY <1>1, AccountsKept DEF SideInv, CursorOK, Keeps

\* A task that stays where it was, or is ended.
LEMMA StayKeeps ==
    ASSUME SideInv, SideTypeOK', Keeps,
           task'.next = task.next, Remembers' => Remembers
    PROVE  NothingBetween'
<1>1. \A p \in (table.cursor + 1)..(task.next - 1) : p \in Int
    BY DEF SideInv, SideTypeOK, Table, Task
<1> QED
    BY <1>1, AccountsKept DEF SideInv, NothingBetween, Keeps


-----------------------------------------------------------------------------
(* The steps. *)

LEMMA BeginsKeep == ASSUME SideInv, PollerBegins PROVE SideInv'
<1> DEFINE next == NextPeriod(table, task.checked)
           from == Max({next, EarliestRecoverable})
<1>1. /\ SideTypeOK /\ task.checked \in BOOLEAN
    BY DEF SideInv, SideTypeOK, Task
<1>2. /\ next \in Nat /\ (table.cursor # NoPeriod => next <= table.cursor + 1)
      /\ EarliestRecoverable \in Nat \ {0}
    BY <1>1, NextIs, EarliestIs
<1>3. /\ from = IF next >= EarliestRecoverable THEN next ELSE EarliestRecoverable
    <2> HIDE DEF next
    <2> QED
        BY <1>2, LargerOfTwo
<1>4. /\ table' = GapRecorded(table, next) /\ from <= closed
      /\ task' = [task EXCEPT !.pc = "ask", !.next = from, !.last = closed,
                              !.left = PagesPerTry]
      /\ UNCHANGED <<owner, kind, closed, held, since, skipped>>
    BY DEF PollerBegins
<1> HIDE DEF next, from
<1>5. /\ table' \in Table /\ table'.cursor = table.cursor /\ table.gaps \subseteq table'.gaps
      /\ \A p \in next..(EarliestRecoverable - 1) : p \in table'.gaps
    BY <1>1, <1>2, <1>4, GapIs
<1>6. task' \in Task
    <2>1. from \in Nat /\ closed \in Nat /\ PagesPerTry \in Int /\ task \in Task
        BY <1>1, <1>2, <1>3, SideAssumption DEF SideTypeOK
    <2> QED
        BY <1>4, <2>1 DEF Task
<1>7. SideTypeOK'
    BY <1>1, <1>4, <1>5, <1>6 DEF SideTypeOK
<1>8. task'.pc = "ask" /\ task'.next = from /\ task'.last = closed
    BY <1>1, <1>4 DEF SideTypeOK, Task
<1>9. RequestOK'
    BY <1>2, <1>3, <1>4, <1>8 DEF RequestOK, Requesting, Remembers
<1>10. Keeps
    BY <1>1, <1>4, <1>5 DEF Keeps, SideTypeOK
<1>11. NothingBetween'
    <2> SUFFICES ASSUME table.cursor # NoPeriod, NEW p \in (table.cursor + 1)..(from - 1)
                 PROVE  p \in table'.gaps
        BY <1>5, <1>8 DEF NothingBetween, Accounted
    <2>1. table.cursor \in Nat
        BY <1>1 DEF SideTypeOK, Table
    <2> QED
        BY <1>2, <1>3, <1>5, <2>1
<1> QED
    BY <1>7, <1>9, <1>10, <1>11, KeepsCursor DEF SideInv

LEMMA AddsKeeps == ASSUME SideInv, CoverageAdds PROVE SideInv'
<1> DEFINE saved == table.cursor # NoPeriod \/ table.empty # {}
           next == NextPeriod(table, FALSE)
           from == Max({next, EarliestRecoverable})
<1>1. SideTypeOK
    BY DEF SideInv
<1>2. /\ next \in Nat /\ (table.cursor # NoPeriod => next <= table.cursor + 1)
      /\ EarliestRecoverable \in Nat \ {0}
    BY <1>1, NextIs, EarliestIs
<1>3. /\ from = IF next >= EarliestRecoverable THEN next ELSE EarliestRecoverable
    <2> HIDE DEF next
    <2> QED
        BY <1>2, LargerOfTwo
<1>4. /\ table' = IF saved THEN GapRecorded(table, next) ELSE table
      /\ task' = [NoTask EXCEPT !.pc = "idle", !.next = from]
      /\ UNCHANGED <<owner, kind, closed, held, since, skipped>>
    BY DEF CoverageAdds
<1>5. /\ table' \in Table /\ table'.cursor = table.cursor /\ table.gaps \subseteq table'.gaps
      /\ saved => \A p \in next..(EarliestRecoverable - 1) : p \in table'.gaps
    <2> HIDE DEF next
    <2> QED
        BY <1>1, <1>2, <1>4, GapIs DEF SideTypeOK
<1>6. table.cursor # NoPeriod => saved
    OBVIOUS
<1> HIDE DEF saved, next, from
<1>7. task' \in Task /\ task'.pc = "idle" /\ task'.next = from
    <2>1. from \in Nat
        BY <1>2, <1>3
    <2>2. NoTask \in Task
        BY SideAssumption DEF NoTask, Task, NoPeriod
    <2> QED
        BY <1>4, <2>1, <2>2 DEF Task
<1>8. SideTypeOK'
    BY <1>1, <1>4, <1>5, <1>7 DEF SideTypeOK
<1>9. RequestOK'
    BY <1>2, <1>3, <1>7 DEF RequestOK, Requesting, Remembers
<1>10. Keeps
    BY <1>1, <1>4, <1>5 DEF Keeps, SideTypeOK
<1>11. NothingBetween'
    <2> SUFFICES ASSUME table.cursor # NoPeriod, NEW p \in (table.cursor + 1)..(from - 1)
                 PROVE  p \in table'.gaps
        BY <1>5, <1>7 DEF NothingBetween, Accounted
    <2>1. table.cursor \in Nat
        BY <1>1 DEF SideTypeOK, Table
    <2> QED
        BY <1>2, <1>3, <1>5, <1>6, <2>1
<1> QED
    BY <1>8, <1>9, <1>10, <1>11, KeepsCursor DEF SideInv

LEMMA CoverageKeeps == ASSUME SideInv, CoverageBegins PROVE SideInv'
<1>1. /\ SideTypeOK /\ task.next \in Nat /\ closed \in Nat \ {0} /\ table.cursor \in Nat
      /\ Retention \in Nat /\ Retention > 3 /\ task \in Task
    BY SideAssumption DEF SideInv, SideTypeOK, Task, Table
<1>2. /\ owner = "coverage" /\ task.pc = "idle" /\ CoverageStart <= closed
      /\ task' = [task EXCEPT !.pc = "ask", !.next = CoverageStart, !.last = closed,
                              !.left = 1]
      /\ skipped' = IF table.cursor = NoPeriod THEN skipped
                    ELSE skipped \cup (task.next..(CoverageStart - 1))
      /\ UNCHANGED <<owner, kind, closed, table, held, since>>
    BY DEF CoverageBegins
<1>3. CoverageStart = IF task.next >= closed - Retention + 3 THEN task.next
                      ELSE closed - Retention + 3
    BY <1>1, LargerOfTwo DEF CoverageStart
<1>4. task.next > 0
    BY <1>2 DEF SideInv, RequestOK, Remembers
<1>5. CoverageStart \in Nat \ {0} /\ CoverageStart >= task.next
    BY <1>1, <1>3, <1>4
<1>6. /\ task' \in Task /\ task'.pc = "ask" /\ task'.next = CoverageStart
      /\ task'.last = closed
    <2>1. CoverageStart \in Nat /\ closed \in Nat /\ 1 \in Int
        BY <1>1, <1>5
    <2> QED
        BY <1>1, <1>2, <2>1 DEF Task
<1>7. skipped' \in SUBSET Nat /\ skipped \subseteq skipped'
    BY <1>1, <1>2, <1>5 DEF SideTypeOK
<1>8. SideTypeOK'
    BY <1>1, <1>2, <1>6, <1>7 DEF SideTypeOK
<1>9. RequestOK'
    BY <1>2, <1>5, <1>6 DEF RequestOK, Requesting, Remembers
<1>10. Keeps
    BY <1>1, <1>2, <1>7 DEF Keeps
<1>11. NothingBetween'
    <2> SUFFICES ASSUME table.cursor # NoPeriod,
                        NEW p \in (table.cursor + 1)..(CoverageStart - 1)
                 PROVE  Accounted(p)'
        BY <1>2, <1>6 DEF NothingBetween
    <2>1. CASE p < task.next
        <3>1. Accounted(p)
            BY <1>1, <1>2, <2>1 DEF SideInv, NothingBetween, Remembers
        <3> QED
            BY <1>1, <1>8, <1>10, <3>1, AccountsKept
    <2>2. CASE ~(p < task.next)
        <3>1. p \in task.next..(CoverageStart - 1)
            BY <1>1, <1>5, <2>2
        <3>2. p \in skipped' /\ p < closed - Retention + 3
            BY <1>1, <1>2, <1>3, <3>1
        <3> QED
            BY <1>2, <3>2 DEF Accounted
    <2> QED
        BY <2>1, <2>2
<1> QED
    BY <1>8, <1>9, <1>10, <1>11, KeepsCursor DEF SideInv

\* A step that leaves the table, what is held and where the task goes on.
LEMMA StaysKeep ==
    ASSUME SideInv, task' \in Task, RequestOK',
           table' \in Table, table'.cursor = table.cursor, table'.gaps = table.gaps,
           task'.next = task.next, Remembers' => Remembers,
           held' \in SUBSET Nat, held \subseteq held',
           UNCHANGED <<owner, kind, closed, since, skipped>>
    PROVE  SideInv'
<1>1. SideTypeOK'
    BY DEF SideInv, SideTypeOK
<1>2. Keeps
    BY DEF SideInv, SideTypeOK, Keeps
<1> QED
    BY <1>1, <1>2, StayKeeps, KeepsCursor DEF SideInv

LEMMA FailsKeeps == ASSUME SideInv, PageFails PROVE SideInv'
<1>1. /\ task \in Task /\ task.pc = "ask" /\ task' = [task EXCEPT !.pc = "idle"]
      /\ UNCHANGED <<owner, kind, closed, table, held, since, skipped>>
    BY DEF PageFails, Failed, SideInv, SideTypeOK
<1>2. task' \in Task /\ task'.pc = "idle" /\ task'.next = task.next
    BY <1>1 DEF Task
<1>3. Remembers' => Remembers
    BY <1>1, <1>2 DEF Remembers, Requesting
<1>4. RequestOK'
    BY <1>1, <1>2, <1>3 DEF SideInv, RequestOK, Remembers, Requesting
<1> QED
    BY <1>1, <1>2, <1>3, <1>4, StaysKeep DEF SideInv, SideTypeOK

LEMMA AnswersKeeps == ASSUME SideInv, Answers PROVE SideInv'
<1>1. /\ SideTypeOK /\ task \in Task /\ task.pc = "ask" /\ kind \in {"dense", "sparse"}
      /\ UNCHANGED <<owner, kind, closed, table, held, since, skipped>>
    BY DEF Answers, SideInv, SideTypeOK
<1>2. Count \in Nat \ {0} /\ task.next \in Nat
    BY <1>1, CountIs DEF SideInv, Requesting, Task
<1>3. PICK u \in Int, f \in BOOLEAN :
          /\ kind = "sparse" => u >= task.next
          /\ task' = [task EXCEPT !.pc = "answered", !.upto = u, !.full = f]
    <2>1. CASE kind = "dense"
        <3>1. PICK n \in 0..Count :
                task' = [task EXCEPT !.pc = "answered", !.upto = task.next + n - 1,
                                     !.full = (n = Count)]
            BY <2>1 DEF Answers
        <3>2. task.next + n - 1 \in Int /\ (n = Count) \in BOOLEAN
            BY <1>2
        <3> QED
            BY <2>1, <3>1, <3>2
    <2>2. CASE kind = "sparse"
        <3>1. PICK full \in BOOLEAN :
                task' = [task EXCEPT !.pc = "answered", !.upto = task.next + Count - 1,
                                     !.full = full]
            BY <2>2 DEF Answers
        <3>2. task.next + Count - 1 \in Int /\ task.next + Count - 1 >= task.next
            BY <1>2
        <3> QED
            BY <3>1, <3>2
    <2> QED
        BY <1>1, <2>1, <2>2
<1>4. /\ task' \in Task /\ task'.pc = "answered" /\ task'.next = task.next
      /\ task'.last = task.last /\ task'.upto = u
    BY <1>1, <1>3 DEF Task
<1>5. Remembers' => Remembers
    BY <1>1 DEF Remembers, Requesting
<1>6. RequestOK'
    BY <1>1, <1>3, <1>4, <1>5 DEF SideInv, RequestOK, Remembers, Requesting
<1> QED
    BY <1>1, <1>4, <1>5, <1>6, StaysKeep DEF SideInv, SideTypeOK

LEMMA PersistsKeeps == ASSUME SideInv, Persists PROVE SideInv'
<1>1. /\ SideTypeOK /\ task \in Task /\ task.pc = "answered"
      /\ held' = held \cup Evaluated /\ task' = [task EXCEPT !.pc = "durable"]
      /\ UNCHANGED <<owner, kind, closed, table, since, skipped>>
    BY DEF Persists, SideInv, SideTypeOK
<1>2. /\ task' \in Task /\ task'.pc = "durable" /\ task'.next = task.next
      /\ task'.last = task.last /\ task'.upto = task.upto /\ task'.full = task.full
      /\ task.next \in Nat /\ task.upto \in Int
    BY <1>1 DEF Task
<1>3. held' \in SUBSET Nat /\ held \subseteq held'
    BY <1>1, <1>2 DEF SideTypeOK, Evaluated
<1>4. Remembers' => Remembers
    BY <1>1 DEF Remembers, Requesting
<1>5. kind = "dense" \/ task.full => \A p \in task.next..task.upto : p \in held'
    BY <1>1 DEF Evaluated
<1>6. RequestOK'
    BY <1>1, <1>2, <1>4, <1>5 DEF SideInv, RequestOK, Remembers, Requesting
<1> QED
    BY <1>1, <1>2, <1>3, <1>4, <1>6, StaysKeep DEF SideInv, SideTypeOK

LEMMA DeclinesKeeps == ASSUME SideInv, Declines PROVE SideInv'
<1>1. /\ SideTypeOK /\ task \in Task /\ task.pc = "durable" /\ RequestOK
      /\ UNCHANGED <<owner, kind, closed, held, since, skipped>>
    BY DEF Declines, SideInv, SideTypeOK
<1>2. Halved \in Task /\ Halved.pc = "idle" /\ Halved.next = task.next
    <2>1. Count \in Nat \ {0}
        BY <1>1, CountIs DEF Requesting
    <2>2. Count \div 2 \in Int
        BY <2>1
    <2>3. Max({1, Count \div 2}) \in Nat \ {0}
        BY <2>2, LargerOfTwo
    <2> QED
        BY <1>1, <2>3 DEF Halved, Failed, Task
<1>3. Failed(task) \in Task /\ Failed(task).pc = "idle" /\ Failed(task).next = task.next
    BY <1>1 DEF Failed, Task
<1>4. /\ task' \in {Halved, Failed(task)}
      /\ table' \in {table, [table EXCEPT !.empty = @ \cup {task.next}]}
    BY DEF Declines
<1>5. table' \in Table /\ table'.cursor = table.cursor /\ table'.gaps = table.gaps
    BY <1>1, <1>4 DEF SideTypeOK, Table, Task
<1>6. Remembers' => Remembers
    BY <1>1, <1>2, <1>3, <1>4 DEF Remembers, Requesting
<1>7. RequestOK'
    BY <1>1, <1>2, <1>3, <1>4, <1>6 DEF RequestOK, Remembers, Requesting
<1> QED
    BY <1>1, <1>2, <1>3, <1>4, <1>5, <1>6, <1>7, StaysKeep DEF SideTypeOK

\* The cursor moves over what is held, and over nothing that the task left out.
LEMMA AdvancesKeeps == ASSUME SideInv, Advances PROVE SideInv'
<1> DEFINE c == CursorAfter(table)
<1>1. /\ SideTypeOK /\ task \in Task /\ table \in Table /\ task.pc = "durable"
      /\ RequestOK /\ NothingBetween /\ CursorOK /\ Acceptable
      /\ UNCHANGED <<owner, kind, closed, held, skipped>>
      /\ table' = [table EXCEPT !.cursor = c]
      /\ since' = IF since = NoPeriod THEN task.next ELSE since
      /\ task' = [task EXCEPT !.next = c + 1, !.left = @ - 1, !.checked = TRUE,
                     !.pc = IF task.left > 1 /\ c + 1 <= task.last THEN "ask" ELSE "idle"]
    BY DEF Advances, SideInv, SideTypeOK
<1>2. /\ task.next \in Nat \ {0} /\ task.upto \in Int /\ task.upto >= task.next
      /\ table.cursor \in Nat /\ since \in Nat /\ closed \in Nat
      /\ \A p \in task.next..task.upto : p \in held
    <2>1. task.next \in Nat \ {0}
        BY <1>1 DEF RequestOK, Remembers, Requesting, Task
    <2>2. /\ task.upto >= task.next /\ (kind = "dense" \/ task.full)
        BY <1>1 DEF RequestOK, Acceptable, SideTypeOK
    <2> QED
        BY <1>1, <2>1, <2>2 DEF RequestOK, SideTypeOK, Task, Table
<1>3. c = IF table.cursor >= task.upto THEN table.cursor ELSE task.upto
    BY <1>2, LargerOfTwo DEF CursorAfter
<1> HIDE DEF c
<1>4. c \in Nat \ {0} /\ c >= table.cursor /\ c >= task.upto
    BY <1>2, <1>3
<1>5. /\ table' \in Table /\ table'.cursor = c /\ table'.gaps = table.gaps
    BY <1>1, <1>4 DEF Table
<1>6. /\ task' \in Task /\ task'.next = c + 1 /\ task'.last = task.last
      /\ task'.pc \in {"ask", "idle"} /\ (task'.pc = "ask" => c + 1 <= task.last)
    <2>1. c + 1 \in Nat /\ task.left - 1 \in Int
        BY <1>1, <1>4 DEF Task
    <2> QED
        BY <1>1, <2>1 DEF Task
<1>7. SideTypeOK'
    BY <1>1, <1>2, <1>5, <1>6 DEF SideTypeOK
<1>8. RequestOK'
    BY <1>4, <1>6 DEF RequestOK, Remembers, Requesting
<1>9. NothingBetween'
    <2>1. \A p \in (c + 1)..((c + 1) - 1) : FALSE
        BY <1>4
    <2> QED
        BY <1>5, <1>6, <2>1 DEF NothingBetween
<1>10. since' # NoPeriod /\ since' <= c
    <2>1. CASE since = NoPeriod
        BY <1>1, <1>2, <1>4, <2>1 DEF NoPeriod
    <2>2. CASE since # NoPeriod
        BY <1>1, <1>2, <1>4, <2>2 DEF CursorOK
    <2> QED
        BY <2>1, <2>2
<1>11. ASSUME NEW p \in since'..c PROVE Accounted(p)'
    <2>1. p \in Int /\ since' \in Nat
        BY <1>7 DEF SideTypeOK
    <2>2. CASE p \in task.next..task.upto
        BY <1>1, <1>2, <2>2 DEF Accounted
    <2>3. CASE ~(p \in task.next..task.upto)
        <3>1. since # NoPeriod /\ table.cursor # NoPeriod
            BY <1>1, <1>2, <1>3, <2>1, <2>3 DEF CursorOK, NoPeriod
        <3>2. CASE p <= table.cursor
            <4>1. p \in since..table.cursor
                BY <1>1, <1>2, <2>1, <3>1, <3>2
            <4>2. Accounted(p)
                BY <1>1, <3>1, <4>1 DEF CursorOK
            <4> QED
                BY <1>1, <1>5, <4>2 DEF Accounted
        <3>3. CASE p > table.cursor
            <4>1. p \in (table.cursor + 1)..(task.next - 1)
                BY <1>2, <1>3, <2>1, <2>3, <3>3
            <4>2. Accounted(p)
                BY <1>1, <3>1, <4>1 DEF NothingBetween, Remembers, Requesting
            <4> QED
                BY <1>1, <1>5, <4>2 DEF Accounted
        <3> QED
            BY <1>2, <2>1, <3>2, <3>3
    <2> QED
        BY <2>2, <2>3
<1>12. CursorOK'
    BY <1>4, <1>5, <1>10, <1>11 DEF CursorOK, NoPeriod
<1> QED
    BY <1>7, <1>8, <1>9, <1>12 DEF SideInv

LEMMA StartsKeeps == ASSUME SideInv, PollerStarts PROVE SideInv'
<1>1. /\ owner = "poller" /\ task' = [NoTask EXCEPT !.pc = "idle"]
      /\ UNCHANGED <<owner, kind, closed, table, held, since, skipped>>
    BY DEF PollerStarts
<1>2. task' \in Task /\ task'.pc = "idle"
    <2>1. NoTask \in Task
        BY SideAssumption DEF NoTask, Task, NoPeriod
    <2> QED
        BY <1>1, <2>1 DEF Task
<1>3. SideTypeOK'
    BY <1>1, <1>2 DEF SideInv, SideTypeOK
<1>4. ~Remembers'
    BY <1>1, <1>2 DEF Remembers, Requesting
<1>5. RequestOK' /\ NothingBetween'
    BY <1>2, <1>4 DEF RequestOK, NothingBetween, Remembers
<1>6. Keeps
    BY <1>1 DEF Keeps, SideInv, SideTypeOK
<1> QED
    BY <1>3, <1>5, <1>6, KeepsCursor DEF SideInv

LEMMA EndsKeeps == ASSUME SideInv, TaskEnds PROVE SideInv'
<1>1. task' = NoTask /\ UNCHANGED <<owner, kind, closed, table, held, since, skipped>>
    BY DEF TaskEnds
<1>2. task' \in Task /\ task'.pc = "off"
    BY <1>1, SideAssumption DEF NoTask, Task, NoPeriod
<1>3. SideTypeOK'
    BY <1>1, <1>2 DEF SideInv, SideTypeOK
<1>4. ~Remembers'
    BY <1>2 DEF Remembers, Requesting
<1>5. RequestOK' /\ NothingBetween'
    BY <1>2, <1>4 DEF RequestOK, NothingBetween, Remembers
<1>6. Keeps
    BY <1>1 DEF Keeps, SideInv, SideTypeOK
<1> QED
    BY <1>3, <1>5, <1>6, KeepsCursor DEF SideInv

LEMMA ClosesKeeps == ASSUME SideInv, PeriodCloses PROVE SideInv'
<1>1. /\ closed' = closed + 1 /\ closed \in Nat
      /\ UNCHANGED <<owner, kind, table, held, task, since, skipped>>
    BY DEF PeriodCloses, SideInv, SideTypeOK
<1>2. SideTypeOK' /\ Keeps
    BY <1>1 DEF SideInv, SideTypeOK, Keeps
<1>3. RequestOK' /\ (Remembers' <=> Remembers)
    BY <1>1 DEF SideInv, RequestOK, Remembers, Requesting
<1> QED
    BY <1>1, <1>2, <1>3, StayKeeps, KeepsCursor DEF SideInv

-----------------------------------------------------------------------------
(* The invariant. *)

LEMMA SideBegins == SideInit => SideInv
<1> SUFFICES ASSUME SideInit PROVE SideInv
    OBVIOUS
<1>1. /\ kind \in {"dense", "sparse"} /\ closed = 1 /\ task = NoTask
      /\ table = [cursor |-> 0, gaps |-> {}, empty |-> {}]
      /\ held = {} /\ since = 0 /\ skipped = {}
    BY DEF SideInit, NoPeriod
<1>2. task \in Task /\ task.pc = "off"
    BY <1>1, SideAssumption DEF NoTask, Task, NoPeriod
<1>3. SideTypeOK
    BY <1>1, <1>2 DEF SideTypeOK, Table
<1>4. RequestOK /\ NothingBetween
    BY <1>2 DEF RequestOK, NothingBetween, Remembers, Requesting
<1>5. CursorOK
    BY <1>1 DEF CursorOK, NoPeriod
<1> QED
    BY <1>3, <1>4, <1>5 DEF SideInv

LEMMA SideSteps == SideInv /\ [SideNext]_sdvars => SideInv'
<1> SUFFICES ASSUME SideInv, [SideNext]_sdvars PROVE SideInv'
    OBVIOUS
<1>1. CASE SideNext
    BY <1>1, StartsKeeps, BeginsKeep, AddsKeeps, CoverageKeeps, FailsKeeps, AnswersKeeps,
       PersistsKeeps, DeclinesKeeps, AdvancesKeeps, EndsKeeps, ClosesKeeps DEF SideNext
<1>2. CASE UNCHANGED sdvars
    BY <1>2 DEF sdvars, SideInv, SideTypeOK, RequestOK, NothingBetween, CursorOK,
       Accounted, Remembers, Requesting
<1> QED
    BY <1>1, <1>2

\* The durable cursor of a five-minute statistic passes no period that could still be
\* had: it is in Raw, recorded as lost, or had aged out (RestSideDataPoller, coverage.py).
THEOREM CursorsAreEvaluated == SideSpec => []CursorIsEvaluated
<1>1. SideInv => CursorIsEvaluated
    BY DEF SideInv, CursorOK, CursorIsEvaluated, Accounted
<1> QED
    BY <1>1, SideBegins, SideSteps, PTL DEF SideSpec

-----------------------------------------------------------------------------
(* Module Wire: the block that the exchange has named.                       *)

Gate == [until : Nat, next : Nat, strikes : 0..3]

\* Whoever was told the end of a block has closed the gate or the window until then.
WireInv ==
    /\ wtime \in Nat /\ told \in Nat /\ gate \in Gate
    /\ window.block \in Nat /\ window = [events |-> window.events, block |-> window.block]
    /\ ~early /\ (told <= gate.until \/ told <= window.block)

LEMMA LaterOfTwo ==
    ASSUME NEW a \in Nat, NEW b \in Nat
    PROVE  LaterOf(a, b) \in Nat /\ LaterOf(a, b) >= a /\ LaterOf(a, b) >= b
           /\ LaterOf(a, b) \in {a, b}
BY DEF LaterOf, Max

\* How long a rejection blocks: as long as the exchange names, if it does.
LEMMA RejectionBlocks ==
    ASSUME WireInv, NEW status \in {418, 429}, NEW named \in {Unnamed} \cup 1..MaxBlock
    PROVE  /\ Rejected(status, named) \in Gate
           /\ Rejected(status, named).until >= gate.until
           /\ named # Unnamed => Rejected(status, named).until >= wtime + named
<1>1. /\ named \in Nat /\ wtime \in Nat /\ gate \in Gate /\ gate.until \in Nat
      /\ gate.strikes \in 0..3 /\ gate.next \in Nat
    BY WireAssumption DEF WireInv, Gate, Unnamed
<1>2. CASE venue = "spot"
    <2> DEFINE d == SpotRetryAt(status, named)
    <2>1. d \in Nat /\ (named # Unnamed => d = wtime + named)
        BY <1>1 DEF SpotRetryAt, Unnamed, Fallback429, Longest418
    <2> HIDE DEF d
    <2>2. LaterOf(gate.until, d) \in Nat /\ LaterOf(gate.until, d) >= gate.until
          /\ LaterOf(gate.until, d) >= d
        BY ONLY <1>1, <2>1, LaterOfTwo
    <2>3. Rejected(status, named) = [gate EXCEPT !.until = LaterOf(gate.until, d)]
        BY <1>1, <1>2 DEF Rejected, SpotRejected, Gate, d
    <2> QED
        BY <1>1, <2>1, <2>2, <2>3 DEF Gate
<1>3. CASE venue # "spot"
    <2> DEFINE s == IF status = 418 THEN Min({3, gate.strikes + 1}) ELSE 0
               d == UsdmDuration(s, status, named)
    <2>1. s \in 0..3 /\ (status = 418 => s \in 1..3)
        BY <1>1, SmallerOfTwo
    <2> HIDE DEF s
    <2>2. d \in Nat /\ (named # Unnamed => d = named)
        <3>1. CASE named # Unnamed \/ status = 429
            BY <1>1, <3>1 DEF UsdmDuration, Unnamed, Fallback429
        <3>2. CASE named = Unnamed /\ status = 418
            <4>1. Min({s, 3}) \in 1..3
                BY <2>1, <3>2, SmallerOfTwo
            <4> DEFINE m == Min({s, 3})
            <4>2. Doubled[m] \in {1, 2, 4}
                BY <4>1 DEF Doubled
            <4>3. Fallback418 * Doubled[m] \in Nat
                BY <4>2 DEF Fallback418
            <4>4. Min({Longest418, Fallback418 * Doubled[m]}) \in Nat
                BY <4>3, SmallerOfTwo DEF Longest418
            <4>5. d = Min({Longest418, Fallback418 * Doubled[m]})
                BY <3>2 DEF UsdmDuration
            <4> QED
                BY <3>2, <4>4, <4>5
        <3> QED
            BY <3>1, <3>2
    <2> HIDE DEF d
    <2>3. wtime + d \in Nat
        BY <1>1, <2>2
    <2> DEFINE u == LaterOf(gate.until, wtime + d)
    <2>4. u \in Nat /\ u >= gate.until /\ u >= wtime + d
        BY ONLY <1>1, <2>3, LaterOfTwo
    <2>5. Rejected(status, named) = [gate EXCEPT !.strikes = s, !.until = u]
        BY <1>1, <1>3 DEF Rejected, UsdmRejected, Gate, d, s
    <2> HIDE DEF u
    <2>6. Rejected(status, named) \in Gate /\ Rejected(status, named).until = u
        <3> DEFINE g == [gate EXCEPT !.strikes = s]
        <3>1. g \in Gate
            BY <1>1, <2>1 DEF Gate
        <3>2. [gate EXCEPT !.strikes = s, !.until = u] = [g EXCEPT !.until = u]
            OBVIOUS
        <3> HIDE DEF g
        <3>3. [g EXCEPT !.until = u] \in Gate /\ [g EXCEPT !.until = u].until = u
            BY <2>4, <3>1 DEF Gate
        <3> QED
            BY <2>5, <3>2, <3>3
    <2>7. named # Unnamed => u >= wtime + named
        BY <1>1, <2>2, <2>4
    <2> QED
        BY <2>4, <2>6, <2>7
<1> QED
    BY <1>2, <1>3

LEMMA AnsweredKeeps ==
    ASSUME WireInv, NEW c \in WireCallers, Answered(c) PROVE WireInv'
<1>1. /\ wtime \in Nat /\ told \in Nat /\ gate \in Gate /\ gate.until \in Nat
      /\ window.block \in Nat /\ UNCHANGED <<venue, wtime, window, sends, early>>
      /\ told <= gate.until \/ told <= window.block
    BY DEF WireInv, Gate, Answered
<1>2. CASE UNCHANGED told /\ gate' \in {gate, Succeeded}
    <2>1. gate' \in Gate /\ gate'.until = gate.until
        BY <1>1, <1>2 DEF Succeeded, Gate
    <2> QED
        BY <1>1, <1>2, <2>1 DEF WireInv
<1>3. ASSUME NEW status \in {418, 429}, NEW named \in {Unnamed} \cup 1..MaxBlock,
             gate' = Rejected(status, named),
             told' = IF named = Unnamed THEN told ELSE LaterOf(told, wtime + named)
      PROVE  WireInv'
    <2>1. /\ gate' \in Gate /\ gate'.until >= gate.until /\ gate'.until \in Nat
          /\ named # Unnamed => gate'.until >= wtime + named
        BY <1>3, RejectionBlocks DEF Gate
    <2>2. named \in Nat /\ wtime + named \in Nat
        BY <1>1, WireAssumption DEF Unnamed
    <2>3. /\ told' \in Nat /\ told' \in {told, wtime + named}
          /\ told' = told \/ named # Unnamed
        BY <1>1, <1>3, <2>2, LaterOfTwo
    <2>4. told' <= gate'.until \/ told' <= window.block
        BY <1>1, <2>1, <2>2, <2>3
    <2> QED
        BY <1>1, <2>1, <2>3, <2>4 DEF WireInv
<1> QED
    BY <1>2, <1>3 DEF Answered

LEMMA SocketKeeps == ASSUME WireInv, SocketRejected PROVE WireInv'
<1>1. PICK named \in 1..MaxBlock :
         /\ window' = [window EXCEPT !.block = LaterOf(@, wtime + named)]
         /\ told' = LaterOf(told, wtime + named)
    BY DEF SocketRejected
<1>2. /\ wtime + named \in Nat /\ told \in Nat /\ window.block \in Nat /\ gate.until \in Nat
      /\ told <= gate.until \/ told <= window.block
    BY WireAssumption DEF WireInv, Gate
<1>3. /\ told' \in Nat /\ told' \in {told, wtime + named}
    BY <1>1, <1>2, LaterOfTwo
<1>4. /\ window'.block = LaterOf(window.block, wtime + named)
      /\ window' = [events |-> window'.events, block |-> window'.block]
    BY <1>1 DEF WireInv
<1>5. window'.block \in Nat /\ window'.block >= window.block /\ window'.block >= wtime + named
    BY <1>2, <1>4, LaterOfTwo
<1>6. UNCHANGED <<wtime, gate, early>>
    BY DEF SocketRejected
<1>7. told' <= gate.until \/ told' <= window'.block
    BY <1>2, <1>3, <1>5
<1> QED
    BY <1>3, <1>4, <1>5, <1>6, <1>7 DEF WireInv

\* A request is sent when gate and window are open, which is after every named end.
LEMMA SendsKeeps == ASSUME WireInv, NEW c \in WireCallers, Sends(c) PROVE WireInv'
<1>1. /\ gate.until <= wtime /\ UNCHANGED <<wtime, gate, told>>
    BY DEF Sends, SlotOpen
<1>2. CASE Fits(c) /\ window' = Charged(c) /\ early' = (early \/ wtime < told)
    <2>1. window.block <= wtime
        BY <1>2 DEF Fits
    <2>2. ~(wtime < told)
        BY <1>1, <2>1 DEF WireInv, Gate
    <2>3. /\ window'.block = window.block
          /\ window' = [events |-> window'.events, block |-> window'.block]
        <3> DEFINE x == Append(Live(window.events), [at |-> wtime, cost |-> Cost(c)])
        <3>1. window' = [window EXCEPT !.events = x]
            BY <1>2 DEF Charged
        <3> HIDE DEF x
        <3> QED
            BY <3>1 DEF WireInv
    <2> QED
        BY <1>1, <1>2, <2>2, <2>3 DEF WireInv
<1>3. CASE UNCHANGED <<window, early>>
    BY <1>1, <1>3 DEF WireInv
<1> QED
    BY <1>2, <1>3 DEF Sends

LEMMA WireSteps == WireInv /\ [WireNext]_wirevars => WireInv'
<1> SUFFICES ASSUME WireInv, [WireNext]_wirevars PROVE WireInv'
    OBVIOUS
<1>1. ASSUME NEW c \in WireCallers,
             SnapshotAsks(c) \/ PollerAsks(c) \/ WaitReady(c) \/ TakesSlot(c) \/ Abandoned(c)
      PROVE  WireInv'
    <2>1. UNCHANGED <<wtime, told, gate, window, early>>
        BY <1>1 DEF SnapshotAsks, PollerAsks, WaitReady, TakesSlot, Abandoned
    <2> QED
        BY <2>1 DEF WireInv
<1>2. ASSUME NEW c \in WireCallers, AcquireWeight(c) PROVE WireInv'
    <2>1. /\ gate' = [gate EXCEPT !.next = wtime + Pace(c)]
          /\ UNCHANGED <<wtime, window, told, early>>
        BY <1>2 DEF AcquireWeight
    <2>2. Pace(c) \in Nat
        BY DEF Pace, Cost
    <2>3. gate' \in Gate /\ gate'.until = gate.until
        BY <2>1, <2>2 DEF WireInv, Gate
    <2> QED
        BY <2>1, <2>3 DEF WireInv
<1>3. CASE WireTick
    BY <1>3 DEF WireTick, WireInv
<1>4. CASE UNCHANGED wirevars
    BY <1>4 DEF wirevars, WireInv
<1> QED
    BY <1>1, <1>2, <1>3, <1>4, SendsKeeps, AnsweredKeeps, SocketKeeps DEF WireNext

(* What the requests of a stretch cost. *)

Event == [at : Nat, cost : Nat]

\* f[i] is the cost of the first i events of s.
SumsTo(f, s, n) ==
    f = [i \in 0..n |-> IF i = 0 THEN 0 ELSE f[i - 1] + s[i].cost]

LEMMA SumsExist == ASSUME NEW s, NEW n \in Nat PROVE \E f : SumsTo(f, s, n)
<1> DEFINE Reached == {k \in 0..n : \E f : SumsTo(f, s, k)}
<1>1. 0 \in Reached
    <2> DEFINE f == [i \in 0..0 |-> 0]
    <2>1. SumsTo(f, s, 0)
        BY DEF SumsTo
    <2> QED
        BY <2>1
<1>2. ASSUME NEW k \in 1..n, k - 1 \in Reached PROVE k \in Reached
    <2>1. PICK f : SumsTo(f, s, k - 1)
        BY <1>2
    <2> DEFINE g == [i \in 0..k |-> IF i = k THEN f[k - 1] + s[k].cost ELSE f[i]]
    <2>2. ASSUME NEW i \in 0..k PROVE g[i] = IF i = 0 THEN 0 ELSE g[i - 1] + s[i].cost
        <3>1. CASE i = k
            <4>1. k # 0 /\ k - 1 \in 0..k /\ k - 1 # k
                OBVIOUS
            <4> QED
                BY <3>1, <4>1
        <3>2. CASE i # k
            <4>1. i \in 0..(k - 1)
                BY <3>2
            <4>2. f[i] = IF i = 0 THEN 0 ELSE f[i - 1] + s[i].cost
                BY <2>1, <4>1 DEF SumsTo
            <4>3. i # 0 => i - 1 \in 0..k /\ i - 1 # k
                BY <4>1
            <4> QED
                BY <3>2, <4>2, <4>3
        <3> QED
            BY <3>1, <3>2
    <2>3. SumsTo(g, s, k)
        <3>1. g = [i \in 0..k |-> IF i = 0 THEN 0 ELSE g[i - 1] + s[i].cost]
            BY <2>2
        <3> QED
            BY <3>1 DEF SumsTo
    <2> HIDE DEF g
    <2> QED
        BY <2>3
<1> HIDE DEF Reached
<1>3. n \in Reached
    BY <1>1, <1>2, CountingUp
<1> QED
    BY <1>3 DEF Reached

\* A cost depends on the events summed and on nothing else.
LEMMA SumsAgree ==
    ASSUME NEW s, NEW t, NEW n \in Nat, NEW m \in Nat, n <= m,
           NEW f, NEW g, SumsTo(f, s, n), SumsTo(g, t, m),
           \A i \in 1..n : s[i] = t[i] /\ s[i] \in Event
    PROVE  f[n] = g[n] /\ f[n] \in Nat
<1> DEFINE Same == {i \in 0..n : f[i] = g[i] /\ f[i] \in Nat}
<1>1. 0 \in Same
    <2>1. 0 \in 0..n /\ 0 \in 0..m
        OBVIOUS
    <2>2. f[0] = 0 /\ g[0] = 0
        BY <2>1 DEF SumsTo
    <2> QED
        BY <2>1, <2>2
<1>2. ASSUME NEW i \in 1..n, i - 1 \in Same PROVE i \in Same
    <2>1. i \in 0..n /\ i \in 0..m /\ i # 0
        OBVIOUS
    <2>2. f[i] = f[i - 1] + s[i].cost /\ g[i] = g[i - 1] + t[i].cost
        BY <2>1 DEF SumsTo
    <2>3. s[i] = t[i] /\ s[i].cost \in Nat
        BY DEF Event
    <2>4. f[i - 1] = g[i - 1] /\ f[i - 1] \in Nat
        BY <1>2
    <2>5. f[i] = g[i] /\ f[i] \in Nat
        BY <2>2, <2>3, <2>4
    <2> QED
        BY <2>1, <2>5
<1> HIDE DEF Same
<1>3. n \in Nat /\ n \in 0..n
    OBVIOUS
<1>4. n \in Same
    BY <1>1, <1>2, <1>3, CountingUp
<1> QED
    BY <1>4 DEF Same

LEMMA CostIsSum ==
    ASSUME NEW s \in Seq(Event)
    PROVE  \E f : SumsTo(f, s, Len(s)) /\ CostOf(s) = f[Len(s)]
<1> DEFINE f == CHOOSE g : SumsTo(g, s, Len(s))
<1>1. SumsTo(f, s, Len(s))
    <2>1. \E g : SumsTo(g, s, Len(s))
        BY SumsExist
    <2> QED
        BY <2>1
<1>2. CostOf(s) = f[Len(s)]
    BY DEF CostOf, SumsTo
<1> QED
    BY <1>1, <1>2

LEMMA CostOfEvents ==
    /\ CostOf(<< >>) = 0
    /\ \A s \in Seq(Event) : CostOf(s) \in Nat
    /\ \A s \in Seq(Event), e \in Event : CostOf(Append(s, e)) = CostOf(s) + e.cost
<1>1. CostOf(<< >>) = 0
    <2>1. << >> \in Seq(Event) /\ Len(<< >>) = 0
        OBVIOUS
    <2>2. PICK f : SumsTo(f, << >>, 0) /\ CostOf(<< >>) = f[0]
        BY <2>1, CostIsSum
    <2>3. f[0] = 0
        BY <2>2 DEF SumsTo
    <2> QED
        BY <2>2, <2>3
<1>2. ASSUME NEW s \in Seq(Event) PROVE CostOf(s) \in Nat
    <2>1. PICK f : SumsTo(f, s, Len(s)) /\ CostOf(s) = f[Len(s)]
        BY CostIsSum
    <2>2. Len(s) \in Nat /\ Len(s) \in 0..Len(s) /\ Len(s) <= Len(s)
          /\ \A i \in 1..Len(s) : s[i] = s[i] /\ s[i] \in Event
        OBVIOUS
    <2>3. f[Len(s)] \in Nat
        BY <2>1, <2>2, SumsAgree
    <2> QED
        BY <2>1, <2>3
<1>3. ASSUME NEW s \in Seq(Event), NEW e \in Event
      PROVE  CostOf(Append(s, e)) = CostOf(s) + e.cost
    <2> DEFINE t == Append(s, e)
               n == Len(s)
    <2>1. t \in Seq(Event) /\ Len(t) = n + 1 /\ n \in Nat /\ t[n + 1] = e
          /\ \A i \in 1..n : s[i] = t[i] /\ s[i] \in Event
        OBVIOUS
    <2>2. PICK f : SumsTo(f, s, n) /\ CostOf(s) = f[n]
        BY CostIsSum
    <2> HIDE DEF t
    <2>3. PICK g : SumsTo(g, t, n + 1) /\ CostOf(t) = g[n + 1]
        BY <2>1, CostIsSum
    <2> HIDE DEF n
    <2>4. n \in 0..n /\ n + 1 \in Nat /\ n <= n + 1 /\ n + 1 \in 0..(n + 1) /\ n + 1 # 0 /\ (n + 1) - 1 = n
        BY <2>1
    <2>5. f[n] = g[n]
        BY ONLY <2>1, <2>2, <2>3, <2>4, SumsAgree
    <2>6. g[n + 1] = g[n] + t[n + 1].cost
        BY <2>3, <2>4 DEF SumsTo
    <2> QED
        BY <2>1, <2>2, <2>3, <2>5, <2>6 DEF t
<1> QED
    BY <1>1, <1>2, <1>3

\* Events from a later place on cost no more.
LEMMA LaterCostsLess ==
    ASSUME NEW s \in Seq(Event), NEW k \in 1..(Len(s) + 1), NEW i \in k..(Len(s) + 1)
    PROVE  CostOf(SubSeq(s, i, Len(s))) <= CostOf(SubSeq(s, k, Len(s)))
<1> DEFINE n == Len(s)
           Fine == {j \in 0..n : CostOf(SubSeq(s, i, j)) <= CostOf(SubSeq(s, k, j))}
<1>1. n \in Nat /\ k \in Nat /\ i \in Nat /\ k >= 1 /\ i >= 1 /\ k <= i /\ i <= n + 1
    OBVIOUS
<1>2. ASSUME NEW a \in Nat, a >= 1, NEW j \in 0..n
      PROVE  SubSeq(s, a, j) \in Seq(Event) /\ CostOf(SubSeq(s, a, j)) \in Nat
    <2>1. \A x \in a..j : s[x] \in Event
        BY <1>2
    <2>2. SubSeq(s, a, j) \in Seq(Event)
        BY <1>2, <2>1, SubSeqProperties
    <2> QED
        BY <2>2, CostOfEvents
<1>3. ASSUME NEW a \in Nat, a >= 1, NEW j \in 1..n, a <= j
      PROVE  CostOf(SubSeq(s, a, j)) = CostOf(SubSeq(s, a, j - 1)) + s[j].cost
    <2>1. a \in 1..Len(s) /\ j \in a..Len(s) /\ j - 1 \in 0..n /\ s[j] \in Event
        BY <1>3
    <2>2. SubSeq(s, a, j) = SubSeq(s, a, j - 1) \o << s[j] >>
        BY <2>1, SubSeqRecursiveSecond
    <2>3. SubSeq(s, a, j - 1) \in Seq(Event)
        BY <1>2, <1>3, <2>1
    <2>4. SubSeq(s, a, j) = Append(SubSeq(s, a, j - 1), s[j])
        BY <2>1, <2>2, <2>3, AppendIsConcat
    <2> QED
        BY <2>1, <2>3, <2>4, CostOfEvents
<1>4. ASSUME NEW j \in 0..n, j < i PROVE CostOf(SubSeq(s, i, j)) <= CostOf(SubSeq(s, k, j))
    <2>1. SubSeq(s, i, j) = << >>
        BY <1>1, <1>4, SubSeqEmpty
    <2>2. CostOf(SubSeq(s, k, j)) \in Nat
        BY <1>1, <1>2
    <2> QED
        BY <2>1, <2>2, CostOfEvents
<1>5. 0 \in Fine
    BY <1>1, <1>4
<1>6. ASSUME NEW j \in 1..n, j - 1 \in Fine PROVE j \in Fine
    <2>1. j \in 0..n /\ j - 1 \in 0..n /\ s[j].cost \in Nat
        <3>1. j \in 0..n /\ j - 1 \in 0..n /\ s[j] \in Event
            OBVIOUS
        <3> QED
            BY <3>1 DEF Event
    <2>2. CASE j < i
        BY <1>4, <2>1, <2>2
    <2>3. CASE i <= j
        <3>1. k <= j
            BY <1>1, <2>3
        <3>2. CostOf(SubSeq(s, i, j)) = CostOf(SubSeq(s, i, j - 1)) + s[j].cost
            BY <1>1, <1>3, <2>3
        <3>3. CostOf(SubSeq(s, k, j)) = CostOf(SubSeq(s, k, j - 1)) + s[j].cost
            BY <1>1, <1>3, <3>1
        <3>4. CostOf(SubSeq(s, i, j - 1)) \in Nat /\ CostOf(SubSeq(s, k, j - 1)) \in Nat
            <4> HIDE DEF n
            <4> QED
                BY ONLY <1>1, <1>2, <2>1
        <3>5. CostOf(SubSeq(s, i, j - 1)) <= CostOf(SubSeq(s, k, j - 1))
            BY <1>6
        <3>6. CostOf(SubSeq(s, i, j)) <= CostOf(SubSeq(s, k, j))
            BY ONLY <2>1, <3>2, <3>3, <3>4, <3>5
        <3> QED
            BY <2>1, <3>6
    <2> QED
        BY <1>1, <2>2, <2>3
<1> HIDE DEF Fine
<1>7. n \in Fine
    <2>1. n \in 0..n
        BY <1>1
    <2> HIDE DEF n
    <2> QED
        BY <1>1, <1>5, <1>6, <2>1, CountingUp
<1> QED
    BY <1>7 DEF Fine

\* A set of numbers up to n has a greatest.
LEMMA GreatestIsIn ==
    ASSUME NEW n \in Nat, NEW S \in SUBSET (0..n), S # {}
    PROVE  Max(S) \in S
<1> DEFINE Fine == {i \in 0..n : (\A y \in S : y > i) \/ \E x \in S : \A y \in S : y <= i => x >= y}
<1>1. 0 \in Fine
    <2>1. 0 \in 0..n /\ \A y \in S : y \in Nat
        OBVIOUS
    <2>2. CASE 0 \in S
        BY <2>1, <2>2
    <2>3. CASE 0 \notin S
        BY <2>1, <2>3
    <2> QED
        BY <2>2, <2>3
<1>2. ASSUME NEW i \in 1..n, i - 1 \in Fine PROVE i \in Fine
    <2>1. i \in 0..n /\ i \in Nat /\ \A y \in S : y \in Nat
        OBVIOUS
    <2>2. CASE i \in S
        BY <2>1, <2>2
    <2>3. CASE i \notin S
        <3>1. \A y \in S : (y > i - 1 <=> y > i) /\ (y <= i => y <= i - 1)
            BY <2>1, <2>3
        <3> QED
            BY <1>2, <2>1, <3>1
    <2> QED
        BY <2>2, <2>3
<1> HIDE DEF Fine
<1>3. n \in Fine
    BY <1>1, <1>2, CountingUp
<1>4. \E x \in S : \A y \in S : x >= y
    <2>1. \A y \in S : y \in Nat /\ y <= n /\ ~(y > n)
        OBVIOUS
    <2>2. (\A y \in S : y > n) \/ \E x \in S : \A y \in S : y <= n => x >= y
        BY <1>3 DEF Fine
    <2> QED
        BY <2>1, <2>2
<1> QED
    BY <1>4 DEF Max

\* The first q requests have left the window.
Gone(s, q) == \A i \in 1..q : s[i].at + WindowTicks <= wtime

\* What delay keeps of the last requests are the last requests.
LEMMA LiveIsTail ==
    ASSUME NEW s \in Seq(Event), NEW m \in 0..Len(s), Gone(s, m)
    PROVE  \E q \in 0..Len(s) : /\ Live(SubSeq(s, m + 1, Len(s))) = SubSeq(s, q + 1, Len(s))
                                /\ Gone(s, q)
<1> DEFINE n == Len(s)
           ev == SubSeq(s, m + 1, n)
           gone == {k \in 0..Len(ev) : \A i \in 1..k : ev[i].at + WindowTicks <= wtime}
           k == Max(gone)
<1>1. n \in Nat /\ m \in Nat /\ m <= n
    OBVIOUS
<1>2. /\ ev \in Seq(Event) /\ Len(ev) = n - m
      /\ \A i \in 1..(n - m) : ev[i] = s[m + i]
    <2>1. \A x \in (m + 1)..n : s[x] \in Event
        BY <1>1
    <2>2. m + 1 \in Int /\ n \in Int
        BY <1>1
    <2>3. /\ ev \in Seq(Event)
          /\ Len(ev) = IF m + 1 <= n THEN n - (m + 1) + 1 ELSE 0
          /\ \A i \in 1..(n - (m + 1) + 1) : ev[i] = s[(m + 1) + i - 1]
        BY ONLY <2>1, <2>2, SubSeqProperties
    <2>4. n - (m + 1) + 1 = n - m /\ (~(m + 1 <= n) => n - m = 0)
        BY <1>1
    <2>5. \A i \in 1..(n - m) : (m + 1) + i - 1 = m + i
        BY <1>1
    <2> HIDE DEF ev
    <2> QED
        BY <2>3, <2>4, <2>5
<1>3. k \in gone
    <2>1. Len(ev) \in Nat /\ gone \in SUBSET (0..Len(ev)) /\ 0 \in gone
        BY <1>2
    <2> HIDE DEF gone
    <2> QED
        BY <2>1, GreatestIsIn
<1>4. Live(ev) = SubSeq(ev, k + 1, Len(ev))
    BY DEF Live
<1> HIDE DEF k
<1>5. k \in 0..(n - m) /\ k \in Nat /\ m + k \in 0..n
    BY <1>1, <1>2, <1>3
<1>6. Gone(s, m + k)
    <2> SUFFICES ASSUME NEW i \in 1..(m + k) PROVE s[i].at + WindowTicks <= wtime
        BY DEF Gone
    <2>1. CASE i <= m
        BY <2>1 DEF Gone
    <2>2. CASE i > m
        <3>1. i - m \in 1..k /\ i - m \in 1..(n - m) /\ m + (i - m) = i
            BY <1>1, <1>5, <2>2
        <3>2. ev[i - m].at + WindowTicks <= wtime
            BY <1>3, <3>1
        <3>3. ev[i - m] = s[i]
            BY <1>2, <3>1
        <3> QED
            BY <3>2, <3>3
    <2> QED
        BY <1>1, <2>1, <2>2
<1>7. SubSeq(ev, k + 1, n - m) = SubSeq(s, (m + k) + 1, n)
    <2>1. CASE k = n - m
        <3>1. k + 1 \in Int /\ n - m \in Int /\ n - m < k + 1 /\ (m + k) + 1 \in Int /\ n \in Int
              /\ n < (m + k) + 1
            BY <1>1, <1>5, <2>1
        <3> HIDE DEF n, ev
        <3> QED
            BY <3>1, SubSeqEmpty
    <2>2. CASE k # n - m
        <3>1. /\ m + 1 \in 1..n /\ n \in 1..n /\ n - (m + 1) + 1 = n - m
              /\ k + 1 \in 1..(n - (m + 1) + 1) /\ n - m \in 1..(n - (m + 1) + 1)
              /\ (m + 1) + (k + 1) - 1 = (m + k) + 1 /\ (m + 1) + (n - m) - 1 = n
            BY <1>1, <1>5, <2>2
        <3>2. SubSeq(SubSeq(s, m + 1, n), k + 1, n - m)
                 = SubSeq(s, (m + 1) + (k + 1) - 1, (m + 1) + (n - m) - 1)
            <4>1. s \in Seq(Event) /\ Len(s) = n /\ << >> \in Seq(Event)
                OBVIOUS
            <4> HIDE DEF n, ev
            <4>2. \A i, j \in 1..Len(s) : \A a, b \in 1..(j - i + 1) :
                     SubSeq(SubSeq(s, i, j), a, b) = SubSeq(s, i + a - 1, i + b - 1)
                BY ONLY <4>1, SubSeqOfSubSeq
            <4>3. m + 1 \in 1..Len(s) /\ n \in 1..Len(s)
                BY <3>1, <4>1
            <4> QED
                BY ONLY <3>1, <4>2, <4>3
        <3> QED
            BY <3>1, <3>2
    <2> QED
        BY <2>1, <2>2
<1> HIDE DEF ev
<1>8. Live(ev) = SubSeq(s, (m + k) + 1, n)
    BY <1>2, <1>4, <1>7
<1> QED
    BY <1>5, <1>6, <1>8 DEF ev

(* The budget. *)

\* RequestBudget remembers the requests sent last; those it forgot are out of the window.
Remembered ==
    \E m \in 0..Len(sends) : window.events = SubSeq(sends, m + 1, Len(sends)) /\ Gone(sends, m)

BudgetInv == wtime \in Nat /\ sends \in Seq(Event) /\ Remembered /\ BudgetHolds

LEMMA CostsFit == \A c \in WireCallers : Cost(c) \in Nat /\ Cost(c) <= 2
BY DEF Cost

LEMMA BudgetKeptBySends ==
    ASSUME WireInv, BudgetInv, NEW c \in WireCallers, Sends(c) PROVE BudgetInv'
<1> DEFINE e == [at |-> wtime, cost |-> Cost(c)]
           n == Len(sends)
<1>1. wtime' = wtime /\ wtime \in Nat /\ sends \in Seq(Event)
    BY DEF BudgetInv, Sends
<1>2. CASE UNCHANGED <<window, sends>>
    BY <1>1, <1>2 DEF BudgetInv, Remembered, Gone, BudgetHolds
<1>3. CASE Fits(c) /\ window' = Charged(c) /\ sends' = Append(sends, e)
    <2>1. PICK m \in 0..n : window.events = SubSeq(sends, m + 1, n) /\ Gone(sends, m)
        BY DEF BudgetInv, Remembered
    <2>2. PICK q \in 0..n : Live(window.events) = SubSeq(sends, q + 1, n) /\ Gone(sends, q)
        BY <1>1, <2>1, LiveIsTail
    <2>3. e \in Event /\ e.at = wtime /\ e.cost = Cost(c) /\ e.cost \in Nat
        BY <1>1, CostsFit DEF Event
    <2> HIDE DEF e
    <2>4. /\ sends' \in Seq(Event) /\ Len(sends') = n + 1 /\ n \in Nat /\ sends'[n + 1] = e
          /\ \A i \in 1..n : sends'[i] = sends[i] /\ sends[i] \in Event
          /\ sends' = sends \o << e >>
        BY <1>1, <1>3, <2>3, AppendProperties, AppendIsConcat
    <2> HIDE DEF n
    <2>5. ASSUME NEW i \in 1..(n + 1)
          PROVE  /\ SubSeq(sends, i, n) \in Seq(Event)
                 /\ SubSeq(sends', i, n + 1) = Append(SubSeq(sends, i, n), e)
        <3>1. \A x \in i..n : sends[x] \in Event
            BY <2>4
        <3>2. SubSeq(sends, i, n) \in Seq(Event)
            BY <2>4, <3>1, SubSeqProperties
        <3>3. i \in 1..Len(sends') /\ n + 1 \in i..Len(sends') /\ (n + 1) - 1 = n
            BY <2>4
        <3>4. SubSeq(sends', i, n + 1) = SubSeq(sends', i, n) \o << e >>
            BY <2>4, <3>3, SubSeqRecursiveSecond
        <3>5. SubSeq(sends', i, n) = SubSeq(sends, i, n)
            <4>1. CASE i = n + 1
                BY <2>4, <4>1, SubSeqEmpty
            <4>2. CASE i # n + 1
                <5>1. i \in 1..Len(sends) /\ n \in 1..Len(sends)
                    BY <2>4, <4>2 DEF n
                <5>2. << e >> \in Seq(Event)
                    BY <2>3
                <5> QED
                    BY <1>1, <2>4, <5>1, <5>2, SubSeqOfConcat1
            <4> QED
                BY <4>1, <4>2
        <3> QED
            BY <2>3, <3>2, <3>4, <3>5, AppendIsConcat
    <2>6. Remembered'
        <3>1. window'.events = Append(SubSeq(sends, q + 1, n), e)
            <4>1. /\ CostOf(Live(window.events)) + Cost(c) <= WindowCap
                  /\ window' = [window EXCEPT !.events = Append(Live(@), e)]
                BY <1>3 DEF Fits, Charged, e
            <4>2. window = [events |-> window.events, block |-> window.block]
                BY DEF WireInv
            <4>3. window'.events = Append(Live(window.events), e)
                BY <4>1, <4>2
            <4> QED
                BY <2>2, <4>3
        <3>2. q + 1 \in 1..(n + 1) /\ q \in 0..Len(sends')
            BY <2>4
        <3>3. window'.events = SubSeq(sends', q + 1, Len(sends'))
            BY <2>4, <2>5, <3>1, <3>2
        <3>4. Gone(sends, q)'
            <4> SUFFICES ASSUME NEW i \in 1..q PROVE sends'[i].at + WindowTicks <= wtime'
                BY DEF Gone
            <4>1. i \in 1..n
                BY <2>4
            <4> QED
                BY <1>1, <2>2, <2>4, <4>1 DEF Gone
        <3> QED
            BY <3>2, <3>3, <3>4 DEF Remembered
    <2>7. BudgetHolds'
        <3> SUFFICES ASSUME NEW i \in DOMAIN sends', NEW j \in DOMAIN sends',
                            sends'[j].at < sends'[i].at + WindowTicks
                     PROVE  CostOf(SubSeq(sends', i, j)) <= WindowCap
            BY DEF BudgetHolds, CostOf
        <3>1. i \in 1..(n + 1) /\ j \in 1..(n + 1) /\ i \in Nat /\ j \in Nat
            BY <2>4
        <3>2. CASE i > j
            <4>1. SubSeq(sends', i, j) = << >>
                BY <3>1, <3>2, SubSeqEmpty
            <4> QED
                BY <4>1, CostOfEvents, WireAssumption
        <3>3. CASE i <= j /\ j <= n
            <4>1. i \in 1..Len(sends) /\ j \in 1..Len(sends) /\ << e >> \in Seq(Event)
                BY <2>3, <2>4, <3>1, <3>3 DEF n
            <4>2. SubSeq(sends', i, j) = SubSeq(sends, i, j)
                <5>1. SubSeq(sends \o << e >>, i, j) = SubSeq(sends, i, j)
                    BY ONLY <1>1, <4>1, SubSeqOfConcat1
                <5> QED
                    BY <2>4, <5>1
            <4>3. i \in DOMAIN sends /\ j \in DOMAIN sends
                BY <1>1, <4>1
            <4>4. sends[j].at < sends[i].at + WindowTicks
                BY <2>4, <4>1 DEF n
            <4>5. CostOf(SubSeq(sends, i, j)) <= WindowCap
                BY <4>3, <4>4 DEF BudgetInv, BudgetHolds
            <4> QED
                BY <4>2, <4>5
        <3>4. CASE i <= j /\ j = n + 1
            <4>1. /\ SubSeq(sends, i, n) \in Seq(Event)
                  /\ SubSeq(sends', i, n + 1) = Append(SubSeq(sends, i, n), e)
                BY <2>5, <3>1
            <4>2. CostOf(SubSeq(sends', i, j)) = CostOf(SubSeq(sends, i, n)) + Cost(c)
                BY <2>3, <3>4, <4>1, CostOfEvents
            <4>3. CostOf(SubSeq(sends, q + 1, n)) + Cost(c) <= WindowCap
                BY <1>3, <2>2 DEF Fits
            <4>4. q + 1 <= i
                <5>1. sends'[j].at = wtime
                    BY <2>3, <2>4, <3>4
                <5>2. CASE i <= q
                    <6>1. i \in 1..q /\ i \in 1..n
                        BY <2>4, <3>1, <5>2
                    <6>2. sends[i].at + WindowTicks <= wtime /\ sends'[i] = sends[i]
                        BY <2>2, <2>4, <6>1 DEF Gone
                    <6>3. sends[i].at \in Nat /\ WindowTicks \in Nat
                        BY <2>4, <6>1, WireAssumption DEF Event
                    <6> QED
                        BY <1>1, <5>1, <6>2, <6>3
                <5> QED
                    BY <2>4, <3>1, <5>2
            <4>5. q + 1 \in 1..(Len(sends) + 1) /\ i \in (q + 1)..(Len(sends) + 1)
                BY <2>4, <3>1, <4>4 DEF n
            <4>6. CostOf(SubSeq(sends, i, n)) <= CostOf(SubSeq(sends, q + 1, n))
                BY <1>1, <4>5, LaterCostsLess DEF n
            <4>7. q + 1 \in 1..(n + 1) /\ CostOf(SubSeq(sends, i, n)) \in Nat
                  /\ Cost(c) \in Nat /\ WindowCap \in Nat
                <5>1. q + 1 \in 1..(n + 1)
                    BY <2>4
                <5>2. CostOf(SubSeq(sends, i, n)) \in Nat
                    BY <4>1, CostOfEvents
                <5> QED
                    BY <5>1, <5>2, CostsFit, WireAssumption
            <4>8. CostOf(SubSeq(sends, q + 1, n)) \in Nat
                BY <2>5, <4>7, CostOfEvents
            <4> QED
                BY ONLY <4>2, <4>3, <4>6, <4>7, <4>8
        <3> QED
            BY <2>4, <3>1, <3>2, <3>3, <3>4
    <2> QED
        BY <1>1, <2>4, <2>6, <2>7 DEF BudgetInv
<1> QED
    BY <1>2, <1>3 DEF Sends

LEMMA BudgetSteps == WireInv /\ BudgetInv /\ [WireNext]_wirevars => BudgetInv'
<1> SUFFICES ASSUME WireInv, BudgetInv, [WireNext]_wirevars PROVE BudgetInv'
    OBVIOUS
<1>1. ASSUME wtime' \in Nat, wtime' >= wtime, sends' = sends, window'.events = window.events
      PROVE  BudgetInv'
    <2>1. PICK m \in 0..Len(sends) :
             window.events = SubSeq(sends, m + 1, Len(sends)) /\ Gone(sends, m)
        BY DEF BudgetInv, Remembered
    <2>2. sends \in Seq(Event) /\ wtime \in Nat /\ WindowTicks \in Nat
        BY WireAssumption DEF BudgetInv
    <2>3. Gone(sends, m)'
        <3> SUFFICES ASSUME NEW i \in 1..m PROVE sends[i].at + WindowTicks <= wtime'
            BY <1>1 DEF Gone
        <3>1. sends[i] \in Event
            BY <2>2
        <3>2. sends[i].at \in Nat /\ sends[i].at + WindowTicks <= wtime
            BY <2>1, <3>1 DEF Gone, Event
        <3> QED
            BY <1>1, <2>2, <3>2
    <2>4. Remembered'
        BY <1>1, <2>1, <2>3 DEF Remembered
    <2>5. BudgetHolds'
        <3> SUFFICES ASSUME NEW i \in DOMAIN sends', NEW j \in DOMAIN sends',
                            sends'[j].at < sends'[i].at + WindowTicks
                     PROVE  CostOf(SubSeq(sends', i, j)) <= WindowCap
            BY DEF BudgetHolds, CostOf
        <3> QED
            BY <1>1 DEF BudgetInv, BudgetHolds
    <2> QED
        BY <1>1, <2>2, <2>4, <2>5 DEF BudgetInv
<1>2. ASSUME NEW c \in WireCallers,
             \/ SnapshotAsks(c) \/ PollerAsks(c) \/ AcquireWeight(c) \/ WaitReady(c)
             \/ TakesSlot(c) \/ Abandoned(c) \/ Answered(c)
      PROVE  BudgetInv'
    <2>1. UNCHANGED <<wtime, sends, window>>
        BY <1>2 DEF SnapshotAsks, PollerAsks, AcquireWeight, WaitReady, TakesSlot,
                    Abandoned, Answered
    <2> QED
        BY <1>1, <2>1 DEF BudgetInv
<1>3. CASE SocketRejected
    <2>1. PICK b : window' = [window EXCEPT !.block = b]
        BY <1>3 DEF SocketRejected
    <2>2. window = [events |-> window.events, block |-> window.block]
        BY DEF WireInv
    <2>3. window'.events = window.events
        BY <2>1, <2>2
    <2>4. UNCHANGED <<wtime, sends>>
        BY <1>3 DEF SocketRejected
    <2> QED
        BY <1>1, <2>3, <2>4 DEF BudgetInv
<1>4. CASE WireTick
    <2>1. wtime' = wtime + 1 /\ UNCHANGED <<window, sends>> /\ wtime \in Nat
        BY <1>4 DEF WireTick, BudgetInv
    <2> QED
        BY <1>1, <2>1
<1>5. CASE UNCHANGED wirevars
    BY <1>1, <1>5 DEF wirevars, BudgetInv
<1> QED
    BY <1>2, <1>3, <1>4, <1>5, BudgetKeptBySends DEF WireNext

\* Whatever requests wait, are cancelled or answer late, what goes out is inside the
\* budget of every window and outside every block that was named, for any number of
\* callers (rate_limit.py, request_budget.py).
THEOREM RequestsStayAllowed == WireSpec => []RequestsAreAllowed
<1>1. WireInit => WireInv
    BY DEF WireInit, WireInv, Gate
<1>2. WireInit => BudgetInv
    <2> SUFFICES ASSUME WireInit PROVE BudgetInv
        OBVIOUS
    <2>1. wtime = 0 /\ sends = << >> /\ window = [events |-> << >>, block |-> 0]
        BY DEF WireInit
    <2>2. sends \in Seq(Event) /\ Len(sends) = 0 /\ DOMAIN sends = {}
        BY <2>1
    <2>3. SubSeq(sends, 1, 0) = << >>
        BY SubSeqEmpty
    <2>4. 0 \in 0..Len(sends) /\ Gone(sends, 0)
        BY <2>2 DEF Gone
    <2>5. Remembered
        BY <2>1, <2>2, <2>3, <2>4 DEF Remembered
    <2> QED
        BY <2>1, <2>2, <2>5 DEF BudgetInv, BudgetHolds
<1>3. WireInv /\ BudgetInv => RequestsAreAllowed
    BY DEF WireInv, BudgetInv, RequestsAreAllowed, NoRequestInsideBlock
<1> QED
    BY <1>1, <1>2, <1>3, WireSteps, BudgetSteps, PTL DEF WireSpec

-----------------------------------------------------------------------------
(* Depth.  The candidates of synchronize and its loop are recursive         *)
(* functions over the buffer.                                               *)

(* The frames of a product and what a sequence says of them. *)

\* The last changes of the frames go up with their numbers, and a frame begins
\* where the one before it ends.
LEMMA ChangeNumbers ==
  /\ \A n \in Int : /\ LastId(n) \in Int /\ FirstId(n) = LastId(n - 1) + 1
                    /\ PreviousId(n) = LastId(n - 1) /\ LastId(n + 1) = LastId(n) + Width
  /\ \A n \in Nat : LastId(n) \in Nat
  /\ \A m, n \in Int : m <= n => LastId(m) <= LastId(n)
  /\ \A m, n \in Int : m < n => LastId(m) < LastId(n)
  /\ LastId(0) = 0 /\ Width \in Nat /\ Width >= 1
<1>1. Width \in Nat /\ Width >= 1
  BY WidthAssumption
<1>2. \A n \in Int : Width * n \in Int /\ Width * (n + 1) = Width * n + Width
  BY <1>1
<1>3. \A n \in Nat : Width * n \in Nat
  BY <1>1
<1>4. ASSUME NEW m \in Int, NEW n \in Int, m <= n
      PROVE  Width * m <= Width * n /\ (m < n => Width * m < Width * n)
  <2>1. Width * n = Width * m + Width * (n - m)
    BY <1>1
  <2>2. Width * (n - m) >= 0
    BY <1>1, <1>3, <1>4
  <2>3. m < n => Width * (n - m) > 0
    <3> SUFFICES ASSUME m < n PROVE Width * (n - m) > 0
      OBVIOUS
    <3>1. n - m \in Nat /\ n - m - 1 \in Nat
      OBVIOUS
    <3>2. Width * (n - m) = Width * (n - m - 1) + Width
      BY <1>1
    <3>3. Width * (n - m - 1) \in Nat
      BY <1>3, <3>1
    <3> QED
      BY <1>1, <3>2, <3>3
  <2> QED
    BY <1>1, <1>2, <2>1, <2>2, <2>3
<1>5. \A n \in Int : LastId(n) \in Int /\ PreviousId(n) = LastId(n - 1)
  BY <1>2 DEF LastId, PreviousId
<1>6. \A n \in Int : FirstId(n) = LastId(n - 1) + 1 /\ LastId(n + 1) = LastId(n) + Width
  BY <1>2 DEF LastId, FirstId
<1>7. (\A n \in Nat : LastId(n) \in Nat) /\ LastId(0) = 0
  BY <1>1, <1>3 DEF LastId
<1>8. /\ \A m, n \in Int : m <= n => LastId(m) <= LastId(n)
      /\ \A m, n \in Int : m < n => LastId(m) < LastId(n)
  BY <1>4 DEF LastId
<1> QED
  BY <1>1, <1>5, <1>6, <1>7, <1>8

Increasing(s) == \A i, j \in DOMAIN s : i < j => s[i] < s[j]
In(n, s) == \E i \in DOMAIN s : s[i] = n

\* Nothing is claimed and nothing is waiting.
Blank(c) == c.rel = NoId /\ c.buf = << >> /\ c.book = {}

\* After frame n: either the sequence is reliable up to it, or it is the newest
\* of the frames that wait.
Stands(c, n) ==
  \/ c.rel = LastId(n) /\ n >= 1 /\ c.book = 1..LastId(n) /\ c.buf = << >>
  \/ /\ c.rel = NoId /\ c.book = {}
     /\ c.buf # << >> /\ Increasing(c.buf) /\ c.buf[Len(c.buf)] = n

\* A frame leaves a gap exactly if it is not the next one.
LEMMA GapMeansMissing ==
  ASSUME market \in {"spot", "usdm"}, NEW p \in Nat, NEW n \in Nat, p < n
  PROVE  IsGap(LastId(p), n) <=> n # p + 1
<1>1. /\ FirstId(n) = LastId(n - 1) + 1 /\ PreviousId(n) = LastId(n - 1)
      /\ LastId(n - 1) \in Int /\ LastId(p) \in Int
  <2>1. n \in Int /\ n - 1 \in Int /\ p \in Int
    OBVIOUS
  <2> QED
    BY <2>1, ChangeNumbers
<1>2. CASE n = p + 1
  <2>1. n - 1 = p
    BY <1>2
  <2> QED
    BY <1>1, <1>2, <2>1 DEF IsGap
<1>3. CASE n # p + 1
  <2>1. p < n - 1 /\ n - 1 \in Int
    BY <1>3
  <2>2. LastId(p) < LastId(n - 1)
    BY <2>1, ChangeNumbers
  <2> QED
    BY <1>1, <1>3, <2>2 DEF IsGap
<1> QED
  BY <1>2, <1>3

LEMMA Positive ==
  ASSUME NEW n \in Nat
  PROVE  /\ LastId(n) \in Nat
         /\ (n >= 1 => LastId(n) # NoId /\ LastId(n) >= 1)
<1>1. 0 \in Int /\ n \in Int
  OBVIOUS
<1>2. LastId(n) \in Nat /\ LastId(0) = 0 /\ (0 < n => LastId(0) < LastId(n))
  BY <1>1, ChangeNumbers
<1> QED
  BY <1>2 DEF NoId

LEMMA OneFrameWaits ==
  ASSUME NEW n \in Nat
  PROVE  << n >> \in Seq(Nat) /\ Len(<< n >>) = 1 /\ << n >> # << >> /\ << n >>[1] = n
         /\ Increasing(<< n >>)
BY DEF Increasing

\* _apply: the next frame is added, any later one ends the sequence.
LEMMA ApplyStands ==
  ASSUME market \in {"spot", "usdm"}, NEW c \in Continuity, NEW p \in Nat, NEW n \in Nat,
         p < n, Stands(c, p), Reliable(c)
  PROVE  /\ Apply(c, n) \in Continuity /\ Apply(c, n).over = c.over
         /\ Stands(Apply(c, n), n)
         /\ Len(Apply(c, n).buf) <= 1
         /\ Reliable(Apply(c, n)) <=> n = p + 1
<1>1. c.rel = LastId(p) /\ p >= 1 /\ c.book = 1..LastId(p) /\ c.buf = << >>
  BY DEF Stands, Reliable
<1>2. LastId(p) < LastId(n) /\ LastId(p) \in Nat /\ LastId(n) \in Nat /\ ~(LastId(n) <= c.rel)
      /\ LastId(n) # NoId
  <2>1. p \in Int /\ n \in Int /\ n >= 1
    OBVIOUS
  <2>2. LastId(p) < LastId(n)
    BY <2>1, ChangeNumbers
  <2>3. LastId(p) \in Nat /\ LastId(n) \in Nat /\ LastId(n) # NoId
    BY <2>1, Positive
  <2> QED
    BY <1>1, <2>2, <2>3
<1>3. CASE n # p + 1
  <2>1. Apply(c, n) = [c EXCEPT !.rel = NoId, !.buf = <<n>>, !.book = {}]
    BY <1>1, <1>2, <1>3, GapMeansMissing DEF Apply
  <2>2. <<n>> \in Seq(Nat) /\ NoId \in Nat /\ {} \in SUBSET Nat
    BY DEF NoId
  <2>3. /\ Apply(c, n) \in Continuity /\ Apply(c, n).over = c.over /\ Apply(c, n).rel = NoId
        /\ Apply(c, n).book = {} /\ Apply(c, n).buf = <<n>>
    BY <2>1, <2>2 DEF Continuity
  <2> QED
    BY <1>3, <2>3, OneFrameWaits DEF Stands, Reliable
<1>4. CASE n = p + 1
  <2>1. Apply(c, n) = [c EXCEPT !.rel = LastId(n), !.book = @ \cup FirstId(n)..LastId(n)]
    BY <1>1, <1>2, <1>4, GapMeansMissing DEF Apply
  <2>2. FirstId(n) = LastId(p) + 1
    <3>1. n - 1 = p
      BY <1>4
    <3> QED
      BY <3>1, ChangeNumbers
  <2>3. (1..LastId(p)) \cup (FirstId(n)..LastId(n)) = 1..LastId(n)
    BY <1>2, <2>2
  <2>4. 1..LastId(n) \in SUBSET Nat
    BY <1>2
  <2>5. /\ Apply(c, n) \in Continuity /\ Apply(c, n).over = c.over /\ Apply(c, n).rel = LastId(n)
        /\ Apply(c, n).book = 1..LastId(n) /\ Apply(c, n).buf = << >>
    BY <1>1, <1>2, <2>1, <2>3, <2>4 DEF Continuity
  <2> QED
    BY <1>2, <1>4, <2>5 DEF Stands, Reliable
<1> QED
  BY <1>3, <1>4

\* What waits grows at its end.
LEMMA WaitingGrows ==
  ASSUME NEW s \in Seq(Nat), NEW n \in Nat, Increasing(s), s # << >> => s[Len(s)] < n
  PROVE  /\ Append(s, n) \in Seq(Nat) /\ Append(s, n) # << >> /\ Increasing(Append(s, n))
         /\ Len(Append(s, n)) = Len(s) + 1 /\ Append(s, n)[Len(Append(s, n))] = n
         /\ \A i \in 1..Len(s) : Append(s, n)[i] = s[i]
<1>1. /\ Append(s, n) \in Seq(Nat) /\ Len(Append(s, n)) = Len(s) + 1 /\ Len(s) \in Nat
      /\ Append(s, n)[Len(s) + 1] = n /\ \A i \in 1..Len(s) : Append(s, n)[i] = s[i]
  OBVIOUS
<1>2. \A i \in 1..Len(s) : s[i] \in Nat /\ s[i] < n
  <2> SUFFICES ASSUME NEW i \in 1..Len(s) PROVE s[i] \in Nat /\ s[i] < n
    OBVIOUS
  <2>1. s # << >> /\ Len(s) \in DOMAIN s /\ i \in DOMAIN s /\ s[i] \in Nat /\ s[Len(s)] \in Nat
    OBVIOUS
  <2>2. i < Len(s) => s[i] < s[Len(s)]
    BY <2>1 DEF Increasing
  <2> QED
    BY <2>1, <2>2
<1>3. \A i, j \in 1..(Len(s) + 1) : i < j => Append(s, n)[i] < Append(s, n)[j]
  <2> SUFFICES ASSUME NEW i \in 1..(Len(s) + 1), NEW j \in 1..(Len(s) + 1), i < j
               PROVE  Append(s, n)[i] < Append(s, n)[j]
    OBVIOUS
  <2>1. CASE j = Len(s) + 1
    BY <1>1, <1>2, <2>1
  <2>2. CASE j # Len(s) + 1
    <3>1. i \in DOMAIN s /\ j \in DOMAIN s /\ i \in 1..Len(s) /\ j \in 1..Len(s)
      BY <2>2
    <3> QED
      BY <1>1, <3>1 DEF Increasing
  <2> QED
    BY <2>1, <2>2
<1>4. DOMAIN Append(s, n) = 1..(Len(s) + 1)
  BY <1>1
<1>5. Append(s, n) # << >>
  BY <1>1
<1> QED
  BY <1>1, <1>3, <1>4, <1>5 DEF Increasing

\* A frame that waits stands at the end of the buffer.
LEMMA BufferStands ==
  ASSUME NEW c \in Continuity, NEW n \in Nat, ~Reliable(c), c.book = {}, Increasing(c.buf),
         c.buf # << >> => c.buf[Len(c.buf)] < n,
         NEW o, o = [c EXCEPT !.buf = Append(@, n)]
  PROVE  /\ o \in Continuity /\ o.over = c.over /\ Stands(o, n) /\ ~Reliable(o)
         /\ o.buf = Append(c.buf, n) /\ Len(o.buf) = Len(c.buf) + 1
<1>1. c.buf \in Seq(Nat)
  BY DEF Continuity
<1>2. Append(c.buf, n) \in Seq(Nat)
  BY <1>1
<1>3. /\ o \in Continuity /\ o.over = c.over /\ o.rel = c.rel /\ o.book = c.book
      /\ o.buf = Append(c.buf, n)
  BY <1>2 DEF Continuity
<1> QED
  BY <1>1, <1>3, WaitingGrows DEF Stands, Reliable

\* What is not reliable and is blank or stands has only older frames waiting.
LEMMA OlderWait ==
  ASSUME NEW c \in Continuity, NEW p \in Nat, NEW n \in Nat, p < n, ~Reliable(c),
         Blank(c) \/ Stands(c, p)
  PROVE  c.book = {} /\ Increasing(c.buf) /\ (c.buf # << >> => c.buf[Len(c.buf)] < n)
<1>1. CASE Blank(c)
  BY <1>1 DEF Blank, Increasing
<1>2. CASE Stands(c, p)
  <2>1. ~(c.rel = LastId(p) /\ p >= 1)
    BY Positive DEF Reliable
  <2> QED
    BY <1>2, <2>1 DEF Stands
<1> QED
  BY <1>1, <1>2

\* offer: the frame is accounted for or waits, unless the buffer is full.
LEMMA OfferStands ==
  ASSUME market \in {"spot", "usdm"}, NEW c \in Continuity, ~c.over, Len(c.buf) <= Capacity,
         NEW p \in Nat, NEW n \in Nat, p < n, Blank(c) \/ Stands(c, p), ~Offer(c, n).over
  PROVE  /\ Offer(c, n) \in Continuity /\ Stands(Offer(c, n), n) /\ Len(Offer(c, n).buf) <= Capacity
         /\ Reliable(c) => (Reliable(Offer(c, n)) <=> n = p + 1)
         /\ ~Reliable(c) => ~Reliable(Offer(c, n)) /\ Offer(c, n).buf = Append(c.buf, n)
<1>1. CASE Reliable(c)
  <2>1. Stands(c, p)
    BY <1>1 DEF Blank, Reliable
  <2>2. Offer(c, n) = Apply(c, n)
    BY <1>1 DEF Offer
  <2>3. Apply(c, n).buf \in Seq(Nat) /\ Len(Apply(c, n).buf) <= 1
    BY <1>1, <2>1, ApplyStands DEF Continuity
  <2>4. Len(Apply(c, n).buf) <= Capacity
    BY <2>3, CapacityAssumption
  <2> QED
    BY <1>1, <2>1, <2>2, <2>4, ApplyStands
<1>2. CASE ~Reliable(c)
  <2>1. c.book = {} /\ Increasing(c.buf) /\ (c.buf # << >> => c.buf[Len(c.buf)] < n)
    BY <1>2, OlderWait
  <2>2. CASE Len(c.buf) >= Capacity
    <3>1. Offer(c, n) = [c EXCEPT !.buf = << >>, !.over = TRUE]
      BY <1>2, <2>2 DEF Offer
    <3>2. Offer(c, n).over = TRUE
      BY <3>1 DEF Continuity
    <3> QED
      BY <3>2
  <2>3. CASE ~(Len(c.buf) >= Capacity)
    <3>1. Offer(c, n) = [c EXCEPT !.buf = Append(@, n)]
      BY <1>2, <2>3 DEF Offer
    <3>2. /\ Offer(c, n) \in Continuity /\ Stands(Offer(c, n), n) /\ ~Reliable(Offer(c, n))
          /\ Offer(c, n).buf = Append(c.buf, n) /\ Len(Offer(c, n).buf) = Len(c.buf) + 1
      BY <1>2, <2>1, <3>1, BufferStands
    <3>3. c.buf \in Seq(Nat) /\ Len(c.buf) + 1 <= Capacity
      BY <2>3, CapacityAssumption DEF Continuity
    <3> QED
      BY <1>2, <3>2, <3>3
  <2> QED
    BY <2>2, <2>3
<1> QED
  BY <1>1, <1>2

\* A candidate that follows in synchronize is accounted for or waits.
LEMMA ReplayStands ==
  ASSUME market \in {"spot", "usdm"}, NEW c \in Continuity, NEW p \in Nat, NEW n \in Nat,
         p < n, Stands(c, p)
  PROVE  /\ Replay(c, n) \in Continuity /\ Replay(c, n).over = c.over
         /\ Stands(Replay(c, n), n) /\ Len(Replay(c, n).buf) <= Len(c.buf) + 1
         /\ Reliable(c) /\ n = p + 1 => Reliable(Replay(c, n))
<1>1. CASE Reliable(c)
  <2>1. Replay(c, n) = Apply(c, n)
    BY <1>1 DEF Replay
  <2>2. c.buf = << >> /\ Len(c.buf) = 0
    BY <1>1 DEF Stands, Reliable
  <2> QED
    BY <1>1, <2>1, <2>2, ApplyStands
<1>2. CASE ~Reliable(c)
  <2>1. c.book = {} /\ Increasing(c.buf) /\ (c.buf # << >> => c.buf[Len(c.buf)] < n)
    BY <1>2, OlderWait
  <2>2. Replay(c, n) = [c EXCEPT !.buf = Append(@, n)]
    BY <1>2 DEF Replay
  <2>3. c.buf \in Seq(Nat) /\ Len(c.buf) \in Nat
    BY DEF Continuity
  <2>4. /\ Replay(c, n) \in Continuity /\ Replay(c, n).over = c.over
        /\ Stands(Replay(c, n), n) /\ Len(Replay(c, n).buf) = Len(c.buf) + 1
    BY <1>2, <2>1, <2>2, BufferStands
  <2> QED
    BY <1>2, <2>3, <2>4
<1> QED
  BY <1>1, <1>2

-----------------------------------------------------------------------------
(* The frames that synchronize keeps. *)

IsKept(d, buf, t, n) ==
  d = [i \in 0..n |-> IF i = 0 THEN << >>
                      ELSE IF LastId(buf[i]) >= t THEN Append(d[i - 1], buf[i]) ELSE d[i - 1]]

LEMMA KeptExists ==
  ASSUME NEW buf, NEW t, NEW n \in Nat
  PROVE  \E d : IsKept(d, buf, t, n)
<1> DEFINE Step(s, i) == IF LastId(buf[i]) >= t THEN Append(s, buf[i]) ELSE s
           Reached == {k \in 0..n : \E d : IsKept(d, buf, t, k)}
<1>1. 0 \in Reached
  <2> DEFINE d == [i \in 0..0 |-> << >>]
  <2>1. IsKept(d, buf, t, 0)
    BY DEF IsKept
  <2> QED
    BY <2>1
<1>2. ASSUME NEW k \in 1..n, k - 1 \in Reached
      PROVE  k \in Reached
  <2>1. PICK d : IsKept(d, buf, t, k - 1)
    BY <1>2
  <2> DEFINE g == [i \in 0..k |-> IF i = k THEN Step(d[k - 1], k) ELSE d[i]]
  <2>2. ASSUME NEW i \in 0..k
        PROVE  g[i] = IF i = 0 THEN << >> ELSE Step(g[i - 1], i)
    <3>1. CASE i = k
      <4> HIDE DEF Step
      <4>1. k # 0 /\ k - 1 \in 0..k /\ k - 1 # k
        OBVIOUS
      <4> QED
        BY <3>1, <4>1
    <3>2. CASE i # k
      <4>1. i \in 0..(k - 1)
        BY <3>2
      <4>2. d[i] = IF i = 0 THEN << >> ELSE Step(d[i - 1], i)
        BY <2>1, <4>1 DEF IsKept
      <4>3. i # 0 => i - 1 \in 0..k /\ i - 1 # k
        BY <4>1
      <4> HIDE DEF Step
      <4> QED
        BY <3>2, <4>2, <4>3
    <3> QED
      BY <3>1, <3>2
  <2>3. g = [i \in 0..k |-> IF i = 0 THEN << >> ELSE Step(g[i - 1], i)]
    <3> HIDE DEF Step
    <3> QED
      BY <2>2
  <2>4. IsKept(g, buf, t, k)
    BY <2>3 DEF IsKept
  <2> HIDE DEF g
  <2> QED
    BY <2>4
<1> HIDE DEF Reached
<1>3. n \in Reached
  BY <1>1, <1>2, CountingUp
<1> QED
  BY <1>3 DEF Reached

\* Of the first n frames of an increasing buffer, s holds in order those that reach t.
Chosen(s, buf, t, n) ==
  /\ s \in Seq(Nat) /\ Increasing(s) /\ Len(s) <= n
  /\ \A j \in 1..Len(s) : \E k \in 1..n : s[j] = buf[k] /\ LastId(buf[k]) >= t
  /\ \A k \in 1..n : LastId(buf[k]) >= t => In(buf[k], s)

LEMMA ChosenGrows ==
  ASSUME NEW buf \in Seq(Nat), Increasing(buf), NEW t \in Int, NEW n \in 1..Len(buf), NEW s,
         Chosen(s, buf, t, n - 1)
  PROVE  Chosen(IF LastId(buf[n]) >= t THEN Append(s, buf[n]) ELSE s, buf, t, n)
<1>1. s \in Seq(Nat) /\ Len(s) \in Nat /\ buf[n] \in Nat /\ n \in Nat /\ n - 1 \in Nat
  BY DEF Chosen
<1>2. CASE LastId(buf[n]) >= t
  <2> DEFINE s1 == Append(s, buf[n])
  <2>1. s # << >> => s[Len(s)] < buf[n]
    <3> SUFFICES ASSUME s # << >> PROVE s[Len(s)] < buf[n]
      OBVIOUS
    <3>1. Len(s) \in 1..Len(s)
      BY <1>1
    <3>2. PICK k \in 1..(n - 1) : s[Len(s)] = buf[k]
      BY <3>1 DEF Chosen
    <3>3. k \in DOMAIN buf /\ n \in DOMAIN buf /\ k < n
      BY <3>2
    <3> QED
      BY <3>2, <3>3 DEF Increasing
  <2>2. /\ s1 \in Seq(Nat) /\ Increasing(s1) /\ Len(s1) = Len(s) + 1 /\ s1[Len(s1)] = buf[n]
        /\ \A i \in 1..Len(s) : s1[i] = s[i]
    BY <1>1, <2>1, WaitingGrows DEF Chosen
  <2> HIDE DEF s1
  <2>3. Len(s1) <= n
    BY <1>1, <2>2 DEF Chosen
  <2>4. ASSUME NEW j \in 1..Len(s1) PROVE \E k \in 1..n : s1[j] = buf[k] /\ LastId(buf[k]) >= t
    <3>1. CASE j = Len(s1)
      <4>1. s1[j] = buf[n] /\ n \in 1..n
        BY <1>1, <2>2, <3>1
      <4> QED
        BY <1>2, <4>1
    <3>2. CASE j # Len(s1)
      <4>1. j \in 1..Len(s)
        BY <1>1, <2>2, <3>2
      <4>2. PICK k \in 1..(n - 1) : s[j] = buf[k] /\ LastId(buf[k]) >= t
        BY <4>1 DEF Chosen
      <4>3. k \in 1..n
        BY <1>1, <4>2
      <4>4. s1[j] = s[j]
        BY <2>2, <4>1
      <4> QED
        BY <4>2, <4>3, <4>4
    <3> QED
      BY <3>1, <3>2
  <2>5. ASSUME NEW k \in 1..n, LastId(buf[k]) >= t PROVE In(buf[k], s1)
    <3>1. CASE k = n
      <4>1. Len(s1) \in DOMAIN s1
        BY <1>1, <2>2
      <4> QED
        BY <2>2, <3>1, <4>1 DEF In
    <3>2. CASE k # n
      <4>1. k \in 1..(n - 1)
        BY <1>1, <3>2
      <4>2. PICK i \in DOMAIN s : s[i] = buf[k]
        BY <2>5, <4>1 DEF Chosen, In
      <4>3. i \in 1..Len(s)
        BY <1>1, <4>2
      <4>4. DOMAIN s1 = 1..Len(s1) /\ i \in 1..Len(s1)
        BY <1>1, <2>2, <4>3
      <4> QED
        BY <2>2, <4>2, <4>3, <4>4 DEF In
    <3> QED
      BY <3>1, <3>2
  <2>6. Chosen(s1, buf, t, n)
    BY <2>2, <2>3, <2>4, <2>5 DEF Chosen
  <2> QED
    BY <1>2, <2>6 DEF s1
<1>3. CASE ~(LastId(buf[n]) >= t)
  <2>1. ASSUME NEW k \in 1..n, LastId(buf[k]) >= t PROVE In(buf[k], s)
    <3>1. k # n
      BY <1>3, <2>1
    <3>2. k \in 1..(n - 1)
      BY <1>1, <3>1
    <3> QED
      BY <2>1, <3>2 DEF Chosen
  <2>2. \A j \in 1..Len(s) : \E k \in 1..n : s[j] = buf[k] /\ LastId(buf[k]) >= t
    <3>1. 1..(n - 1) \subseteq 1..n
      BY <1>1
    <3> QED
      BY <3>1 DEF Chosen
  <2>3. Len(s) <= n
    BY <1>1 DEF Chosen
  <2>4. Chosen(s, buf, t, n)
    BY <2>1, <2>2, <2>3 DEF Chosen
  <2> QED
    BY <1>3, <2>4
<1> QED
  BY <1>2, <1>3

LEMMA CandidatesChosen ==
  ASSUME NEW c \in Continuity, Increasing(c.buf), NEW id \in Nat
  PROVE  Chosen(Candidates(c, id), c.buf, Target(id), Len(c.buf))
<1> DEFINE buf == c.buf
           t == Target(id)
           n == Len(buf)
           d == CHOOSE f : IsKept(f, buf, t, n)
           Fine == {i \in 0..n : Chosen(d[i], buf, t, i)}
<1>1. buf \in Seq(Nat) /\ n \in Nat /\ t \in Int
  BY DEF Continuity, Target
<1>2. IsKept(d, buf, t, n)
  BY <1>1, KeptExists
<1>3. Candidates(c, id) = d[n]
  BY DEF Candidates, IsKept
<1> HIDE DEF d
<1>4. 0 \in Fine
  <2>1. d[0] = << >>
    BY <1>1, <1>2 DEF IsKept
  <2>2. Chosen(<< >>, buf, t, 0)
    BY DEF Chosen, Increasing
  <2> QED
    BY <1>1, <2>1, <2>2
<1>5. ASSUME NEW i \in 1..n, i - 1 \in Fine
      PROVE  i \in Fine
  <2>1. d[i] = IF LastId(buf[i]) >= t THEN Append(d[i - 1], buf[i]) ELSE d[i - 1]
    <3>1. i \in 0..n /\ i # 0
      BY <1>1
    <3> HIDE DEF n
    <3> QED
      BY <1>2, <3>1 DEF IsKept
  <2>2. Chosen(d[i - 1], buf, t, i - 1) /\ i \in 0..n
    BY <1>1, <1>5
  <2> HIDE DEF t
  <2>3. Chosen(d[i], buf, t, i)
    BY <1>1, <2>1, <2>2, ChosenGrows
  <2> QED
    BY <2>2, <2>3
<1> HIDE DEF Fine, n
<1>6. \A i \in 1..n : i - 1 \in Fine => i \in Fine
  BY <1>5
<1>7. n \in Nat /\ n \in 0..n
  BY <1>1
<1>8. n \in Fine
  BY ONLY <1>4, <1>6, <1>7, CountingUp
<1> QED
  BY <1>3, <1>8 DEF Fine, n

\* If any frame is kept, the newest is, and it is the last.
LEMMA NewestIsChosen ==
  ASSUME NEW buf \in Seq(Nat), Increasing(buf), NEW t \in Int, NEW s,
         Chosen(s, buf, t, Len(buf))
  PROVE  /\ s # << >> => s[Len(s)] = buf[Len(buf)] /\ LastId(buf[Len(buf)]) >= t
         /\ s = << >> => (buf # << >> => LastId(buf[Len(buf)]) < t)
<1>1. s \in Seq(Nat) /\ Len(s) \in Nat /\ Len(buf) \in Nat
  BY DEF Chosen
<1>2. ASSUME s # << >> PROVE s[Len(s)] = buf[Len(buf)] /\ LastId(buf[Len(buf)]) >= t
  <2>1. Len(s) \in 1..Len(s) /\ Len(s) \in DOMAIN s
    BY <1>1, <1>2
  <2>2. PICK k \in 1..Len(buf) : s[Len(s)] = buf[k] /\ LastId(buf[k]) >= t
    BY <2>1 DEF Chosen
  <2>3. buf[k] \in Nat /\ buf[Len(buf)] \in Nat /\ Len(buf) \in 1..Len(buf)
        /\ k \in DOMAIN buf /\ Len(buf) \in DOMAIN buf
    BY <1>1, <2>2
  <2>4. buf[k] <= buf[Len(buf)]
    <3>1. k = Len(buf) \/ k < Len(buf)
      BY <1>1, <2>2
    <3> QED
      BY <2>3, <3>1 DEF Increasing
  <2>5. LastId(buf[k]) <= LastId(buf[Len(buf)])
    <3>1. buf[k] \in Int /\ buf[Len(buf)] \in Int
      BY <2>3
    <3> QED
      BY <2>4, <3>1, ChangeNumbers
  <2>6. LastId(buf[k]) \in Nat /\ LastId(buf[Len(buf)]) \in Nat
    BY <2>3, Positive
  <2>7. LastId(buf[Len(buf)]) >= t
    BY <2>2, <2>5, <2>6
  <2>8. PICK j \in DOMAIN s : s[j] = buf[Len(buf)]
    BY <2>3, <2>7 DEF Chosen, In
  <2>9. s[j] <= s[Len(s)]
    <3>1. j \in 1..Len(s) /\ s[j] \in Nat
      BY <1>1, <2>8
    <3>2. j = Len(s) \/ j < Len(s)
      BY <1>1, <3>1
    <3>3. Increasing(s) /\ s[Len(s)] \in Nat
      BY <1>1, <2>1 DEF Chosen
    <3>4. j < Len(s) => s[j] < s[Len(s)]
      BY <2>1, <2>8, <3>3 DEF Increasing
    <3> QED
      BY <3>1, <3>2, <3>3, <3>4
  <2> QED
    BY <2>2, <2>3, <2>4, <2>7, <2>8, <2>9
<1>3. ASSUME s = << >>, buf # << >> PROVE LastId(buf[Len(buf)]) < t
  <2>1. Len(buf) \in 1..Len(buf) /\ buf[Len(buf)] \in Nat
    BY <1>1, <1>3
  <2>2. ~In(buf[Len(buf)], s)
    BY <1>3 DEF In
  <2>3. ~(LastId(buf[Len(buf)]) >= t)
    BY <2>1, <2>2 DEF Chosen
  <2>4. LastId(buf[Len(buf)]) \in Nat
    BY <2>1, Positive
  <2> QED
    BY <2>3, <2>4
<1> QED
  BY <1>2, <1>3

-----------------------------------------------------------------------------
(* The bridge over the frames that synchronize keeps. *)

BridgeStart(id, n) ==
  [buf |-> << >>, rel |-> LastId(n), over |-> FALSE, book |-> (1..id) \cup FirstId(n)..LastId(n)]

IsReplayed(d, start, cs, n) ==
  d = [i \in 1..n |-> IF i = 1 THEN start ELSE Replay(d[i - 1], cs[i])]

LEMMA ReplayedExists ==
  ASSUME NEW start, NEW cs, NEW n \in Nat
  PROVE  \E d : IsReplayed(d, start, cs, n)
<1> DEFINE Reached == {k \in 0..n : \E d : IsReplayed(d, start, cs, k)}
<1>1. 0 \in Reached
  <2> DEFINE d == [i \in 1..0 |-> start]
  <2>1. d = [i \in 1..0 |-> IF i = 1 THEN start ELSE Replay(d[i - 1], cs[i])]
    OBVIOUS
  <2>2. IsReplayed(d, start, cs, 0)
    BY <2>1 DEF IsReplayed
  <2> HIDE DEF d
  <2> QED
    BY <2>2
<1>2. ASSUME NEW k \in 1..n, k - 1 \in Reached
      PROVE  k \in Reached
  <2>1. PICK d : IsReplayed(d, start, cs, k - 1)
    BY <1>2
  <2> DEFINE g == [i \in 1..k |-> IF i = k THEN (IF k = 1 THEN start ELSE Replay(d[k - 1], cs[k]))
                                  ELSE d[i]]
  <2>2. ASSUME NEW i \in 1..k
        PROVE  g[i] = IF i = 1 THEN start ELSE Replay(g[i - 1], cs[i])
    <3>1. CASE i = k
      <4>1. k # 1 => k - 1 \in 1..k /\ k - 1 # k
        OBVIOUS
      <4> QED
        BY <3>1, <4>1
    <3>2. CASE i # k
      <4>1. i \in 1..(k - 1)
        BY <3>2
      <4>2. d[i] = IF i = 1 THEN start ELSE Replay(d[i - 1], cs[i])
        BY <2>1, <4>1 DEF IsReplayed
      <4>3. i # 1 => i - 1 \in 1..k /\ i - 1 # k
        BY <4>1
      <4> QED
        BY <3>2, <4>2, <4>3
    <3> QED
      BY <3>1, <3>2
  <2>3. g = [i \in 1..k |-> IF i = 1 THEN start ELSE Replay(g[i - 1], cs[i])]
    BY <2>2
  <2>4. IsReplayed(g, start, cs, k)
    BY <2>3 DEF IsReplayed
  <2> HIDE DEF g
  <2> QED
    BY <2>4
<1> HIDE DEF Reached
<1>3. n \in Reached
  BY <1>1, <1>2, CountingUp
<1> QED
  BY <1>3 DEF Reached

\* The snapshot and the frame that carries the change after it leave out nothing.
LEMMA BridgeStartStands ==
  ASSUME market \in {"spot", "usdm"}, NEW id \in Nat, id >= 1, NEW n \in Nat, Covers(n, id)
  PROVE  /\ BridgeStart(id, n) \in Continuity /\ Stands(BridgeStart(id, n), n)
         /\ Reliable(BridgeStart(id, n)) /\ n >= 1
<1>1. n \in Int /\ LastId(n) \in Nat /\ FirstId(n) = LastId(n - 1) + 1 /\ LastId(n - 1) \in Int
  <2>1. n \in Int /\ n - 1 \in Int
    OBVIOUS
  <2> QED
    BY <2>1, ChangeNumbers
<1>2. Target(id) \in {id, id + 1} /\ FirstId(n) <= Target(id) /\ Target(id) <= LastId(n)
  BY DEF Covers, Target
<1>3. n >= 1
  <2>1. LastId(0) = 0
    BY ChangeNumbers
  <2> QED
    BY <1>2, <2>1
<1>4. LastId(n - 1) \in Nat
  <2>1. n - 1 \in Nat
    BY <1>3
  <2> QED
    BY <2>1, ChangeNumbers
<1>5. (1..id) \cup (FirstId(n)..LastId(n)) = 1..LastId(n)
  BY <1>1, <1>2, <1>4
<1>6. << >> \in Seq(Nat) /\ 1..LastId(n) \in SUBSET Nat
  BY <1>1
<1>7. LastId(n) # NoId
  BY <1>3, Positive
<1> QED
  BY <1>1, <1>3, <1>5, <1>6, <1>7 DEF BridgeStart, Continuity, Stands, Reliable

LEMMA BridgedStands ==
  ASSUME market \in {"spot", "usdm"}, NEW id \in Nat, id >= 1, NEW cs \in Seq(Nat),
         cs # << >>, Increasing(cs), Covers(cs[1], id)
  PROVE  /\ Bridged(id, cs) \in Continuity /\ ~Bridged(id, cs).over
         /\ Stands(Bridged(id, cs), cs[Len(cs)])
         /\ Len(Bridged(id, cs).buf) <= Len(cs)
         /\ (\A i \in 2..Len(cs) : cs[i] = cs[i - 1] + 1) => Reliable(Bridged(id, cs))
<1> DEFINE n == Len(cs)
           start == BridgeStart(id, cs[1])
           d == CHOOSE f : IsReplayed(f, start, cs, n)
           Good(i) == /\ d[i] \in Continuity /\ ~d[i].over /\ Stands(d[i], cs[i])
                      /\ Len(d[i].buf) <= i
                      /\ (\A k \in 2..i : cs[k] = cs[k - 1] + 1) => Reliable(d[i])
           Fine == {i \in 0..n : i >= 1 => Good(i)}
<1>1. n \in Nat /\ n >= 1 /\ DOMAIN cs = 1..n /\ \A i \in 1..n : cs[i] \in Nat
  OBVIOUS
<1>2. IsReplayed(d, start, cs, n)
  BY <1>1, ReplayedExists
<1>3. Bridged(id, cs) = d[n]
  BY DEF Bridged, IsReplayed, BridgeStart
<1> HIDE DEF d
<1>4. 0 \in Fine
  BY <1>1
<1>5. ASSUME NEW i \in 1..n, i - 1 \in Fine
      PROVE  i \in Fine
  <2>1. d[i] = IF i = 1 THEN start ELSE Replay(d[i - 1], cs[i])
    <3> HIDE DEF n, start
    <3> QED
      BY <1>2 DEF IsReplayed
  <2>2. i \in 0..n /\ cs[i] \in Nat
    BY <1>1
  <2>3. CASE i = 1
    <3>1. /\ start \in Continuity /\ Stands(start, cs[1]) /\ Reliable(start)
      BY <2>2, <2>3, BridgeStartStands
    <3>2. ~start.over /\ Len(start.buf) = 0
      BY DEF BridgeStart
    <3> HIDE DEF start
    <3>3. Good(1)
      BY <2>1, <2>3, <3>1, <3>2
    <3> HIDE DEF Good
    <3> QED
      BY <2>2, <2>3, <3>3
  <2>4. CASE i # 1
    <3>1. i - 1 \in 1..n /\ cs[i - 1] \in Nat /\ i - 1 \in Nat /\ i \in Nat
      BY <1>1, <2>4
    <3>2. Good(i - 1)
      BY <1>5, <3>1
    <3>3. cs[i - 1] < cs[i]
      BY <1>1, <3>1 DEF Increasing
    <3>4. d[i] = Replay(d[i - 1], cs[i])
      BY <2>1, <2>4
    <3>5. /\ Replay(d[i - 1], cs[i]) \in Continuity /\ Replay(d[i - 1], cs[i]).over = d[i - 1].over
          /\ Stands(Replay(d[i - 1], cs[i]), cs[i])
          /\ Len(Replay(d[i - 1], cs[i]).buf) <= Len(d[i - 1].buf) + 1
          /\ Reliable(d[i - 1]) /\ cs[i] = cs[i - 1] + 1 => Reliable(Replay(d[i - 1], cs[i]))
      BY <2>2, <3>1, <3>2, <3>3, ReplayStands
    <3>6. d[i].buf \in Seq(Nat) /\ d[i - 1].buf \in Seq(Nat)
      BY <3>2, <3>4, <3>5 DEF Continuity
    <3>7. Len(d[i].buf) <= i
      <4>1. Len(d[i].buf) \in Nat /\ Len(d[i - 1].buf) \in Nat
        BY <3>6
      <4>2. Len(d[i].buf) <= Len(d[i - 1].buf) + 1
        BY <3>4, <3>5
      <4>3. Len(d[i - 1].buf) <= i - 1
        BY <3>2
      <4>4. \A a, b, k \in Nat : a <= b + 1 /\ b <= k - 1 => a <= k
        OBVIOUS
      <4>5. i \in Nat
        BY <3>1
      <4> QED
        BY ONLY <4>1, <4>2, <4>3, <4>4, <4>5, Zenon
    <3>8. ASSUME \A k \in 2..i : cs[k] = cs[k - 1] + 1 PROVE Reliable(d[i])
      <4>1. 2..(i - 1) \subseteq 2..i /\ i \in 2..i
        BY <2>4, <3>1
      <4> QED
        BY <3>2, <3>4, <3>5, <3>8, <4>1
    <3>9. Good(i)
      BY <3>2, <3>4, <3>5, <3>7, <3>8
    <3> HIDE DEF Good
    <3> QED
      BY <2>2, <3>9
  <2> QED
    BY <2>3, <2>4
<1>6. n \in Nat /\ n \in 0..n /\ n >= 1
  BY <1>1
<1> HIDE DEF Fine, n
<1>7. \A i \in 1..n : i - 1 \in Fine => i \in Fine
  BY <1>5
<1>8. n \in Fine
  BY ONLY <1>4, <1>6, <1>7, CountingUp
<1>9. Good(n)
  <2> HIDE DEF Good
  <2> QED
    BY <1>6, <1>8 DEF Fine
<1> QED
  BY <1>3, <1>9 DEF n

\* Of the frames up to p, all that reach t are in the buffer.
HeardAll(buf, p, t) == \A m \in 1..p : LastId(m) >= t => In(m, buf)

\* If none is missing, the frames that are kept follow each other, and the one
\* before the first does not reach the target.
LEMMA HeardFramesFollow ==
  ASSUME NEW buf \in Seq(Nat), NEW t \in Int, NEW p \in Nat, NEW s,
         Chosen(s, buf, t, Len(buf)), s # << >>, s[Len(s)] = p, HeardAll(buf, p, t)
  PROVE  /\ \A i \in 2..Len(s) : s[i] = s[i - 1] + 1
         /\ s[1] - 1 >= 1 => LastId(s[1] - 1) < t
<1>1. s \in Seq(Nat) /\ Len(s) \in Nat /\ Len(s) >= 1 /\ DOMAIN s = 1..Len(s) /\ Len(buf) \in Nat
      /\ DOMAIN buf = 1..Len(buf)
  BY DEF Chosen
<1>2. \A i \in 1..Len(s) : s[i] \in Nat
  BY <1>1
<1>3. \A i, j \in 1..Len(s) : s[i] < s[j] => i < j
  <2> SUFFICES ASSUME NEW i \in 1..Len(s), NEW j \in 1..Len(s), s[i] < s[j] PROVE i < j
    OBVIOUS
  <2>1. j < i => s[j] < s[i]
    BY <1>1 DEF Chosen, Increasing
  <2>2. i = j \/ j < i \/ i < j
    BY <1>1
  <2> QED
    BY <1>2, <2>1, <2>2
<1>4. \A i \in 1..Len(s) : s[i] <= p
  <2> SUFFICES ASSUME NEW i \in 1..Len(s) PROVE s[i] <= p
    OBVIOUS
  <2>1. Len(s) \in 1..Len(s) /\ (i < Len(s) \/ i = Len(s))
    <3> DEFINE n == Len(s)
    <3>1. n \in Nat /\ n >= 1 /\ i \in 1..n
      BY <1>1
    <3> HIDE DEF n
    <3>2. n \in 1..n /\ (i < n \/ i = n)
      BY <3>1
    <3> QED
      BY <3>2 DEF n
  <2>2. i < Len(s) => s[i] < s[Len(s)]
    BY <1>1, <2>1 DEF Chosen, Increasing
  <2> QED
    BY <1>2, <2>1, <2>2
<1>5. ASSUME NEW m \in 1..p, LastId(m) >= t PROVE \E j \in 1..Len(s) : s[j] = m
  <2>1. PICK k \in DOMAIN buf : buf[k] = m
    BY <1>5 DEF HeardAll, In
  <2>2. k \in 1..Len(buf) /\ LastId(buf[k]) >= t
    BY <1>1, <1>5, <2>1
  <2>3. In(buf[k], s)
    BY <2>2 DEF Chosen
  <2> QED
    BY <1>1, <2>1, <2>3 DEF In
<1>6. ASSUME NEW i \in 2..Len(s) PROVE s[i] = s[i - 1] + 1
  <2>1. i \in 1..Len(s) /\ i - 1 \in 1..Len(s) /\ i - 1 < i /\ s[i] \in Nat /\ s[i - 1] \in Nat
    BY <1>1, <1>2
  <2>2. s[i - 1] < s[i] /\ s[i] <= p
    BY <1>1, <1>4, <2>1 DEF Chosen, Increasing
  <2>3. SUFFICES ASSUME s[i - 1] + 1 < s[i] PROVE FALSE
    BY <2>1, <2>2
  <2> DEFINE m == s[i - 1] + 1
  <2>4. m \in 1..p /\ s[i - 1] < m /\ m < s[i] /\ m \in Int /\ s[i - 1] \in Int
    BY <2>1, <2>2, <2>3
  <2>5. PICK k \in 1..Len(buf) : s[i - 1] = buf[k] /\ LastId(buf[k]) >= t
    BY <2>1 DEF Chosen
  <2> HIDE DEF m
  <2>6. LastId(s[i - 1]) \in Int /\ LastId(m) \in Int /\ LastId(s[i - 1]) < LastId(m)
    BY <2>4, ChangeNumbers
  <2>7. LastId(m) >= t
    BY <2>5, <2>6
  <2>8. PICK j \in 1..Len(s) : s[j] = m
    BY <1>5, <2>4, <2>7
  <2>9. i - 1 < j /\ j < i
    BY <1>3, <2>1, <2>4, <2>8
  <2> QED
    BY <2>1, <2>8, <2>9
<1>7. ASSUME s[1] - 1 >= 1 PROVE LastId(s[1] - 1) < t
  <2>1. 1 \in 1..Len(s) /\ s[1] \in Nat /\ s[1] <= p
    BY <1>1, <1>2, <1>4
  <2>2. s[1] - 1 \in 1..p /\ s[1] - 1 \in Int
    BY <1>7, <2>1
  <2>9. LastId(s[1] - 1) \in Int
    BY <2>2, ChangeNumbers
  <2>3. SUFFICES ASSUME LastId(s[1] - 1) >= t PROVE FALSE
    BY <2>9
  <2>4. PICK j \in 1..Len(s) : s[j] = s[1] - 1
    BY <1>5, <2>2, <2>3
  <2>5. s[j] < s[1]
    BY <2>1, <2>4
  <2>6. j < 1
    BY <1>3, <2>1, <2>5
  <2> QED
    BY <2>4, <2>6
<1> QED
  BY <1>6, <1>7

\* synchronize of a sequence that is not reliable.
LEMMA SynchronizeStands ==
  ASSUME market \in {"spot", "usdm"}, NEW c \in Continuity, ~c.over, Len(c.buf) <= Capacity,
         NEW p \in Nat, Blank(c) \/ Stands(c, p), ~Reliable(c), NEW id \in Nat, id >= 1,
         NEW s, s = Synchronize(c, id)
  PROVE  /\ s.c \in Continuity /\ ~s.c.over /\ Len(s.c.buf) <= Capacity
         /\ s.result = "NEED_MORE_EVENTS" =>
              Blank(s.c) /\ (c.buf # << >> => LastId(p) < Target(id)) /\ ~GivesUp(s.result)
         /\ s.result # "NEED_MORE_EVENTS" =>
              /\ c.buf # << >> /\ Stands(s.c, p) /\ LastId(p) >= Target(id)
              /\ GivesUp(s.result) <=> ~Reliable(s.c)
              /\ HeardAll(c.buf, p, Target(id)) => Reliable(s.c)
<1> DEFINE cs == Candidates(c, id)
           b == Bridged(id, cs)
           t == Target(id)
<1>1. c.buf \in Seq(Nat) /\ Increasing(c.buf) /\ c.book = {} /\ c.rel = NoId /\ Len(c.buf) \in Nat
      /\ (c.buf # << >> => Stands(c, p) /\ c.buf[Len(c.buf)] = p) /\ t \in Int
  <2>1. c.rel = NoId
    BY DEF Reliable
  <2>2. ~(c.rel = LastId(p) /\ p >= 1)
    BY <2>1, Positive
  <2>3. c.buf \in Seq(Nat) /\ t \in Int
    BY DEF Continuity, Target
  <2> QED
    BY <2>1, <2>2, <2>3 DEF Blank, Stands, Increasing
<1>2. Chosen(cs, c.buf, t, Len(c.buf))
  BY <1>1, CandidatesChosen
<1>3. cs \in Seq(Nat) /\ Increasing(cs) /\ Len(cs) <= Len(c.buf) /\ Len(cs) \in Nat
  BY <1>2 DEF Chosen
<1>4. /\ cs # << >> => cs[Len(cs)] = c.buf[Len(c.buf)] /\ LastId(c.buf[Len(c.buf)]) >= t
      /\ cs = << >> => (c.buf # << >> => LastId(c.buf[Len(c.buf)]) < t)
  <2> HIDE DEF cs, t
  <2> QED
    BY <1>1, <1>2, NewestIsChosen
<1>5. s = IF cs = << >> THEN [c |-> [c EXCEPT !.buf = << >>], result |-> "NEED_MORE_EVENTS"]
          ELSE IF ~Covers(cs[1], id) THEN [c |-> c, result |-> "SNAPSHOT_TOO_OLD"]
          ELSE [c |-> b, result |-> IF Reliable(b) THEN "SYNCHRONIZED" ELSE "SEQUENCE_GAP"]
  BY DEF Synchronize
<1> HIDE DEF cs, b
<1>6. CASE cs = << >>
  <2>1. s.c = [c EXCEPT !.buf = << >>] /\ s.result = "NEED_MORE_EVENTS"
    BY <1>5, <1>6
  <2>2. << >> \in Seq(Nat) /\ Len(<< >>) = 0
    OBVIOUS
  <2>3. s.c \in Continuity /\ ~s.c.over /\ s.c.rel = NoId /\ s.c.book = {} /\ s.c.buf = << >>
    BY <1>1, <2>1, <2>2 DEF Continuity
  <2>4. Len(s.c.buf) <= Capacity
    BY <2>2, <2>3, CapacityAssumption
  <2> QED
    BY <1>1, <1>4, <1>6, <2>1, <2>3, <2>4 DEF Blank, GivesUp
<1>7. CASE cs # << >>
  <2>1. c.buf # << >>
    BY <1>1, <1>3, <1>7
  <2>2. cs[Len(cs)] = p /\ LastId(p) >= t /\ Stands(c, p) /\ c.buf[Len(c.buf)] = p
    BY <1>1, <1>4, <1>7, <2>1
  <2>3. cs[1] \in Nat
    BY <1>3, <1>7
  <2>4. ASSUME HeardAll(c.buf, p, t)
        PROVE  /\ \A i \in 2..Len(cs) : cs[i] = cs[i - 1] + 1
               /\ cs[1] - 1 >= 1 => LastId(cs[1] - 1) < t
    <3> HIDE DEF t
    <3> QED
      BY <1>1, <1>2, <1>7, <2>2, <2>4, HeardFramesFollow
  <2>5. CASE ~Covers(cs[1], id)
    <3>1. s.c = c /\ s.result = "SNAPSHOT_TOO_OLD"
      BY <1>5, <1>7, <2>5
    <3>2. ~HeardAll(c.buf, p, t)
      <4>1. SUFFICES ASSUME HeardAll(c.buf, p, t) PROVE Covers(cs[1], id)
        BY <2>5
      <4>2. 1 \in 1..Len(cs)
        BY <1>3, <1>7
      <4>3. t <= LastId(cs[1])
        <5>1. PICK k \in 1..Len(c.buf) : cs[1] = c.buf[k] /\ LastId(c.buf[k]) >= t
          BY <1>2, <4>2 DEF Chosen
        <5>2. LastId(cs[1]) \in Nat
          BY <2>3, Positive
        <5> QED
          BY <1>1, <5>1, <5>2
      <4>4. FirstId(cs[1]) = LastId(cs[1] - 1) + 1 /\ LastId(cs[1] - 1) \in Int
        <5>1. cs[1] \in Int /\ cs[1] - 1 \in Int
          BY <2>3
        <5> QED
          BY <5>1, ChangeNumbers
      <4>5. CASE cs[1] - 1 >= 1
        BY <1>1, <2>4, <4>1, <4>3, <4>4, <4>5 DEF Covers
      <4>6. CASE ~(cs[1] - 1 >= 1)
        <5>1. cs[1] - 1 <= 0 /\ cs[1] - 1 \in Int /\ 0 \in Int
          BY <2>3, <4>6
        <5>2. LastId(cs[1] - 1) <= 0
          <6>1. LastId(cs[1] - 1) <= LastId(0) /\ LastId(0) = 0
            BY <5>1, ChangeNumbers
          <6> QED
            BY <6>1
        <5>3. t >= 1
          BY DEF Target
        <5> QED
          BY <1>1, <4>3, <4>4, <5>2, <5>3 DEF Covers
      <4> QED
        BY <4>5, <4>6
    <3> QED
      BY <2>1, <2>2, <3>1, <3>2 DEF GivesUp
  <2>6. CASE Covers(cs[1], id)
    <3>1. s.c = b /\ s.result = IF Reliable(b) THEN "SYNCHRONIZED" ELSE "SEQUENCE_GAP"
      BY <1>5, <1>7, <2>6
    <3>2. /\ b \in Continuity /\ ~b.over /\ Stands(b, cs[Len(cs)]) /\ Len(b.buf) <= Len(cs)
          /\ (\A i \in 2..Len(cs) : cs[i] = cs[i - 1] + 1) => Reliable(b)
      BY <1>3, <1>7, <2>6, BridgedStands DEF b
    <3>3. Len(b.buf) <= Capacity
      <4>1. Len(b.buf) \in Nat
        BY <3>2 DEF Continuity
      <4> QED
        BY <1>1, <1>3, <3>2, <4>1, CapacityAssumption
    <3>4. s.result # "NEED_MORE_EVENTS" /\ (GivesUp(s.result) <=> ~Reliable(b))
      BY <3>1 DEF GivesUp
    <3> QED
      BY <2>1, <2>2, <2>4, <3>1, <3>2, <3>3, <3>4
  <2> QED
    BY <2>5, <2>6
<1> QED
  BY <1>6, <1>7

-----------------------------------------------------------------------------
(* The inductive invariant of Depth. *)

\* The sequence is the one of the frame persisted last.
ContOK == ~cont.over /\ (Blank(cont) \/ (Stands(cont, newest.n) /\ newest.good))

\* Frames are persisted in the order in which they were sent.
QueueOK ==
  /\ newest.n <= exch
  /\ \A i \in 1..Len(queue) : newest.n < queue[i].n /\ queue[i].n <= exch
  /\ \A i, j \in 1..Len(queue) : i < j => queue[i].n < queue[j].n

\* An answer is not older than its request and at most a frame ahead of the stream.
PollOK ==
  /\ poll.st = "wire" => poll.lo >= 1 /\ poll.lo <= LastId(exch)
  /\ poll.st = "persist" => poll.id >= 1 /\ poll.id < LastId(exch) + Width
  /\ snap < LastId(exch) + Width

\* The first frame of a run waits for a snapshot that will not be too old.
Awaiting ==
  /\ snap = NoId /\ poll.st # "idle" /\ cont.buf # << >>
  /\ poll.st = "wire" => HeardAll(cont.buf, newest.n, poll.lo)
  /\ poll.st = "persist" => HeardAll(cont.buf, newest.n, poll.id)

\* A snapshot ahead of the stream waits for the frame that reaches it.
Ahead == /\ poll.st = "idle" /\ snap # NoId /\ cont.buf = << >>
         /\ Target(snap) > LastId(newest.n)

\* The frame that is persisted next reaches it, or does not count.
NextReaches ==
  \/ Target(snap) <= LastId(newest.n + 1)
  \/ queue = << >> /\ exch > newest.n
  \/ queue # << >> /\ queue[1].n # newest.n + 1

RunOK ==
  streak >= 1 /\ ~Reliable(cont) =>
    \/ streak = 1 /\ Awaiting
    \/ streak = 1 /\ Ahead
    \/ streak = 2 /\ Ahead /\ NextReaches

DepthInv == TypeOK /\ ContOK /\ QueueOK /\ PollOK /\ SnapshotOwed /\ RunOK

LEMMA DepthTypes ==
  ASSUME TypeOK
  PROVE  /\ market \in {"spot", "usdm"} /\ exch \in Nat /\ exch >= 1 /\ snap \in Nat
         /\ cont \in Continuity /\ Len(cont.buf) <= Capacity /\ poll \in Poll
         /\ newest \in Frame /\ newest.n \in Nat /\ queue \in Seq(Frame) /\ Len(queue) \in Nat
         /\ \A i \in 1..Len(queue) : queue[i].n \in Nat
         /\ streak \in Nat /\ LastId(exch) \in Nat /\ LastId(newest.n) \in Nat
         /\ ~Reliable(cont) => cont.rel = NoId
<1>1. /\ market \in {"spot", "usdm"} /\ exch \in Nat /\ exch >= 1 /\ snap \in Nat
      /\ cont \in Continuity /\ Len(cont.buf) <= Capacity /\ poll \in Poll
      /\ newest \in Frame /\ queue \in Seq(Frame) /\ streak \in Nat
  BY MarketsAssumption, BoundsAssumption DEF TypeOK
<1>2. newest.n \in Nat
  BY <1>1 DEF Frame
<1>3. Len(queue) \in Nat /\ \A i \in 1..Len(queue) : queue[i] \in Frame
  BY <1>1
<1>4. \A i \in 1..Len(queue) : queue[i].n \in Nat
  BY <1>3 DEF Frame
<1>5. LastId(exch) \in Nat /\ LastId(newest.n) \in Nat
  BY <1>1, <1>2, ChangeNumbers
<1>6. ~Reliable(cont) => cont.rel = NoId
  BY DEF Reliable
<1> QED
  BY <1>1, <1>2, <1>3, <1>4, <1>5, <1>6

LEMMA DepthInvInit == Init => DepthInv
<1> SUFFICES ASSUME Init PROVE DepthInv
  OBVIOUS
<1>1. TypeOK
  <2>1. << >> \in Seq(Nat) /\ << >> \in Seq(Frame) /\ Len(<< >>) = 0 /\ {} \in SUBSET Nat
        /\ 0 <= QueueCap /\ 0 <= Capacity /\ 0 \in 0..MaxConns /\ 0 \in 0..MaxFaults
        /\ 1 \in 1..MaxUpdates
    BY CapacityAssumption, BoundsAssumption
  <2>2. cont \in Continuity /\ Len(cont.buf) <= Capacity
    BY <2>1 DEF Init, NewContinuity, Continuity, NoId
  <2>3. poll \in Poll /\ newest \in Frame
    BY DEF Init, Poll, Frame, NoFrame, NoId
  <2>4. queue \in Seq(Frame) /\ Len(queue) <= QueueCap
    BY <2>1 DEF Init
  <2>5. /\ market \in Markets /\ exch \in 1..MaxUpdates /\ conn \in 0..MaxConns /\ up \in BOOLEAN
        /\ ready \in [seen : BOOLEAN, snapped : BOOLEAN] /\ snap \in Nat /\ streak \in Nat
        /\ faults \in 0..MaxFaults
    BY <2>1 DEF Init, NoId
  <2> QED
    BY <2>2, <2>3, <2>4, <2>5 DEF TypeOK
<1>2. ContOK
  BY DEF Init, ContOK, Blank, NewContinuity
<1>3. QueueOK
  <2>1. Len(queue) = 0 /\ newest.n = 0 /\ exch = 1
    BY DEF Init, NoFrame
  <2> QED
    BY <2>1 DEF QueueOK
<1>4. PollOK
  <2>1. poll.st = "due" /\ snap = 0
    BY DEF Init, NoId
  <2>2. LastId(exch) \in Nat /\ Width >= 1 /\ Width \in Nat
    BY <1>1, DepthTypes, ChangeNumbers
  <2> QED
    BY <2>1, <2>2 DEF PollOK
<1>5. SnapshotOwed /\ RunOK
  <2>1. poll.st = "due" /\ streak = 0
    BY DEF Init
  <2> QED
    BY <2>1 DEF SnapshotOwed, RunOK
<1> QED
  BY <1>1, <1>2, <1>3, <1>4, <1>5 DEF DepthInv

\* What the recorder holds stays true while the exchange goes on.
LEMMA CaptureStays ==
  ASSUME DepthInv, UNCHANGED <<market, capture, poll>>, streak' = streak, exch' \in {exch, exch + 1},
         NextReaches => NextReaches'
  PROVE  ContOK' /\ PollOK' /\ SnapshotOwed' /\ RunOK'
<1>1. UNCHANGED <<market, cont, ready, snap, newest, poll>>
  BY DEF capture
<1>2. exch \in Int /\ LastId(exch + 1) = LastId(exch) + Width /\ Width \in Nat /\ LastId(exch) \in Nat
      /\ snap \in Nat /\ poll \in Poll
  <2>1. exch \in Int /\ LastId(exch) \in Nat /\ snap \in Nat /\ poll \in Poll
    BY DepthTypes DEF DepthInv
  <2> QED
    BY <2>1, ChangeNumbers
<1>3. LastId(exch') \in Nat /\ LastId(exch') >= LastId(exch)
  BY <1>2
<1>4. ContOK' /\ SnapshotOwed'
  BY <1>1 DEF DepthInv, ContOK, SnapshotOwed
<1>5. PollOK'
  <2>1. poll.lo \in Nat /\ poll.id \in Nat
    BY <1>2 DEF Poll
  <2> QED
    BY <1>1, <1>2, <1>3, <2>1 DEF DepthInv, PollOK
<1>6. Awaiting' = Awaiting /\ Ahead' = Ahead
  BY <1>1 DEF Awaiting, Ahead, Target
<1>7. RunOK'
  BY <1>1, <1>6 DEF DepthInv, RunOK
<1> QED
  BY <1>4, <1>5, <1>7

LEMMA SendKeeps ==
  ASSUME DepthInv, NEW good \in BOOLEAN, Send(good)
  PROVE  DepthInv'
<1> DEFINE f == [n |-> exch + 1, conn |-> conn, good |-> good]
<1>1. /\ exch \in Nat /\ queue \in Seq(Frame) /\ Len(queue) \in Nat /\ newest.n \in Nat
      /\ \A i \in 1..Len(queue) : queue[i].n \in Nat
  BY DepthTypes DEF DepthInv
<1>2. f \in Frame /\ f.n = exch + 1
  BY <1>1, BoundsAssumption DEF Frame, DepthInv, TypeOK
<1>3. queue' = Append(queue, f) /\ exch' = exch + 1 /\ UNCHANGED <<market, conn, up, capture, poll, streak>>
  BY DEF Send
<1> HIDE DEF f
<1>4. /\ queue' \in Seq(Frame) /\ Len(queue') = Len(queue) + 1 /\ queue'[Len(queue) + 1] = f
      /\ \A i \in 1..Len(queue) : queue'[i] = queue[i]
  BY <1>1, <1>2, <1>3
<1>5. TypeOK'
  <2>1. UNCHANGED <<market, conn, up, cont, ready, snap, newest, poll, streak>>
    BY <1>3 DEF capture
  <2>2. faults' \in 0..MaxFaults /\ exch' \in 1..MaxUpdates /\ Len(queue') <= QueueCap
    BY <1>1, <1>4, BoundsAssumption DEF DepthInv, TypeOK, Send, Fault
  <2> QED
    BY <1>4, <2>1, <2>2 DEF DepthInv, TypeOK
<1>6. QueueOK'
  <2>1. newest'.n = newest.n /\ newest.n <= exch
    BY <1>3 DEF capture, DepthInv, QueueOK
  <2>2. ASSUME NEW i \in 1..Len(queue') PROVE newest.n < queue'[i].n /\ queue'[i].n <= exch'
    <3>1. CASE i = Len(queue) + 1
      BY <1>1, <1>2, <1>3, <1>4, <2>1, <3>1
    <3>2. CASE i # Len(queue) + 1
      <4>1. i \in 1..Len(queue)
        BY <1>1, <1>4, <3>2
      <4>2. queue'[i] = queue[i] /\ newest.n < queue[i].n /\ queue[i].n <= exch /\ queue[i].n \in Nat
        BY <1>1, <1>4, <4>1 DEF DepthInv, QueueOK
      <4> QED
        BY <1>1, <1>3, <4>2
    <3> QED
      BY <3>1, <3>2
  <2>3. ASSUME NEW i \in 1..Len(queue'), NEW j \in 1..Len(queue'), i < j
        PROVE  queue'[i].n < queue'[j].n
    <3>1. i \in 1..Len(queue)
      BY <1>1, <1>4, <2>3
    <3>2. queue'[i] = queue[i] /\ queue[i].n <= exch /\ queue[i].n \in Nat
      BY <1>1, <1>4, <3>1 DEF DepthInv, QueueOK
    <3>3. CASE j = Len(queue) + 1
      <4>1. queue'[j].n = exch + 1
        BY <1>2, <1>4, <3>3
      <4> QED
        BY <1>1, <3>2, <4>1
    <3>4. CASE j # Len(queue) + 1
      <4>1. j \in 1..Len(queue)
        BY <1>1, <1>4, <3>4
      <4>2. queue'[j] = queue[j] /\ queue[i].n < queue[j].n
        BY <1>4, <2>3, <3>1, <4>1 DEF DepthInv, QueueOK
      <4> QED
        BY <3>2, <4>2
    <3> QED
      BY <3>3, <3>4
  <2>4. newest'.n <= exch'
    BY <1>1, <1>3, <2>1
  <2> QED
    BY <2>1, <2>2, <2>3, <2>4 DEF QueueOK
<1>7. NextReaches => NextReaches'
  <2>1. snap' = snap /\ newest' = newest /\ market' = market
    BY <1>3 DEF capture
  <2>2. Target(snap)' = Target(snap)
    BY <2>1 DEF Target
  <2>3. queue' # << >>
    BY <1>1, <1>4
  <2>4. queue # << >> => queue'[1] = queue[1]
    BY <1>1, <1>4
  <2>5. queue = << >> => queue'[1].n = exch + 1
    BY <1>2, <1>4
  <2> QED
    BY <1>1, <2>1, <2>2, <2>3, <2>4, <2>5 DEF NextReaches
<1>8. ContOK' /\ PollOK' /\ SnapshotOwed' /\ RunOK'
  BY <1>3, <1>7, CaptureStays
<1> QED
  BY <1>5, <1>6, <1>8 DEF DepthInv

LEMMA SendUnheardKeeps ==
  ASSUME DepthInv, SendUnheard
  PROVE  DepthInv'
<1>1. exch \in Nat /\ newest.n \in Nat /\ \A i \in 1..Len(queue) : queue[i].n \in Nat
  BY DepthTypes DEF DepthInv
<1>2. exch' = exch + 1 /\ UNCHANGED <<market, conn, up, queue, capture, poll, streak>>
  BY DEF SendUnheard, link
<1>3. TypeOK'
  <2>1. UNCHANGED <<market, conn, up, queue, cont, ready, snap, newest, poll, streak>>
    BY <1>2 DEF capture
  <2>2. faults' \in 0..MaxFaults /\ exch' \in 1..MaxUpdates
    BY <1>1, BoundsAssumption DEF DepthInv, TypeOK, SendUnheard, Fault
  <2> QED
    BY <2>1, <2>2 DEF DepthInv, TypeOK
<1>4. QueueOK'
  <2>1. newest' = newest /\ queue' = queue
    BY <1>2 DEF capture
  <2> QED
    BY <1>1, <1>2, <2>1 DEF DepthInv, QueueOK
<1>5. NextReaches => NextReaches'
  <2>1. snap' = snap /\ newest' = newest /\ market' = market /\ queue' = queue
    BY <1>2 DEF capture
  <2>2. Target(snap)' = Target(snap)
    BY <2>1 DEF Target
  <2> QED
    BY <1>1, <1>2, <2>1, <2>2 DEF NextReaches
<1>6. ContOK' /\ PollOK' /\ SnapshotOwed' /\ RunOK'
  BY <1>2, <1>5, CaptureStays
<1> QED
  BY <1>3, <1>4, <1>6 DEF DepthInv

LEMMA ConnectKeeps ==
  ASSUME DepthInv, Connect
  PROVE  DepthInv'
<1>1. /\ UNCHANGED <<market, exch, queue, cont, ready, snap, newest, poll, streak, faults>>
      /\ up' = TRUE /\ conn' = conn + 1 /\ conn < MaxConns
  BY DEF Connect, exchange, capture
<1>2. TypeOK'
  <2>1. conn' \in 0..MaxConns /\ up' \in BOOLEAN
    BY <1>1, BoundsAssumption DEF DepthInv, TypeOK
  <2> QED
    BY <1>1, <2>1 DEF DepthInv, TypeOK
<1>3. QueueOK'
  BY <1>1 DEF DepthInv, QueueOK
<1>4. NextReaches' = NextReaches
  BY <1>1 DEF NextReaches, Target
<1>5. ContOK' /\ PollOK' /\ SnapshotOwed' /\ RunOK'
  BY <1>1, <1>4, CaptureStays DEF capture
<1> QED
  BY <1>2, <1>3, <1>5 DEF DepthInv

LEMMA RequestedTyped ==
  ASSUME NEW p \in Poll
  PROVE  /\ Requested(p) \in Poll /\ Requested(p).st # "idle"
         /\ Requested(p).st \in {"wire", "persist"} => Requested(p) = p
         /\ p.st # "idle" => Requested(p) = p
<1>1. CASE p.st = "idle"
  <2>1. Requested(p) = [p EXCEPT !.st = "due"]
    BY <1>1 DEF Requested
  <2>2. Requested(p) \in Poll /\ Requested(p).st = "due"
    BY <2>1 DEF Poll
  <2> QED
    BY <1>1, <2>2
<1>2. CASE p.st # "idle"
  BY <1>2 DEF Requested
<1> QED
  BY <1>1, <1>2

\* A connection that ends leaves nothing claimed and a request pending.
LEMMA DroppedKeeps ==
  ASSUME DepthInv, Dropped, up' \in BOOLEAN
  PROVE  DepthInv'
<1>1. /\ UNCHANGED <<market, exch, conn, queue, newest, faults>>
      /\ snap' = NoId /\ cont' = NewContinuity /\ poll' = Requested(poll) /\ streak' = 0
      /\ ready' = [ready EXCEPT !.seen = FALSE, !.snapped = FALSE]
  BY DEF Dropped, InvalidateDepth, exchange
<1>2. poll \in Poll /\ LastId(exch) \in Nat /\ Width \in Nat /\ Width >= 1
  BY DepthTypes, ChangeNumbers DEF DepthInv
<1>3. TypeOK'
  <2>1. << >> \in Seq(Nat) /\ Len(<< >>) = 0 /\ {} \in SUBSET Nat /\ 0 <= Capacity
    BY CapacityAssumption
  <2>2. cont' \in Continuity /\ Len(cont'.buf) <= Capacity
    BY <1>1, <2>1 DEF NewContinuity, Continuity, NoId
  <2>3. poll' \in Poll /\ ready' \in [seen : BOOLEAN, snapped : BOOLEAN] /\ snap' \in Nat
        /\ streak' \in Nat
    BY <1>1, <1>2, RequestedTyped DEF DepthInv, TypeOK, NoId
  <2> QED
    BY <1>1, <2>2, <2>3 DEF DepthInv, TypeOK
<1>4. ContOK'
  BY <1>1 DEF ContOK, Blank, NewContinuity
<1>5. QueueOK'
  BY <1>1 DEF DepthInv, QueueOK
<1>6. PollOK'
  <2>1. poll'.st \in {"wire", "persist"} => poll' = poll
    BY <1>1, <1>2, RequestedTyped
  <2> QED
    BY <1>1, <1>2, <2>1 DEF DepthInv, PollOK, NoId
<1>7. SnapshotOwed' /\ RunOK'
  <2>1. poll'.st # "idle"
    BY <1>1, <1>2, RequestedTyped
  <2> QED
    BY <1>1, <2>1 DEF SnapshotOwed, RunOK
<1> QED
  BY <1>3, <1>4, <1>5, <1>6, <1>7 DEF DepthInv

LEMMA ServerShutdownKeeps ==
  ASSUME DepthInv, ServerShutdown
  PROVE  DepthInv'
<1>1. /\ UNCHANGED <<market, exch, conn, up, queue, cont, ready, snap, newest, faults>>
      /\ poll' = Requested(poll) /\ streak' = 0
  BY DEF ServerShutdown, exchange, link, capture
<1>2. poll \in Poll
  BY DepthTypes DEF DepthInv
<1>3. poll' \in Poll /\ poll'.st # "idle" /\ (poll'.st \in {"wire", "persist"} => poll' = poll)
  BY <1>1, <1>2, RequestedTyped
<1>4. TypeOK'
  BY <1>1, <1>3 DEF DepthInv, TypeOK
<1>5. ContOK' /\ QueueOK'
  BY <1>1 DEF DepthInv, ContOK, QueueOK
<1>6. PollOK'
  BY <1>1, <1>3 DEF DepthInv, PollOK
<1>7. SnapshotOwed' /\ RunOK'
  BY <1>1, <1>3 DEF SnapshotOwed, RunOK
<1> QED
  BY <1>4, <1>5, <1>6, <1>7 DEF DepthInv

\* A step of the poller alone: the run goes on if what waits goes on waiting.
LEMMA PollerKeeps ==
  ASSUME DepthInv, UNCHANGED <<market, exch, conn, up, queue, cont, ready, snap, newest, streak>>,
         faults' \in 0..MaxFaults, poll.st # "idle", poll' \in Poll, poll'.st # "idle",
         poll'.st = "wire" => poll'.lo >= 1 /\ poll'.lo <= LastId(exch),
         poll'.st = "persist" => poll'.id >= 1 /\ poll'.id < LastId(exch) + Width,
         Awaiting => Awaiting'
  PROVE  DepthInv'
<1>1. TypeOK'
  BY DEF DepthInv, TypeOK
<1>2. ContOK' /\ QueueOK'
  BY DEF DepthInv, ContOK, QueueOK
<1>3. PollOK' /\ SnapshotOwed'
  BY DEF DepthInv, PollOK, SnapshotOwed
<1>4. RunOK'
  BY DEF DepthInv, RunOK, Ahead
<1> QED
  BY <1>1, <1>2, <1>3, <1>4 DEF DepthInv

LEMMA StartPollKeeps ==
  ASSUME DepthInv, StartPoll
  PROVE  DepthInv'
<1>1. /\ UNCHANGED <<market, exch, conn, up, queue, cont, ready, snap, newest, streak, faults>>
      /\ poll.st = "due" /\ poll' = [st |-> "wire", lo |-> LastId(exch), id |-> NoId]
  BY DEF StartPoll, exchange, link, capture
<1>2. exch \in Nat /\ exch >= 1 /\ LastId(exch) \in Nat /\ newest.n \in Nat /\ newest.n <= exch
      /\ LastId(exch) >= 1
  BY DepthTypes, Positive DEF DepthInv, QueueOK
<1>3. /\ poll' \in Poll /\ poll'.st = "wire" /\ poll'.lo = LastId(exch)
      /\ faults' \in 0..MaxFaults
  BY <1>1, <1>2 DEF Poll, NoId, DepthInv, TypeOK
<1>4. ASSUME Awaiting PROVE Awaiting'
  <2>1. cont.buf # << >> /\ cont \in Continuity
    BY <1>4, DepthTypes DEF Awaiting, DepthInv
  <2>2. cont.buf[Len(cont.buf)] = newest.n
    BY <2>1 DEF DepthInv, ContOK, Blank, Stands
  <2>3. In(newest.n, cont.buf)
    <3>1. cont.buf \in Seq(Nat)
      BY <2>1 DEF Continuity
    <3>2. Len(cont.buf) \in DOMAIN cont.buf
      BY <2>1, <3>1
    <3> QED
      BY <2>2, <3>2 DEF In
  <2>4. ASSUME NEW m \in 1..newest.n, LastId(m) >= LastId(exch) PROVE In(m, cont.buf)
    <3>1. m \in Int /\ exch \in Int /\ m <= newest.n
      BY <1>2
    <3>2. LastId(m) \in Int /\ (m < exch => LastId(m) < LastId(exch))
      BY <3>1, ChangeNumbers
    <3>3. m = newest.n
      BY <1>2, <2>4, <3>1, <3>2
    <3> QED
      BY <2>3, <3>3
  <2>5. HeardAll(cont.buf, newest.n, LastId(exch))
    BY <2>4 DEF HeardAll
  <2> QED
    BY <1>1, <1>3, <1>4, <2>5 DEF Awaiting
<1> QED
  BY <1>1, <1>2, <1>3, <1>4, PollerKeeps

\* Everything that a younger snapshot leaves out has been heard as well.
LEMMA HeardFromLater ==
  ASSUME NEW buf, NEW p \in Nat, NEW t \in Int, NEW u \in Int, t <= u, HeardAll(buf, p, t)
  PROVE  HeardAll(buf, p, u)
<1> SUFFICES ASSUME NEW m \in 1..p, LastId(m) >= u PROVE In(m, buf)
  BY DEF HeardAll
<1>1. LastId(m) \in Nat
  BY ChangeNumbers
<1>2. LastId(m) >= t
  BY <1>1
<1> QED
  BY <1>2 DEF HeardAll

LEMMA AnswerKeeps ==
  ASSUME DepthInv, Answer
  PROVE  DepthInv'
<1>1. PICK id \in poll.lo..(LastId(exch) + Width - 1) :
        poll' = [st |-> "persist", lo |-> NoId, id |-> id]
  BY DEF Answer
<1>2. /\ UNCHANGED <<market, exch, conn, up, queue, cont, ready, snap, newest, streak, faults>>
      /\ poll.st = "wire"
  BY DEF Answer, exchange, link, capture
<1>3. LastId(exch) \in Nat /\ Width \in Nat /\ poll \in Poll /\ poll.lo >= 1 /\ newest.n \in Nat
  BY <1>2, DepthTypes, ChangeNumbers DEF DepthInv, PollOK
<1>4. poll.lo \in Nat /\ id \in Nat /\ poll.lo <= id /\ id >= 1 /\ id < LastId(exch) + Width
  BY <1>1, <1>3 DEF Poll
<1>5. poll' \in Poll /\ poll'.st = "persist" /\ poll'.id = id /\ faults' \in 0..MaxFaults
  BY <1>1, <1>2, <1>4 DEF Poll, NoId, DepthInv, TypeOK
<1>6. ASSUME Awaiting PROVE Awaiting'
  <2>1. HeardAll(cont.buf, newest.n, poll.lo)
    BY <1>2, <1>6 DEF Awaiting
  <2>2. HeardAll(cont.buf, newest.n, id)
    BY <1>3, <1>4, <2>1, HeardFromLater
  <2> QED
    BY <1>2, <1>5, <1>6, <2>2 DEF Awaiting
<1> QED
  BY <1>2, <1>4, <1>5, <1>6, PollerKeeps

LEMMA AnswerFailsKeeps ==
  ASSUME DepthInv, AnswerFails
  PROVE  DepthInv'
<1>1. /\ UNCHANGED <<market, exch, conn, up, queue, cont, ready, snap, newest, streak>>
      /\ poll.st = "wire" /\ poll' = [poll EXCEPT !.st = "due"]
  BY DEF AnswerFails, exchange, link, capture
<1>2. faults' \in 0..MaxFaults
  BY BoundsAssumption DEF AnswerFails, Fault, DepthInv, TypeOK
<1>3. poll' \in Poll /\ poll'.st = "due"
  BY <1>1, DepthTypes DEF DepthInv, Poll
<1>4. Awaiting => Awaiting'
  BY <1>1, <1>3 DEF Awaiting
<1> QED
  BY <1>1, <1>2, <1>3, <1>4, PollerKeeps

\* synchronize leaves a reliable sequence alone.
LEMMA SynchronizeReliable ==
  ASSUME NEW c \in Continuity, NEW p \in Nat, Blank(c) \/ Stands(c, p), Reliable(c), NEW id \in Nat
  PROVE  Synchronize(c, id).c = c
<1>1. c.buf = << >>
  BY DEF Blank, Stands, Reliable
<1>2. Chosen(Candidates(c, id), << >>, Target(id), 0)
  <2>1. Increasing(c.buf) /\ Len(c.buf) = 0
    BY <1>1 DEF Increasing
  <2> QED
    BY <1>1, <2>1, CandidatesChosen
<1>3. Candidates(c, id) = << >>
  BY <1>2 DEF Chosen
<1>4. [c EXCEPT !.buf = << >>] = c
  BY <1>1 DEF Continuity
<1> QED
  BY <1>3, <1>4 DEF Synchronize

LEMMA SnapshotPersistedKeeps ==
  ASSUME DepthInv, SnapshotPersisted
  PROVE  DepthInv'
<1> DEFINE id == poll.id
           s == Synchronize(cont, id)
<1>1. /\ UNCHANGED <<market, exch, conn, up, queue, newest, streak, faults>>
      /\ poll.st = "persist" /\ snap' = id /\ cont' = s.c /\ poll' = Finished
      /\ ready' = [ready EXCEPT !.snapped = TRUE]
  BY DEF SnapshotPersisted, exchange, link
<1>2. /\ market \in {"spot", "usdm"} /\ cont \in Continuity /\ Len(cont.buf) <= Capacity
      /\ poll \in Poll /\ newest.n \in Nat /\ LastId(exch) \in Nat /\ LastId(newest.n) \in Nat
  BY DepthTypes DEF DepthInv
<1>3. ~cont.over /\ (Blank(cont) \/ (Stands(cont, newest.n) /\ newest.good))
  BY DEF DepthInv, ContOK
<1>4. id \in Nat /\ id >= 1 /\ id < LastId(exch) + Width /\ id # NoId
  BY <1>1, <1>2 DEF DepthInv, PollOK, Poll, NoId
<1> HIDE DEF s
<1>5. /\ cont' \in Continuity /\ ~cont'.over /\ Len(cont'.buf) <= Capacity
      /\ Blank(cont') \/ (Stands(cont', newest.n) /\ newest.good)
  <2>1. CASE Reliable(cont)
    <3>1. cont' = cont
      BY <1>1, <1>2, <1>3, <1>4, <2>1, SynchronizeReliable DEF s
    <3> QED
      BY <1>2, <1>3, <3>1
  <2>2. CASE ~Reliable(cont)
    <3>1. /\ s.c \in Continuity /\ ~s.c.over /\ Len(s.c.buf) <= Capacity
          /\ s.result = "NEED_MORE_EVENTS" => Blank(s.c)
          /\ s.result # "NEED_MORE_EVENTS" => cont.buf # << >> /\ Stands(s.c, newest.n)
      BY <1>2, <1>3, <1>4, <2>2, SynchronizeStands DEF s
    <3>2. cont.buf # << >> => newest.good
      BY <1>3 DEF Blank
    <3> QED
      BY <1>1, <3>1, <3>2
  <2> QED
    BY <2>1, <2>2
<1>6. TypeOK'
  <2>1. poll' \in Poll /\ snap' \in Nat /\ ready' \in [seen : BOOLEAN, snapped : BOOLEAN]
    BY <1>1, <1>4 DEF Finished, Poll, NoId, DepthInv, TypeOK
  <2> QED
    BY <1>1, <1>5, <2>1 DEF DepthInv, TypeOK
<1>7. ContOK' /\ QueueOK'
  BY <1>1, <1>5 DEF ContOK, DepthInv, QueueOK
<1>8. PollOK' /\ SnapshotOwed'
  <2>1. poll'.st = "idle" /\ snap' = id /\ exch' = exch
    BY <1>1 DEF Finished
  <2> QED
    BY <1>4, <2>1 DEF PollOK, SnapshotOwed
<1>9. RunOK'
  <2>1. SUFFICES ASSUME streak >= 1, ~Reliable(cont') PROVE streak = 1 /\ Ahead'
    BY <1>1 DEF RunOK
  <2>2. ~Reliable(cont)
    BY <1>1, <1>2, <1>3, <1>4, <2>1, SynchronizeReliable DEF s
  <2>3. streak = 1 /\ Awaiting
    BY <1>1, <2>1, <2>2 DEF DepthInv, RunOK, Ahead
  <2>4. cont.buf # << >> /\ HeardAll(cont.buf, newest.n, id)
    BY <1>1, <2>3 DEF Awaiting
  <2>5. Target(id) \in Int /\ id <= Target(id)
    BY <1>4 DEF Target
  <2>6. HeardAll(cont.buf, newest.n, Target(id))
    BY <1>2, <1>4, <2>4, <2>5, HeardFromLater
  <2>7. /\ s.result = "NEED_MORE_EVENTS" =>
             Blank(s.c) /\ (cont.buf # << >> => LastId(newest.n) < Target(id))
        /\ s.result # "NEED_MORE_EVENTS" =>
             (HeardAll(cont.buf, newest.n, Target(id)) => Reliable(s.c))
    BY <1>2, <1>3, <1>4, <2>2, SynchronizeStands DEF s
  <2>8. Blank(cont') /\ LastId(newest.n) < Target(id)
    BY <1>1, <2>1, <2>4, <2>6, <2>7
  <2>9. cont'.buf = << >> /\ poll'.st = "idle" /\ snap' = id /\ newest' = newest /\ market' = market
    BY <1>1, <2>8 DEF Blank, Finished
  <2>10. Target(snap)' = Target(id)
    BY <2>9 DEF Target
  <2> QED
    BY <1>2, <1>4, <2>3, <2>5, <2>8, <2>9, <2>10 DEF Ahead
<1> QED
  BY <1>6, <1>7, <1>8, <1>9 DEF DepthInv

\* What the writer has persisted leaves the queue in order.
LEMMA PersistedMovesQueue ==
  ASSUME DepthInv, Persisted
  PROVE  /\ Head(queue) \in Frame /\ Head(queue).n \in Nat /\ newest.n < Head(queue).n
         /\ Head(queue) = queue[1] /\ newest' = Head(queue)
         /\ queue' = Tail(queue) /\ queue' \in Seq(Frame) /\ Len(queue') <= QueueCap
         /\ (Len(queue) = 1 => queue' = << >>)
         /\ QueueOK'
<1>1. /\ queue # << >> /\ queue' = Tail(queue) /\ newest' = Head(queue) /\ exch' = exch
  BY DEF Persisted, exchange
<1>2. queue \in Seq(Frame) /\ Len(queue) <= QueueCap /\ exch \in Nat /\ newest.n \in Nat
      /\ \A i \in 1..Len(queue) : queue[i].n \in Nat
  BY DepthTypes DEF DepthInv, TypeOK
<1>3. /\ Head(queue) = queue[1] /\ queue[1] \in Frame /\ 1 \in 1..Len(queue) /\ Len(queue) \in Nat
      /\ Tail(queue) \in Seq(Frame) /\ Len(Tail(queue)) = Len(queue) - 1
      /\ \A i \in 1..(Len(queue) - 1) : Tail(queue)[i] = queue[i + 1]
  BY <1>1, <1>2
<1>4. /\ \A i \in 1..Len(queue) : newest.n < queue[i].n /\ queue[i].n <= exch
      /\ \A i, j \in 1..Len(queue) : i < j => queue[i].n < queue[j].n
  BY DEF DepthInv, QueueOK
<1>5. queue[1].n \in Nat /\ newest.n < queue[1].n /\ queue[1].n <= exch
  BY <1>2, <1>3, <1>4
<1>6. ASSUME NEW i \in 1..Len(queue')
      PROVE  i + 1 \in 1..Len(queue) /\ 1 < i + 1 /\ queue'[i] = queue[i + 1]
  BY <1>1, <1>3
<1>7. \A i \in 1..Len(queue') : queue[1].n < queue'[i].n /\ queue'[i].n <= exch
  BY <1>3, <1>4, <1>6
<1>8. ASSUME NEW i \in 1..Len(queue'), NEW j \in 1..Len(queue'), i < j
      PROVE  queue'[i].n < queue'[j].n
  <2>1. i + 1 < j + 1
    BY <1>8
  <2> QED
    BY <1>4, <1>6, <2>1
<1>9. QueueOK'
  BY <1>1, <1>3, <1>5, <1>7, <1>8 DEF QueueOK
<1>10. Len(queue) = 1 => Tail(queue) = << >>
  <2>1. \A q \in Seq(Frame) : Len(q) = 0 => q = << >>
    OBVIOUS
  <2>2. Len(queue) = 1 => Len(Tail(queue)) = 0
    BY <1>3
  <2>3. Tail(queue) \in Seq(Frame)
    BY <1>3
  <2> QED
    BY ONLY <2>1, <2>2, <2>3
<1>11. QueueCap \in Nat
  BY BoundsAssumption
<1> QED
  BY <1>1, <1>2, <1>3, <1>5, <1>9, <1>10, <1>11

\* How the run counts.
LEMMA PersistedCounts ==
  ASSUME DepthInv, Persisted
  PROVE  /\ streak' \in Nat
         /\ streak' >= 1 =>
              /\ Head(queue).good /\ ~Observed(Head(queue)).reset /\ Head(queue).n = newest.n + 1
              /\ \/ poll.st = "idle" /\ Len(queue) = 1 /\ streak' = streak + 1
                 \/ ~(poll.st = "idle" /\ Len(queue) = 1) /\ streak' = streak
<1>1. streak \in Nat
  BY DEF DepthInv, TypeOK
<1>2. streak' = IF ~Head(queue).good \/ Observed(Head(queue)).reset \/ ~up
                   \/ Head(queue).n # newest.n + 1 THEN 0
                ELSE IF poll.st = "idle" /\ Len(queue) = 1 THEN streak + 1 ELSE streak
  BY DEF Persisted
<1> QED
  BY <1>1, <1>2

\* After the sequence and the snapshot have been brought up to date.
LEMMA PersistedKeeps ==
  ASSUME DepthInv, Persisted
  PROVE  DepthInv'
<1> DEFINE f == Head(queue)
           c == Offer(cont, f.n)
           s(x) == Synchronize(x, snap)
<1>1. /\ market \in {"spot", "usdm"} /\ cont \in Continuity /\ Len(cont.buf) <= Capacity
      /\ poll \in Poll /\ newest.n \in Nat /\ LastId(exch) \in Nat /\ snap \in Nat
      /\ exch \in Nat /\ LastId(newest.n) \in Nat /\ streak \in Nat
  BY DepthTypes DEF DepthInv
<1>2. ~cont.over /\ (Blank(cont) \/ (Stands(cont, newest.n) /\ newest.good))
  BY DEF DepthInv, ContOK
<1>3. /\ f \in Frame /\ f.n \in Nat /\ newest.n < f.n /\ f = queue[1] /\ newest' = f
      /\ queue' = Tail(queue) /\ queue' \in Seq(Frame) /\ Len(queue') <= QueueCap
      /\ (Len(queue) = 1 => queue' = << >>) /\ QueueOK'
  BY PersistedMovesQueue
<1>4. /\ UNCHANGED <<market, exch, conn, up, faults>> /\ queue # << >>
  BY DEF Persisted, exchange
<1>5. /\ streak' \in Nat
      /\ streak' >= 1 =>
              /\ f.good /\ ~Observed(f).reset /\ f.n = newest.n + 1
              /\ \/ poll.st = "idle" /\ Len(queue) = 1 /\ streak' = streak + 1
                 \/ ~(poll.st = "idle" /\ Len(queue) = 1) /\ streak' = streak
  BY PersistedCounts
<1>6. LET o == Observed(f)
          have == IF o.reset THEN NoId ELSE snap
          asked == IF o.reset THEN Requested(poll) ELSE poll
          y == Synchronize(o.c, have)
          left == IF GivesUp(y.result) THEN NoId ELSE have
      IN  IF Reliable(o.c)
          THEN cont' = o.c /\ ready' = o.r /\ snap' = have /\ poll' = asked
          ELSE IF have = NoId
          THEN cont' = o.c /\ ready' = o.r /\ snap' = have /\ poll' = RequestIfNone(asked, have)
          ELSE /\ cont' = y.c
               /\ ready' = [o.r EXCEPT !.snapped = TRUE]
               /\ snap' = left
               /\ poll' = RequestIfNone(asked, left)
  BY DEF Persisted
<1> HIDE DEF f
<1>7. /\ Requested(poll) \in Poll /\ Requested(poll).st # "idle"
      /\ Requested(poll).st \in {"wire", "persist"} => Requested(poll) = poll
      /\ poll.st # "idle" => Requested(poll) = poll
      /\ Requested(Requested(poll)) = Requested(poll)
  BY <1>1, RequestedTyped
<1>8. /\ ready \in [seen : BOOLEAN, snapped : BOOLEAN]
      /\ [ready EXCEPT !.seen = TRUE] \in [seen : BOOLEAN, snapped : BOOLEAN]
      /\ [[ready EXCEPT !.seen = TRUE] EXCEPT !.snapped = TRUE] \in [seen : BOOLEAN, snapped : BOOLEAN]
      /\ [ready EXCEPT !.snapped = TRUE] \in [seen : BOOLEAN, snapped : BOOLEAN]
      /\ [seen |-> FALSE, snapped |-> FALSE] \in [seen : BOOLEAN, snapped : BOOLEAN]
  BY DEF DepthInv, TypeOK
\* What remains to be shown of a case.
<1>9. SUFFICES /\ cont' \in Continuity /\ ~cont'.over /\ Len(cont'.buf) <= Capacity
               /\ Blank(cont') \/ (Stands(cont', f.n) /\ f.good)
               /\ ready' \in [seen : BOOLEAN, snapped : BOOLEAN]
               /\ snap' \in {NoId, snap}
               /\ poll' = poll \/ poll' = Requested(poll)
               /\ ~Reliable(cont') => snap' # NoId \/ poll'.st # "idle"
               /\ streak' >= 1 /\ ~Reliable(cont') =>
                    \/ streak' = 1 /\ Awaiting'
                    \/ streak' = 1 /\ Ahead'
                    \/ streak' = 2 /\ Ahead' /\ NextReaches'
  <2>1. poll' \in Poll /\ (poll'.st \in {"wire", "persist"} => poll' = poll) /\ snap' \in Nat
    BY <1>1, <1>7, <1>9 DEF NoId
  <2>2. TypeOK'
    BY <1>3, <1>4, <1>5, <1>9, <2>1 DEF DepthInv, TypeOK
  <2>3. ContOK'
    BY <1>3, <1>9 DEF ContOK
  <2>4. PollOK'
    <3>1. Width \in Nat /\ Width >= 1
      BY ChangeNumbers
    <3> QED
      BY <1>1, <1>4, <1>9, <2>1, <3>1 DEF DepthInv, PollOK, NoId
  <2>5. SnapshotOwed' /\ RunOK'
    BY <1>9 DEF SnapshotOwed, RunOK
  <2> QED
    BY <1>3, <2>2, <2>3, <2>4, <2>5 DEF DepthInv
\* A malformed frame.
<1>10. CASE ~f.good
  <2> DEFINE i == Invalidate(cont)
  <2>1. Observed(f) = [c |-> i, r |-> ready, reset |-> FALSE]
    BY <1>10 DEF Observed
  <2>2. << >> \in Seq(Nat) /\ Len(<< >>) = 0 /\ {} \in SUBSET Nat /\ 0 <= Capacity /\ NoId \in Nat
    BY CapacityAssumption DEF NoId
  <2>3. i \in Continuity /\ ~i.over /\ Blank(i) /\ ~Reliable(i) /\ Len(i.buf) <= Capacity
    BY <1>1, <1>2, <2>2 DEF Invalidate, Continuity, Blank, Reliable
  <2>4. streak' = 0
    BY <1>5, <1>10
  <2> HIDE DEF i
  <2>5. CASE snap = NoId
    <3>1. cont' = i /\ ready' = ready /\ snap' = NoId /\ poll' = Requested(poll)
      BY <1>6, <2>1, <2>3, <2>5 DEF RequestIfNone
    <3> QED
      BY <1>7, <1>8, <2>3, <2>4, <3>1
  <2>6. CASE snap # NoId
    <3>1. snap >= 1
      BY <1>1, <2>6 DEF NoId
    <3>2. /\ s(i).c \in Continuity /\ ~s(i).c.over /\ Len(s(i).c.buf) <= Capacity
          /\ s(i).result = "NEED_MORE_EVENTS" => Blank(s(i).c) /\ ~GivesUp(s(i).result)
          /\ s(i).result # "NEED_MORE_EVENTS" => i.buf # << >>
      BY <1>1, <2>3, <3>1, SynchronizeStands
    <3>3. Blank(s(i).c) /\ ~GivesUp(s(i).result)
      BY <2>3, <3>2 DEF Blank
    <3>4. cont' = s(i).c /\ ready' = [ready EXCEPT !.snapped = TRUE] /\ snap' = snap /\ poll' = poll
      BY <1>6, <2>1, <2>3, <2>6, <3>3 DEF RequestIfNone
    <3> QED
      BY <1>8, <2>4, <2>6, <3>2, <3>3, <3>4
  <2> QED
    BY <2>5, <2>6
\* The buffer is full: the depth of the product is reset.
<1>11. CASE f.good /\ c.over
  <2>1. Observed(f) = [c |-> NewContinuity, r |-> [seen |-> FALSE, snapped |-> FALSE], reset |-> TRUE]
    BY <1>11 DEF Observed
  <2>2. << >> \in Seq(Nat) /\ Len(<< >>) = 0 /\ {} \in SUBSET Nat /\ 0 <= Capacity /\ NoId \in Nat
    BY CapacityAssumption DEF NoId
  <2>3. NewContinuity \in Continuity /\ ~NewContinuity.over /\ Blank(NewContinuity)
        /\ ~Reliable(NewContinuity) /\ Len(NewContinuity.buf) <= Capacity
    BY <2>2 DEF NewContinuity, Continuity, Blank, Reliable
  <2>4. streak' = 0
    BY <1>5, <2>1
  <2>5. cont' = NewContinuity /\ ready' = [seen |-> FALSE, snapped |-> FALSE] /\ snap' = NoId
        /\ poll' = Requested(poll)
    BY <1>6, <1>7, <2>1, <2>3 DEF RequestIfNone
  <2> QED
    BY <1>7, <1>8, <2>3, <2>4, <2>5
\* The frame is accounted for or waits.
<1>12. CASE f.good /\ ~c.over
  <2>1. Observed(f) = [c |-> c, r |-> [ready EXCEPT !.seen = TRUE], reset |-> FALSE]
    BY <1>12 DEF Observed
  <2>2. /\ c \in Continuity /\ Stands(c, f.n) /\ Len(c.buf) <= Capacity /\ ~c.over
        /\ Reliable(cont) => (Reliable(c) <=> f.n = newest.n + 1)
        /\ ~Reliable(cont) => ~Reliable(c) /\ c.buf = Append(cont.buf, f.n)
    BY <1>1, <1>2, <1>3, <1>12, OfferStands
  <2> HIDE DEF c
  \* A run that has begun was waiting before this frame.
  <2>3. ASSUME ~Reliable(c), streak' >= 1, streak >= 1
        PROVE  /\ ~Reliable(cont) /\ c.buf = Append(cont.buf, f.n)
               /\ (streak = 1 /\ Awaiting) \/ (streak = 1 /\ Ahead) \/ (streak = 2 /\ Ahead /\ NextReaches)
    <3>1. ~Reliable(cont)
      BY <1>5, <2>2, <2>3
    <3> QED
      BY <2>2, <2>3, <3>1 DEF DepthInv, RunOK
  <2>4. CASE Reliable(c)
    <3>1. cont' = c /\ ready' = [ready EXCEPT !.seen = TRUE] /\ snap' = snap /\ poll' = poll
      BY <1>6, <2>1, <2>4
    <3> QED
      BY <1>8, <1>12, <2>2, <2>4, <3>1
  <2>5. ASSUME ~Reliable(c) PROVE c.buf # << >> /\ c.buf \in Seq(Nat) /\ In(f.n, c.buf)
    <3>0. c.rel = NoId /\ ~(c.rel = LastId(f.n) /\ f.n >= 1)
      BY <1>3, <2>5, Positive DEF Reliable
    <3>1. c.buf # << >> /\ c.buf[Len(c.buf)] = f.n /\ c.buf \in Seq(Nat)
      BY <2>2, <3>0 DEF Stands, Continuity
    <3>2. Len(c.buf) \in DOMAIN c.buf
      BY <3>1
    <3> QED
      BY <3>1, <3>2 DEF In
  \* A run that begins had no request pending.
  <2>6. ASSUME streak' >= 1, ~(streak >= 1) PROVE streak' = 1 /\ poll.st = "idle"
    BY <1>1, <1>5, <2>6
  <2>7. poll.st = "idle" => Requested(poll).st \notin {"idle", "wire", "persist"}
    BY <1>7
  <2>8. CASE ~Reliable(c) /\ snap = NoId
    <3>1. cont' = c /\ ready' = [ready EXCEPT !.seen = TRUE] /\ snap' = NoId /\ poll' = Requested(poll)
      BY <1>6, <2>1, <2>8 DEF RequestIfNone
    <3>2. ASSUME streak' >= 1 PROVE streak' = 1 /\ Awaiting'
      <4>1. CASE streak >= 1
        <5>1. streak = 1 /\ Awaiting /\ c.buf = Append(cont.buf, f.n)
          BY <2>3, <2>8, <3>2, <4>1 DEF Ahead
        <5>2. poll.st # "idle" /\ poll' = poll
          BY <1>7, <3>1, <5>1 DEF Awaiting
        <5>3. streak' = 1 /\ f.n = newest.n + 1
          BY <1>5, <3>2, <5>1, <5>2
        <5>4. ASSUME NEW t, HeardAll(cont.buf, newest.n, t) PROVE HeardAll(c.buf, f.n, t)
          <6> SUFFICES ASSUME NEW m \in 1..f.n, LastId(m) >= t PROVE In(m, c.buf)
            BY DEF HeardAll
          <6>1. CASE m = f.n
            BY <2>5, <2>8, <6>1
          <6>2. CASE m # f.n
            <7>1. m \in 1..newest.n
              BY <1>1, <5>3, <6>2
            <7>2. PICK k \in DOMAIN cont.buf : cont.buf[k] = m
              BY <5>4, <7>1 DEF HeardAll, In
            <7>3. cont.buf \in Seq(Nat)
              BY <1>1 DEF Continuity
            <7>4. k \in DOMAIN c.buf /\ c.buf[k] = cont.buf[k]
              BY <1>3, <5>1, <7>2, <7>3
            <7> QED
              BY <7>2, <7>4 DEF In
          <6> QED
            BY <6>1, <6>2
        <5>5. c.buf # << >>
          BY <2>5, <2>8
        <5> QED
          BY <1>3, <3>1, <5>1, <5>2, <5>3, <5>4, <5>5 DEF Awaiting
      <4>2. CASE ~(streak >= 1)
        <5>1. streak' = 1 /\ poll'.st \notin {"idle", "wire", "persist"}
          BY <2>6, <2>7, <3>1, <3>2, <4>2
        <5>2. c.buf # << >>
          BY <2>5, <2>8
        <5> QED
          BY <3>1, <5>1, <5>2 DEF Awaiting
      <4> QED
        BY <4>1, <4>2
    <3> QED
      BY <1>7, <1>8, <1>12, <2>2, <3>1, <3>2
  <2>9. CASE ~Reliable(c) /\ snap # NoId
    <3> DEFINE y == s(c)
    <3>1. snap >= 1
      BY <1>1, <2>9 DEF NoId
    <3>2. /\ y.c \in Continuity /\ ~y.c.over /\ Len(y.c.buf) <= Capacity
          /\ y.result = "NEED_MORE_EVENTS" =>
               Blank(y.c) /\ (c.buf # << >> => LastId(f.n) < Target(snap)) /\ ~GivesUp(y.result)
          /\ y.result # "NEED_MORE_EVENTS" =>
               /\ Stands(y.c, f.n)
               /\ GivesUp(y.result) <=> ~Reliable(y.c)
               /\ HeardAll(c.buf, f.n, Target(snap)) => Reliable(y.c)
      BY <1>1, <1>3, <2>2, <2>9, <3>1, SynchronizeStands
    <3>3. /\ cont' = y.c /\ ready' = [[ready EXCEPT !.seen = TRUE] EXCEPT !.snapped = TRUE]
          /\ snap' = IF GivesUp(y.result) THEN NoId ELSE snap
          /\ poll' = RequestIfNone(poll, IF GivesUp(y.result) THEN NoId ELSE snap)
      BY <1>6, <2>1, <2>9
    <3> HIDE DEF y, s
    \* A run that has begun has its snapshot ahead of the frame before.
    <3>4. ASSUME streak' >= 1, streak >= 1
          PROVE  /\ (streak = 1 /\ Ahead) \/ (streak = 2 /\ Ahead /\ NextReaches)
                 /\ c.buf = Append(cont.buf, f.n) /\ f.n = newest.n + 1
      BY <1>5, <2>3, <2>9, <3>4 DEF Awaiting
    <3>5. CASE y.result = "NEED_MORE_EVENTS"
      <4>1. Blank(y.c) /\ LastId(f.n) < Target(snap) /\ ~GivesUp(y.result)
        BY <2>5, <2>9, <3>2, <3>5
      <4>2. cont' = y.c /\ snap' = snap /\ poll' = poll
        BY <2>9, <3>3, <4>1 DEF RequestIfNone
      <4>3. cont'.buf = << >> /\ Target(snap)' = Target(snap)
        BY <1>4, <4>1, <4>2 DEF Blank, Target
      <4>4. Target(snap) \in Nat /\ LastId(f.n) \in Nat /\ Target(snap) > LastId(f.n)
            /\ Target(snap) <= snap + 1
        <5>1. Target(snap) \in Nat /\ Target(snap) <= snap + 1
          BY <1>1 DEF Target
        <5>2. LastId(f.n) \in Nat
          BY <1>3, Positive
        <5> QED
          BY <4>1, <5>1, <5>2
      <4>5. poll.st = "idle" => Ahead'
        BY <1>3, <2>9, <4>2, <4>3, <4>4 DEF Ahead
      <4>6. ASSUME streak' >= 1
            PROVE  \/ streak' = 1 /\ Ahead'
                   \/ streak' = 2 /\ Ahead' /\ NextReaches'
        <5>1. CASE ~(streak >= 1)
          BY <2>6, <4>5, <4>6, <5>1
        <5>2. CASE streak >= 1
          <6>1. Ahead' /\ f.n = newest.n + 1
            BY <3>4, <4>5, <4>6, <5>2 DEF Ahead
          <6>2. ~NextReaches
            <7>1. LastId(newest.n + 1) = LastId(f.n)
              BY <6>1
            <7> QED
              BY <1>3, <1>4, <4>4, <6>1, <7>1 DEF NextReaches
          <6>3. streak = 1
            BY <3>4, <4>6, <5>2, <6>2
          <6>4. CASE streak' = 1
            BY <6>1, <6>4
          <6>5. CASE streak' # 1
            <7>1. streak' = 2 /\ Len(queue) = 1
              BY <1>5, <4>6, <6>3, <6>5
            <7>2. queue' = << >> /\ newest' = f /\ exch' = exch /\ f.n <= exch
              BY <1>3, <1>4, <7>1 DEF QueueOK
            <7>3. CASE f.n = exch
              <8>1. LastId(f.n + 1) = LastId(exch) + Width /\ LastId(exch) + Width \in Nat
                <9>1. exch \in Int
                  BY <1>1
                <9> QED
                  BY <1>1, <7>3, <9>1, ChangeNumbers
              <8>2. snap < LastId(exch) + Width
                BY DEF DepthInv, PollOK
              <8>3. Target(snap) <= LastId(f.n + 1)
                BY <1>1, <4>4, <8>1, <8>2
              <8> QED
                BY <4>3, <6>1, <7>1, <7>2, <8>3 DEF NextReaches
            <7>4. CASE f.n # exch
              <8>1. exch' > newest'.n
                BY <1>1, <1>3, <7>2, <7>4
              <8> QED
                BY <6>1, <7>1, <7>2, <8>1 DEF NextReaches
            <7> QED
              BY <7>3, <7>4
          <6> QED
            BY <6>4, <6>5
        <5> QED
          BY <5>1, <5>2
      <4> QED
        BY <1>8, <2>9, <3>2, <3>3, <4>1, <4>2, <4>6
    <3>6. CASE y.result # "NEED_MORE_EVENTS" /\ GivesUp(y.result)
      <4>1. cont' = y.c /\ snap' = NoId /\ poll' = Requested(poll)
        BY <3>3, <3>6 DEF RequestIfNone
      <4>2. Stands(y.c, f.n) /\ ~Reliable(y.c) /\ ~HeardAll(c.buf, f.n, Target(snap))
        BY <3>2, <3>6
      <4>3. y.c.buf # << >>
        <5>1. y.c.rel = NoId /\ ~(y.c.rel = LastId(f.n) /\ f.n >= 1)
          BY <1>3, <4>2, Positive DEF Reliable
        <5> QED
          BY <4>2, <5>1 DEF Stands
      <4>4. ASSUME streak' >= 1 PROVE streak' = 1 /\ Awaiting'
        <5>1. ~(streak >= 1)
          <6>1. SUFFICES ASSUME streak >= 1 PROVE HeardAll(c.buf, f.n, Target(snap))
            BY <4>2
          <6>2. Target(snap) > LastId(newest.n) /\ f.n = newest.n + 1
            BY <3>4, <4>4, <6>1 DEF Ahead
          <6>3. ASSUME NEW m \in 1..f.n, LastId(m) >= Target(snap) PROVE m = f.n
            <7>1. m \in Int /\ newest.n \in Int /\ m <= newest.n + 1
              BY <1>1, <6>2
            <7>2. LastId(m) \in Int /\ (m <= newest.n => LastId(m) <= LastId(newest.n))
              BY <7>1, ChangeNumbers
            <7>3. Target(snap) \in Int
              BY <1>1 DEF Target
            <7> QED
              BY <1>1, <6>2, <6>3, <7>1, <7>2, <7>3
          <6> QED
            BY <2>5, <2>9, <6>3 DEF HeardAll
        <5>2. streak' = 1 /\ poll'.st \notin {"idle", "wire", "persist"}
          BY <2>6, <2>7, <4>1, <4>4, <5>1
        <5> QED
          BY <4>1, <4>3, <5>2 DEF Awaiting
      <4> QED
        BY <1>7, <1>8, <1>12, <3>2, <3>3, <4>1, <4>2, <4>4
    <3>7. CASE y.result # "NEED_MORE_EVENTS" /\ ~GivesUp(y.result)
      <4>1. cont' = y.c /\ snap' = snap /\ poll' = poll
        BY <2>9, <3>3, <3>7 DEF RequestIfNone
      <4>2. Stands(y.c, f.n) /\ Reliable(y.c)
        BY <3>2, <3>7
      <4> QED
        BY <1>8, <1>12, <3>2, <3>3, <4>1, <4>2
    <3> QED
      BY <3>5, <3>6, <3>7
  <2> QED
    BY <2>4, <2>8, <2>9
<1> QED
  BY <1>10, <1>11, <1>12

LEMMA DepthInvInductive == DepthInv /\ [Next]_vars => DepthInv'
<1> SUFFICES ASSUME DepthInv, [Next]_vars PROVE DepthInv'
  OBVIOUS
<1>1. CASE \E good \in BOOLEAN : Send(good)
  BY <1>1, SendKeeps
<1>2. CASE SendUnheard
  BY <1>2, SendUnheardKeeps
<1>3. CASE Connect
  BY <1>3, ConnectKeeps
<1>4. CASE Disconnect \/ ConnectFails
  <2>1. Dropped /\ up' \in BOOLEAN
    BY <1>4 DEF Disconnect, ConnectFails, DepthInv, TypeOK
  <2> QED
    BY <2>1, DroppedKeeps
<1>5. CASE ServerShutdown
  BY <1>5, ServerShutdownKeeps
<1>6. CASE Persisted
  BY <1>6, PersistedKeeps
<1>7. CASE StartPoll
  BY <1>7, StartPollKeeps
<1>8. CASE Answer
  BY <1>8, AnswerKeeps
<1>9. CASE AnswerFails
  BY <1>9, AnswerFailsKeeps
<1>10. CASE SnapshotPersisted
  BY <1>10, SnapshotPersistedKeeps
<1>11. CASE UNCHANGED vars
  <2>1. UNCHANGED <<market, exch, conn, up, queue, cont, ready, snap, poll, newest, streak, faults>>
    BY <1>11 DEF vars, exchange, link, capture
  <2>2. TypeOK'
    BY <2>1 DEF DepthInv, TypeOK
  <2>3. ContOK' /\ QueueOK' /\ PollOK' /\ SnapshotOwed'
    BY <2>1 DEF DepthInv, ContOK, QueueOK, PollOK, SnapshotOwed
  <2>4. RunOK'
    BY <2>1 DEF DepthInv, RunOK, Awaiting, Ahead, NextReaches, Target
  <2> QED
    BY <2>2, <2>3, <2>4 DEF DepthInv
<1> QED
  BY <1>1, <1>2, <1>3, <1>4, <1>5, <1>6, <1>7, <1>8, <1>9, <1>10, <1>11 DEF Next, Stream, Poller

LEMMA DepthInvImplies == DepthInv => DepthIsSound
<1> SUFFICES ASSUME DepthInv PROVE DepthIsSound
  OBVIOUS
<1>1. Blank(cont) \/ (Stands(cont, newest.n) /\ newest.good)
  BY DEF DepthInv, ContOK
<1>2. BookIsExact /\ BookIsCurrent
  BY <1>1 DEF BookIsExact, BookIsCurrent, Blank, Stands, Reliable
<1>3. RecoversPromptly
  <2>1. streak \in Nat
    BY DEF DepthInv, TypeOK
  <2>2. streak >= 3 => Reliable(cont)
    BY <2>1 DEF DepthInv, RunOK
  <2> QED
    BY <2>1, <2>2, PatienceAssumption DEF RecoversPromptly
<1> QED
  BY <1>2, <1>3 DEF DepthInv, DepthIsSound

\* The sequence is called reliable exactly when the snapshot and the frames behind it leave
\* out no change, and three undisturbed frames bring it back (DepthContinuity.offer and
\* synchronize, ProductCapture.persisted and lifecycle, poll_once).
THEOREM DepthStaysSound == Spec => []DepthIsSound
<1>1. Init => DepthInv
  BY DepthInvInit
<1>2. DepthInv /\ [Next]_vars => DepthInv'
  BY DepthInvInductive
<1>3. DepthInv => DepthIsSound
  BY DepthInvImplies
<1> QED
  BY <1>1, <1>2, <1>3, PTL DEF Spec

=============================================================================
