------------------------------ MODULE SideData ------------------------------
(***************************************************************************)
(* Five-minute statistics of the exchange and the durable cursor that says *)
(* how far they have been captured: RestSideDataPoller with its supervisor *)
(* (collector/usdm_side_data.py, binance/usdm/side_data_rest.py) and the   *)
(* polls of the selected-asset capture (collector/coverage.py), which use  *)
(* the same cursor table of the Catalog in different ways.                 *)
(*                                                                         *)
(* The exchange keeps a period for a limited time only.  Periods close,    *)
(* requests wait for the cooldown or the budget, answers are short, empty  *)
(* or saturated, and the process dies between any two writes.  A period is *)
(* a number; "dense" kinds must be answered without a hole, "sparse" open  *)
(* interest is evaluated window by window.                                 *)
(***************************************************************************)
EXTENDS Integers, FiniteSets, FiniteSetsExt

CONSTANTS Retention,     \* periods that the exchange keeps
          PageSize,      \* catchup_batch_limit, period_limit
          PagesPerTry,   \* catchup_batches_per_attempt
          Owners,        \* {"poller", "coverage"}
          MaxPeriod,     \* bound: last period to close
          MaxSideFaults  \* bound: kills, task failures and failed answers

ASSUME SideAssumption == /\ Retention \in Nat /\ Retention > 3
                         /\ PageSize \in Nat \ {0} /\ PagesPerTry \in Nat \ {0}

VARIABLES owner,    \* who polls: "poller" or "coverage"
          kind,     \* "dense" or "sparse"
          closed,   \* the last closed period
          table,    \* Catalog: [cursor, gaps, empty]
          held,     \* periods evaluated by answers that are durable in Raw
          task,     \* the polling task and its memory
          since,    \* history: first period that the cursor speaks for
          skipped,  \* history: periods a request stepped over because of their age
          mishaps   \* counts against MaxSideFaults

sdvars == <<owner, kind, closed, table, held, task, since, skipped, mishaps>>

NoPeriod == 0

\* The request of page sizes and the answer in hand.
NoTask == [pc |-> "off", next |-> NoPeriod, last |-> NoPeriod, left |-> 0,
           limit |-> PageSize, checked |-> FALSE, upto |-> NoPeriod, full |-> TRUE]

SideInit ==
    /\ owner \in Owners /\ kind \in {"dense", "sparse"}
    /\ closed = 1
    /\ table = [cursor |-> NoPeriod, gaps |-> {}, empty |-> {}]
    /\ held = {} /\ task = NoTask /\ since = NoPeriod /\ skipped = {} /\ mishaps = 0

-----------------------------------------------------------------------------
(* Where to go on.                                                           *)

\* The oldest period a catch-up still asks for.
EarliestRecoverable == Max({1, closed - Retention + 2})

\* The first period after the cursor; sparse windows are read once more after
\* every restart; without a cursor, the oldest window that came back empty.
NextPeriod(t, checked) ==
    IF t.cursor # NoPeriod
    THEN IF kind = "sparse" /\ ~checked THEN t.cursor ELSE t.cursor + 1
    ELSE IF t.empty # {} THEN Min(t.empty) ELSE EarliestRecoverable

\* SIDE_DATA_UNRECOVERABLE_GAP for what the exchange no longer has.
GapRecorded(t, next) ==
    IF next < EarliestRecoverable
    THEN [t EXCEPT !.gaps = @ \cup next..(EarliestRecoverable - 1)] ELSE t

\* _catch_up_five_minute up to its loop.
PollerBegins ==
    LET next == NextPeriod(table, task.checked)
        from == Max({next, EarliestRecoverable})
    IN  /\ owner = "poller" /\ task.pc = "idle" /\ from <= closed
        /\ table' = GapRecorded(table, next)
        /\ task' = [task EXCEPT !.pc = "ask", !.next = from, !.last = closed,
                                !.left = PagesPerTry]
        /\ UNCHANGED <<owner, kind, closed, held, since, skipped, mishaps>>

\* add_source: the cursor is read once, when the source is added.
CoverageAdds ==
    LET saved == table.cursor # NoPeriod \/ table.empty # {}
        next == NextPeriod(table, FALSE)
    IN  /\ owner = "coverage" /\ task.pc = "off"
        /\ table' = IF saved THEN GapRecorded(table, next) ELSE table
        /\ task' = [NoTask EXCEPT !.pc = "idle", !.next = Max({next, EarliestRecoverable})]
        /\ UNCHANGED <<owner, kind, closed, held, since, skipped, mishaps>>

\* _parameters: one closed period inside the retention, at each request.
CoverageStart == Max({task.next, closed - Retention + 3})

CoverageBegins ==
    /\ owner = "coverage" /\ task.pc = "idle" /\ CoverageStart <= closed
    /\ task' = [task EXCEPT !.pc = "ask", !.next = CoverageStart, !.last = closed, !.left = 1]
    /\ skipped' = IF table.cursor = NoPeriod THEN skipped
                  ELSE skipped \cup (task.next..(CoverageStart - 1))
    /\ UNCHANGED <<owner, kind, closed, table, held, since, mishaps>>

-----------------------------------------------------------------------------
(* One request and its answer.                                               *)

\* The page asked for; an open-interest window is first read again alone.
Count ==
    LET remaining == task.last - task.next + 1 IN
    IF owner = "poller" /\ kind = "sparse" /\ table.cursor # NoPeriod /\ ~task.checked
    THEN 1 ELSE Min({task.limit, remaining})

SideFault == mishaps < MaxSideFaults /\ mishaps' = mishaps + 1
Failed(t) == [t EXCEPT !.pc = "idle"]

\* The exchange rejects a start that has left the retention, and any request
\* may fail; a hole or a timestamp outside the request is an error of schema.
PageFails ==
    /\ task.pc = "ask"
    /\ \/ task.next <= closed - Retention /\ UNCHANGED mishaps
       \/ SideFault
    /\ task' = Failed(task)
    /\ UNCHANGED <<owner, kind, closed, table, held, since, skipped>>

\* capture_rest_side_data: dense rows continue from the start of the request;
\* an open-interest window is evaluated unless the answer is saturated.
Answers ==
    /\ task.pc = "ask" /\ task.next > closed - Retention
    /\ \/ /\ kind = "dense"
          /\ \E n \in 0..Count :
               task' = [task EXCEPT !.pc = "answered", !.upto = task.next + n - 1,
                                    !.full = (n = Count)]
       \/ /\ kind = "sparse"
          /\ \E full \in BOOLEAN :
               /\ ~full => Count > 1
               /\ task' = [task EXCEPT !.pc = "answered", !.upto = task.next + Count - 1,
                                       !.full = full]
    /\ UNCHANGED <<owner, kind, closed, table, held, since, skipped, mishaps>>

Evaluated == IF kind = "sparse" /\ ~task.full THEN {} ELSE task.next..task.upto

\* _persist, persist_rest: written and synchronised.
Persists ==
    /\ task.pc = "answered"
    /\ held' = held \cup Evaluated
    /\ task' = [task EXCEPT !.pc = "durable"]
    /\ UNCHANGED <<owner, kind, closed, table, since, skipped, mishaps>>

Halved == [Failed(task) EXCEPT !.limit = Max({1, Count \div 2})]

\* A saturated or empty answer is recorded and does not move the cursor.
\* The capture accepts a dense page only when it is complete.
Declines ==
    /\ task.pc = "durable"
    /\ \/ kind = "sparse" /\ ~task.full /\ task' = Halved /\ UNCHANGED table
       \/ /\ kind = "dense" /\ task.upto < task.next
          /\ table' = [table EXCEPT !.empty = @ \cup {task.next}]
          /\ task' = Failed(task)
       \/ /\ kind = "dense" /\ owner = "coverage" /\ ~task.full /\ task.upto >= task.next
          /\ task' = Failed(task) /\ UNCHANGED table
    /\ UNCHANGED <<owner, kind, closed, held, since, skipped, mishaps>>

Acceptable ==
    IF kind = "sparse" THEN task.full
    ELSE task.upto >= task.next /\ (owner = "coverage" => task.full)

\* The mutant moves the cursor to the end of what was asked for.
CursorAsRequested(t) == task.next + Count - 1

\* advance_side_data_cursor: never backward.
CursorAfter(t) == Max({t.cursor, task.upto})

\* The loop of _catch_up_five_minute goes on or ends; a poll of the capture ends.
Advances ==
    /\ task.pc = "durable" /\ Acceptable
    /\ table' = [table EXCEPT !.cursor = CursorAfter(table)]
    /\ since' = IF since = NoPeriod THEN task.next ELSE since
    /\ LET next == CursorAfter(table) + 1 IN
       task' = [task EXCEPT !.next = next, !.left = @ - 1, !.checked = TRUE,
                            !.pc = IF task.left > 1 /\ next <= task.last THEN "ask" ELSE "idle"]
    /\ UNCHANGED <<owner, kind, closed, held, skipped, mishaps>>

-----------------------------------------------------------------------------
(* Tasks and processes.                                                      *)

\* SideDataSupervisor._run_one: a poller is made anew after a failure that
\* escaped it, as it is at the start of the process.
PollerStarts ==
    /\ owner = "poller" /\ task.pc = "off"
    /\ task' = [NoTask EXCEPT !.pc = "idle"]
    /\ UNCHANGED <<owner, kind, closed, table, held, since, skipped, mishaps>>

\* The task fails or the process is killed: memory and the answer are gone.
TaskEnds ==
    /\ task.pc # "off" /\ SideFault
    /\ task' = NoTask
    /\ UNCHANGED <<owner, kind, closed, table, held, since, skipped>>

PeriodCloses ==
    /\ closed < MaxPeriod /\ closed' = closed + 1
    /\ UNCHANGED <<owner, kind, table, held, task, since, skipped, mishaps>>

SideNext ==
    \/ PollerStarts \/ PollerBegins \/ CoverageAdds \/ CoverageBegins
    \/ PageFails \/ Answers \/ Persists \/ Declines \/ Advances
    \/ TaskEnds \/ PeriodCloses

SideSpec == SideInit /\ [][SideNext]_sdvars

-----------------------------------------------------------------------------
(* Properties.                                                               *)

\* Every period that the cursor speaks for was evaluated by an answer that is
\* durable in Raw, or is on record as lost, or had left the retention when the
\* capture stepped over it: no kill between the write and the cursor, no short,
\* empty or saturated answer and no waiting request makes the cursor pass a
\* period that could still be had (_catch_up_five_minute, poll_once).
CursorIsEvaluated ==
    table.cursor # NoPeriod =>
      \A p \in since..table.cursor :
        \/ p \in held \cup table.gaps
        \/ p \in skipped /\ p < closed - Retention + 3

\* A period that the capture steps over because of its age is recorded as an
\* unrecoverable gap (coverage.py, _parameters and add_source).  The selected-asset
\* capture does not keep it (SideDataAgedOut.cfg).
AgedOutIsExplicit == skipped \subseteq table.gaps \cup held

=============================================================================
