------------------------------ MODULE Backfill ------------------------------
(***************************************************************************)
(* Historical files: build_plan (backfill/planner, backfill/daily_trades)  *)
(* splits a range of days into official files, and HistoricalImporter      *)
(* (backfill/importer) downloads each one with resume, verifies it against *)
(* its official checksum, keeps it under a revision named by URL and       *)
(* checksum, and writes its normalised Parquet.                            *)
(*                                                                         *)
(* The server replaces a file and its checksum independently; a connection *)
(* is cut, a range answer is wrong, the importer is killed between any two *)
(* of its file operations.                                                 *)
(***************************************************************************)
EXTENDS Integers, Sequences, SequencesExt, FiniteSets, FiniteSetsExt

CONSTANTS MonthStarts,     \* first days of the months; the last of them ends the horizon
          Versions,        \* how often the server publishes a file, at most
          MaxTroubles      \* bound: changes on the server, cuts, wrong answers, kills

ASSUME BackfillAssumption ==
    /\ MonthStarts \subseteq Nat \ {0} /\ 1 \in MonthStarts
    /\ \E last \in MonthStarts : last > 1 /\ \A m \in MonthStarts : m <= last
    /\ Versions \in Nat \ {0}

VARIABLES request,    \* the requested range and its kind of data
          server,     \* the file and checksum versions of every URL, 0 when missing
          malformed,  \* versions whose rows break the daily trade schema
          revs,       \* what every revision directory holds
          bgaps,      \* recorded gaps
          imp,        \* the importer
          completed,  \* a run has written last_run.json
          refusals,   \* per URL: failed attempts since it was last disturbed
          troubles

bfvars == <<request, server, malformed, revs, bgaps, imp, completed, refusals, troubles>>

Horizon == Max(MonthStarts) - 1

(***************************************************************************)
(* The plan.                                                               *)
(***************************************************************************)
NextMonth(day) == Min({m \in MonthStarts : m > day})
MonthEnd(day) == NextMonth(day) - 1
MonthStart(day) == Max({m \in MonthStarts : m <= day})

PlanEntry(granularity, first, last) == [granularity |-> granularity, first |-> first, last |-> last]

\* A monthly file is taken for a month that lies whole in what is left of the range.
WholeMonth(cursor, end) == cursor \in MonthStarts /\ MonthEnd(cursor) <= end

\* One file after the other, each from the day behind the one before it.
FilesFrom(file, start, end) ==
    LET plan[cursor \in start..(Horizon + 1)] ==
            IF cursor > end THEN <<>>
            ELSE <<file[cursor]>> \o plan[file[cursor].last + 1]
    IN  plan[start]

BarsPlan(start, end) ==
    FilesFrom([cursor \in start..end |->
                  IF WholeMonth(cursor, end) THEN PlanEntry("monthly", cursor, MonthEnd(cursor))
                  ELSE PlanEntry("daily", cursor, cursor)], start, end)

\* Funding rates come in monthly files only.
FundingPlan(start, end) ==
    FilesFrom([month \in start..end |-> PlanEntry("monthly", month, MonthEnd(month))], start, end)

\* build_daily_trades_plan: every day is a file of its own.
DailyTradesPlan(start, end) == [i \in 1..(end - start + 1) |-> PlanEntry("daily", start + i - 1, start + i - 1)]

BuildPlan(q) ==
    IF q.data = "fundingRate" THEN FundingPlan(MonthStart(q.start), q.end)
    ELSE IF q.data = "dailyTrades" THEN DailyTradesPlan(q.start, q.end)
    ELSE BarsPlan(q.start, q.end)

Plan == BuildPlan(request)

(***************************************************************************)
(* The server and the files.                                               *)
(***************************************************************************)
\* A version is a sequence of blocks that carry its number; odd versions are longer.
Content(version) == [i \in 1..(1 + (version % 2)) |-> version]

EmptyRevision == [partial |-> <<>>, zip |-> <<>>, sum |-> FALSE, manifest |-> FALSE, parquet |-> <<>>]
NoImport == [pc |-> "idle", entry |-> 0, version |-> 0, calm |-> FALSE]

BfInit ==
    /\ \E start, end \in 1..Horizon, data \in {"klines", "fundingRate", "dailyTrades"} :
          start <= end /\ request = [start |-> start, end |-> end, data |-> data]
    /\ \E missing \in SUBSET Range(Plan) :
          server = [u \in Range(Plan) |-> IF u \in missing THEN [zip |-> 0, sum |-> 0]
                                          ELSE [zip |-> 1, sum |-> 1]]
    /\ malformed \in {{}, {Versions}}
    /\ revs = [u \in Range(Plan) |-> [v \in 1..Versions |-> EmptyRevision]]
    /\ bgaps = {} /\ imp = NoImport /\ completed = FALSE /\ troubles = 0
    /\ refusals = [u \in Range(Plan) |-> 0]

Here == Plan[imp.entry]
Revision == revs[Here][imp.version]
Files(revision) == revs' = [revs EXCEPT ![Here][imp.version] = revision]

\* Something outside the importer happens to URL u.
Troubled(u) ==
    /\ troubles < MaxTroubles
    /\ troubles' = troubles + 1
    /\ refusals' = [refusals EXCEPT ![u] = 0]

ServerChanges(u, field, version) ==
    /\ Troubled(u)
    /\ server' = [server EXCEPT ![u][field] = version]
    /\ server' # server
    /\ imp' = [imp EXCEPT !.calm = @ /\ u # Plan[imp.entry]]
    /\ UNCHANGED <<request, malformed, revs, bgaps, completed>>

(***************************************************************************)
(* The importer.                                                           *)
(***************************************************************************)
Untouched == UNCHANGED <<request, server, malformed>>
Calm == UNCHANGED <<refusals, troubles>>

To(pc) == imp' = [imp EXCEPT !.pc = pc]

\* Daily trades are validated row by row; a file that breaks their schema is kept and
\* raises.
Malformed(version) == request.data = "dailyTrades" /\ version \in malformed

\* An exception ends the run.
RaiseImport ==
    /\ imp' = NoImport
    /\ refusals' = [refusals EXCEPT ![Here] =
            IF /\ imp.calm /\ server[Here].zip = server[Here].sum
               /\ ~Malformed(imp.version)
            THEN @ + 1 ELSE @]
    /\ UNCHANGED troubles

\* The entry is finished: the next one, or the run document.
Finished ==
    /\ imp' = IF imp.entry = Len(Plan) THEN NoImport
              ELSE [pc |-> "checksum", entry |-> imp.entry + 1, version |-> 0, calm |-> TRUE]
    /\ completed' = (imp.entry = Len(Plan))
    /\ Calm

RunImport ==
    /\ imp.pc = "idle"
    /\ imp' = [pc |-> "checksum", entry |-> 1, version |-> 0, calm |-> TRUE]
    /\ completed' = FALSE
    /\ Untouched /\ Calm /\ UNCHANGED <<revs, bgaps>>

RecordGap(reason) ==
    /\ bgaps' = bgaps \union {<<Here, reason>>}
    /\ Finished
    /\ UNCHANGED revs

VerifyFile(blocks, version) == blocks = Content(version)

\* import_entry to the choice of the revision: one that has a manifest is only verified.
FetchChecksum ==
    /\ imp.pc = "checksum"
    /\ Untouched
    /\ LET version == server[Here].sum
           there == revs[Here][version]
       IN  IF version = 0 THEN RecordGap("CHECKSUM_NOT_FOUND")
           ELSE /\ IF there.manifest /\ there.zip # <<>> /\ ~VerifyFile(there.zip, version)
                   THEN RaiseImport
                   ELSE imp' = [imp EXCEPT !.version = version,
                                  !.pc = IF there.manifest /\ there.zip # <<>>
                                         THEN "normalise" ELSE "download"] /\ Calm
                /\ UNCHANGED <<revs, bgaps, completed>>

\* _download_zip, from the size of the partial file.  ranged: the server honours the
\* range; got: how much of the answer arrives.
Answer(ranged, got) ==
    LET body == Content(server[Here].zip)
        offset == Len(Revision.partial)
    IN  IF ranged /\ offset > 0 THEN Revision.partial \o SubSeq(body, offset + 1, got)
        ELSE SubSeq(body, 1, got)

Downloaded ==
    /\ imp.pc = "download" /\ Untouched
    /\ LET version == server[Here].zip
           offset == Len(Revision.partial)
       IN  \/ version = 0 /\ RecordGap("ZIP_NOT_FOUND")
           \* HTTP 416: nothing lies behind the offset
           \/ /\ version # 0 /\ offset > 0 /\ offset >= Len(Content(version))
              /\ To("verify") /\ Calm /\ UNCHANGED <<revs, bgaps, completed>>
           \/ /\ version # 0 /\ offset < Len(Content(version))
              /\ \E ranged \in BOOLEAN :
                    Files([Revision EXCEPT !.partial = Answer(ranged, Len(Content(version)))])
              /\ To("verify") /\ Calm /\ UNCHANGED <<bgaps, completed>>

\* The connection ends early: with an error, or as an ordinary end of the answer.
DownloadCut(noticed) ==
    /\ imp.pc = "download" /\ Untouched /\ server[Here].zip # 0
    /\ Len(Revision.partial) < Len(Content(server[Here].zip))
    /\ \E ranged \in BOOLEAN, got \in 0..(Len(Content(server[Here].zip)) - 1) :
          /\ ranged => got >= Len(Revision.partial)
          /\ Files([Revision EXCEPT !.partial = Answer(ranged, got)])
    /\ Troubled(Here)
    /\ imp' = IF noticed THEN NoImport ELSE [imp EXCEPT !.pc = "verify", !.calm = FALSE]
    /\ UNCHANGED <<bgaps, completed>>

\* A 206 answer for another range: the partial file is removed.
WrongRange ==
    /\ imp.pc = "download" /\ Untouched /\ server[Here].zip # 0
    /\ Revision.partial # <<>>
    /\ Files([Revision EXCEPT !.partial = <<>>])
    /\ Troubled(Here) /\ imp' = NoImport
    /\ UNCHANGED <<bgaps, completed>>

\* A file that fails the verification is removed.
Mismatch(revision) == [revision EXCEPT !.partial = <<>>]

\* The mutant trusts a download that ended without an error.
VerifiedByEnd(revision, version) == TRUE

Verified(revision, version) == VerifyFile(revision.partial, version)

VerifyPartial ==
    /\ imp.pc = "verify" /\ Untouched
    /\ IF Verified(Revision, imp.version)
       THEN /\ Files([Revision EXCEPT !.zip = Revision.partial, !.partial = <<>>])
            /\ To("sum") /\ Calm
       ELSE Files(Mismatch(Revision)) /\ RaiseImport
    /\ UNCHANGED <<bgaps, completed>>

WriteChecksum ==
    /\ imp.pc = "sum" /\ Untouched
    /\ Files([Revision EXCEPT !.sum = TRUE])
    /\ To("manifest") /\ Calm /\ UNCHANGED <<bgaps, completed>>

WriteSourceManifest ==
    /\ imp.pc = "manifest" /\ Untouched
    /\ Files([Revision EXCEPT !.manifest = TRUE])
    /\ To("normalise") /\ Calm /\ UNCHANGED <<bgaps, completed>>

\* Rows carry the version that they were read from.
RowsOf(zip) == zip

\* _normalize: an output that exists is returned as it is; a new one appears by a rename.
Normalise ==
    /\ imp.pc = "normalise" /\ Untouched
    /\ IF Revision.parquet # <<>> THEN Finished /\ UNCHANGED revs
       ELSE IF Malformed(imp.version)
       THEN RaiseImport /\ UNCHANGED <<revs, completed>>
       ELSE Files([Revision EXCEPT !.parquet = RowsOf(Revision.zip)]) /\ Finished
    /\ UNCHANGED bgaps

KillImport ==
    /\ imp.pc # "idle"
    /\ Troubled(Here)
    /\ imp' = NoImport
    /\ UNCHANGED <<request, server, malformed, revs, bgaps, completed>>

BfNext ==
    \/ \E u \in Range(Plan), field \in {"zip", "sum"}, version \in 0..Versions :
          ServerChanges(u, field, version)
    \/ RunImport \/ FetchChecksum \/ Downloaded \/ WrongRange \/ VerifyPartial
    \/ \E noticed \in BOOLEAN : DownloadCut(noticed)
    \/ WriteChecksum \/ WriteSourceManifest \/ Normalise \/ KillImport

BfSpec == BfInit /\ [][BfNext]_bfvars

\* _verify_normalized: the metadata of the Parquet name the revision and its file.
ParquetIsOf(parquet, zip) == parquet # <<>> /\ parquet = RowsOf(zip)

\* verify(): what it demands of one revision that has a manifest.
VerifyRevision(u, version) ==
    LET r == revs[u][version]
    IN  /\ r.zip # <<>> /\ r.sum /\ VerifyFile(r.zip, version)
        /\ ParquetIsOf(r.parquet, r.zip)

(***************************************************************************)
(* Properties.                                                             *)
(***************************************************************************)
\* A revision that has a manifest holds the whole official file of its checksum, and a
\* Parquet of a revision is made from that file, whatever the server replaced while a
\* download was cut and resumed; verify accepts what has its Parquet (import_entry,
\* _download_zip, _normalize, verify).
SourceIsOfficial ==
    \A u \in DOMAIN revs : \A v \in 1..Versions :
        LET r == revs[u][v]
        IN  /\ r.manifest => r.sum /\ r.zip = Content(v)
            /\ r.parquet # <<>> =>
                  r.manifest /\ r.parquet = Content(v) /\ VerifyRevision(u, v)

\* A run that completed accounts for its range: every requested day lies in exactly one
\* file of the plan, and each file has been imported or has a recorded gap; only funding
\* rates reach beyond the range (build_plan, HistoricalImporter.run, _record_gap).
RunAccountsForDays ==
    completed =>
        /\ \A day \in request.start..request.end :
              Cardinality({i \in DOMAIN Plan : day \in Plan[i].first..Plan[i].last}) = 1
        /\ request.data # "fundingRate" =>
              \A i \in DOMAIN Plan : Plan[i].first..Plan[i].last \subseteq request.start..request.end
        /\ \A i \in DOMAIN Plan :
              \/ \E v \in 1..Versions : revs[Plan[i]][v].parquet # <<>>
              \/ \E gap \in bgaps : gap[1] = Plan[i]

\* No partial file stands in the way for ever: against a server that holds one
\* consistent, well-formed version, at most one attempt at a file fails after the last
\* disturbance (import_entry removes the partial file that fails its verification).
RetrySucceeds == \A u \in DOMAIN refusals : refusals[u] <= 1

\* A history import is exact: each day once, from the official bytes, and in the end
\* successful, through every replacement on the server, cut download and kill
\* (backfill/planner, backfill/importer).
ImportIsExact == SourceIsOfficial /\ RunAccountsForDays /\ RetrySucceeds

=============================================================================
