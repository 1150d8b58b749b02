----------------------------- MODULE Normalise ------------------------------
(***************************************************************************)
(* Derived data: the Normalizer (normalize/pipeline.py) reads every sealed *)
(* Raw chunk, parses each record (normalize/parser.py), removes duplicates *)
(* by an external merge sort and publishes content-addressed partitions    *)
(* under one build manifest; ManifestCatalog and ReplayDataset (replay/)   *)
(* open exactly one build and give its rows in one order.                  *)
(*                                                                         *)
(* A hash is the value it is computed from, ordered by a sequence of       *)
(* numbers that stands for its digits.  While a build runs, chunks are     *)
(* sealed, moved to the archive and checkpoints are saved; the process may *)
(* be killed between any two durable steps.                                *)
(***************************************************************************)
EXTENDS Integers, Sequences, SequencesExt, FiniteSets, FiniteSetsExt, Functions

CONSTANTS RowsPerRun,      \* SORT_ROWS_PER_RUN and REPLAY_BATCH_ROWS
          FanIn,           \* MERGE_FAN_IN
          MaxSealed,       \* bound: chunks
          MaxPerChunk,     \* bound: records of a chunk
          MaxCheckpoints,  \* bound: checkpoints saved
          MaxAttempts,     \* bound: builds begun
          MaxDisturbances  \* bound: gaps, kills, archive moves, volume changes

ASSUME NormaliseAssumption == RowsPerRun \in Nat \ {0} /\ FanIn \in Nat \ {0, 1}

VARIABLES store,      \* sealed chunks, in the order of their hashes
          mounted,    \* the archive volume is READY
          saved,      \* order-book checkpoints: sets of source chunks
          norm,       \* the running normaliser
          artifacts,  \* Parquet files by their names
          manifests,  \* partition manifests by their names
          counted,    \* metric batches that the Catalog has added
          published,  \* build manifests by build id
          heard,      \* what a consumer has replayed
          disturbed,  \* disturbances so far
          attempts    \* builds begun so far

normvars == <<store, mounted, saved, norm, artifacts, manifests, counted, published, heard,
              disturbed, attempts>>

(***************************************************************************)
(* Records.  A chunk is of one stream; the payload of a record is a list   *)
(* of observations [id, value], value 0 being one that breaks the schema,  *)
(* value 9 a public one in a representation that no parser knows.          *)
(*   event        trades, tickers, depth: one item per record              *)
(*   page         a page of five-minute statistics                         *)
(*   funding      an answer with the funding history, empty or not         *)
(*   observation  a public observation, kept as it came                    *)
(***************************************************************************)
Families == {"event", "page", "funding", "observation"}
Observed(id, value) == [id |-> id, value |-> value]
PayloadsOf(family) ==
    IF family = "page"
    THEN {<<>>, <<Observed(1, 1)>>, <<Observed(1, 2), Observed(2, 1)>>,
          <<Observed(2, 1), Observed(1, 0)>>}
    ELSE IF family = "funding"
    THEN {<<>>, <<Observed(1, 1)>>, <<Observed(2, 1), Observed(1, 2)>>}
    ELSE {<<Observed(1, 0)>>, <<Observed(1, 1)>>,
          IF family = "event" THEN <<Observed(1, 2)>> ELSE <<Observed(1, 9)>>}
RecordsOf(family) == [payload : PayloadsOf(family), hour : 0..1]

Breaks(payload) == \E i \in DOMAIN payload : payload[i].value = 0
Unsupported(payload) == \E i \in DOMAIN payload : payload[i].value = 9

\* One parsed event: identity and content as digits, the exchange time it carries or -1.
Parsed(identity, content, valid, time, sub) ==
    [sem |-> identity, log |-> content, valid |-> valid, time |-> time, sub |-> sub]

Digits(payload) == FoldLeft(LAMBDA d, o : d \o <<o.id, o.value>>, <<>>, payload)

Invalid(payload) == <<Parsed(<<9>> \o Digits(payload), <<9>>, FALSE, -1, 0)>>

CoreWebsocket(payload) ==
    <<Parsed(<<1, payload[1].id>>, <<payload[1].value>>, TRUE, payload[1].id, 0)>>

\* One event per item; "empty" is the identity of an answer without items.
Items(payload, empty) ==
    IF payload = <<>> THEN <<Parsed(empty, <<>>, TRUE, -1, 0)>>
    ELSE [i \in DOMAIN payload |->
            Parsed(<<2, 2 + payload[i].id>>, <<payload[i].value>>, TRUE, payload[i].id, i)]

\* An empty page is an observation of its requested range, which the hour stands for.
FiveMinuteRest(payload, hour) == Items(payload, <<2, hour>>)

\* An empty funding answer is an observation of its own poll.  The other REST streams
\* (exchange information, premium index, open interest) parse to one item.
SideRest(family, payload, hour, chunk, ordinal) ==
    IF family = "page" THEN FiveMinuteRest(payload, hour)
    ELSE Items(payload, <<4, chunk, ordinal>>)

\* A public observation is identified by its reception and kept when it is malformed.
SourceObservation(payload, chunk, ordinal) ==
    <<Parsed(<<3, chunk, ordinal>>, Digits(payload), ~Breaks(payload), -1, 0)>>

ParseEnvelope(family, record, chunk, ordinal) ==
    IF family = "observation" THEN SourceObservation(record.payload, chunk, ordinal)
    ELSE IF Breaks(record.payload) THEN Invalid(record.payload)
    ELSE IF family = "event" THEN CoreWebsocket(record.payload)
    ELSE SideRest(family, record.payload, record.hour, chunk, ordinal)

Candidate(chunk, ordinal, event) ==
    [sem |-> event.sem, log |-> event.log, valid |-> event.valid, time |-> event.time,
     hour |-> store[chunk].records[ordinal].hour,
     family |-> store[chunk].family, gap |-> store[chunk].gap,
     source |-> <<chunk, ordinal, event.sub>>]

CandidatesOf(chunk) ==
    FlattenSeq([n \in DOMAIN store[chunk].records |->
        LET events == ParseEnvelope(store[chunk].family, store[chunk].records[n], chunk, n)
        IN  [i \in DOMAIN events |-> Candidate(chunk, n, events[i])]])

(***************************************************************************)
(* The external merge sort that the normaliser and the replay share.  A    *)
(* key is a sequence of sequences of numbers.                              *)
(***************************************************************************)
\* Lexical order of numbers, and of the fields of a key.
Below(a, b) ==
    \/ \E n \in 1..Min({Len(a), Len(b)}) : a[n] < b[n] /\ \A k \in 1..(n - 1) : a[k] = b[k]
    \/ Len(a) < Len(b) /\ \A k \in DOMAIN a : a[k] = b[k]
Before(a, b) ==
    \E n \in DOMAIN a : Below(a[n], b[n]) /\ \A k \in 1..(n - 1) : a[k] = b[k]

\* The mutant compares the content before the identity.
KeyByContent(c) == <<c.log, c.sem, <<c.hour>>, c.source>>

CandidateKey(c) == <<c.sem, c.log, <<c.hour>>, c.source>>

\* list.sort is stable: an item goes behind those it is not before.
SortedRun(items) ==
    FoldLeft(LAMBDA run, x :
                 LET n == Cardinality({i \in DOMAIN run : ~Before(x.key, run[i].key)})
                 IN  SubSeq(run, 1, n) \o <<x>> \o SubSeq(run, n + 1, Len(run)),
             <<>>, items)

\* The heap gives the smallest key, of equal keys the one of the first run.
RECURSIVE MergeRuns(_)
MergeRuns(runs) ==
    LET open == {r \in DOMAIN runs : runs[r] # <<>>}
    IN  IF open = {} THEN <<>>
        ELSE LET r == CHOOSE i \in open : \A k \in open \ {i} :
                          \/ Before(runs[i][1].key, runs[k][1].key)
                          \/ i < k /\ ~Before(runs[k][1].key, runs[i][1].key)
             IN  <<runs[r][1]>> \o MergeRuns([runs EXCEPT ![r] = Tail(@)])

Batches(items, size) ==
    [b \in 1..((Len(items) + size - 1) \div size) |->
        SubSeq(items, (b - 1) * size + 1, Min({b * size, Len(items)}))]

RECURSIVE CollapseRuns(_)
CollapseRuns(runs) ==
    IF Len(runs) <= FanIn THEN runs
    ELSE LET groups == Batches(runs, FanIn)
         IN  CollapseRuns([g \in DOMAIN groups |-> MergeRuns(groups[g])])

Keyed(items, Key(_)) == [i \in DOMAIN items |-> [key |-> Key(items[i]), item |-> items[i]]]

ExternalSort(keyed) ==
    LET batches == Batches(keyed, RowsPerRun)
        merged == MergeRuns(CollapseRuns([b \in DOMAIN batches |-> SortedRun(batches[b])]))
    IN  [i \in DOMAIN merged |-> merged[i].item]

(***************************************************************************)
(* Deduplication.                                                          *)
(***************************************************************************)
Winner(variant, conflict) ==
    [sem |-> variant[1].sem, log |-> variant[1].log, valid |-> variant[1].valid,
     time |-> variant[1].time, hour |-> variant[1].hour, family |-> variant[1].family,
     gap |-> variant[1].gap, sources |-> [i \in DOMAIN variant |-> variant[i].source],
     conflict |-> conflict]

\* emit: the rows of one group of equal semantic keys.
Emitted(group) ==
    LET contents == {group[i].log : i \in DOMAIN group}
        order == SetToSortSeq(contents, Below)
    IN  [v \in DOMAIN order |->
           Winner(SelectSeq(group, LAMBDA c : c.log = order[v]), Cardinality(contents) > 1)]

\* Maximal stretches of equal semantic keys in the sorted candidates.
Groups(sorted) ==
    LET firsts == {i \in DOMAIN sorted : i = 1 \/ sorted[i].sem # sorted[i - 1].sem}
        starts == SetToSortSeq(firsts, <)
    IN  [g \in DOMAIN starts |->
           SubSeq(sorted, starts[g], IF g = Len(starts) THEN Len(sorted) ELSE starts[g + 1] - 1)]

Deduplicated(sorted) ==
    LET groups == Groups(sorted)
    IN  FlattenSeq([g \in DOMAIN groups |-> Emitted(groups[g])])

PartitionKey(row) == <<row.family, row.hour>>

\* _PartitionSpools: each partition has its rows in the order of emission.
Spools(rows) ==
    [key \in {PartitionKey(rows[i]) : i \in DOMAIN rows} |->
        SelectSeq(rows, LAMBDA r : PartitionKey(r) = key)]

Total(numbers) == FoldLeft(LAMBDA a, b : a + b, 0, numbers)
SourceCount(rows) == Total([i \in DOMAIN rows |-> Len(rows[i].sources)])

\* _partition_statistics: the manifest of a partition.
PartitionManifest(key, rows) ==
    [key |-> key, rows |-> rows, count |-> Len(rows), candidates |-> SourceCount(rows),
     chunks |-> UNION {{rows[i].sources[k][1] : k \in DOMAIN rows[i].sources} : i \in DOMAIN rows}]

(***************************************************************************)
(* The world: the recorder seals, the archiver moves, a volume comes and   *)
(* goes.  A chunk holds one stream; the chunks of a behaviour are of one   *)
(* family, since rows of two families never meet.                          *)
(***************************************************************************)
Idle0 == [pc |-> "idle", todo |-> <<>>, chosen |-> {}, selection |-> "all", checkpoints |-> {},
          lines |-> <<>>, spool |-> <<>>, keys |-> <<>>, entries |-> <<>>]
NoReplay == [build |-> <<>>, query |-> <<>>, result |-> <<>>]

NormInit ==
    /\ store = <<>> /\ saved = {} /\ norm = Idle0 /\ mounted = TRUE
    /\ artifacts = {} /\ manifests = {} /\ counted = {} /\ published = <<>>
    /\ heard = NoReplay /\ disturbed = 0 /\ attempts = 0

Disturbs == disturbed < MaxDisturbances /\ disturbed' = disturbed + 1

\* A build looks at the set of chunks once, and at the checkpoints after that: a chunk
\* sealed later in the build is one that is sealed when the build has ended.
SealChunk(family, records, gap) ==
    /\ norm.pc \in {"idle", "scan"}
    /\ Len(store) < MaxSealed
    /\ store # <<>> => store[1].family = family
    /\ store' = Append(store, [family |-> family, records |-> records, gap |-> gap,
                               at |-> "internal"])
    /\ IF gap THEN Disturbs ELSE disturbed' = disturbed
    /\ UNCHANGED <<attempts, mounted, saved, norm, artifacts, manifests, counted, published>>

ArchiveChunk(c) ==
    /\ mounted /\ store[c].at = "internal" /\ Disturbs
    /\ store' = [store EXCEPT ![c].at = "external"]
    /\ UNCHANGED <<attempts, mounted, saved, norm, artifacts, manifests, counted, published>>

VolumeChanges ==
    /\ (\E c \in DOMAIN store : store[c].at = "external") /\ Disturbs
    /\ mounted' = ~mounted
    /\ UNCHANGED <<attempts, store, saved, norm, artifacts, manifests, counted, published>>

\* OrderBookCheckpointStore.save: the book of the newest chunk.
SaveCheckpoint ==
    /\ store # <<>> /\ Cardinality(saved) < MaxCheckpoints
    /\ saved' = saved \cup {{Len(store)}}
    /\ UNCHANGED <<attempts, store, mounted, norm, artifacts, manifests, counted, published, disturbed>>

(***************************************************************************)
(* Normalizer.run.                                                         *)
(***************************************************************************)
\* The range filter: "first" is a build whose end_utc_ns is the end of hour 0.
InRange(selection, hour) == selection = "all" \/ hour = 0
Selected(selection, c) ==
    InRange(selection, Min({store[c].records[n].hour : n \in DOMAIN store[c].records}))
Available(c) == store[c].at = "internal" \/ mounted

LockIsFree == norm.pc = "idle"

\* The lock is free, every selected chunk is available and valid, else nothing happens.
LoadSourceChunks(selection) ==
    LET chosen == {c \in DOMAIN store : Selected(selection, c)}
    IN  /\ LockIsFree /\ attempts < MaxAttempts
        /\ attempts' = attempts + 1
        /\ chosen # {} /\ \A c \in chosen : Available(c)
        /\ norm' = [Idle0 EXCEPT !.pc = "scan", !.chosen = chosen, !.selection = selection,
                       !.todo = [i \in DOMAIN SetToSeq(chosen) |->
                                   LET c == SetToSortSeq(chosen, <)[i]
                                   IN  [chunk |-> c, at |-> store[c].at]]]
        /\ UNCHANGED <<store, mounted, saved, artifacts, manifests, counted, published, disturbed>>

CheckpointEntries ==
    /\ norm.pc = "scan"
    /\ norm' = [norm EXCEPT !.pc = "read",
                   !.checkpoints = IF norm.selection = "all" THEN saved ELSE {}]
    /\ UNCHANGED <<attempts, store, mounted, saved, artifacts, manifests, counted, published, disturbed>>

\* iter_source_records opens the path that load_source_chunks chose; a file that has
\* left it fails the build, and so does a record of its range that cannot be parsed.
ReadChunk ==
    /\ norm.pc = "read" /\ norm.todo # <<>>
    /\ LET next == Head(norm.todo)
           there == store[next.chunk].at = next.at /\ Available(next.chunk)
           parses == \A n \in DOMAIN store[next.chunk].records :
                        LET record == store[next.chunk].records[n]
                        IN  InRange(norm.selection, record.hour) => ~Unsupported(record.payload)
           lines == SelectSeq(CandidatesOf(next.chunk),
                              LAMBDA c : InRange(norm.selection, c.hour))
       IN  norm' = IF there /\ parses THEN [norm EXCEPT !.todo = Tail(@), !.lines = @ \o lines]
                   ELSE Idle0
    /\ UNCHANGED <<attempts, store, mounted, saved, artifacts, manifests, counted, published, disturbed>>

SortAndDeduplicate ==
    /\ norm.pc = "read" /\ norm.todo = <<>>
    /\ LET spool == Spools(Deduplicated(ExternalSort(Keyed(norm.lines, CandidateKey))))
       IN  norm' = [norm EXCEPT !.pc = "write", !.lines = <<>>, !.spool = spool,
                      !.keys = SetToSeq(DOMAIN spool)]
    /\ UNCHANGED <<attempts, store, mounted, saved, artifacts, manifests, counted, published, disturbed>>

\* _commit_partition: the artifact, its manifest, its metric batch.  Names are contents.
Key0 == Head(norm.keys)
WriteParquet ==
    /\ norm.pc = "write" /\ norm.keys # <<>>
    /\ artifacts' = artifacts \cup {<<Key0, norm.spool[Key0]>>}
    /\ norm' = [norm EXCEPT !.pc = "manifest"]
    /\ UNCHANGED <<attempts, store, mounted, saved, manifests, counted, published, disturbed>>

WriteManifest ==
    /\ norm.pc = "manifest"
    /\ manifests' = manifests \cup {PartitionManifest(Key0, norm.spool[Key0])}
    /\ norm' = [norm EXCEPT !.pc = "metric"]
    /\ UNCHANGED <<attempts, store, mounted, saved, artifacts, counted, published, disturbed>>

MetricPartition ==
    /\ norm.pc = "metric"
    /\ counted' = counted \cup {<<Key0, norm.spool[Key0]>>}
    /\ norm' = [norm EXCEPT !.pc = "write", !.keys = Tail(@),
                   !.entries = Append(@, PartitionManifest(Key0, norm.spool[Key0]))]
    /\ UNCHANGED <<attempts, store, mounted, saved, artifacts, manifests, published, disturbed>>

BuildId == <<norm.chosen, norm.checkpoints, norm.selection>>

BuildManifest ==
    [sources |-> norm.chosen, checkpoints |-> norm.checkpoints, selection |-> norm.selection,
     partitions |-> norm.entries,
     count |-> Total([i \in DOMAIN norm.entries |-> norm.entries[i].count]),
     candidates |-> Total([i \in DOMAIN norm.entries |-> norm.entries[i].candidates])]

PublishBuild ==
    /\ norm.pc = "write" /\ norm.keys = <<>>
    /\ published' = IF BuildId \in DOMAIN published THEN published
                    ELSE [id \in DOMAIN published \cup {BuildId} |->
                            IF id = BuildId THEN BuildManifest ELSE published[id]]
    /\ norm' = Idle0
    /\ UNCHANGED <<attempts, store, mounted, saved, artifacts, manifests, counted, disturbed>>

\* What was durable stays; work files and partial files are removed by the next build.
KillNormaliser ==
    /\ norm.pc # "idle" /\ Disturbs
    /\ norm' = Idle0
    /\ UNCHANGED <<attempts, store, mounted, saved, artifacts, manifests, counted, published>>

(***************************************************************************)
(* ManifestCatalog.open_build and ReplayDataset.replay.                    *)
(***************************************************************************)
Opens(build) ==
    /\ \A i \in DOMAIN build.partitions :
          /\ build.partitions[i] \in manifests
          /\ <<build.partitions[i].key, build.partitions[i].rows>> \in artifacts
    /\ build.count = Total([i \in DOMAIN build.partitions |-> Len(build.partitions[i].rows)])
    /\ \A c \in build.checkpoints : c \subseteq build.sources

Queries ==
    [clock : {"RECEIVE"}, missing : {"ERROR"}, gaps : {"ERROR", "INCLUDE", "EXCLUDE"}, end : {1, 3}]
        \cup [clock : {"EXCHANGE"}, missing : {"ERROR", "EXCLUDE", "FALLBACK_RECEIVE"},
              gaps : {"INCLUDE"}, end : {3}]

\* _EXCHANGE_FIELDS: the streams that have a clock of the exchange.
ClockedFamilies == {"event", "funding"}

\* EventClock.resolve: -1 excludes the row, -2 is an error.  The policy for a missing time
\* is looked at only for a stream with a clock.
ClockReading(row, query) ==
    IF query.clock = "RECEIVE" THEN row.hour
    ELSE IF row.family \notin ClockedFamilies THEN -2
    ELSE IF row.time >= 0 THEN row.time
    ELSE IF query.missing = "EXCLUDE" THEN -1
    ELSE IF query.missing = "FALLBACK_RECEIVE" THEN row.hour
    ELSE -2

\* The mutant lets the time of reception decide before the chosen clock.
ReplayKeyByReception(query, row) == <<<<row.hour, ClockReading(row, query)>>, row.sources[1], row.log>>

ReplayKey(query, row) == <<<<ClockReading(row, query), row.hour>>, row.sources[1], row.log>>

AllRows(build) == FlattenSeq([i \in DOMAIN build.partitions |-> build.partitions[i].rows])

\* Rows before the range ends, and the one that a policy refuses.
Within(row, query) ==
    ClockReading(row, query) # -1 /\ ClockReading(row, query) < query.end
Refuses(row, query) ==
    ClockReading(row, query) = -2 \/ (Within(row, query) /\ row.gap /\ query.gaps = "ERROR")

ReplayRows(build, query) ==
    LET rows == AllRows(build)
        taken == SelectSeq(rows, LAMBDA r : Within(r, query) /\ (r.gap => query.gaps = "INCLUDE"))
    IN  IF \E i \in DOMAIN rows : Refuses(rows[i], query) THEN [failed |-> TRUE, rows |-> <<>>]
        ELSE [failed |-> FALSE, rows |-> ExternalSort(Keyed(taken, LAMBDA r : ReplayKey(query, r)))]

\* A build does not change: reading it when the last chunk is sealed is reading it at all.
Replay(id, query) ==
    /\ norm.pc = "idle" /\ Len(store) = MaxSealed /\ Opens(published[id])
    /\ heard' = [build |-> id, query |-> query, result |-> ReplayRows(published[id], query)]
    /\ UNCHANGED <<attempts, store, mounted, saved, norm, artifacts, manifests, counted, published,
                   disturbed>>

NormNext ==
    /\ heard = NoReplay
    /\ \/ /\ heard' = heard
          /\ \/ \E f \in Families, gap \in BOOLEAN :
                  \E n \in 1..MaxPerChunk : \E records \in [1..n -> RecordsOf(f)] :
                      SealChunk(f, records, gap)
             \/ \E c \in DOMAIN store : ArchiveChunk(c)
             \/ VolumeChanges \/ SaveCheckpoint
             \/ \E selection \in {"all", "first"} : LoadSourceChunks(selection)
             \/ CheckpointEntries \/ ReadChunk \/ SortAndDeduplicate
             \/ WriteParquet \/ WriteManifest \/ MetricPartition \/ PublishBuild
             \/ KillNormaliser
       \/ \E id \in DOMAIN published, query \in Queries : Replay(id, query)

NormSpec == NormInit /\ [][NormNext]_normvars

(***************************************************************************)
(* Properties.                                                             *)
(***************************************************************************)
ExpectedSources(build) ==
    {s \in UNION {{CandidatesOf(c)[i].source : i \in DOMAIN CandidatesOf(c)} : c \in build.sources} :
        InRange(build.selection, store[s[1]].records[s[2]].hour)}

\* Where a source was put: rows and places in their lists of duplicates.
Places(rows, s) == {<<i, k>> \in (DOMAIN rows) \X (1..SourceCount(rows)) :
                      k \in DOMAIN rows[i].sources /\ rows[i].sources[k] = s}

\* What a build manifest publishes is there, whole and exact, whatever was killed or moved
\* while it was made: each observation of its chunks is named by exactly one row, once;
\* two rows with one identity differ in content and are both marked as a conflict, and
\* only those are; the counts are the counts (Normalizer._run_locked, _commit_partition).
BuildIsExact ==
    \A id \in DOMAIN published :
        LET build == published[id]
            rows == AllRows(build)
            expected == ExpectedSources(build)
        IN  /\ \A i \in DOMAIN build.partitions :
                 /\ build.partitions[i] \in manifests
                 /\ <<build.partitions[i].key, build.partitions[i].rows>> \in artifacts
            /\ \A s \in expected : Cardinality(Places(rows, s)) = 1
            /\ build.candidates = Cardinality(expected)
            /\ \A i \in DOMAIN rows :
                 /\ \A k \in DOMAIN rows \ {i} : rows[k].sem = rows[i].sem => rows[k].log # rows[i].log
                 /\ rows[i].conflict = (\E k \in DOMAIN rows \ {i} : rows[k].sem = rows[i].sem)

\* A replay gives, of the rows of one build, exactly those that its query takes, each
\* once, in the order of the clock it chose, however the rows were split into runs
\* (ReplayDataset.replay, _merge_documents, _collapse_runs).
ReplayIsOrdered ==
    heard # NoReplay /\ ~heard.result.failed =>
        LET events == heard.result.rows
            rows == AllRows(published[heard.build])
            time(r) == ClockReading(r, heard.query)
        IN  /\ \A i \in 1..(Len(events) - 1) : time(events[i]) <= time(events[i + 1])
            /\ \A i \in DOMAIN rows :
                 Cardinality({k \in DOMAIN events : events[k] = rows[i]}) =
                     (IF Within(rows[i], heard.query)
                         /\ (rows[i].gap => heard.query.gaps = "INCLUDE") THEN 1 ELSE 0)
            /\ heard.query.gaps = "EXCLUDE" => \A i \in DOMAIN events : ~events[i].gap

=============================================================================
