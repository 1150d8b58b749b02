-------------------------- MODULE CatalogSnapshot ---------------------------
(***************************************************************************)
(* The Catalog snapshots that the offline workspace keeps of the remote    *)
(* recorder (archive/catalog_snapshot.py): CatalogSnapshotExporter makes a *)
(* private copy of the live Catalog and streams it, CatalogSnapshotStore   *)
(* receives, verifies and retains it as a generation named by two          *)
(* retention slots, and removes the generations that no slot names.        *)
(*                                                                         *)
(* The workspace may lose power between any two operations: a change of a  *)
(* directory that was not synchronised is then kept or lost, entry by      *)
(* entry.  Several exporters may serve at once; flock lets a later one     *)
(* recognise the stages that are still in use.                             *)
(***************************************************************************)
EXTENDS Integers, Sequences, FiniteSets, FiniteSetsExt

CONSTANTS Exporters,        \* processes that may export
          MaxGenerations,   \* bound: snapshots begun
          MaxPowerLosses,   \* bound: power losses of the workspace
          MaxExportKills    \* bound: exporters killed

ASSUME SnapshotAssumption == MaxGenerations \in Nat /\ Exporters # {}

VARIABLES remote,     \* the state of the triggering receipt in the live Catalog
          exporter,   \* exporters and the stage that each owns
          keeper,     \* the writer of the store and what it has read
          slots,      \* the two retention documents: seen and durable
          gens,       \* generations: seen and durable
          acked,      \* generation number of the last result returned
          csSpent     \* [begun, losses, kills] against the bounds

csvars == <<remote, exporter, keeper, slots, gens, acked, csSpent>>

(***************************************************************************)
(* Documents.  A snapshot is its number and the receipt state it holds; a  *)
(* retention document names the latest and the previous one (0 for none).  *)
(***************************************************************************)
Generations == 1..MaxGenerations
EmptyRetention == [generation |-> 0, latest |-> 0, previous |-> 0]
StateOrder == [NONE |-> 0, REMOTE_DELETE_PENDING |-> 1, REMOTE_DELETED |-> 2]
LowerBound(required, observed) == StateOrder[observed] >= StateOrder[required]

NoStage == [pc |-> "off", stage |-> "none", lock |-> FALSE, required |-> "NONE", copy |-> "NONE"]
NoKeeper == [pc |-> "off", from |-> CHOOSE e \in Exporters : TRUE, required |-> "NONE", id |-> 0,
             base |-> EmptyRetention, first |-> 1, left |-> {}]

\* What a directory shows now and what it shows after a power loss.
Both(v) == [seen |-> v, durable |-> v]
Synced(f) == [x \in DOMAIN f |-> Both(f[x].seen)]

\* A store that _initialize_or_validate has completed.
CsInit ==
    /\ remote = "REMOTE_DELETE_PENDING"
    /\ exporter = [e \in Exporters |-> NoStage]
    /\ keeper = NoKeeper
    /\ slots = [n \in 1..2 |-> Both(EmptyRetention)]
    /\ gens = [g \in Generations |-> Both("absent")]
    /\ acked = 0
    /\ csSpent = [begun |-> 0, losses |-> 0, kills |-> 0]

\* The session that the workflow runs may go on to delete.
RemoteDeletes ==
    /\ remote = "REMOTE_DELETE_PENDING"
    /\ remote' = "REMOTE_DELETED"
    /\ UNCHANGED <<exporter, keeper, slots, gens, acked, csSpent>>

(***************************************************************************)
(* CatalogSnapshotExporter: one stage directory with owner marker, lock    *)
(* file and copy.                                                          *)
(***************************************************************************)
Export(e, required) ==
    /\ exporter[e].pc = "off"
    /\ exporter' = [exporter EXCEPT ![e] = [NoStage EXCEPT !.pc = "cleanup", !.required = required,
                                              !.stage = exporter[e].stage]]

\* _cleanup_inactive_stages: a stage with a marker and a lock file that nobody holds.  The
\* stage that a killed exporter leaves stays in the place of that exporter.
Inactive(f) == exporter[f].stage \in {"locked", "copied"} /\ ~exporter[f].lock

CleanupStages(e) ==
    /\ exporter[e].pc = "cleanup"
    /\ exporter' = [f \in Exporters |->
          IF f = e THEN [exporter[e] EXCEPT !.pc = "stage", !.stage = "none"]
          ELSE IF Inactive(f) THEN [exporter[f] EXCEPT !.stage = "none"]
          ELSE exporter[f]]
    /\ UNCHANGED <<remote, keeper, slots, gens, acked, csSpent>>

\* mkdir and marker; then the lock file, which is on disk before it is locked.
MakeStage(e) ==
    /\ exporter[e].pc = "stage"
    /\ exporter' = [exporter EXCEPT ![e].pc = "lock", ![e].stage = "locked"]
    /\ UNCHANGED <<remote, keeper, slots, gens, acked, csSpent>>

LockStage(e) ==
    /\ exporter[e].pc = "lock"
    /\ exporter' = [exporter EXCEPT ![e].pc = "backup", ![e].lock = TRUE]
    /\ UNCHANGED <<remote, keeper, slots, gens, acked, csSpent>>

\* The copy is made and validated; a stage that another exporter has removed fails it.
Backup(e) ==
    /\ exporter[e].pc = "backup"
    /\ exporter' = [exporter EXCEPT ![e] =
          IF @.stage = "locked" /\ LowerBound(@.required, remote)
          THEN [@ EXCEPT !.pc = "stream", !.stage = "copied", !.copy = remote]
          ELSE NoStage]
    /\ UNCHANGED <<remote, keeper, slots, gens, acked, csSpent>>

\* close: the lock is released and the stage removed, whether or not all was read.
CloseStream(e) ==
    /\ exporter[e].pc = "stream"
    /\ ~(keeper.pc = "receive" /\ keeper.from = e)
    /\ exporter' = [exporter EXCEPT ![e] = NoStage]
    /\ UNCHANGED <<remote, keeper, slots, gens, acked, csSpent>>

KillExporter(e) ==
    /\ exporter[e].pc # "off" /\ csSpent.kills < MaxExportKills
    /\ csSpent' = [csSpent EXCEPT !.kills = @ + 1]
    /\ exporter' = [exporter EXCEPT ![e] = [NoStage EXCEPT !.stage = exporter[e].stage]]
    /\ UNCHANGED <<remote, keeper, slots, gens, acked>>

(***************************************************************************)
(* CatalogSnapshotStore: reading the retention.                            *)
(***************************************************************************)
\* _validate_retention_references.
ValidSlot(d) == \A g \in {d.latest, d.previous} \ {0} : gens[g].seen = "whole"
ValidSlots == {n \in 1..2 : ValidSlot(slots[n].seen)}

\* _read_retention: none is valid, or two that are equally new differ, is an error.
Readable ==
    /\ ValidSlots # {}
    /\ slots[1].seen.generation = slots[2].seen.generation /\ ValidSlots = 1..2
          => slots[1].seen = slots[2].seen
ReadRetention ==
    slots[CHOOSE n \in ValidSlots :
            \A k \in ValidSlots : slots[k].seen.generation <= slots[n].seen.generation].seen

\* PostSessionArchiveWorkflow.run_one with the writer lock: the session has committed a
\* state, the exporter is asked for a snapshot that holds it.
SnapshotPostSession(e) ==
    /\ keeper.pc = "off" /\ Readable /\ csSpent.begun < MaxGenerations
    /\ Export(e, remote)
    /\ csSpent' = [csSpent EXCEPT !.begun = @ + 1]
    /\ keeper' = [NoKeeper EXCEPT !.pc = "receive", !.from = e, !.required = remote,
                     !.id = csSpent.begun + 1, !.base = ReadRetention]
    /\ UNCHANGED <<remote, slots, gens, acked>>

\* The copy is received, synchronised, hashed and validated; a stream that was cut short
\* does not validate.
Receive(e) ==
    /\ keeper.pc = "receive" /\ keeper.from = e /\ exporter[e].pc = "stream"
    /\ LowerBound(keeper.required, exporter[e].copy)
    /\ keeper' = [keeper EXCEPT !.pc = "publish"]
    /\ UNCHANGED <<remote, exporter, slots, gens, acked, csSpent>>

PublishGeneration ==
    /\ keeper.pc = "publish"
    /\ gens' = [gens EXCEPT ![keeper.id].seen = "whole"]
    /\ keeper' = [keeper EXCEPT !.pc = "sync"]
    /\ UNCHANGED <<remote, exporter, slots, acked, csSpent>>

\* The mutant does not synchronise the directory of the generations.
LeavesDirectory == gens

\* fsync_directory(self.snapshots)
SyncsDirectory == Synced(gens)

\* The slots were read before: an invalid one, else the older one, is written first.
FirstSlot ==
    IF 1 \notin ValidSlots THEN 1
    ELSE IF 2 \notin ValidSlots THEN 2
    ELSE IF slots[1].seen.generation <= slots[2].seen.generation THEN 1 ELSE 2

SyncGenerations ==
    /\ keeper.pc = "sync"
    /\ gens' = SyncsDirectory
    /\ keeper' = [keeper EXCEPT !.pc = "replace1", !.first = FirstSlot]
    /\ UNCHANGED <<remote, exporter, slots, acked, csSpent>>

Updated == [generation |-> keeper.base.generation + 1, latest |-> keeper.id,
            previous |-> keeper.base.latest]

\* _write_retention: a complete, synchronised file replaces a slot.
ReplaceSlot(n, from, to) ==
    /\ keeper.pc = from
    /\ slots' = [slots EXCEPT ![n].seen = Updated]
    /\ keeper' = [keeper EXCEPT !.pc = to]
    /\ UNCHANGED <<remote, exporter, gens, acked, csSpent>>

SyncSlots(from, to) ==
    /\ keeper.pc = from
    /\ slots' = Synced(slots)
    /\ keeper' = [keeper EXCEPT !.pc = to, !.left = {g \in Generations : gens[g].seen # "absent"}
                                                       \ {keeper.id, keeper.base.latest}]
    /\ UNCHANGED <<remote, exporter, gens, acked, csSpent>>

WriteRetention ==
    \/ ReplaceSlot(keeper.first, "replace1", "sync1")
    \/ SyncSlots("sync1", "replace2")
    \/ ReplaceSlot(3 - keeper.first, "replace2", "sync2")
    \/ SyncSlots("sync2", "cleanup")

\* _cleanup_obsolete: whole generations go; one that lacks files ends the cleanup.
RemoveObsolete(g) ==
    /\ keeper.pc = "cleanup" /\ g \in keeper.left
    /\ IF gens[g].seen = "whole"
       THEN /\ gens' = [gens EXCEPT ![g].seen = "absent"]
            /\ keeper' = [keeper EXCEPT !.left = @ \ {g}]
       ELSE gens' = gens /\ keeper' = [keeper EXCEPT !.left = {}]
    /\ UNCHANGED <<remote, exporter, slots, acked, csSpent>>

SnapshotReturned ==
    /\ keeper.pc = "cleanup" /\ keeper.left = {}
    /\ Readable /\ ReadRetention = Updated
    /\ gens' = Synced(gens)
    /\ acked' = Updated.generation
    /\ keeper' = NoKeeper
    /\ UNCHANGED <<remote, exporter, slots, csSpent>>

\* An exception, of the stream or of the file system, leaves what is on disk.
KeeperFails ==
    /\ keeper.pc # "off"
    /\ keeper' = NoKeeper
    /\ UNCHANGED <<remote, exporter, slots, gens, acked, csSpent>>

\* Entries that were not synchronised are kept or lost; a removal may be half done.
AfterLoss(entry) == {entry.seen, entry.durable}
                      \cup (IF entry.durable = "whole" /\ entry.seen = "absent" THEN {"part"} ELSE {})
PowerLoss ==
    /\ csSpent.losses < MaxPowerLosses
    /\ csSpent' = [csSpent EXCEPT !.losses = @ + 1]
    /\ keeper' = NoKeeper
    /\ \E d \in {slots[1].seen, slots[1].durable} \X {slots[2].seen, slots[2].durable} :
          slots' = [n \in 1..2 |-> Both(d[n])]
    /\ \E f \in [Generations -> {"whole", "absent", "part"}] :
          /\ \A g \in Generations : f[g] \in AfterLoss(gens[g])
          /\ gens' = [g \in Generations |-> Both(f[g])]
    /\ UNCHANGED <<remote, exporter, acked>>

CsNext ==
    \/ RemoteDeletes
    \/ \E e \in Exporters :
          \/ CleanupStages(e) \/ MakeStage(e) \/ LockStage(e) \/ Backup(e)
          \/ CloseStream(e) \/ KillExporter(e) \/ SnapshotPostSession(e) \/ Receive(e)
    \/ PublishGeneration \/ SyncGenerations \/ WriteRetention
    \/ \E g \in Generations : RemoveObsolete(g)
    \/ SnapshotReturned \/ KeeperFails \/ PowerLoss

CsSpec == CsInit /\ [][CsNext]_csvars

(***************************************************************************)
(* Properties.                                                             *)
(***************************************************************************)
\* A snapshot that was returned to an archive session is never lost: in every state, a
\* power loss included, the store can be read, what it reads is at least as new, and the
\* generations it names are whole (_write_retention, _read_retention, _cleanup_obsolete).
LatestSurvives ==
    /\ Readable
    /\ ReadRetention.generation >= acked
    /\ acked > 0 => gens[ReadRetention.latest].seen = "whole"

\* The stage that an exporter streams from is its own and still there, although other
\* exporters clean up at any moment (open_catalog_snapshot, _cleanup_inactive_stages).
StreamIsOwned ==
    \A e \in Exporters : exporter[e].pc = "stream" =>
        exporter[e].stage = "copied" /\ exporter[e].lock

\* Exporters, the retention of the archive and their cleanups never take each other's
\* files, across kills and power losses (archive/catalog_snapshot).
SnapshotsAreKept == LatestSurvives /\ StreamIsOwned

=============================================================================
