------------------------------ MODULE Archive ------------------------------
(***************************************************************************)
(* Archiving of sealed Raw chunks to one registered external volume:       *)
(* ArchiveManager (archive/manager.py) over the archive tables of the      *)
(* Catalog (storage/catalog/archive_ops.py), the safe eject of the volume  *)
(* (storage/macos/eject.py) and the registry's readiness probe             *)
(* (storage/macos/registry.py), which run in processes of their own.       *)
(*                                                                         *)
(* An action is one step between two durable effects.  An attempt of the   *)
(* manager may end after any of them, by an exception or a kill: its next  *)
(* attempt starts from the state in the Catalog.  A power loss, and for    *)
(* the volume its removal, also drops what was not yet fsynced; `stable`   *)
(* is the set of Catalog contents a power loss may leave (see RawChunk).   *)
(***************************************************************************)
EXTENDS Naturals

CONSTANTS
    Chunks,       \* sealed chunks, in the order of their transactions
    NoChunk,      \* no transaction in progress
    Damageable,   \* external files a device fault may damage
    MaxFaults,    \* bound on failed attempts, removals, power losses, damages
    MaxEjects,    \* bound on eject requests
    MaxProbes     \* bound on readiness probes

ASSUME ChunkAssumption == NoChunk \notin Chunks
ASSUME DamageAssumption == Damageable \subseteq {"tmp", "art", "man"}
ASSUME BoundAssumption == MaxFaults \in Nat /\ MaxEjects \in Nat /\ MaxProbes \in Nat

VARIABLES
    src,      \* data/sealed: the internal artifact of each chunk
    dev,      \* the volume: .copying file, artifact and archive manifest
    vol,      \* where the volume is
    cat,      \* committed content of the Catalog
    stable,   \* the contents a power loss may leave
    mgr,      \* the attempt of the ArchiveManager
    ej,       \* the eject request in progress
    reg,      \* a readiness probe is between its two Catalog accesses
    faults, ejects, probes

catalog == <<cat, stable>>
counters == <<faults, ejects, probes>>
vars == <<src, dev, vol, cat, stable, mgr, ej, reg, faults, ejects, probes>>

-----------------------------------------------------------------------------
(* Files.  "unlinked" is an unlink whose directory is not fsynced.  Of the *)
(* external files, "partial" is a copy being written, "cached" has all its *)
(* bytes but was not fsynced, "synced" is a durable temporary file,        *)
(* "renamed" awaits the fsync of its directory, "good" is durable.         *)

SourceFile == {"here", "unlinked", "gone"}

External == [tmp : {"none", "partial", "cached", "synced", "bad"},
             art : {"none", "cached", "renamed", "good", "bad"},
             man : {"none", "renamed", "good", "bad"}]

NoFiles == [tmp |-> "none", art |-> "none", man |-> "none"]

\* What a read-back finds: size and SHA-256 are those of the transaction.
Intact(f) == f \in {"cached", "synced", "renamed", "good"}

Safe(d) == d.art = "good" /\ d.man = "good"

Fsynced(f) == IF f = "renamed" THEN "good" ELSE f

\* Mutant: the directories are created and not fsynced.
DirectoriesOnlyMade(d) == d

\* _ensure_external_directories fsyncs raw/ and manifests/.
EnsureDirectories(d) == [d EXCEPT !.art = Fsynced(@), !.man = Fsynced(@)]

\* What is left of the files of one chunk when the volume vanishes.
Survivors(d) ==
    {e \in External :
        /\ \/ d.art = "renamed" /\ e.art = "good" /\ e.tmp = "none"
           \/ d.art = "renamed" /\ e.art = "none" /\ e.tmp = "synced"
           \/ d.art = "cached" /\ e.art \in {"good", "bad"} /\ e.tmp = d.tmp
           \/ /\ d.art \in {"none", "good", "bad"} /\ e.art = d.art
              /\ \/ d.tmp = "partial" /\ e.tmp \in {"none", "partial"}
                 \/ d.tmp = "cached" /\ e.tmp \in {"none", "partial", "synced"}
                 \/ d.tmp \in {"none", "synced", "bad"} /\ e.tmp = d.tmp
        /\ \/ d.man = "renamed" /\ e.man \in {"none", "good"}
           \/ d.man # "renamed" /\ e.man = d.man}

\* A clean unmount writes everything out.
Flushed(d) == [tmp |-> IF d.tmp = "cached" THEN "synced" ELSE d.tmp,
               art |-> IF Intact(d.art) THEN "good" ELSE d.art,
               man |-> Fsynced(d.man)]

-----------------------------------------------------------------------------
(* The Catalog. *)

ArchiveState == {"NONE", "COPYING", "VERIFYING", "VERIFIED", "LOCAL_DELETE_PENDING",
                 "LOCAL_DELETED"}

\* `archived`, `deleted`: rows of the metric batches of each transaction.
\* `req`, `refused`: request identity and evidence of the storage_control row.
CatalogType == [arch : [Chunks -> ArchiveState],
                archived : [Chunks -> Nat], deleted : [Chunks -> Nat],
                control : {"ACTIVE", "EJECT_PENDING", "SAFE_TO_REMOVE"},
                req : Nat, refused : BOOLEAN]

Incomplete(k) == {c \in Chunks : k.arch[c] \notin {"NONE", "LOCAL_DELETED"}}

\* Mutant: the barrier covers the commits before this one only.
BarrierTooEarly(k) == cat' = k /\ stable' = {cat}

\* _transaction, and with force_sync.
Commit(k) == cat' = k /\ stable' = stable \cup {k}
CommitFull(k) == cat' = k /\ stable' = {k}

Moved(c, to) == [cat EXCEPT !.arch = [@ EXCEPT ![c] = to]]

\* Mutant: every retry adds a row.
BatchAgain(n) == n + 1

\* record_metric_batch: nothing is added for a batch_id that is there.
Batch(n) == IF n > 0 THEN n ELSE n + 1
Counted(batches, c) == [batches EXCEPT ![c] = Batch(batches[c])]

-----------------------------------------------------------------------------
Steps == {"copy", "copying", "copied", "verify", "check", "rename", "renamed", "manifest",
          "written", "commit", "archived", "pending", "validate", "unlink", "sync",
          "deleted", "finish"}

NoAttempt == [chunk |-> NoChunk, step |-> "idle"]
Attempt == [chunk : Chunks, step : Steps]

NoEject == [step |-> "idle", req |-> 0]
Eject == [step : {"idle", "prepare", "request"}, req : Nat]

Init ==
    /\ src = [c \in Chunks |-> "here"]
    /\ dev = [c \in Chunks |-> NoFiles]
    /\ vol = "mounted"
    /\ cat = [arch |-> [c \in Chunks |-> "NONE"],
              archived |-> [c \in Chunks |-> 0], deleted |-> [c \in Chunks |-> 0],
              control |-> "ACTIVE", req |-> 0, refused |-> FALSE]
    /\ stable = {cat}
    /\ mgr = NoAttempt /\ ej = NoEject /\ reg = FALSE
    /\ faults = 0 /\ ejects = 0 /\ probes = 0

-----------------------------------------------------------------------------
(* ArchiveManager.  What the code validates is a conjunct; a validation    *)
(* that fails ends the attempt (action Abort).                             *)

Go(step) == mgr' = [mgr EXCEPT !.step = step]
At(step) == mgr.step = step

\* Mutant: the latch is not consulted.
AllocatesAnyway == TRUE

\* reserve_archive_transaction: the target takes new work.
Allocates == cat.control = "ACTIVE"

\* _next_transaction without an incomplete transaction.
Reserve(c) ==
    /\ mgr = NoAttempt /\ Incomplete(cat) = {}
    /\ cat.arch[c] = "NONE" /\ src[c] = "here" /\ Allocates
    /\ Commit(Moved(c, "COPYING"))
    /\ mgr' = [chunk |-> c, step |-> "copy"]
    /\ UNCHANGED <<src, dev, vol, ej, reg, counters>>

EntryStep == [COPYING |-> "copy", VERIFYING |-> "verify", VERIFIED |-> "archived",
              LOCAL_DELETE_PENDING |-> "validate"]

\* The oldest incomplete transaction goes on where the Catalog says.
Resume(c) ==
    /\ mgr = NoAttempt /\ c \in Incomplete(cat)
    /\ mgr' = [chunk |-> c, step |-> EntryStep[cat.arch[c]]]
    /\ UNCHANGED <<src, dev, vol, catalog, ej, reg, counters>>

\* The external files of a chunk become d.
SetFiles(c, d) == dev' = [dev EXCEPT ![c] = d]

\* Target identity, directories and source bundle, then the temporary file.
Prepared(c, tmp) ==
    /\ vol = "mounted" /\ src[c] = "here"
    /\ dev' = [d \in Chunks |->
                 IF d = c THEN [EnsureDirectories(dev[d]) EXCEPT !.tmp = tmp]
                 ELSE EnsureDirectories(dev[d])]

\* _copy, up to the first write.
Copy ==
    LET c == mgr.chunk IN
    /\ At("copy")
    /\ \/ Intact(dev[c].art) /\ Prepared(c, "none") /\ Go("copied")
       \/ dev[c].art = "none" /\ Prepared(c, "partial") /\ Go("copying")
    /\ UNCHANGED <<src, vol, catalog, ej, reg, counters>>

\* The rest of _copy: the bytes, fsync of the file and of its directory.
CopyEnd ==
    /\ At("copying") /\ vol = "mounted"
    /\ SetFiles(mgr.chunk, [dev[mgr.chunk] EXCEPT !.tmp = "synced"])
    /\ Go(IF cat.arch[mgr.chunk] = "COPYING" THEN "copied" ELSE "check")
    /\ UNCHANGED <<src, vol, catalog, ej, reg, counters>>

CommitVerifying ==
    /\ At("copied")
    /\ Commit(Moved(mgr.chunk, "VERIFYING"))
    /\ Go("verify")
    /\ UNCHANGED <<src, dev, vol, ej, reg, counters>>

\* _verify_and_commit_external: reuse the artifact, copy again, or verify the copy.
Verify ==
    LET c == mgr.chunk IN
    /\ At("verify")
    /\ \/ Intact(dev[c].art) /\ Prepared(c, "none") /\ Go("manifest")
       \/ dev[c].art = "none" /\ dev[c].tmp = "none" /\ Prepared(c, "partial") /\ Go("copying")
       \/ /\ dev[c].art = "none" /\ dev[c].tmp # "none"
          /\ Prepared(c, dev[c].tmp) /\ Go("check")
    /\ UNCHANGED <<src, vol, catalog, ej, reg, counters>>

\* Mutant: a copy that fails verification is kept.
CheckKeepsTemporary ==
    LET c == mgr.chunk IN
    /\ At("check") /\ vol = "mounted" /\ UNCHANGED dev
    /\ IF Intact(dev[c].tmp) THEN Go("rename") ELSE mgr' = NoAttempt
    /\ UNCHANGED <<src, vol, catalog, ej, reg, counters>>

\* Full read-back of the temporary file; a bad one is removed and raises.
Check ==
    LET c == mgr.chunk IN
    /\ At("check") /\ vol = "mounted"
    /\ \/ Intact(dev[c].tmp) /\ Go("rename") /\ UNCHANGED dev
       \/ ~Intact(dev[c].tmp) /\ SetFiles(c, [dev[c] EXCEPT !.tmp = "none"]) /\ mgr' = NoAttempt
    /\ UNCHANGED <<src, vol, catalog, ej, reg, counters>>

\* os.replace takes the file as it is by now; its data may not be durable.
Rename ==
    LET c == mgr.chunk  t == dev[c].tmp IN
    /\ At("rename") /\ vol = "mounted" /\ t # "none"
    /\ SetFiles(c, [dev[c] EXCEPT !.tmp = "none",
                                  !.art = IF t = "synced" THEN "renamed"
                                          ELSE IF t = "cached" THEN "cached" ELSE "bad"])
    /\ Go("renamed")
    /\ UNCHANGED <<src, vol, catalog, ej, reg, counters>>

SyncRename ==
    LET c == mgr.chunk IN
    /\ At("renamed") /\ vol = "mounted"
    /\ SetFiles(c, [dev[c] EXCEPT !.art = Fsynced(dev[c].art)])
    /\ Go("manifest")
    /\ UNCHANGED <<src, vol, catalog, ej, reg, counters>>

\* The external manifest: an existing one must match, a new one is fsynced,
\* renamed and its directory fsynced.
WriteManifest ==
    LET c == mgr.chunk IN
    /\ At("manifest") /\ vol = "mounted"
    /\ \/ Intact(dev[c].man) /\ Go("commit") /\ UNCHANGED dev
       \/ dev[c].man = "none" /\ SetFiles(c, [dev[c] EXCEPT !.man = "renamed"]) /\ Go("written")
    /\ UNCHANGED <<src, vol, catalog, ej, reg, counters>>

SyncManifest ==
    LET c == mgr.chunk IN
    /\ At("written") /\ vol = "mounted"
    /\ SetFiles(c, [dev[c] EXCEPT !.man = Fsynced(dev[c].man)])
    /\ Go("commit")
    /\ UNCHANGED <<src, vol, catalog, ej, reg, counters>>

CommitVerified ==
    /\ At("commit")
    /\ Commit(Moved(mgr.chunk, "VERIFIED"))
    /\ Go("archived")
    /\ UNCHANGED <<src, dev, vol, ej, reg, counters>>

RecordArchivedMetric ==
    /\ At("archived")
    /\ Commit([cat EXCEPT !.archived = Counted(@, mgr.chunk)])
    /\ Go("pending")
    /\ UNCHANGED <<src, dev, vol, ej, reg, counters>>

\* Mutant: the deletion is authorised without the full barrier.
CommitDeletePendingNormal ==
    /\ At("pending")
    /\ Commit(Moved(mgr.chunk, "LOCAL_DELETE_PENDING"))
    /\ Go("validate")
    /\ UNCHANGED <<src, dev, vol, ej, reg, counters>>

CommitDeletePending ==
    /\ At("pending")
    /\ CommitFull(Moved(mgr.chunk, "LOCAL_DELETE_PENDING"))
    /\ Go("validate")
    /\ UNCHANGED <<src, dev, vol, ej, reg, counters>>

\* Mutant: a resumed deletion trusts the VERIFIED state.
ValidateNothing ==
    /\ At("validate")
    /\ Go(IF src[mgr.chunk] = "here" THEN "unlink" ELSE "deleted")
    /\ UNCHANGED <<src, dev, vol, catalog, ej, reg, counters>>

\* _validate_external_commit, then the source if it is still there.
ValidateExternalCommit ==
    LET c == mgr.chunk IN
    /\ At("validate") /\ vol = "mounted"
    /\ Intact(dev[c].art) /\ Intact(dev[c].man)
    /\ Go(IF src[c] = "here" THEN "unlink" ELSE "deleted")
    /\ UNCHANGED <<src, dev, vol, catalog, ej, reg, counters>>

UnlinkSource ==
    /\ At("unlink")
    /\ src' = [src EXCEPT ![mgr.chunk] = "unlinked"]
    /\ Go("sync")
    /\ UNCHANGED <<dev, vol, catalog, ej, reg, counters>>

SyncSource ==
    /\ At("sync")
    /\ src' = [src EXCEPT ![mgr.chunk] = "gone"]
    /\ Go("deleted")
    /\ UNCHANGED <<dev, vol, catalog, ej, reg, counters>>

RecordDeletedMetric ==
    /\ At("deleted")
    /\ Commit([cat EXCEPT !.deleted = Counted(@, mgr.chunk)])
    /\ Go("finish")
    /\ UNCHANGED <<src, dev, vol, ej, reg, counters>>

CommitDeleted ==
    /\ At("finish")
    /\ CommitFull(Moved(mgr.chunk, "LOCAL_DELETED"))
    /\ mgr' = NoAttempt
    /\ UNCHANGED <<src, dev, vol, ej, reg, counters>>

Fault == faults < MaxFaults /\ faults' = faults + 1

\* An exception (recorded, state kept) or a kill; while the copy is written
\* all its bytes may be there without the fsync.
Abort ==
    /\ mgr # NoAttempt /\ Fault
    /\ \/ UNCHANGED dev
       \/ At("copying") /\ SetFiles(mgr.chunk, [dev[mgr.chunk] EXCEPT !.tmp = "cached"])
    /\ mgr' = NoAttempt
    /\ UNCHANGED <<src, vol, catalog, ej, reg, ejects, probes>>

-----------------------------------------------------------------------------
(* SafeEjectCoordinator. *)

\* begin_storage_eject refuses while archive work is incomplete.
BeginEject ==
    /\ ej = NoEject /\ ejects < MaxEjects
    /\ vol = "mounted" \/ (vol = "unmounted" /\ cat.refused)
    /\ Incomplete(cat) = {}
    /\ Commit([cat EXCEPT !.control = "EJECT_PENDING", !.req = ejects + 1,
                          !.refused = FALSE])
    /\ ejects' = ejects + 1
    /\ ej' = [step |-> "prepare", req |-> ejects + 1]
    /\ UNCHANGED <<src, dev, vol, mgr, reg, faults, probes>>

\* finish_storage_eject; it raises when the request is no longer its own.
FinishEject(state, refused) ==
    /\ ej' = NoEject
    /\ \/ /\ cat.req = ej.req
          /\ Commit([cat EXCEPT !.control = state, !.refused = refused])
       \/ cat.req # ej.req /\ UNCHANGED catalog

\* Directories and Catalog WAL; a checkpoint that finds the WAL busy syncs
\* nothing and says nothing.
PrepareEject ==
    /\ ej.step = "prepare"
    /\ \/ /\ dev' = IF vol = "mounted" THEN [c \in Chunks |-> EnsureDirectories(dev[c])] ELSE dev
          /\ stable' \in {stable, {cat}} /\ UNCHANGED cat
          /\ ej' = [ej EXCEPT !.step = "request"]
       \/ FinishEject("ACTIVE", FALSE) /\ UNCHANGED dev
    /\ UNCHANGED <<src, vol, mgr, reg, counters>>

\* The volume is unmounted cleanly, which an open copy prevents.
Unmount == /\ vol \in {"mounted", "unmounted"} /\ ~At("copying")
           /\ vol' = "unmounted"
           /\ dev' = [c \in Chunks |-> Flushed(dev[c])]

EjectSucceeds ==
    /\ ej.step = "request"
    /\ Unmount /\ FinishEject("SAFE_TO_REMOVE", FALSE)
    /\ UNCHANGED <<src, mgr, reg, counters>>

\* A dissenter on unmount or on eject, or the volume is gone.
EjectRefused ==
    /\ ej.step = "request"
    /\ \/ UNCHANGED <<vol, dev>> /\ FinishEject("ACTIVE", FALSE)
       \/ Unmount /\ FinishEject("ACTIVE", TRUE)
    /\ UNCHANGED <<src, mgr, reg, counters>>

\* A timeout or an exception after the request keeps the latch; so does a
\* kill at any step.
EjectUncertain ==
    /\ ej # NoEject
    /\ ej' = NoEject
    /\ UNCHANGED <<src, dev, vol, catalog, mgr, reg, counters>>

-----------------------------------------------------------------------------
(* StorageRegistry._resolve_target reads the control state, probes the     *)
(* directory and then clears the latch.                                    *)

ReadControl ==
    /\ ~reg /\ probes < MaxProbes /\ vol = "mounted"
    /\ cat.control # "EJECT_PENDING"
    /\ reg' = TRUE /\ probes' = probes + 1
    /\ UNCHANGED <<src, dev, vol, catalog, mgr, ej, faults, ejects>>

ActivateTarget ==
    /\ reg /\ reg' = FALSE
    /\ \/ /\ cat.control # "ACTIVE"
          /\ Commit([cat EXCEPT !.control = "ACTIVE", !.req = 0, !.refused = FALSE])
       \/ cat.control = "ACTIVE" /\ UNCHANGED catalog
    /\ UNCHANGED <<src, dev, vol, mgr, ej, counters>>

ProbeFails ==
    /\ reg /\ vol # "mounted" /\ reg' = FALSE
    /\ UNCHANGED <<src, dev, vol, catalog, mgr, ej, counters>>

-----------------------------------------------------------------------------
(* The environment. *)

Lost == \E d \in [Chunks -> UNION {Survivors(dev[c]) : c \in Chunks}] :
            (\A c \in Chunks : d[c] \in Survivors(dev[c])) /\ dev' = d

\* The steps of one pass over the volume: its next system call is not so late
\* that a volume pulled out before it could be back.
OnVolume == {"copying", "check", "rename", "renamed", "manifest", "written"}

\* The volume is pulled out (EIO, ENXIO, ENODEV in the pass that uses it).
Remove ==
    /\ vol # "absent" /\ Fault
    /\ vol' = "absent"
    /\ IF vol = "mounted" THEN Lost ELSE UNCHANGED dev
    /\ mgr' = IF mgr.step \in OnVolume THEN NoAttempt ELSE mgr
    /\ UNCHANGED <<src, catalog, ej, reg, ejects, probes>>

Mount ==
    /\ vol # "mounted"
    /\ vol' = "mounted"
    /\ UNCHANGED <<src, dev, catalog, mgr, ej, reg, counters>>

\* A device fault damages a durable file, but not between a read-back and the
\* step that relies on it, nor when the source is gone.
Damage(c, f) ==
    /\ Fault /\ src[c] = "here"
    /\ ~(mgr.chunk = c /\ mgr.step \in {"rename", "unlink"})
    /\ \/ f = "tmp" /\ dev[c].tmp = "synced" /\ SetFiles(c, [dev[c] EXCEPT !.tmp = "bad"])
       \/ f = "art" /\ dev[c].art = "good" /\ SetFiles(c, [dev[c] EXCEPT !.art = "bad"])
       \/ f = "man" /\ dev[c].man = "good" /\ SetFiles(c, [dev[c] EXCEPT !.man = "bad"])
    /\ UNCHANGED <<src, vol, catalog, mgr, ej, reg, ejects, probes>>

PowerLoss ==
    /\ Fault
    /\ src' \in [Chunks -> SourceFile]
    /\ \A c \in Chunks : IF src[c] = "unlinked" THEN src'[c] \in {"here", "gone"}
                         ELSE src'[c] = src[c]
    /\ Lost
    /\ cat' \in stable /\ stable' = {cat'}
    /\ mgr' = NoAttempt /\ ej' = NoEject /\ reg' = FALSE
    /\ UNCHANGED <<vol, ejects, probes>>

-----------------------------------------------------------------------------
Manager ==
    \/ \E c \in Chunks : Reserve(c) \/ Resume(c)
    \/ Copy \/ CopyEnd \/ CommitVerifying \/ Verify \/ Check \/ Rename \/ SyncRename
    \/ WriteManifest \/ SyncManifest \/ CommitVerified \/ RecordArchivedMetric
    \/ CommitDeletePending \/ ValidateExternalCommit \/ UnlinkSource \/ SyncSource
    \/ RecordDeletedMetric \/ CommitDeleted

Ejecting == BeginEject \/ PrepareEject \/ EjectSucceeds \/ EjectRefused \/ EjectUncertain

Probing == ReadControl \/ ActivateTarget \/ ProbeFails

Environment == \/ Abort \/ Remove \/ Mount \/ PowerLoss
               \/ \E c \in Chunks, f \in Damageable : Damage(c, f)

Next == Manager \/ Ejecting \/ Probing \/ Environment

Spec == Init /\ [][Next]_vars

\* The archive timer runs the manager again and again, and the volume that
\* was pulled out is put back.
FairSpec == Spec /\ WF_vars(Manager) /\ WF_vars(Mount)

-----------------------------------------------------------------------------
(* Properties. *)

\* Every variable has its type, and the Catalog readers see is one that a power
\* loss may leave.
TypeOK ==
    /\ src \in [Chunks -> SourceFile]
    /\ dev \in [Chunks -> External]
    /\ vol \in {"mounted", "unmounted", "absent"}
    /\ cat \in CatalogType
    /\ stable \subseteq CatalogType /\ cat \in stable
    /\ mgr \in Attempt \cup {NoAttempt}
    /\ ej \in Eject
    /\ reg \in BOOLEAN
    /\ faults \in 0..MaxFaults /\ ejects \in 0..MaxEjects /\ probes \in 0..MaxProbes

\* A sealed chunk always has a durable copy: the source is deleted only when
\* artifact and manifest are intact and durable on the volume, so no removal,
\* kill, power loss or damaged copy costs data (manager.py, _advance).
NeverLost == \A c \in Chunks : src[c] = "here" \/ Safe(dev[c])

\* No power loss brings back a Catalog for which a deleted source still exists:
\* LOCAL_DELETE_PENDING is behind a full barrier before the unlink.
DeletionIsAuthorised ==
    \A k \in stable, c \in Chunks :
        src[c] # "here" => k.arch[c] \in {"LOCAL_DELETE_PENDING", "LOCAL_DELETED"}

\* Their inductive form, for a volume whose temporary files are not damaged.
\* The attempt is where the Catalog says it is ...
AttemptAgrees ==
    LET st == cat.arch[mgr.chunk] IN
    /\ mgr.step \in {"copy", "copying", "copied"} => st = "COPYING"
    /\ mgr.step \in {"verify", "check", "rename", "renamed", "manifest", "written", "commit"}
          => st = "VERIFYING"
    /\ mgr.step \in {"archived", "pending"} => st = "VERIFIED"
    /\ mgr.step \in {"validate", "unlink", "sync", "deleted", "finish"}
          => st = "LOCAL_DELETE_PENDING"

\* ... and has made durable what its next step relies on;
AttemptDurable ==
    LET d == dev[mgr.chunk] IN
    /\ mgr.step = "copied" => d.art \in {"good", "bad"} \/ d.tmp = "synced"
    /\ mgr.step = "copied" => d.tmp # "cached"
    /\ mgr.step \in {"copying", "check", "rename"} => d.art = "none"
    /\ mgr.step \in {"manifest", "written", "commit"} => d.art \in {"good", "bad"}
    /\ mgr.step = "renamed" => d.art # "none"
    /\ mgr.step \in {"check", "rename", "renamed", "manifest"} => d.man # "renamed"
    /\ mgr.step = "written" => d.man # "none"
    /\ mgr.step = "commit" => d.man \in {"good", "bad"}
    /\ mgr.step \in {"unlink", "sync"} => Safe(d)
    /\ mgr.step = "unlink" => src[mgr.chunk] = "here"
    /\ mgr.step = "sync" => src[mgr.chunk] = "unlinked"

\* a copy without its fsync belongs to a transaction that will copy again;
FilesInOrder ==
    \A c \in Chunks :
        /\ dev[c].art # "cached"
        /\ dev[c].tmp = "cached" => cat.arch[c] = "COPYING"

\* and no Catalog a power loss may leave is ahead of the files.
FilesBeforeCatalog ==
    \A k \in stable, c \in Chunks :
        /\ k.arch[c] = "VERIFYING" =>
              dev[c].art \in {"renamed", "good", "bad"} \/ dev[c].tmp = "synced"
        /\ k.arch[c] \in {"VERIFIED", "LOCAL_DELETE_PENDING", "LOCAL_DELETED"} =>
              dev[c].art \in {"good", "bad"} /\ dev[c].man \in {"good", "bad"}
        /\ cat.arch[c] \in {"NONE", "COPYING"} => k.arch[c] \in {"NONE", "COPYING"}
        /\ cat.arch[c] \in {"LOCAL_DELETE_PENDING", "LOCAL_DELETED"} =>
              k.arch[c] \in {"LOCAL_DELETE_PENDING", "LOCAL_DELETED"}

ArchiveInv ==
    /\ AttemptAgrees /\ AttemptDurable /\ FilesInOrder /\ FilesBeforeCatalog
    /\ NeverLost /\ DeletionIsAuthorised

\* While the latch of an eject is set, in the Catalog or in what a power loss
\* leaves of it, the target has no archive work: reserve_archive_transaction and
\* begin_storage_eject exclude each other.
LatchMeansIdle == \A k \in stable : k.control # "ACTIVE" => Incomplete(k) = {}

\* However often a transaction is retried or rolled back, its archived and
\* deleted bytes are in the metrics exactly once when it is over.
CountedOnce ==
    \A k \in stable, c \in Chunks :
        /\ k.archived[c] <= 1 /\ k.deleted[c] <= 1
        /\ k.arch[c] \in {"LOCAL_DELETE_PENDING", "LOCAL_DELETED"} => k.archived[c] = 1
        /\ k.arch[c] = "LOCAL_DELETED" => k.deleted[c] = 1

\* Its inductive form: the attempt's transaction is incomplete, and an eject
\* whose request is still the one in the Catalog holds the latch.
LatchInv ==
    /\ LatchMeansIdle
    /\ mgr # NoAttempt => mgr.chunk \in Incomplete(cat)
    /\ ej # NoEject => ej.req # 0 /\ (cat.req = ej.req => cat.control # "ACTIVE")

\* Who holds chunk c, in the terms of module Custody.
Holder(c) ==
    IF ~Safe(dev[c]) THEN IF src[c] = "here" THEN "local" ELSE "lost"
    ELSE IF src[c] = "gone" THEN "external" ELSE "both"

Abstract == INSTANCE Custody WITH holder <- [c \in Chunks |-> Holder(c)]

\* A chunk is handed over only while both copies exist and never comes back:
\* the manager, its retries and every fault implement module Custody.
KeepsCustody == Abstract!Spec

\* Every sealed chunk is archived and released in the end, if the volume comes
\* back and the faults are finitely many: a failed attempt can always resume.
Archived == \A c \in Chunks : <>(cat.arch[c] = "LOCAL_DELETED")

\* ADR-0015: "The verified Catalog transition is committed only after the final
\* artifact and external manifest are durable."  The code does not keep it
\* (ArchiveCachedCopy.cfg).
VerifiedIsDurable ==
    \A c \in Chunks : cat.arch[c] \in {"VERIFIED", "LOCAL_DELETE_PENDING", "LOCAL_DELETED"}
                          => Safe(dev[c])

\* ADR-0017: "either archive reservation wins and eject is refused, or eject
\* wins and no new archive work can be allocated."  The code does not keep it
\* (ArchiveLatchRace.cfg).
EjectExcludesAllocation == ej # NoEject => Incomplete(cat) = {}
=============================================================================
