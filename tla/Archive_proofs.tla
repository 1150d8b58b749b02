--------------------------- MODULE Archive_proofs ---------------------------
(***************************************************************************)
(* Theorems about Archive, for every number of chunks, faults, ejects and  *)
(* probes; and, in the last part, about Drain, where several managers work *)
(* on one target.                                                          *)
(***************************************************************************)
EXTENDS Archive, Drain, FiniteSetTheorems, WellFoundedInduction, TLAPS

(* What the operators on files and on the Catalog build. *)

Tmp == {"none", "partial", "cached", "synced", "bad"}
Art == {"none", "cached", "renamed", "good", "bad"}
Man == {"none", "renamed", "good", "bad"}

LEMMA SetTmp ==
    ASSUME NEW d \in External, NEW t \in Tmp
    PROVE  /\ [d EXCEPT !.tmp = t] \in External
           /\ [d EXCEPT !.tmp = t].tmp = t
           /\ [d EXCEPT !.tmp = t].art = d.art
           /\ [d EXCEPT !.tmp = t].man = d.man
    BY DEF External, Tmp

LEMMA SetArt ==
    ASSUME NEW d \in External, NEW a \in Art
    PROVE  /\ [d EXCEPT !.art = a] \in External
           /\ [d EXCEPT !.art = a].tmp = d.tmp
           /\ [d EXCEPT !.art = a].art = a
           /\ [d EXCEPT !.art = a].man = d.man
    BY DEF External, Art

LEMMA SetMan ==
    ASSUME NEW d \in External, NEW m \in Man
    PROVE  /\ [d EXCEPT !.man = m] \in External
           /\ [d EXCEPT !.man = m].tmp = d.tmp
           /\ [d EXCEPT !.man = m].art = d.art
           /\ [d EXCEPT !.man = m].man = m
    BY DEF External, Man

LEMMA ExternalFields ==
    ASSUME NEW d \in External
    PROVE  d.tmp \in Tmp /\ d.art \in Art /\ d.man \in Man
    BY DEF External, Tmp, Art, Man

LEMMA Ensured ==
    ASSUME NEW d \in External
    PROVE  /\ EnsureDirectories(d) \in External
           /\ EnsureDirectories(d).tmp = d.tmp
           /\ EnsureDirectories(d).art = Fsynced(d.art)
           /\ EnsureDirectories(d).man = Fsynced(d.man)
<1>1. Fsynced(d.art) \in Art /\ Fsynced(d.man) \in Man
    BY ExternalFields DEF Fsynced, Art, Man
<1> QED
    BY <1>1 DEF EnsureDirectories, External, Art, Man

LEMMA FlushedFiles ==
    ASSUME NEW d \in External
    PROVE  /\ Flushed(d) \in External
           /\ Flushed(d).tmp = IF d.tmp = "cached" THEN "synced" ELSE d.tmp
           /\ Flushed(d).art = IF Intact(d.art) THEN "good" ELSE d.art
           /\ Flushed(d).man = Fsynced(d.man)
    BY DEF Flushed, External, Fsynced, Intact

LEMMA MovedCatalog ==
    ASSUME cat \in CatalogType, NEW c \in Chunks, NEW to \in ArchiveState
    PROVE  /\ Moved(c, to) \in CatalogType
           /\ Moved(c, to).arch = [cat.arch EXCEPT ![c] = to]
           /\ Moved(c, to).control = cat.control
           /\ Moved(c, to).req = cat.req
    BY DEF Moved, CatalogType

LEMMA CountedType ==
    ASSUME cat \in CatalogType, NEW c \in Chunks
    PROVE  /\ [cat EXCEPT !.archived = Counted(@, c)] \in CatalogType
           /\ [cat EXCEPT !.deleted = Counted(@, c)] \in CatalogType
           /\ [cat EXCEPT !.archived = Counted(@, c)].arch = cat.arch
           /\ [cat EXCEPT !.deleted = Counted(@, c)].arch = cat.arch
           /\ [cat EXCEPT !.archived = Counted(@, c)].control = cat.control
           /\ [cat EXCEPT !.deleted = Counted(@, c)].control = cat.control
           /\ [cat EXCEPT !.archived = Counted(@, c)].req = cat.req
           /\ [cat EXCEPT !.deleted = Counted(@, c)].req = cat.req
<1>1. \A n \in Nat : Batch(n) \in Nat
    BY DEF Batch
<1>2. /\ Counted(cat.archived, c) \in [Chunks -> Nat]
      /\ Counted(cat.deleted, c) \in [Chunks -> Nat]
    BY <1>1 DEF CatalogType, Counted
<1> QED
    BY <1>2 DEF CatalogType

\* The Catalogs a power loss may leave keep their type with every commit.
LEMMA CommitType ==
    ASSUME TypeOK, NEW k \in CatalogType, Commit(k) \/ CommitFull(k)
    PROVE  cat' \in CatalogType /\ stable' \subseteq CatalogType /\ cat' \in stable'
    BY DEF TypeOK, Commit, CommitFull

LEMMA AttemptSteps ==
    ASSUME TypeOK, mgr.step # "idle"
    PROVE  mgr \in Attempt /\ mgr.chunk \in Chunks /\ mgr # NoAttempt
    BY DEF TypeOK, NoAttempt, Attempt

LEMMA GoType ==
    ASSUME TypeOK, mgr.step # "idle", NEW s \in Steps, Go(s)
    PROVE  mgr' \in Attempt /\ mgr'.chunk = mgr.chunk /\ mgr'.step = s
    BY AttemptSteps DEF Go, Attempt

\* The files after the directories were ensured and one temporary file set.
LEMMA PreparedFiles ==
    ASSUME TypeOK, NEW c \in Chunks, NEW t \in Tmp, Prepared(c, t)
    PROVE  /\ dev' \in [Chunks -> External]
           /\ \A e \in Chunks : /\ dev'[e].art = Fsynced(dev[e].art)
                                /\ dev'[e].man = Fsynced(dev[e].man)
                                /\ dev'[e].tmp = IF e = c THEN t ELSE dev[e].tmp
<1>1. \A e \in Chunks : dev[e] \in External
    BY DEF TypeOK
<1>2. ASSUME NEW e \in Chunks
      PROVE  LET d == EnsureDirectories(dev[e]) IN
             /\ d \in External /\ d.tmp = dev[e].tmp
             /\ d.art = Fsynced(dev[e].art) /\ d.man = Fsynced(dev[e].man)
             /\ [d EXCEPT !.tmp = t] \in External /\ [d EXCEPT !.tmp = t].tmp = t
             /\ [d EXCEPT !.tmp = t].art = d.art /\ [d EXCEPT !.tmp = t].man = d.man
    BY <1>1, Ensured, SetTmp
<1> QED
    BY <1>2 DEF Prepared

LEMMA SetFilesType ==
    ASSUME TypeOK, NEW c \in Chunks, NEW d \in External, SetFiles(c, d)
    PROVE  /\ dev' \in [Chunks -> External]
           /\ dev'[c] = d
           /\ \A e \in Chunks : e # c => dev'[e] = dev[e]
    BY DEF TypeOK, SetFiles

\* A volume that vanished holds survivors of what it held.
LEMMA LostFiles ==
    ASSUME TypeOK, Lost
    PROVE  /\ dev' \in [Chunks -> External]
           /\ \A c \in Chunks : dev'[c] \in Survivors(dev[c])
    BY DEF Lost, Survivors

LEMMA FinishedEject ==
    ASSUME TypeOK, NEW s \in {"ACTIVE", "SAFE_TO_REMOVE"}, NEW r \in BOOLEAN,
           FinishEject(s, r)
    PROVE  /\ cat' \in CatalogType /\ stable' \subseteq CatalogType /\ cat' \in stable'
           /\ ej' \in Eject
           /\ cat'.arch = cat.arch
           /\ \/ cat' = cat /\ stable' = stable
              \/ cat'.control = s /\ stable' = stable \cup {cat'}
<1> DEFINE k == [cat EXCEPT !.control = s, !.refused = r]
<1>1. k \in CatalogType /\ k.arch = cat.arch /\ k.control = s
    BY DEF TypeOK, CatalogType
<1>2. NoEject \in Eject
    BY DEF NoEject, Eject
<1> HIDE DEF k
<1>3. CASE Commit(k)
    BY <1>1, <1>2, <1>3, CommitType DEF FinishEject, Commit
<1>4. CASE UNCHANGED catalog
    BY <1>2, <1>4 DEF FinishEject, catalog, TypeOK
<1> QED
    BY <1>3, <1>4 DEF FinishEject, k

-----------------------------------------------------------------------------
(* Type correctness. *)

LEMMA ManagerType == ASSUME TypeOK, Manager PROVE TypeOK'
<1> USE DEF Steps
<1>0. NoAttempt \in Attempt \cup {NoAttempt}
    OBVIOUS
<1>1. ASSUME NEW c \in Chunks, Reserve(c) PROVE TypeOK'
    <2>1. Moved(c, "COPYING") \in CatalogType
        BY MovedCatalog DEF TypeOK, ArchiveState
    <2>2. mgr' \in Attempt
        BY <1>1 DEF Reserve, Attempt
    <2> QED
        BY <1>1, <2>1, <2>2, CommitType DEF Reserve, TypeOK, counters
<1>2. ASSUME NEW c \in Chunks, Resume(c) PROVE TypeOK'
    <2>1. cat.arch[c] \in ArchiveState /\ cat.arch[c] \notin {"NONE", "LOCAL_DELETED"}
        BY <1>2 DEF Resume, Incomplete, TypeOK, CatalogType
    <2>2. mgr' \in Attempt
        BY <1>2, <2>1 DEF Resume, Attempt, EntryStep, ArchiveState
    <2> QED
        BY <1>2, <2>2 DEF Resume, TypeOK, catalog, counters
<1>3. CASE Copy
    <2>1. mgr.chunk \in Chunks
        BY <1>3, AttemptSteps DEF Copy, At
    <2>2. dev' \in [Chunks -> External]
        BY <1>3, <2>1, PreparedFiles DEF Copy, Tmp
    <2>3. mgr' \in Attempt
        BY <1>3, GoType DEF Copy, At
    <2> QED
        BY <1>3, <2>2, <2>3 DEF Copy, TypeOK, catalog, counters
<1>4. CASE CopyEnd
    <2>1. mgr.chunk \in Chunks
        BY <1>4, AttemptSteps DEF CopyEnd, At
    <2>2. [dev[mgr.chunk] EXCEPT !.tmp = "synced"] \in External
        BY <2>1, SetTmp DEF TypeOK, Tmp
    <2>3. dev' \in [Chunks -> External]
        BY <1>4, <2>1, <2>2, SetFilesType DEF CopyEnd
    <2>4. mgr' \in Attempt
        BY <1>4, GoType DEF CopyEnd, At
    <2> QED
        BY <1>4, <2>3, <2>4 DEF CopyEnd, TypeOK, catalog, counters
<1>5. CASE CommitVerifying
    <2>1. Moved(mgr.chunk, "VERIFYING") \in CatalogType /\ mgr' \in Attempt
        BY <1>5, AttemptSteps, GoType, MovedCatalog DEF CommitVerifying, At, TypeOK, ArchiveState
    <2> QED
        BY <1>5, <2>1, CommitType DEF CommitVerifying, TypeOK, counters
<1>6. CASE Verify
    <2>1. mgr.chunk \in Chunks
        BY <1>6, AttemptSteps DEF Verify, At
    <2>2. dev[mgr.chunk].tmp \in Tmp
        BY <2>1, ExternalFields DEF TypeOK
    <2>3. dev' \in [Chunks -> External]
        BY <1>6, <2>1, <2>2, PreparedFiles DEF Verify, Tmp
    <2>4. mgr' \in Attempt
        BY <1>6, GoType DEF Verify, At
    <2> QED
        BY <1>6, <2>3, <2>4 DEF Verify, TypeOK, catalog, counters
<1>7. CASE Check
    <2>1. mgr.chunk \in Chunks
        BY <1>7, AttemptSteps DEF Check, At
    <2>2. [dev[mgr.chunk] EXCEPT !.tmp = "none"] \in External
        BY <2>1, SetTmp DEF TypeOK, Tmp
    <2>3. dev' \in [Chunks -> External]
        BY <1>7, <2>1, <2>2, SetFilesType DEF Check, TypeOK
    <2>4. mgr' \in Attempt \cup {NoAttempt}
        BY <1>7, GoType DEF Check, At
    <2> QED
        BY <1>7, <2>3, <2>4 DEF Check, TypeOK, catalog, counters
<1>8. CASE Rename
    <2> DEFINE d == dev[mgr.chunk]
               a == IF d.tmp = "synced" THEN "renamed" ELSE IF d.tmp = "cached" THEN "cached" ELSE "bad"
    <2>1. mgr.chunk \in Chunks
        BY <1>8, AttemptSteps DEF Rename, At
    <2>2. d \in External
        BY <2>1 DEF TypeOK
    <2>3. [[d EXCEPT !.tmp = "none"] EXCEPT !.art = a] \in External
        BY <2>2, SetTmp, SetArt DEF Tmp, Art
    <2>4. dev' \in [Chunks -> External]
        BY <1>8, <2>1, <2>3, SetFilesType DEF Rename
    <2>5. mgr' \in Attempt
        BY <1>8, GoType DEF Rename, At
    <2> QED
        BY <1>8, <2>4, <2>5 DEF Rename, TypeOK, catalog, counters
<1>9. CASE SyncRename
    <2>1. mgr.chunk \in Chunks
        BY <1>9, AttemptSteps DEF SyncRename, At
    <2>2. dev[mgr.chunk] \in External /\ Fsynced(dev[mgr.chunk].art) \in Art
        BY <2>1, ExternalFields DEF TypeOK, Fsynced, Art
    <2>3. dev' \in [Chunks -> External]
        BY <1>9, <2>1, <2>2, SetArt, SetFilesType DEF SyncRename
    <2>4. mgr' \in Attempt
        BY <1>9, GoType DEF SyncRename, At
    <2> QED
        BY <1>9, <2>3, <2>4 DEF SyncRename, TypeOK, catalog, counters
<1>10. CASE WriteManifest
    <2>1. mgr.chunk \in Chunks
        BY <1>10, AttemptSteps DEF WriteManifest, At
    <2>2. [dev[mgr.chunk] EXCEPT !.man = "renamed"] \in External
        BY <2>1, SetMan DEF TypeOK, Man
    <2>3. dev' \in [Chunks -> External]
        BY <1>10, <2>1, <2>2, SetFilesType DEF WriteManifest, TypeOK
    <2>4. mgr' \in Attempt
        BY <1>10, GoType DEF WriteManifest, At
    <2> QED
        BY <1>10, <2>3, <2>4 DEF WriteManifest, TypeOK, catalog, counters
<1>11. CASE SyncManifest
    <2>1. mgr.chunk \in Chunks
        BY <1>11, AttemptSteps DEF SyncManifest, At
    <2>2. dev[mgr.chunk] \in External /\ Fsynced(dev[mgr.chunk].man) \in Man
        BY <2>1, ExternalFields DEF TypeOK, Fsynced, Man
    <2>3. dev' \in [Chunks -> External]
        BY <1>11, <2>1, <2>2, SetMan, SetFilesType DEF SyncManifest
    <2>4. mgr' \in Attempt
        BY <1>11, GoType DEF SyncManifest, At
    <2> QED
        BY <1>11, <2>3, <2>4 DEF SyncManifest, TypeOK, catalog, counters
<1>12. CASE CommitVerified
    <2>1. Moved(mgr.chunk, "VERIFIED") \in CatalogType /\ mgr' \in Attempt
        BY <1>12, AttemptSteps, GoType, MovedCatalog DEF CommitVerified, At, TypeOK, ArchiveState
    <2> QED
        BY <1>12, <2>1, CommitType DEF CommitVerified, TypeOK, counters
<1>13. CASE RecordArchivedMetric
    <2>1. mgr.chunk \in Chunks /\ mgr' \in Attempt
        BY <1>13, AttemptSteps, GoType DEF RecordArchivedMetric, At
    <2>2. [cat EXCEPT !.archived = Counted(@, mgr.chunk)] \in CatalogType
        BY <2>1, CountedType DEF TypeOK
    <2> QED
        BY <1>13, <2>1, <2>2, CommitType DEF RecordArchivedMetric, TypeOK, counters
<1>14. CASE CommitDeletePending
    <2>1. Moved(mgr.chunk, "LOCAL_DELETE_PENDING") \in CatalogType /\ mgr' \in Attempt
        BY <1>14, AttemptSteps, GoType, MovedCatalog
        DEF CommitDeletePending, At, TypeOK, ArchiveState
    <2> QED
        BY <1>14, <2>1, CommitType DEF CommitDeletePending, TypeOK, counters
<1>15. CASE ValidateExternalCommit
    <2>1. mgr' \in Attempt
        BY <1>15, GoType DEF ValidateExternalCommit, At
    <2> QED
        BY <1>15, <2>1 DEF ValidateExternalCommit, TypeOK, catalog, counters
<1>16. CASE UnlinkSource \/ SyncSource
    <2>1. mgr.chunk \in Chunks /\ mgr' \in Attempt
        BY <1>16, AttemptSteps, GoType DEF UnlinkSource, SyncSource, At
    <2>2. src' \in [Chunks -> SourceFile]
        BY <1>16, <2>1 DEF UnlinkSource, SyncSource, TypeOK, SourceFile
    <2> QED
        BY <1>16, <2>1, <2>2 DEF UnlinkSource, SyncSource, TypeOK, catalog, counters
<1>17. CASE RecordDeletedMetric
    <2>1. mgr.chunk \in Chunks /\ mgr' \in Attempt
        BY <1>17, AttemptSteps, GoType DEF RecordDeletedMetric, At
    <2>2. [cat EXCEPT !.deleted = Counted(@, mgr.chunk)] \in CatalogType
        BY <2>1, CountedType DEF TypeOK
    <2> QED
        BY <1>17, <2>1, <2>2, CommitType DEF RecordDeletedMetric, TypeOK, counters
<1>18. CASE CommitDeleted
    <2>1. Moved(mgr.chunk, "LOCAL_DELETED") \in CatalogType
        BY <1>18, AttemptSteps, MovedCatalog DEF CommitDeleted, At, TypeOK, ArchiveState
    <2> QED
        BY <1>0, <1>18, <2>1, CommitType DEF CommitDeleted, TypeOK, counters
<1> QED
    BY <1>1, <1>2, <1>3, <1>4, <1>5, <1>6, <1>7, <1>8, <1>9, <1>10, <1>11, <1>12, <1>13,
       <1>14, <1>15, <1>16, <1>17, <1>18 DEF Manager

LEMMA EjectingType == ASSUME TypeOK, Ejecting PROVE TypeOK'
<1>0. NoEject \in Eject
    BY DEF NoEject, Eject
<1>1. CASE BeginEject
    <2> DEFINE k == [cat EXCEPT !.control = "EJECT_PENDING", !.req = ejects + 1, !.refused = FALSE]
    <2>1. ejects + 1 \in 0..MaxEjects /\ ejects + 1 \in Nat
        BY <1>1, BoundAssumption DEF BeginEject, TypeOK
    <2>2. k \in CatalogType
        BY <2>1 DEF TypeOK, CatalogType
    <2>3. ej' \in Eject
        BY <1>1, <2>1 DEF BeginEject, Eject
    <2> HIDE DEF k
    <2>4. cat' \in CatalogType /\ stable' \subseteq CatalogType /\ cat' \in stable'
        BY <1>1, <2>2, CommitType DEF BeginEject, k
    <2> QED
        BY <1>1, <2>1, <2>3, <2>4 DEF BeginEject, TypeOK
<1>2. CASE PrepareEject
    <2>1. [c \in Chunks |-> EnsureDirectories(dev[c])] \in [Chunks -> External]
        BY Ensured DEF TypeOK
    <2>2. CASE FinishEject("ACTIVE", FALSE) /\ UNCHANGED dev
        BY <1>2, <2>2, FinishedEject DEF PrepareEject, TypeOK, counters
    <2>3. CASE /\ dev' = IF vol = "mounted" THEN [c \in Chunks |-> EnsureDirectories(dev[c])] ELSE dev
               /\ stable' \in {stable, {cat}} /\ UNCHANGED cat
               /\ ej' = [ej EXCEPT !.step = "request"]
        <3>1. ej' \in Eject
            BY <2>3 DEF TypeOK, Eject
        <3>2. dev' \in [Chunks -> External]
            BY <2>1, <2>3 DEF TypeOK
        <3>3. stable' \subseteq CatalogType /\ cat' \in stable' /\ cat' \in CatalogType
            BY <2>3 DEF TypeOK
        <3> QED
            BY <1>2, <3>1, <3>2, <3>3 DEF PrepareEject, TypeOK, counters
    <2> QED
        BY <1>2, <2>2, <2>3 DEF PrepareEject
<1>3. ASSUME Unmount PROVE dev' \in [Chunks -> External] /\ vol' = "unmounted"
    BY <1>3, FlushedFiles DEF Unmount, TypeOK
<1>4. CASE EjectSucceeds
    BY <1>3, <1>4, FinishedEject DEF EjectSucceeds, TypeOK, counters
<1>5. CASE EjectRefused
    <2>1. cat' \in CatalogType /\ stable' \subseteq CatalogType /\ cat' \in stable' /\ ej' \in Eject
        BY <1>5, FinishedEject DEF EjectRefused
    <2>2. dev' \in [Chunks -> External] /\ vol' \in {"mounted", "unmounted", "absent"}
        BY <1>3, <1>5 DEF EjectRefused, TypeOK
    <2> QED
        BY <1>5, <2>1, <2>2 DEF EjectRefused, TypeOK, counters
<1>6. CASE EjectUncertain
    BY <1>0, <1>6 DEF EjectUncertain, TypeOK, catalog, counters
<1> QED
    BY <1>1, <1>2, <1>4, <1>5, <1>6 DEF Ejecting

LEMMA ProbingType == ASSUME TypeOK, Probing PROVE TypeOK'
<1>1. CASE ReadControl
    <2>1. probes' \in 0..MaxProbes
        BY <1>1, BoundAssumption DEF ReadControl, TypeOK
    <2> QED
        BY <1>1, <2>1 DEF ReadControl, TypeOK, catalog
<1>2. CASE ActivateTarget
    <2> DEFINE k == [cat EXCEPT !.control = "ACTIVE", !.req = 0, !.refused = FALSE]
    <2>1. k \in CatalogType
        BY DEF TypeOK, CatalogType
    <2> HIDE DEF k
    <2>2. cat' \in CatalogType /\ stable' \subseteq CatalogType /\ cat' \in stable'
        BY <1>2, <2>1, CommitType DEF ActivateTarget, TypeOK, catalog, k
    <2> QED
        BY <1>2, <2>2 DEF ActivateTarget, TypeOK, counters
<1>3. CASE ProbeFails
    BY <1>3 DEF ProbeFails, TypeOK, catalog, counters
<1> QED
    BY <1>1, <1>2, <1>3 DEF Probing

LEMMA EnvironmentType == ASSUME TypeOK, Environment PROVE TypeOK'
<1>0. ASSUME Fault PROVE faults' \in 0..MaxFaults
    BY <1>0, BoundAssumption DEF Fault, TypeOK
<1>1. CASE Abort
    <2>1. CASE UNCHANGED dev
        BY <1>0, <1>1, <2>1 DEF Abort, TypeOK, catalog
    <2>2. CASE At("copying") /\ SetFiles(mgr.chunk, [dev[mgr.chunk] EXCEPT !.tmp = "cached"])
        <3>1. mgr.chunk \in Chunks
            BY <2>2, AttemptSteps DEF At
        <3>2. [dev[mgr.chunk] EXCEPT !.tmp = "cached"] \in External
            BY <3>1, SetTmp DEF TypeOK, Tmp
        <3>3. dev' \in [Chunks -> External]
            BY <2>2, <3>1, <3>2, SetFilesType
        <3> QED
            BY <1>0, <1>1, <3>3 DEF Abort, TypeOK, catalog
    <2> QED
        BY <1>1, <2>1, <2>2 DEF Abort
<1>2. CASE Remove
    <2>1. dev' \in [Chunks -> External]
        BY <1>2, LostFiles DEF Remove, TypeOK
    <2> QED
        BY <1>0, <1>2, <2>1 DEF Remove, TypeOK, catalog
<1>3. CASE Mount
    BY <1>3 DEF Mount, TypeOK, catalog, counters
<1>4. CASE PowerLoss
    <2>1. dev' \in [Chunks -> External]
        BY <1>4, LostFiles DEF PowerLoss
    <2>2. NoEject \in Eject
        BY DEF NoEject, Eject
    <2> QED
        BY <1>0, <1>4, <2>1, <2>2 DEF PowerLoss, TypeOK
<1>5. ASSUME NEW c \in Chunks, NEW f \in Damageable, Damage(c, f) PROVE TypeOK'
    <2>1. /\ [dev[c] EXCEPT !.tmp = "bad"] \in External
          /\ [dev[c] EXCEPT !.art = "bad"] \in External
          /\ [dev[c] EXCEPT !.man = "bad"] \in External
        BY SetTmp, SetArt, SetMan DEF TypeOK, Tmp, Art, Man
    <2>2. dev' \in [Chunks -> External]
        BY <1>5, <2>1, SetFilesType DEF Damage
    <2> QED
        BY <1>0, <1>5, <2>2 DEF Damage, TypeOK, catalog
<1> QED
    BY <1>1, <1>2, <1>3, <1>4, <1>5 DEF Environment

LEMMA NextType == ASSUME TypeOK, [Next]_vars PROVE TypeOK'
<1>1. CASE UNCHANGED vars
    BY <1>1 DEF vars, TypeOK
<1> QED
    BY <1>1, ManagerType, EjectingType, ProbingType, EnvironmentType DEF Next

LEMMA InitType == Init => TypeOK
<1>1. ASSUME Init PROVE TypeOK
    <2>1. dev \in [Chunks -> External]
        BY <1>1 DEF Init, NoFiles, External
    <2>2. cat \in CatalogType
        BY <1>1 DEF Init, CatalogType, ArchiveState
    <2>3. ej \in Eject
        BY <1>1 DEF Init, NoEject, Eject
    <2>4. src \in [Chunks -> SourceFile] /\ mgr \in Attempt \cup {NoAttempt}
        BY <1>1 DEF Init, SourceFile
    <2>5. faults \in 0..MaxFaults /\ ejects \in 0..MaxEjects /\ probes \in 0..MaxProbes
        BY <1>1, BoundAssumption DEF Init
    <2>6. stable \subseteq CatalogType /\ cat \in stable
        BY <1>1, <2>2 DEF Init
    <2> QED
        BY <1>1, <2>1, <2>2, <2>3, <2>4, <2>5, <2>6 DEF Init, TypeOK
<1> QED
    BY <1>1

\* The state of the archive keeps its type through every interleaving of manager,
\* eject, probe and faults, and the Catalog in use is always among the ones a
\* power loss may leave.
THEOREM ArchiveTypeCorrect == Spec => []TypeOK
    BY InitType, NextType, PTL DEF Spec

-----------------------------------------------------------------------------
(* The latch of an eject. *)

LEMMA SameArch ==
    ASSUME NEW k, NEW l, k.arch = l.arch
    PROVE  Incomplete(k) = Incomplete(l)
    BY DEF Incomplete

\* A transaction that stays incomplete, or another one that does.
LEMMA MovedIncomplete ==
    ASSUME cat \in CatalogType, NEW c \in Chunks,
           NEW to \in {"COPYING", "VERIFYING", "VERIFIED", "LOCAL_DELETE_PENDING"}
    PROVE  c \in Incomplete(Moved(c, to))
<1>0. to \in ArchiveState
    BY DEF ArchiveState
<1>1. Moved(c, to).arch = [cat.arch EXCEPT ![c] = to]
    BY <1>0, MovedCatalog
<1>2. cat.arch \in [Chunks -> ArchiveState]
    BY DEF CatalogType
<1> QED
    BY <1>1, <1>2 DEF Incomplete

\* Steps that leave the Catalog alone.
LEMMA QuietLatch ==
    ASSUME LatchInv, UNCHANGED catalog, ej' = ej \/ ej' = NoEject,
           mgr' = NoAttempt \/ mgr'.chunk \in Incomplete(cat)
    PROVE  LatchInv'
    BY DEF LatchInv, LatchMeansIdle, catalog, Incomplete

\* Steps of the manager that commit.
LEMMA CommitLatch ==
    ASSUME LatchInv, NEW k, Commit(k) \/ CommitFull(k),
           k.control = cat.control, k.req = cat.req, cat.control = "ACTIVE", UNCHANGED ej,
           mgr' = NoAttempt \/ mgr'.chunk \in Incomplete(k)
    PROVE  LatchInv'
<1>1. LatchMeansIdle'
    BY DEF LatchInv, LatchMeansIdle, Commit, CommitFull, Incomplete
<1>2. (mgr # NoAttempt => mgr.chunk \in Incomplete(cat))'
    BY DEF Commit, CommitFull, Incomplete
<1>3. (ej # NoEject => ej.req # 0 /\ (cat.req = ej.req => cat.control # "ACTIVE"))'
    BY DEF LatchInv, Commit, CommitFull
<1> QED
    BY <1>1, <1>2, <1>3 DEF LatchInv

LEMMA ManagerLatch == ASSUME TypeOK, LatchInv, Manager PROVE LatchInv'
<1> USE DEF Steps
<1>0. ASSUME mgr.step # "idle"
      PROVE  mgr.chunk \in Chunks /\ mgr.chunk \in Incomplete(cat) /\ cat.control = "ACTIVE"
    BY <1>0, AttemptSteps DEF LatchInv, LatchMeansIdle, TypeOK
<1>1. ASSUME NEW c \in Chunks, Reserve(c) PROVE LatchInv'
    <2>1. c \in Incomplete(Moved(c, "COPYING"))
        BY MovedIncomplete DEF TypeOK
    <2>2. mgr'.chunk = c
        BY <1>1 DEF Reserve
    <2>3. /\ Moved(c, "COPYING").control = cat.control
          /\ Moved(c, "COPYING").req = cat.req
        BY MovedCatalog DEF TypeOK, ArchiveState
    <2> QED
        BY <1>1, <2>1, <2>2, <2>3, CommitLatch DEF Reserve, Allocates
<1>2. ASSUME NEW c \in Chunks, Resume(c) PROVE LatchInv'
    <2>1. mgr'.chunk = c
        BY <1>2 DEF Resume
    <2> QED
        BY <1>2, <2>1, QuietLatch DEF Resume
<1>3. CASE Copy \/ CopyEnd \/ Verify \/ Rename \/ SyncRename \/ WriteManifest \/ SyncManifest
           \/ ValidateExternalCommit \/ UnlinkSource \/ SyncSource
    <2>1. mgr.step # "idle" /\ UNCHANGED catalog /\ UNCHANGED ej
        BY <1>3 DEF Copy, CopyEnd, Verify, Rename, SyncRename, WriteManifest, SyncManifest,
                    ValidateExternalCommit, UnlinkSource, SyncSource, At
    <2>2. \E s \in Steps : Go(s)
        BY <1>3 DEF Copy, CopyEnd, Verify, Rename, SyncRename, WriteManifest, SyncManifest,
                    ValidateExternalCommit, UnlinkSource, SyncSource
    <2>3. mgr'.chunk = mgr.chunk
        BY <2>1, <2>2, GoType
    <2> QED
        BY <1>0, <2>1, <2>3, QuietLatch
<1>4. CASE Check
    <2>1. mgr.step # "idle" /\ UNCHANGED catalog /\ UNCHANGED ej
        BY <1>4 DEF Check, At
    <2>2. mgr' = NoAttempt \/ mgr'.chunk = mgr.chunk
        BY <1>4, <2>1, GoType DEF Check
    <2> QED
        BY <1>0, <2>1, <2>2, QuietLatch
<1>5. ASSUME mgr.step # "idle", UNCHANGED ej,
             NEW to \in {"VERIFYING", "VERIFIED", "LOCAL_DELETE_PENDING"},
             Commit(Moved(mgr.chunk, to)) \/ CommitFull(Moved(mgr.chunk, to)),
             NEW s \in Steps, Go(s)
      PROVE  LatchInv'
    <2>1. mgr.chunk \in Incomplete(Moved(mgr.chunk, to))
        BY <1>0, <1>5, MovedIncomplete DEF TypeOK
    <2>2. mgr'.chunk = mgr.chunk
        BY <1>5, GoType
    <2>3. to \in ArchiveState
        BY DEF ArchiveState
    <2>4. /\ Moved(mgr.chunk, to).control = cat.control
          /\ Moved(mgr.chunk, to).req = cat.req
        BY <1>0, <1>5, <2>3, MovedCatalog DEF TypeOK
    <2> QED
        BY <1>0, <1>5, <2>1, <2>2, <2>4, CommitLatch
<1>6. CASE CommitVerifying \/ CommitVerified \/ CommitDeletePending
    <2>1. CASE CommitVerifying
        BY <1>5, <2>1 DEF CommitVerifying, At
    <2>2. CASE CommitVerified
        BY <1>5, <2>2 DEF CommitVerified, At
    <2>3. CASE CommitDeletePending
        BY <1>5, <2>3 DEF CommitDeletePending, At
    <2> QED
        BY <1>6, <2>1, <2>2, <2>3
<1>7. CASE RecordArchivedMetric \/ RecordDeletedMetric
    <2>1. mgr.step # "idle" /\ UNCHANGED ej
        BY <1>7 DEF RecordArchivedMetric, RecordDeletedMetric, At
    <2>2. mgr'.chunk = mgr.chunk
        BY <1>7, <2>1, GoType DEF RecordArchivedMetric, RecordDeletedMetric
    <2>3. PICK k : /\ Commit(k) /\ k.arch = cat.arch /\ k.control = cat.control
                   /\ k.req = cat.req
        BY <1>0, <1>7, <2>1, CountedType DEF RecordArchivedMetric, RecordDeletedMetric, TypeOK
    <2>4. mgr.chunk \in Incomplete(k)
        BY <1>0, <2>1, <2>3, SameArch
    <2> QED
        BY <1>0, <2>1, <2>2, <2>3, <2>4, CommitLatch
<1>8. CASE CommitDeleted
    <2>1. mgr.step # "idle" /\ UNCHANGED ej /\ mgr' = NoAttempt
        BY <1>8 DEF CommitDeleted, At
    <2>2. /\ Moved(mgr.chunk, "LOCAL_DELETED").control = cat.control
          /\ Moved(mgr.chunk, "LOCAL_DELETED").req = cat.req
        BY <1>0, <2>1, MovedCatalog DEF TypeOK, ArchiveState
    <2> QED
        BY <1>0, <1>8, <2>1, <2>2, CommitLatch DEF CommitDeleted
<1> QED
    BY <1>1, <1>2, <1>3, <1>4, <1>6, <1>7, <1>8 DEF Manager

\* An eject that ends may keep the latch only for a Catalog that has it.
LEMMA FinishLatch ==
    ASSUME TypeOK, LatchInv, NEW s \in {"ACTIVE", "SAFE_TO_REMOVE"}, NEW r \in BOOLEAN,
           ej # NoEject, FinishEject(s, r), UNCHANGED mgr
    PROVE  LatchInv'
<1>1. CASE cat' = cat /\ stable' = stable
    BY <1>1, QuietLatch DEF FinishEject, catalog, LatchInv
<1>2. CASE /\ cat.req = ej.req /\ cat'.control = s /\ stable' = stable \cup {cat'}
           /\ cat'.arch = cat.arch
    <2>1. Incomplete(cat) = {} /\ Incomplete(cat') = Incomplete(cat)
        BY <1>2, SameArch DEF LatchInv, LatchMeansIdle, TypeOK
    <2>2. LatchMeansIdle'
        BY <1>2, <2>1 DEF LatchInv, LatchMeansIdle, Incomplete
    <2>3. (mgr # NoAttempt => mgr.chunk \in Incomplete(cat))'
        BY <2>1 DEF LatchInv, Incomplete
    <2> QED
        BY <2>2, <2>3 DEF LatchInv, FinishEject
<1>3. \/ cat' = cat /\ stable' = stable
      \/ cat.req = ej.req /\ cat'.control = s /\ stable' = stable \cup {cat'}
    BY FinishedEject DEF FinishEject, catalog
<1>4. cat'.arch = cat.arch
    BY FinishedEject
<1> QED
    BY <1>1, <1>2, <1>3, <1>4

LEMMA EjectingLatch == ASSUME TypeOK, LatchInv, Ejecting PROVE LatchInv'
<1>1. CASE BeginEject
    <2> DEFINE k == [cat EXCEPT !.control = "EJECT_PENDING", !.req = ejects + 1, !.refused = FALSE]
    <2>1. k.arch = cat.arch /\ k.control = "EJECT_PENDING" /\ k.req = ejects + 1
        BY DEF TypeOK, CatalogType
    <2>2. ej'.req = ejects + 1 /\ ejects + 1 # 0
        BY <1>1 DEF BeginEject, TypeOK
    <2> HIDE DEF k
    <2>3. cat' = k /\ stable' = stable \cup {k} /\ Incomplete(cat) = {} /\ mgr' = mgr
        BY <1>1 DEF BeginEject, Commit, k
    <2>4. Incomplete(k) = {}
        BY <2>1, <2>3, SameArch
    <2>5. LatchMeansIdle'
        BY <2>3, <2>4 DEF LatchInv, LatchMeansIdle, Incomplete
    <2>6. (mgr # NoAttempt => mgr.chunk \in Incomplete(cat))'
        BY <2>3 DEF LatchInv
    <2> QED
        BY <2>1, <2>2, <2>3, <2>5, <2>6 DEF LatchInv
<1>2. CASE PrepareEject
    <2>0. ej # NoEject /\ UNCHANGED mgr
        BY <1>2 DEF PrepareEject, NoEject
    <2>1. CASE FinishEject("ACTIVE", FALSE)
        BY <2>0, <2>1, FinishLatch
    <2>2. CASE /\ stable' \in {stable, {cat}} /\ UNCHANGED cat
               /\ ej' = [ej EXCEPT !.step = "request"]
        <3>1. ej'.req = ej.req
            BY <2>2 DEF TypeOK, Eject
        <3>2. LatchMeansIdle'
            BY <2>2 DEF LatchInv, LatchMeansIdle, TypeOK, Incomplete
        <3>3. (mgr # NoAttempt => mgr.chunk \in Incomplete(cat))'
            BY <2>0, <2>2 DEF LatchInv, Incomplete
        <3> QED
            BY <2>0, <2>2, <3>1, <3>2, <3>3 DEF LatchInv
    <2> QED
        BY <1>2, <2>1, <2>2 DEF PrepareEject
<1>3. CASE EjectSucceeds \/ EjectRefused
    <2>1. ej.step = "request" /\ UNCHANGED mgr
        BY <1>3 DEF EjectSucceeds, EjectRefused
    <2>2. ej # NoEject
        BY <2>1 DEF NoEject
    <2> QED
        BY <1>3, <2>1, <2>2, FinishLatch DEF EjectSucceeds, EjectRefused
<1>4. CASE EjectUncertain
    BY <1>4, QuietLatch DEF EjectUncertain, LatchInv
<1> QED
    BY <1>1, <1>2, <1>3, <1>4 DEF Ejecting

LEMMA ProbingLatch == ASSUME TypeOK, LatchInv, Probing PROVE LatchInv'
<1>1. CASE UNCHANGED catalog
    BY <1>1, QuietLatch DEF Probing, ReadControl, ActivateTarget, ProbeFails, LatchInv
<1>2. CASE ActivateTarget /\ cat.control # "ACTIVE"
    <2> DEFINE k == [cat EXCEPT !.control = "ACTIVE", !.req = 0, !.refused = FALSE]
    <2>1. k.arch = cat.arch /\ k.control = "ACTIVE" /\ k.req = 0
        BY DEF TypeOK, CatalogType
    <2> HIDE DEF k
    <2>2. cat' = k /\ stable' = stable \cup {k} /\ mgr' = mgr /\ ej' = ej
        BY <1>2 DEF ActivateTarget, Commit, k
    <2>3. Incomplete(k) = Incomplete(cat)
        BY <2>1, SameArch
    <2>4. LatchMeansIdle'
        BY <2>1, <2>2 DEF LatchInv, LatchMeansIdle, Incomplete
    <2>5. (mgr # NoAttempt => mgr.chunk \in Incomplete(cat))'
        BY <2>2, <2>3 DEF LatchInv
    <2> QED
        BY <2>1, <2>2, <2>4, <2>5 DEF LatchInv
<1> QED
    BY <1>1, <1>2 DEF Probing, ReadControl, ActivateTarget, ProbeFails

LEMMA EnvironmentLatch == ASSUME TypeOK, LatchInv, Environment PROVE LatchInv'
<1>1. CASE PowerLoss
    BY <1>1 DEF PowerLoss, LatchInv, LatchMeansIdle, Incomplete
<1>2. CASE Abort \/ Remove \/ Mount \/ \E c \in Chunks, f \in Damageable : Damage(c, f)
    <2>1. UNCHANGED catalog /\ UNCHANGED ej /\ (mgr' = mgr \/ mgr' = NoAttempt)
        BY <1>2 DEF Abort, Remove, Mount, Damage
    <2> QED
        BY <2>1, QuietLatch DEF LatchInv
<1> QED
    BY <1>1, <1>2 DEF Environment

\* Reservation and eject exclude each other for every number of chunks, requests,
\* probes and faults: while a target is latched, in the Catalog in use or in any a
\* power loss may leave, it has no archive work.
THEOREM LatchExcludesWork == Spec => []LatchMeansIdle
<1>1. Init => LatchInv
    BY DEF Init, LatchInv, LatchMeansIdle, NoAttempt, NoEject
<1>2. ASSUME TypeOK, LatchInv, [Next]_vars PROVE LatchInv'
    <2>1. CASE UNCHANGED vars
        BY <1>2, <2>1 DEF vars, LatchInv, LatchMeansIdle, Incomplete
    <2> QED
        BY <1>2, <2>1, ManagerLatch, EjectingLatch, ProbingLatch, EnvironmentLatch DEF Next
<1>3. LatchInv => LatchMeansIdle
    BY DEF LatchInv
<1> QED
    BY <1>1, <1>2, <1>3, ArchiveTypeCorrect, PTL DEF Spec

-----------------------------------------------------------------------------
(* The metrics of a transaction, on any volume. *)

\* What CountedOnce says of one Catalog.
CountsOf(k) ==
    \A c \in Chunks :
        /\ k.archived[c] <= 1 /\ k.deleted[c] <= 1
        /\ k.arch[c] \in {"LOCAL_DELETE_PENDING", "LOCAL_DELETED"} => k.archived[c] = 1
        /\ k.arch[c] = "LOCAL_DELETED" => k.deleted[c] = 1

\* The attempt beyond a metric has its row in the Catalog.
AttemptCounted ==
    /\ mgr.step \in {"pending", "validate", "unlink", "sync", "deleted", "finish"} =>
          cat.archived[mgr.chunk] = 1
    /\ mgr.step = "finish" => cat.deleted[mgr.chunk] = 1

CountInv == (\A k \in stable : CountsOf(k)) /\ AttemptCounted

\* The counts that a commit leaves alone.
LEMMA MovedCounts ==
    ASSUME cat \in CatalogType, CountsOf(cat), NEW c \in Chunks, NEW to \in ArchiveState,
           to \in {"LOCAL_DELETE_PENDING", "LOCAL_DELETED"} => cat.archived[c] = 1,
           to = "LOCAL_DELETED" => cat.deleted[c] = 1
    PROVE  /\ CountsOf(Moved(c, to))
           /\ Moved(c, to).archived = cat.archived /\ Moved(c, to).deleted = cat.deleted
<1>1. /\ Moved(c, to).archived = cat.archived /\ Moved(c, to).deleted = cat.deleted
      /\ \A d \in Chunks : Moved(c, to).arch[d] = IF d = c THEN to ELSE cat.arch[d]
    BY DEF Moved, CatalogType
<1> QED
    BY <1>1 DEF CountsOf

LEMMA SameCounts ==
    ASSUME NEW k, NEW l, CountsOf(l), k.arch = l.arch, k.archived = l.archived,
           k.deleted = l.deleted
    PROVE  CountsOf(k)
    BY DEF CountsOf

\* record_metric_batch counts a batch that is not there and no other.
LEMMA CountedCounts ==
    ASSUME cat \in CatalogType, CountsOf(cat), NEW c \in Chunks
    PROVE  LET k == [cat EXCEPT !.archived = Counted(@, c)]
               l == [cat EXCEPT !.deleted = Counted(@, c)] IN
           /\ CountsOf(k) /\ k.archived[c] = 1
           /\ CountsOf(l) /\ l.archived = cat.archived /\ l.deleted[c] = 1
<1> DEFINE k == [cat EXCEPT !.archived = Counted(@, c)]
           l == [cat EXCEPT !.deleted = Counted(@, c)]
<1>1. ASSUME NEW f \in [Chunks -> Nat], \A d \in Chunks : f[d] <= 1
      PROVE  \A d \in Chunks : Counted(f, c)[d] = IF d = c THEN 1 ELSE f[d]
    <2>1. f[c] \in {0, 1}
        BY <1>1
    <2>2. Batch(f[c]) = 1
        BY <2>1 DEF Batch
    <2> QED
        BY <2>2 DEF Counted
<1>2. /\ k.arch = cat.arch /\ k.archived = Counted(cat.archived, c) /\ k.deleted = cat.deleted
      /\ l.arch = cat.arch /\ l.deleted = Counted(cat.deleted, c) /\ l.archived = cat.archived
    BY DEF CatalogType
<1>3. /\ cat.archived \in [Chunks -> Nat] /\ cat.deleted \in [Chunks -> Nat]
      /\ \A d \in Chunks : cat.archived[d] <= 1 /\ cat.deleted[d] <= 1
    BY DEF CatalogType, CountsOf
<1>4. /\ \A d \in Chunks : Counted(cat.archived, c)[d] = IF d = c THEN 1 ELSE cat.archived[d]
      /\ \A d \in Chunks : Counted(cat.deleted, c)[d] = IF d = c THEN 1 ELSE cat.deleted[d]
    BY <1>1, <1>3
<1> HIDE DEF k, l
<1>5. CountsOf(k)
    BY <1>2, <1>4 DEF CountsOf
<1>6. CountsOf(l)
    BY <1>2, <1>4 DEF CountsOf
<1>7. k.archived[c] = 1 /\ l.deleted[c] = 1
    BY <1>2, <1>4
<1> QED
    BY <1>2, <1>5, <1>6, <1>7 DEF k, l

LEMMA CommitCounts ==
    ASSUME CountInv, NEW k, CountsOf(k), Commit(k) \/ CommitFull(k)
    PROVE  \A l \in stable' : CountsOf(l)
    BY DEF CountInv, Commit, CommitFull

\* Steps that leave the counts of the Catalog alone.
LEMMA QuietCounts ==
    ASSUME TypeOK, CountInv, UNCHANGED mgr \/ mgr' = NoAttempt,
           cat'.arch = cat.arch, cat'.archived = cat.archived, cat'.deleted = cat.deleted,
           stable' \subseteq stable \cup {cat'}
    PROVE  CountInv'
<1>1. CountsOf(cat')
    BY SameCounts DEF CountInv, TypeOK
<1>2. \A k \in stable' : CountsOf(k)
    BY <1>1 DEF CountInv
<1>3. AttemptCounted'
    BY DEF CountInv, AttemptCounted, NoAttempt
<1> QED
    BY <1>2, <1>3 DEF CountInv, CountsOf

\* A step of the attempt that leaves the Catalog alone.
LEMMA StepCounts ==
    ASSUME TypeOK, CountInv, mgr.step # "idle", UNCHANGED catalog, NEW s \in Steps, Go(s),
           s \in {"pending", "validate", "unlink", "sync", "deleted"} =>
              mgr.step \in {"pending", "validate", "unlink", "sync"},
           s # "finish"
    PROVE  CountInv'
<1>1. mgr'.chunk = mgr.chunk /\ mgr'.step = s /\ cat' = cat /\ stable' = stable
    BY GoType DEF catalog
<1>2. AttemptCounted'
    BY <1>1 DEF CountInv, AttemptCounted
<1> QED
    BY <1>1, <1>2 DEF CountInv, CountsOf

LEMMA ManagerCounts == ASSUME TypeOK, CountInv, Manager PROVE CountInv'
<1> USE DEF Steps
<1>0. cat \in CatalogType /\ CountsOf(cat)
    BY DEF TypeOK, CountInv
<1>1. ASSUME NEW c \in Chunks, Reserve(c) PROVE CountInv'
    <2>1. CountsOf(Moved(c, "COPYING"))
        BY <1>0, MovedCounts DEF ArchiveState
    <2>2. \A k \in stable' : CountsOf(k)
        BY <1>1, <2>1, CommitCounts DEF Reserve
    <2>3. AttemptCounted'
        BY <1>1 DEF Reserve, AttemptCounted
    <2> QED
        BY <2>2, <2>3 DEF CountInv, CountsOf
<1>2. ASSUME NEW c \in Chunks, Resume(c) PROVE CountInv'
    <2>1. /\ cat.arch[c] \in {"COPYING", "VERIFYING", "VERIFIED", "LOCAL_DELETE_PENDING"}
          /\ mgr'.chunk = c /\ mgr'.step = EntryStep[cat.arch[c]]
          /\ cat' = cat /\ stable' = stable
        BY <1>0, <1>2 DEF Resume, Incomplete, CatalogType, ArchiveState, catalog
    <2>2. /\ mgr'.step \in {"copy", "verify", "archived", "validate"}
          /\ mgr'.step = "validate" => cat.arch[c] = "LOCAL_DELETE_PENDING"
        BY <2>1 DEF EntryStep
    <2>3. AttemptCounted'
        BY <1>0, <2>1, <2>2 DEF AttemptCounted, CountsOf
    <2> QED
        BY <2>1, <2>3 DEF CountInv, CountsOf
<1>3. CASE Copy \/ CopyEnd \/ Verify \/ Rename \/ SyncRename \/ WriteManifest \/ SyncManifest
           \/ ValidateExternalCommit \/ UnlinkSource \/ SyncSource
    <2>1. mgr.step # "idle" /\ UNCHANGED catalog
        BY <1>3 DEF Copy, CopyEnd, Verify, Rename, SyncRename, WriteManifest, SyncManifest,
                    ValidateExternalCommit, UnlinkSource, SyncSource, At
    <2>2. CASE Copy \/ CopyEnd \/ Verify \/ Rename \/ SyncRename \/ WriteManifest \/ SyncManifest
        <3>1. \E s \in {"copying", "copied", "check", "rename", "renamed", "manifest", "written",
                        "commit"} : Go(s)
            BY <2>2 DEF Copy, CopyEnd, Verify, Rename, SyncRename, WriteManifest, SyncManifest
        <3> QED
            BY <2>1, <3>1, StepCounts
    <2>3. CASE ValidateExternalCommit \/ UnlinkSource \/ SyncSource
        <3>1. /\ \E s \in {"unlink", "sync", "deleted"} : Go(s)
              /\ mgr.step \in {"validate", "unlink", "sync"}
            BY <2>3 DEF ValidateExternalCommit, UnlinkSource, SyncSource, At
        <3> QED
            BY <2>1, <3>1, StepCounts
    <2> QED
        BY <1>3, <2>2, <2>3
<1>4. CASE Check
    <2>1. mgr.step # "idle" /\ UNCHANGED catalog
        BY <1>4 DEF Check, At
    <2>2. CASE Go("rename")
        BY <2>1, <2>2, StepCounts
    <2>3. CASE mgr' = NoAttempt
        BY <2>1, <2>3, QuietCounts DEF catalog
    <2> QED
        BY <1>4, <2>2, <2>3 DEF Check
<1>5. ASSUME mgr.step # "idle",
             NEW to \in {"VERIFYING", "VERIFIED", "LOCAL_DELETE_PENDING"},
             Commit(Moved(mgr.chunk, to)) \/ CommitFull(Moved(mgr.chunk, to)),
             NEW s \in {"verify", "archived", "validate"}, Go(s),
             to = "LOCAL_DELETE_PENDING" \/ s = "validate" => cat.archived[mgr.chunk] = 1
      PROVE  CountInv'
    <2>1. mgr.chunk \in Chunks /\ to \in ArchiveState
        BY <1>5, AttemptSteps DEF ArchiveState
    <2>2. mgr'.chunk = mgr.chunk /\ mgr'.step = s
        BY <1>5, GoType
    <2>3. /\ CountsOf(Moved(mgr.chunk, to))
          /\ Moved(mgr.chunk, to).archived = cat.archived
        BY <1>0, <1>5, <2>1, MovedCounts
    <2>4. \A k \in stable' : CountsOf(k)
        BY <1>5, <2>3, CommitCounts
    <2>5. cat'.archived = cat.archived
        BY <1>5, <2>3 DEF Commit, CommitFull
    <2>6. AttemptCounted'
        BY <1>5, <2>2, <2>5 DEF AttemptCounted
    <2> QED
        BY <2>4, <2>6 DEF CountInv, CountsOf
<1>6. CASE CommitVerifying
    BY <1>5, <1>6 DEF CommitVerifying, At
<1>7. CASE CommitVerified
    BY <1>5, <1>7 DEF CommitVerified, At
<1>8. CASE CommitDeletePending
    <2>1. cat.archived[mgr.chunk] = 1
        BY <1>8 DEF CommitDeletePending, At, CountInv, AttemptCounted
    <2> QED
        BY <1>5, <1>8, <2>1 DEF CommitDeletePending, At
<1>9. CASE RecordArchivedMetric
    <2> DEFINE k == [cat EXCEPT !.archived = Counted(@, mgr.chunk)]
    <2>1. mgr.step # "idle" /\ Commit(k) /\ Go("pending")
        BY <1>9 DEF RecordArchivedMetric, At
    <2>2. mgr.chunk \in Chunks /\ mgr'.chunk = mgr.chunk /\ mgr'.step = "pending"
        BY <2>1, AttemptSteps, GoType
    <2>3. CountsOf(k) /\ k.archived[mgr.chunk] = 1
        BY <1>0, <2>2, CountedCounts
    <2> HIDE DEF k
    <2>4. \A l \in stable' : CountsOf(l)
        BY <2>1, <2>3, CommitCounts
    <2>5. AttemptCounted'
        BY <2>1, <2>2, <2>3 DEF AttemptCounted, Commit
    <2> QED
        BY <2>4, <2>5 DEF CountInv, CountsOf
<1>10. CASE RecordDeletedMetric
    <2> DEFINE k == [cat EXCEPT !.deleted = Counted(@, mgr.chunk)]
    <2>1. mgr.step = "deleted" /\ Commit(k) /\ Go("finish")
        BY <1>10 DEF RecordDeletedMetric, At
    <2>2. mgr.chunk \in Chunks /\ mgr'.chunk = mgr.chunk /\ mgr'.step = "finish"
        BY <2>1, AttemptSteps, GoType
    <2>3. CountsOf(k) /\ k.deleted[mgr.chunk] = 1 /\ k.archived = cat.archived
        BY <1>0, <2>2, CountedCounts
    <2> HIDE DEF k
    <2>4. \A l \in stable' : CountsOf(l)
        BY <2>1, <2>3, CommitCounts
    <2>5. AttemptCounted'
        BY <2>1, <2>2, <2>3 DEF CountInv, AttemptCounted, Commit
    <2> QED
        BY <2>4, <2>5 DEF CountInv, CountsOf
<1>11. CASE CommitDeleted
    <2>1. /\ mgr.step = "finish" /\ mgr' = NoAttempt
          /\ CommitFull(Moved(mgr.chunk, "LOCAL_DELETED"))
        BY <1>11 DEF CommitDeleted, At
    <2>2. mgr.chunk \in Chunks
        BY <2>1, AttemptSteps
    <2>3. cat.archived[mgr.chunk] = 1 /\ cat.deleted[mgr.chunk] = 1
        BY <2>1 DEF CountInv, AttemptCounted
    <2>4. CountsOf(Moved(mgr.chunk, "LOCAL_DELETED"))
        BY <1>0, <2>2, <2>3, MovedCounts DEF ArchiveState
    <2>5. \A l \in stable' : CountsOf(l)
        BY <2>1, <2>4, CommitCounts
    <2>6. AttemptCounted'
        BY <2>1 DEF AttemptCounted, NoAttempt
    <2> QED
        BY <2>5, <2>6 DEF CountInv, CountsOf
<1> QED
    BY <1>1, <1>2, <1>3, <1>4, <1>6, <1>7, <1>8, <1>9, <1>10, <1>11 DEF Manager

\* Ejects and probes commit the control row alone.
LEMMA ControlCounts == ASSUME TypeOK, CountInv, Ejecting \/ Probing PROVE CountInv'
<1> DEFINE Quiet == /\ cat'.arch = cat.arch /\ cat'.archived = cat.archived
                    /\ cat'.deleted = cat.deleted /\ stable' \subseteq stable \cup {cat'}
<1>1. ASSUME NEW s, NEW r, FinishEject(s, r) PROVE Quiet
    BY <1>1 DEF FinishEject, Commit, catalog, TypeOK, CatalogType
<1>2. ASSUME BeginEject PROVE Quiet
    BY <1>2 DEF BeginEject, Commit, TypeOK, CatalogType
<1>3. ASSUME PrepareEject PROVE Quiet
    BY <1>1, <1>3 DEF PrepareEject, TypeOK
<1>4. ASSUME EjectSucceeds \/ EjectRefused PROVE Quiet
    BY <1>1, <1>4 DEF EjectSucceeds, EjectRefused
<1>5. ASSUME EjectUncertain PROVE Quiet
    BY <1>5 DEF EjectUncertain, catalog, TypeOK
<1>6. ASSUME Probing PROVE Quiet
    BY <1>6 DEF Probing, ReadControl, ActivateTarget, ProbeFails, Commit, catalog, TypeOK,
                CatalogType
<1>7. UNCHANGED mgr
    BY DEF Ejecting, BeginEject, PrepareEject, EjectSucceeds, EjectRefused, EjectUncertain,
           Probing, ReadControl, ActivateTarget, ProbeFails
<1> QED
    BY <1>2, <1>3, <1>4, <1>5, <1>6, <1>7, QuietCounts DEF Ejecting

LEMMA EnvironmentCounts == ASSUME TypeOK, CountInv, Environment PROVE CountInv'
<1>1. CASE PowerLoss
    <2>1. cat' \in stable /\ stable' = {cat'} /\ mgr' = NoAttempt
        BY <1>1 DEF PowerLoss
    <2>2. AttemptCounted'
        BY <2>1 DEF AttemptCounted, NoAttempt
    <2> QED
        BY <2>1, <2>2 DEF CountInv, CountsOf
<1>2. CASE Abort \/ Remove \/ Mount \/ \E c \in Chunks, f \in Damageable : Damage(c, f)
    <2>1. UNCHANGED catalog /\ (mgr' = mgr \/ mgr' = NoAttempt)
        BY <1>2 DEF Abort, Remove, Mount, Damage
    <2> QED
        BY <2>1, QuietCounts DEF catalog
<1> QED
    BY <1>1, <1>2 DEF Environment

\* However often an attempt is retried after faults, kills and power losses that
\* roll the Catalog back, no content of the Catalog counts the archived or deleted
\* bytes of a chunk twice, and none ends a transaction that is not counted: for
\* every number of chunks and on every volume, a damaged one included.
THEOREM BytesAreCountedOnce == Spec => []CountedOnce
<1>1. Init => CountInv
    BY DEF Init, CountInv, CountsOf, AttemptCounted, NoAttempt
<1>2. ASSUME TypeOK, CountInv, [Next]_vars PROVE CountInv'
    <2>1. CASE UNCHANGED vars
        BY <1>2, <2>1, QuietCounts DEF vars
    <2> QED
        BY <1>2, <2>1, ManagerCounts, ControlCounts, EnvironmentCounts DEF Next
<1>3. CountInv => CountedOnce
    BY DEF CountInv, CountsOf, CountedOnce
<1> QED
    BY <1>1, <1>2, <1>3, ArchiveTypeCorrect, PTL DEF Spec

-----------------------------------------------------------------------------
(* No chunk is lost, on a volume whose temporary files are not damaged.    *)

\* What ArchiveInv says of files d of chunk c, given source and Catalog.
GoodFiles(c, d) ==
    /\ d.art # "cached"
    /\ d.tmp = "cached" => cat.arch[c] = "COPYING"
    /\ \A k \in stable :
        /\ k.arch[c] = "VERIFYING" => d.art \in {"renamed", "good", "bad"} \/ d.tmp = "synced"
        /\ k.arch[c] \in {"VERIFIED", "LOCAL_DELETE_PENDING", "LOCAL_DELETED"} =>
              d.art \in {"good", "bad"} /\ d.man \in {"good", "bad"}
    /\ src[c] = "here" \/ Safe(d)

\* Files e hold at least what files d held.
Kept(d, e) ==
    /\ e.art # "cached"
    /\ e.tmp = "cached" => d.tmp = "cached"
    /\ d.art \in {"renamed", "good", "bad"} \/ d.tmp = "synced" =>
          e.art \in {"renamed", "good", "bad"} \/ e.tmp = "synced"
    /\ d.art \in {"good", "bad"} => e.art = d.art
    /\ d.man \in {"good", "bad"} => e.man = d.man

\* The same files, or more of them durable.
Synced(d, e) ==
    /\ Kept(d, e)
    /\ e.art = "none" <=> d.art = "none"
    /\ e.man = "none" <=> d.man = "none"
    /\ e.man = "renamed" => d.man = "renamed"
    /\ d.tmp = "synced" => e.tmp = "synced"

LEMMA FilesAreGood ==
    ASSUME ArchiveInv, NEW c \in Chunks
    PROVE  GoodFiles(c, dev[c])
    BY DEF ArchiveInv, FilesInOrder, FilesBeforeCatalog, NeverLost, GoodFiles

LEMMA KeptIsGood ==
    ASSUME NEW c \in Chunks, NEW d, NEW e, GoodFiles(c, d), Kept(d, e)
    PROVE  GoodFiles(c, e)
    BY DEF GoodFiles, Kept, Safe

LEMMA EnsuredIsSynced ==
    ASSUME NEW d \in External, d.art # "cached"
    PROVE  Synced(d, EnsureDirectories(d))
    BY Ensured, ExternalFields DEF Synced, Kept, Fsynced, Art, Man

LEMMA FlushedIsSynced ==
    ASSUME NEW d \in External, d.art # "cached"
    PROVE  Synced(d, Flushed(d))
    BY FlushedFiles, ExternalFields DEF Synced, Kept, Fsynced, Intact, Art, Man

LEMMA SurvivorIsKept ==
    ASSUME NEW d \in External, d.art # "cached", NEW e \in Survivors(d)
    PROVE  /\ Kept(d, e) /\ e.tmp # "cached"
           /\ d.art \in {"good", "bad"} \/ d.tmp = "synced" =>
                 e.art \in {"good", "bad"} \/ e.tmp = "synced"
    BY ExternalFields DEF Survivors, Kept, Tmp, Art, Man

\* Steps that change external files only.
LEMMA FilesOnly ==
    ASSUME ArchiveInv, UNCHANGED <<src, cat, stable>>,
           \A c \in Chunks : GoodFiles(c, dev'[c])
    PROVE  FilesInOrder' /\ FilesBeforeCatalog' /\ NeverLost' /\ DeletionIsAuthorised'
<1>1. FilesInOrder' /\ NeverLost'
    BY DEF GoodFiles, FilesInOrder, NeverLost
<1>2. FilesBeforeCatalog'
    BY DEF GoodFiles, FilesBeforeCatalog, ArchiveInv
<1>3. DeletionIsAuthorised'
    BY DEF DeletionIsAuthorised, ArchiveInv
<1> QED
    BY <1>1, <1>2, <1>3

\* Steps of the manager that change the files of one chunk.
LEMMA OneChunk ==
    ASSUME TypeOK, ArchiveInv, UNCHANGED <<src, cat, stable>>,
           NEW c \in Chunks, NEW d \in External, SetFiles(c, d), GoodFiles(c, d)
    PROVE  FilesInOrder' /\ FilesBeforeCatalog' /\ NeverLost' /\ DeletionIsAuthorised'
<1>1. \A e \in Chunks : GoodFiles(e, dev'[e])
    BY FilesAreGood, SetFilesType
<1> QED
    BY <1>1, FilesOnly

LEMMA PreparedChunk ==
    ASSUME TypeOK, ArchiveInv, UNCHANGED <<src, cat, stable>>,
           NEW c \in Chunks, NEW t \in Tmp, Prepared(c, t), GoodFiles(c, dev'[c])
    PROVE  FilesInOrder' /\ FilesBeforeCatalog' /\ NeverLost' /\ DeletionIsAuthorised'
<1>1. ASSUME NEW e \in Chunks, e # c PROVE GoodFiles(e, dev'[e])
    <2>1. dev'[e] = EnsureDirectories(dev[e])
        BY <1>1 DEF Prepared
    <2>2. dev[e] \in External /\ dev[e].art # "cached"
        BY DEF TypeOK, ArchiveInv, FilesInOrder
    <2> QED
        BY <2>1, <2>2, EnsuredIsSynced, FilesAreGood, KeptIsGood DEF Synced
<1> QED
    BY <1>1, FilesOnly

\* What a transaction that is not yet, or no longer, in VERIFYING excludes.
LEMMA BeforeVerifying ==
    ASSUME ArchiveInv, NEW c \in Chunks, cat.arch[c] = "COPYING", NEW k \in stable
    PROVE  k.arch[c] \in {"NONE", "COPYING"}
    BY DEF ArchiveInv, FilesBeforeCatalog

\* The attempt's view of the Catalog, of its files and of its source.
LEMMA AttemptFacts ==
    ASSUME TypeOK, ArchiveInv, mgr.step # "idle"
    PROVE  /\ mgr.chunk \in Chunks
           /\ dev[mgr.chunk] \in External
           /\ dev[mgr.chunk].tmp \in Tmp
           /\ dev[mgr.chunk].art \in Art \ {"cached"}
           /\ dev[mgr.chunk].man \in Man
           /\ GoodFiles(mgr.chunk, dev[mgr.chunk])
<1>1. mgr.chunk \in Chunks
    BY AttemptSteps
<1>2. dev[mgr.chunk] \in External
    BY <1>1 DEF TypeOK
<1>3. GoodFiles(mgr.chunk, dev[mgr.chunk])
    BY <1>1, FilesAreGood
<1> QED
    BY <1>1, <1>2, <1>3, ExternalFields DEF GoodFiles

\* A temporary file of a transaction in VERIFYING without artifact is durable.
LEMMA VerifyingCopy ==
    ASSUME TypeOK, ArchiveInv, NEW c \in Chunks, cat.arch[c] = "VERIFYING", dev[c].art = "none"
    PROVE  dev[c].tmp = "synced"
    BY DEF TypeOK, ArchiveInv, FilesBeforeCatalog

LEMMA CopyingKeeps ==
    ASSUME TypeOK, ArchiveInv, Copy \/ CopyEnd
    PROVE  ArchiveInv'
<1> DEFINE c == mgr.chunk
<1>0. mgr.step # "idle" /\ cat.arch[c] = "COPYING" /\ UNCHANGED <<src, cat, stable>>
    BY DEF Copy, CopyEnd, At, ArchiveInv, AttemptAgrees, catalog
<1>1. /\ c \in Chunks /\ dev[c] \in External /\ dev[c].tmp \in Tmp
      /\ dev[c].art \in Art \ {"cached"} /\ dev[c].man \in Man /\ GoodFiles(c, dev[c])
    BY <1>0, AttemptFacts
<1>2. ASSUME NEW d, d.art \in {"none", "good"}, d.art = "none" => dev[c].art = "none",
             d.man = Fsynced(dev[c].man) \/ d.man = dev[c].man, dev[c].art = "good" => d.art = "good"
      PROVE  GoodFiles(c, d)
    <2>1. \A k \in stable : k.arch[c] \in {"NONE", "COPYING"}
        BY <1>0, <1>1, BeforeVerifying
    <2>2. src[c] = "here" \/ Safe(d)
        BY <1>1, <1>2 DEF GoodFiles, Safe, Fsynced
    <2> QED
        BY <1>0, <1>2, <2>1, <2>2 DEF GoodFiles
<1>3. CASE Copy
    <2>1. CASE Intact(dev[c].art) /\ Prepared(c, "none") /\ Go("copied")
        <3>1. /\ dev'[c].art = Fsynced(dev[c].art) /\ dev'[c].tmp = "none"
              /\ dev'[c].man = Fsynced(dev[c].man)
            BY <1>1, <2>1, PreparedFiles DEF Tmp
        <3>2. dev'[c].art = "good"
            BY <1>1, <2>1, <3>1 DEF Intact, Fsynced, Art
        <3>3. GoodFiles(c, dev'[c])
            BY <1>2, <3>1, <3>2
        <3>4. FilesInOrder' /\ FilesBeforeCatalog' /\ NeverLost' /\ DeletionIsAuthorised'
            BY <1>0, <1>1, <2>1, <3>3, PreparedChunk DEF Tmp
        <3>5. mgr'.chunk = c /\ mgr'.step = "copied"
            BY <1>0, <2>1, GoType DEF Steps
        <3>6. AttemptAgrees' /\ AttemptDurable'
            BY <1>0, <3>1, <3>2, <3>5 DEF AttemptAgrees, AttemptDurable
        <3> QED
            BY <3>4, <3>6 DEF ArchiveInv
    <2>2. CASE dev[c].art = "none" /\ Prepared(c, "partial") /\ Go("copying")
        <3>1. /\ dev'[c].art = Fsynced(dev[c].art) /\ dev'[c].tmp = "partial"
              /\ dev'[c].man = Fsynced(dev[c].man)
            BY <1>1, <2>2, PreparedFiles DEF Tmp
        <3>2. dev'[c].art = "none"
            BY <2>2, <3>1 DEF Fsynced
        <3>3. GoodFiles(c, dev'[c])
            BY <1>2, <2>2, <3>1, <3>2
        <3>4. FilesInOrder' /\ FilesBeforeCatalog' /\ NeverLost' /\ DeletionIsAuthorised'
            BY <1>0, <1>1, <2>2, <3>3, PreparedChunk DEF Tmp
        <3>5. mgr'.chunk = c /\ mgr'.step = "copying"
            BY <1>0, <2>2, GoType DEF Steps
        <3>6. AttemptAgrees' /\ AttemptDurable'
            BY <1>0, <3>2, <3>5 DEF AttemptAgrees, AttemptDurable
        <3> QED
            BY <3>4, <3>6 DEF ArchiveInv
    <2> QED
        BY <1>3, <2>1, <2>2 DEF Copy
<1>4. CASE CopyEnd
    <2> DEFINE d == [dev[c] EXCEPT !.tmp = "synced"]
    <2>1. d \in External /\ d.tmp = "synced" /\ d.art = dev[c].art /\ d.man = dev[c].man
        BY <1>1, SetTmp DEF Tmp
    <2>2. dev[c].art = "none"
        BY <1>4 DEF CopyEnd, At, ArchiveInv, AttemptDurable
    <2> HIDE DEF d
    <2>3. GoodFiles(c, d)
        BY <1>2, <2>1, <2>2
    <2>4. SetFiles(c, d) /\ Go("copied")
        BY <1>0, <1>4 DEF CopyEnd, d
    <2>5. FilesInOrder' /\ FilesBeforeCatalog' /\ NeverLost' /\ DeletionIsAuthorised'
        BY <1>0, <1>1, <2>1, <2>3, <2>4, OneChunk
    <2>6. mgr'.chunk = c /\ mgr'.step = "copied" /\ dev'[c] = d
        BY <1>0, <1>1, <2>1, <2>4, GoType, SetFilesType DEF Steps
    <2>7. AttemptAgrees' /\ AttemptDurable'
        BY <1>0, <2>1, <2>6 DEF AttemptAgrees, AttemptDurable
    <2> QED
        BY <2>5, <2>7 DEF ArchiveInv
<1> QED
    BY <1>3, <1>4

LEMMA VerifyKeeps ==
    ASSUME TypeOK, ArchiveInv, Verify
    PROVE  ArchiveInv'
<1> DEFINE c == mgr.chunk
<1>0. mgr.step # "idle" /\ cat.arch[c] = "VERIFYING" /\ UNCHANGED <<src, cat, stable>>
    BY DEF Verify, At, ArchiveInv, AttemptAgrees, catalog
<1>1. /\ c \in Chunks /\ dev[c] \in External /\ dev[c].tmp \in Tmp
      /\ dev[c].art \in Art \ {"cached"} /\ dev[c].man \in Man /\ GoodFiles(c, dev[c])
    BY <1>0, AttemptFacts
<1>2. ASSUME NEW t \in Tmp, Prepared(c, t), t # "cached",
             dev[c].art \in {"renamed", "good"} \/ t = dev[c].tmp
      PROVE  /\ FilesInOrder' /\ FilesBeforeCatalog' /\ NeverLost' /\ DeletionIsAuthorised'
             /\ dev'[c].art = Fsynced(dev[c].art)
             /\ dev'[c].man \in {"none", "good", "bad"}
    <2>1. /\ dev'[c].art = Fsynced(dev[c].art) /\ dev'[c].tmp = t
          /\ dev'[c].man = Fsynced(dev[c].man)
        BY <1>1, <1>2, PreparedFiles
    <2>2. Kept(dev[c], dev'[c])
        BY <1>1, <1>2, <2>1 DEF Kept, Fsynced, Art, Man
    <2>3. GoodFiles(c, dev'[c])
        BY <1>1, <2>2, KeptIsGood
    <2>4. dev'[c].man \in {"none", "good", "bad"}
        BY <1>1, <2>1 DEF Fsynced, Man
    <2> QED
        BY <1>0, <1>1, <1>2, <2>1, <2>3, <2>4, PreparedChunk
<1>3. CASE Intact(dev[c].art) /\ Prepared(c, "none") /\ Go("manifest")
    <2>1. dev[c].art \in {"renamed", "good"} /\ Fsynced(dev[c].art) = "good"
        BY <1>1, <1>3 DEF Intact, Fsynced, Art
    <2>2. "none" \in Tmp
        BY DEF Tmp
    <2>3. /\ FilesInOrder' /\ FilesBeforeCatalog' /\ NeverLost' /\ DeletionIsAuthorised'
          /\ dev'[c].art = "good" /\ dev'[c].man \in {"none", "good", "bad"}
        BY <1>2, <1>3, <2>1, <2>2
    <2>4. mgr'.chunk = c /\ mgr'.step = "manifest"
        BY <1>0, <1>3, GoType DEF Steps
    <2>5. AttemptAgrees' /\ AttemptDurable'
        BY <1>0, <2>3, <2>4 DEF AttemptAgrees, AttemptDurable
    <2> QED
        BY <2>3, <2>5 DEF ArchiveInv
<1>4. CASE dev[c].art = "none" /\ dev[c].tmp # "none" /\ Prepared(c, dev[c].tmp) /\ Go("check")
    <2>1. Fsynced(dev[c].art) = "none" /\ dev[c].tmp # "cached"
        BY <1>0, <1>1, <1>4 DEF Fsynced, GoodFiles
    <2>2. /\ FilesInOrder' /\ FilesBeforeCatalog' /\ NeverLost' /\ DeletionIsAuthorised'
          /\ dev'[c].art = "none" /\ dev'[c].man \in {"none", "good", "bad"}
        BY <1>1, <1>2, <1>4, <2>1
    <2>3. mgr'.chunk = c /\ mgr'.step = "check"
        BY <1>0, <1>4, GoType DEF Steps
    <2>4. AttemptAgrees' /\ AttemptDurable'
        BY <1>0, <2>2, <2>3 DEF AttemptAgrees, AttemptDurable
    <2> QED
        BY <2>2, <2>4 DEF ArchiveInv
<1>5. ~(dev[c].art = "none" /\ dev[c].tmp = "none")
    BY <1>0, <1>1, VerifyingCopy
<1> QED
    BY <1>3, <1>4, <1>5 DEF Verify

LEMMA VolumeKeeps ==
    ASSUME TypeOK, ArchiveInv,
           Check \/ Rename \/ SyncRename \/ WriteManifest \/ SyncManifest
    PROVE  ArchiveInv'
<1> DEFINE c == mgr.chunk
           Parts == FilesInOrder /\ FilesBeforeCatalog /\ NeverLost /\ DeletionIsAuthorised
<1>0. mgr.step # "idle" /\ cat.arch[c] = "VERIFYING" /\ UNCHANGED <<src, cat, stable>>
    BY DEF Check, Rename, SyncRename, WriteManifest, SyncManifest, At, ArchiveInv,
           AttemptAgrees, catalog
<1>1. /\ c \in Chunks /\ dev[c] \in External /\ dev[c].tmp \in Tmp
      /\ dev[c].art \in Art \ {"cached"} /\ dev[c].man \in Man /\ GoodFiles(c, dev[c])
    BY <1>0, AttemptFacts
<1>2. ASSUME NEW d \in External, SetFiles(c, d), Kept(dev[c], d)
      PROVE  Parts' /\ dev'[c] = d
    <2>1. GoodFiles(c, d)
        BY <1>1, <1>2, KeptIsGood
    <2> QED
        BY <1>0, <1>1, <1>2, <2>1, OneChunk, SetFilesType
<1>3. CASE Check
    <2>1. dev[c].art = "none" /\ dev[c].man # "renamed"
        BY <1>3 DEF Check, At, ArchiveInv, AttemptDurable
    <2>2. dev[c].tmp = "synced"
        BY <1>0, <1>1, <2>1, VerifyingCopy
    <2>3. Go("rename") /\ UNCHANGED dev
        BY <1>3, <2>2 DEF Check, Intact
    <2>4. Parts'
        BY <1>0, <2>3, FilesAreGood, FilesOnly
    <2>5. mgr'.chunk = c /\ mgr'.step = "rename"
        BY <1>0, <2>3, GoType DEF Steps
    <2>6. AttemptAgrees' /\ AttemptDurable'
        BY <1>0, <2>1, <2>3, <2>5 DEF AttemptAgrees, AttemptDurable
    <2> QED
        BY <2>4, <2>6 DEF ArchiveInv
<1>4. CASE Rename
    <2> DEFINE d == [[dev[c] EXCEPT !.tmp = "none"] EXCEPT !.art = "renamed"]
    <2>1. dev[c].art = "none" /\ dev[c].man # "renamed"
        BY <1>4 DEF Rename, At, ArchiveInv, AttemptDurable
    <2>2. dev[c].tmp = "synced"
        BY <1>0, <1>1, <2>1, VerifyingCopy
    <2>3. d \in External /\ d.tmp = "none" /\ d.art = "renamed" /\ d.man = dev[c].man
        BY <1>1 DEF External
    <2>4. SetFiles(c, d) /\ Go("renamed")
        BY <1>4, <2>2 DEF Rename
    <2> HIDE DEF d
    <2>5. Kept(dev[c], d)
        BY <2>1, <2>3 DEF Kept
    <2>6. Parts' /\ dev'[c] = d
        BY <1>2, <2>3, <2>4, <2>5
    <2>7. mgr'.chunk = c /\ mgr'.step = "renamed"
        BY <1>0, <2>4, GoType DEF Steps
    <2>8. AttemptAgrees' /\ AttemptDurable'
        BY <1>0, <2>1, <2>3, <2>6, <2>7 DEF AttemptAgrees, AttemptDurable
    <2> QED
        BY <2>6, <2>8 DEF ArchiveInv
<1>5. CASE SyncRename
    <2> DEFINE d == [dev[c] EXCEPT !.art = Fsynced(dev[c].art)]
    <2>1. dev[c].art # "none" /\ dev[c].man # "renamed"
        BY <1>5 DEF SyncRename, At, ArchiveInv, AttemptDurable
    <2>2. Fsynced(dev[c].art) \in Art /\ Fsynced(dev[c].art) \in {"good", "bad"}
        BY <1>1, <2>1 DEF Fsynced, Art
    <2>3. /\ d \in External /\ d.tmp = dev[c].tmp /\ d.art = Fsynced(dev[c].art)
          /\ d.man = dev[c].man
        BY <1>1, <2>2, SetArt
    <2>4. SetFiles(c, d) /\ Go("manifest")
        BY <1>5 DEF SyncRename
    <2> HIDE DEF d
    <2>5. Kept(dev[c], d)
        BY <2>2, <2>3 DEF Kept, Fsynced
    <2>6. Parts' /\ dev'[c] = d
        BY <1>2, <2>3, <2>4, <2>5
    <2>7. mgr'.chunk = c /\ mgr'.step = "manifest"
        BY <1>0, <2>4, GoType DEF Steps
    <2>8. AttemptAgrees' /\ AttemptDurable'
        BY <1>0, <2>1, <2>2, <2>3, <2>6, <2>7 DEF AttemptAgrees, AttemptDurable
    <2> QED
        BY <2>6, <2>8 DEF ArchiveInv
<1>6. CASE WriteManifest
    <2>1. dev[c].art \in {"good", "bad"} /\ dev[c].man # "renamed"
        BY <1>6 DEF WriteManifest, At, ArchiveInv, AttemptDurable
    <2>2. CASE Intact(dev[c].man) /\ Go("commit") /\ UNCHANGED dev
        <3>1. dev[c].man = "good"
            BY <1>1, <2>1, <2>2 DEF Intact, Man
        <3>2. Parts'
            BY <1>0, <2>2, FilesAreGood, FilesOnly
        <3>3. mgr'.chunk = c /\ mgr'.step = "commit"
            BY <1>0, <2>2, GoType DEF Steps
        <3>4. AttemptAgrees' /\ AttemptDurable'
            BY <1>0, <2>1, <2>2, <3>1, <3>3 DEF AttemptAgrees, AttemptDurable
        <3> QED
            BY <3>2, <3>4 DEF ArchiveInv
    <2>3. CASE /\ dev[c].man = "none" /\ SetFiles(c, [dev[c] EXCEPT !.man = "renamed"])
               /\ Go("written")
        <3> DEFINE d == [dev[c] EXCEPT !.man = "renamed"]
        <3>1. /\ d \in External /\ d.tmp = dev[c].tmp /\ d.art = dev[c].art
              /\ d.man = "renamed"
            BY <1>1, SetMan DEF Man
        <3>2. SetFiles(c, d)
            BY <2>3
        <3> HIDE DEF d
        <3>3. Kept(dev[c], d)
            BY <1>1, <2>3, <3>1 DEF Kept
        <3>4. Parts' /\ dev'[c] = d
            BY <1>2, <3>1, <3>2, <3>3
        <3>5. mgr'.chunk = c /\ mgr'.step = "written"
            BY <1>0, <2>3, GoType DEF Steps
        <3>6. AttemptAgrees' /\ AttemptDurable'
            BY <1>0, <2>1, <3>1, <3>4, <3>5 DEF AttemptAgrees, AttemptDurable
        <3> QED
            BY <3>4, <3>6 DEF ArchiveInv
    <2> QED
        BY <1>6, <2>2, <2>3 DEF WriteManifest
<1>7. CASE SyncManifest
    <2> DEFINE d == [dev[c] EXCEPT !.man = Fsynced(dev[c].man)]
    <2>1. dev[c].art \in {"good", "bad"} /\ dev[c].man # "none"
        BY <1>7 DEF SyncManifest, At, ArchiveInv, AttemptDurable
    <2>2. Fsynced(dev[c].man) \in Man /\ Fsynced(dev[c].man) \in {"good", "bad"}
        BY <1>1, <2>1 DEF Fsynced, Man
    <2>3. /\ d \in External /\ d.tmp = dev[c].tmp /\ d.art = dev[c].art
          /\ d.man = Fsynced(dev[c].man)
        BY <1>1, <2>2, SetMan
    <2>4. SetFiles(c, d) /\ Go("commit")
        BY <1>7 DEF SyncManifest
    <2> HIDE DEF d
    <2>5. Kept(dev[c], d)
        BY <1>1, <2>3 DEF Kept, Fsynced
    <2>6. Parts' /\ dev'[c] = d
        BY <1>2, <2>3, <2>4, <2>5
    <2>7. mgr'.chunk = c /\ mgr'.step = "commit"
        BY <1>0, <2>4, GoType DEF Steps
    <2>8. AttemptAgrees' /\ AttemptDurable'
        BY <1>0, <2>1, <2>2, <2>3, <2>6, <2>7 DEF AttemptAgrees, AttemptDurable
    <2> QED
        BY <2>6, <2>8 DEF ArchiveInv
<1> QED
    BY <1>3, <1>4, <1>5, <1>6, <1>7

\* Commits that move no transaction: metrics, eject and readiness.
LEMMA SameArchKeeps ==
    ASSUME TypeOK, ArchiveInv, UNCHANGED <<src, dev>>, cat'.arch = cat.arch,
           stable' \subseteq stable \cup {cat'}
    PROVE  FilesInOrder' /\ FilesBeforeCatalog' /\ NeverLost' /\ DeletionIsAuthorised'
<1>1. FilesInOrder' /\ NeverLost'
    BY DEF ArchiveInv, FilesInOrder, NeverLost
<1>2. cat \in stable
    BY DEF TypeOK
<1>3. FilesBeforeCatalog'
    BY <1>2 DEF ArchiveInv, FilesBeforeCatalog
<1>4. DeletionIsAuthorised'
    BY <1>2 DEF ArchiveInv, DeletionIsAuthorised
<1> QED
    BY <1>1, <1>3, <1>4

\* Commits that move the transaction of one chunk.
LEMMA MovedArch ==
    ASSUME TypeOK, NEW c \in Chunks, NEW to \in ArchiveState,
           Commit(Moved(c, to)) \/ CommitFull(Moved(c, to))
    PROVE  /\ cat'.arch[c] = to
           /\ \A e \in Chunks : e # c => cat'.arch[e] = cat.arch[e]
           /\ stable' \subseteq stable \cup {cat'}
           /\ CommitFull(Moved(c, to)) => stable' = {cat'}
<1>1. Moved(c, to).arch = [cat.arch EXCEPT ![c] = to]
    BY MovedCatalog DEF TypeOK
<1>2. cat.arch \in [Chunks -> ArchiveState]
    BY DEF TypeOK, CatalogType
<1> QED
    BY <1>1, <1>2 DEF Commit, CommitFull

LEMMA CommitKeeps ==
    ASSUME TypeOK, ArchiveInv,
           \/ \E c \in Chunks : Reserve(c)
           \/ CommitVerifying \/ CommitVerified \/ CommitDeletePending \/ CommitDeleted
    PROVE  ArchiveInv'
<1>0. UNCHANGED <<src, dev>>
    BY DEF Reserve, CommitVerifying, CommitVerified, CommitDeletePending, CommitDeleted
<1>1. NeverLost'
    BY <1>0 DEF ArchiveInv, NeverLost
<1>2. cat \in stable
    BY DEF TypeOK
<1>3. ASSUME NEW c \in Chunks, Reserve(c) PROVE ArchiveInv'
    <2>1. /\ cat'.arch[c] = "COPYING" /\ \A e \in Chunks : e # c => cat'.arch[e] = cat.arch[e]
          /\ stable' \subseteq stable \cup {cat'} /\ cat.arch[c] = "NONE"
        BY <1>3, MovedArch DEF Reserve, ArchiveState
    <2>2. mgr'.chunk = c /\ mgr'.step = "copy"
        BY <1>3 DEF Reserve
    <2>3. AttemptAgrees' /\ AttemptDurable'
        BY <2>1, <2>2 DEF AttemptAgrees, AttemptDurable
    <2>4. FilesInOrder'
        BY <1>0, <2>1 DEF ArchiveInv, FilesInOrder
    <2>5. FilesBeforeCatalog'
        BY <1>0, <1>2, <2>1 DEF ArchiveInv, FilesBeforeCatalog
    <2>6. src[c] = "here"
        BY <1>3 DEF Reserve
    <2>7. DeletionIsAuthorised'
        BY <1>0, <1>2, <2>1, <2>6 DEF ArchiveInv, DeletionIsAuthorised
    <2> QED
        BY <1>1, <2>3, <2>4, <2>5, <2>7 DEF ArchiveInv
<1>4. CASE CommitVerifying
    <2> DEFINE c == mgr.chunk
    <2>0. mgr.step = "copied" /\ Go("verify") /\ cat.arch[c] = "COPYING"
        BY <1>4 DEF CommitVerifying, At, ArchiveInv, AttemptAgrees
    <2>1. c \in Chunks /\ mgr'.chunk = c /\ mgr'.step = "verify"
        BY <2>0, AttemptSteps, GoType DEF Steps
    <2>2. /\ cat'.arch[c] = "VERIFYING"
          /\ \A e \in Chunks : e # c => cat'.arch[e] = cat.arch[e]
          /\ stable' \subseteq stable \cup {cat'}
        BY <1>4, <2>1, MovedArch DEF CommitVerifying, ArchiveState
    <2>3. AttemptAgrees' /\ AttemptDurable'
        BY <2>1, <2>2 DEF AttemptAgrees, AttemptDurable
    <2>4. (dev[c].art \in {"good", "bad"} \/ dev[c].tmp = "synced") /\ dev[c].tmp # "cached"
        BY <2>0 DEF ArchiveInv, AttemptDurable
    <2>5. FilesInOrder'
        BY <1>0, <2>2, <2>4 DEF ArchiveInv, FilesInOrder
    <2>6. FilesBeforeCatalog'
        BY <1>0, <1>2, <2>1, <2>2, <2>4 DEF ArchiveInv, FilesBeforeCatalog
    <2>7. src[c] = "here"
        BY <1>2, <2>0, <2>1 DEF ArchiveInv, DeletionIsAuthorised
    <2>8. DeletionIsAuthorised'
        BY <1>0, <1>2, <2>2, <2>7 DEF ArchiveInv, DeletionIsAuthorised
    <2> QED
        BY <1>1, <2>3, <2>5, <2>6, <2>8 DEF ArchiveInv
<1>5. CASE CommitVerified
    <2> DEFINE c == mgr.chunk
    <2>0. mgr.step = "commit" /\ Go("archived") /\ cat.arch[c] = "VERIFYING"
        BY <1>5 DEF CommitVerified, At, ArchiveInv, AttemptAgrees
    <2>1. c \in Chunks /\ mgr'.chunk = c /\ mgr'.step = "archived"
        BY <2>0, AttemptSteps, GoType DEF Steps
    <2>2. /\ cat'.arch[c] = "VERIFIED"
          /\ \A e \in Chunks : e # c => cat'.arch[e] = cat.arch[e]
          /\ stable' \subseteq stable \cup {cat'}
        BY <1>5, <2>1, MovedArch DEF CommitVerified, ArchiveState
    <2>3. AttemptAgrees' /\ AttemptDurable'
        BY <2>1, <2>2 DEF AttemptAgrees, AttemptDurable
    <2>4. dev[c].art \in {"good", "bad"} /\ dev[c].man \in {"good", "bad"}
        BY <2>0 DEF ArchiveInv, AttemptDurable
    <2>5. FilesInOrder'
        BY <1>0, <2>0, <2>2 DEF ArchiveInv, FilesInOrder
    <2>6. FilesBeforeCatalog'
        BY <1>0, <1>2, <2>1, <2>2, <2>4 DEF ArchiveInv, FilesBeforeCatalog
    <2>7. src[c] = "here"
        BY <1>2, <2>0, <2>1 DEF ArchiveInv, DeletionIsAuthorised
    <2>8. DeletionIsAuthorised'
        BY <1>0, <1>2, <2>2, <2>7 DEF ArchiveInv, DeletionIsAuthorised
    <2> QED
        BY <1>1, <2>3, <2>5, <2>6, <2>8 DEF ArchiveInv
<1>6. CASE CommitDeletePending
    <2> DEFINE c == mgr.chunk
    <2>0. mgr.step = "pending" /\ Go("validate") /\ cat.arch[c] = "VERIFIED"
        BY <1>6 DEF CommitDeletePending, At, ArchiveInv, AttemptAgrees
    <2>1. c \in Chunks /\ mgr'.chunk = c /\ mgr'.step = "validate"
        BY <2>0, AttemptSteps, GoType DEF Steps
    <2>2. /\ cat'.arch[c] = "LOCAL_DELETE_PENDING"
          /\ \A e \in Chunks : e # c => cat'.arch[e] = cat.arch[e]
          /\ stable' = {cat'}
        BY <1>6, <2>1, MovedArch DEF CommitDeletePending, ArchiveState
    <2>3. AttemptAgrees' /\ AttemptDurable'
        BY <2>1, <2>2 DEF AttemptAgrees, AttemptDurable
    <2>4. FilesInOrder'
        BY <1>0, <2>0, <2>2 DEF ArchiveInv, FilesInOrder
    <2>5. FilesBeforeCatalog'
        BY <1>0, <1>2, <2>0, <2>1, <2>2 DEF ArchiveInv, FilesBeforeCatalog
    <2>6. DeletionIsAuthorised'
        BY <1>0, <1>2, <2>2 DEF ArchiveInv, DeletionIsAuthorised
    <2> QED
        BY <1>1, <2>3, <2>4, <2>5, <2>6 DEF ArchiveInv
<1>7. CASE CommitDeleted
    <2> DEFINE c == mgr.chunk
    <2>0. mgr.step = "finish" /\ mgr' = NoAttempt /\ cat.arch[c] = "LOCAL_DELETE_PENDING"
        BY <1>7 DEF CommitDeleted, At, ArchiveInv, AttemptAgrees
    <2>1. c \in Chunks
        BY <2>0, AttemptSteps
    <2>2. /\ cat'.arch[c] = "LOCAL_DELETED"
          /\ \A e \in Chunks : e # c => cat'.arch[e] = cat.arch[e]
          /\ stable' = {cat'}
        BY <1>7, <2>1, MovedArch DEF CommitDeleted, ArchiveState
    <2>3. AttemptAgrees' /\ AttemptDurable'
        BY <2>0 DEF AttemptAgrees, AttemptDurable, NoAttempt
    <2>4. FilesInOrder'
        BY <1>0, <2>0, <2>2 DEF ArchiveInv, FilesInOrder
    <2>5. FilesBeforeCatalog'
        BY <1>0, <1>2, <2>0, <2>1, <2>2 DEF ArchiveInv, FilesBeforeCatalog
    <2>6. DeletionIsAuthorised'
        BY <1>0, <1>2, <2>2 DEF ArchiveInv, DeletionIsAuthorised
    <2> QED
        BY <1>1, <2>3, <2>4, <2>5, <2>6 DEF ArchiveInv
<1> QED
    BY <1>3, <1>4, <1>5, <1>6, <1>7

LEMMA ReleaseKeeps ==
    ASSUME TypeOK, ArchiveInv,
           \/ \E c \in Chunks : Resume(c)
           \/ RecordArchivedMetric \/ RecordDeletedMetric
           \/ ValidateExternalCommit \/ UnlinkSource \/ SyncSource
    PROVE  ArchiveInv'
<1> DEFINE c == mgr.chunk
           Parts == FilesInOrder /\ FilesBeforeCatalog /\ NeverLost /\ DeletionIsAuthorised
<1>0. ASSUME UNCHANGED <<src, dev, cat, stable>> PROVE Parts'
    BY <1>0, FilesAreGood, FilesOnly
<1>1. cat \in stable
    BY DEF TypeOK
<1>2. ASSUME NEW e \in Chunks, Resume(e) PROVE ArchiveInv'
    <2>1. cat.arch[e] \in {"COPYING", "VERIFYING", "VERIFIED", "LOCAL_DELETE_PENDING"}
        BY <1>2 DEF Resume, Incomplete, TypeOK, CatalogType, ArchiveState
    <2>2. mgr'.chunk = e /\ mgr'.step = EntryStep[cat.arch[e]] /\ UNCHANGED <<src, dev, cat, stable>>
        BY <1>2 DEF Resume, catalog
    <2>3. /\ cat.arch[e] = "COPYING" => mgr'.step = "copy"
          /\ cat.arch[e] = "VERIFYING" => mgr'.step = "verify"
          /\ cat.arch[e] = "VERIFIED" => mgr'.step = "archived"
          /\ cat.arch[e] = "LOCAL_DELETE_PENDING" => mgr'.step = "validate"
        BY <2>2 DEF EntryStep
    <2>4. AttemptAgrees' /\ AttemptDurable'
        BY <2>1, <2>2, <2>3 DEF AttemptAgrees, AttemptDurable
    <2> QED
        BY <1>0, <2>2, <2>4 DEF ArchiveInv
<1>3. CASE RecordArchivedMetric \/ RecordDeletedMetric
    <2>1. c \in Chunks /\ mgr.step \in {"archived", "deleted"} /\ UNCHANGED <<src, dev>>
        BY <1>3, AttemptSteps DEF RecordArchivedMetric, RecordDeletedMetric, At
    <2>2. PICK k : Commit(k) /\ k.arch = cat.arch
        BY <1>3, <2>1, CountedType DEF RecordArchivedMetric, RecordDeletedMetric, TypeOK
    <2>3. cat'.arch = cat.arch /\ stable' \subseteq stable \cup {cat'}
        BY <2>2 DEF Commit
    <2>4. Parts'
        BY <2>1, <2>3, SameArchKeeps
    <2>5. /\ mgr'.chunk = c
          /\ mgr.step = "archived" => mgr'.step = "pending"
          /\ mgr.step = "deleted" => mgr'.step = "finish"
        BY <1>3, <2>1, GoType DEF RecordArchivedMetric, RecordDeletedMetric, At, Steps
    <2>6. AttemptAgrees' /\ AttemptDurable'
        BY <2>1, <2>3, <2>5 DEF AttemptAgrees, AttemptDurable, ArchiveInv
    <2> QED
        BY <2>4, <2>6 DEF ArchiveInv
<1>4. CASE ValidateExternalCommit
    <2>1. /\ mgr.step = "validate" /\ UNCHANGED <<src, dev, cat, stable>>
          /\ cat.arch[c] = "LOCAL_DELETE_PENDING"
        BY <1>4 DEF ValidateExternalCommit, At, catalog, ArchiveInv, AttemptAgrees
    <2>2. c \in Chunks
        BY <2>1, AttemptSteps
    <2>3. dev[c].art \in {"good", "bad"} /\ dev[c].man \in {"good", "bad"}
        BY <1>1, <2>1, <2>2 DEF ArchiveInv, FilesBeforeCatalog
    <2>4. Safe(dev[c])
        BY <1>4, <2>3 DEF ValidateExternalCommit, Intact, Safe
    <2>5. /\ mgr'.chunk = c
          /\ mgr'.step = IF src[c] = "here" THEN "unlink" ELSE "deleted"
        BY <1>4, <2>1, GoType DEF ValidateExternalCommit, Steps
    <2>6. AttemptAgrees' /\ AttemptDurable'
        BY <2>1, <2>4, <2>5 DEF AttemptAgrees, AttemptDurable
    <2> QED
        BY <1>0, <2>1, <2>6 DEF ArchiveInv
<1>5. CASE UnlinkSource \/ SyncSource
    <2>1. /\ mgr.step \in {"unlink", "sync"} /\ UNCHANGED <<dev, cat, stable>>
          /\ cat.arch[c] = "LOCAL_DELETE_PENDING" /\ Safe(dev[c])
        BY <1>5 DEF UnlinkSource, SyncSource, At, catalog, ArchiveInv, AttemptAgrees, AttemptDurable
    <2>2. c \in Chunks
        BY <2>1, AttemptSteps
    <2>3. /\ src' \in [Chunks -> SourceFile]
          /\ \A e \in Chunks : e # c => src'[e] = src[e]
          /\ UnlinkSource => src'[c] = "unlinked"
        BY <1>5, <2>2 DEF UnlinkSource, SyncSource, TypeOK, SourceFile
    <2>4. NeverLost'
        BY <2>1, <2>3 DEF ArchiveInv, NeverLost
    <2>5. DeletionIsAuthorised'
        <3>1. \A k \in stable : k.arch[c] \in {"LOCAL_DELETE_PENDING", "LOCAL_DELETED"}
            BY <2>1, <2>2 DEF ArchiveInv, FilesBeforeCatalog
        <3> QED
            BY <2>1, <2>3, <3>1 DEF ArchiveInv, DeletionIsAuthorised
    <2>6. FilesInOrder' /\ FilesBeforeCatalog'
        BY <2>1 DEF ArchiveInv, FilesInOrder, FilesBeforeCatalog
    <2>7. mgr'.chunk = c /\ mgr'.step = IF UnlinkSource THEN "sync" ELSE "deleted"
        BY <1>5, <2>1, GoType DEF UnlinkSource, SyncSource, At, Steps
    <2>8. AttemptAgrees' /\ AttemptDurable'
        BY <2>1, <2>3, <2>7 DEF AttemptAgrees, AttemptDurable
    <2> QED
        BY <2>4, <2>5, <2>6, <2>8 DEF ArchiveInv
<1> QED
    BY <1>2, <1>3, <1>4, <1>5

\* Eject and readiness write files out and move no transaction.
LEMMA SyncedKeeps ==
    ASSUME TypeOK, ArchiveInv, UNCHANGED <<src, mgr>>, cat'.arch = cat.arch,
           stable' \subseteq stable \cup {cat'},
           \A c \in Chunks : Synced(dev[c], dev'[c]) \/ dev'[c] = dev[c]
    PROVE  ArchiveInv'
<1>1. cat \in stable
    BY DEF TypeOK
<1>2. ASSUME NEW c \in Chunks PROVE GoodFiles(c, dev'[c])
    BY <1>2, FilesAreGood, KeptIsGood DEF Synced
<1>3. FilesInOrder' /\ NeverLost'
    BY <1>2 DEF GoodFiles, FilesInOrder, NeverLost
<1>4. FilesBeforeCatalog'
    <2>1. ASSUME NEW k \in stable', NEW c \in Chunks
          PROVE  \E l \in stable : l.arch[c] = k.arch[c]
        BY <1>1
    <2>2. \A k \in stable', c \in Chunks :
            /\ k.arch[c] = "VERIFYING" =>
                  dev'[c].art \in {"renamed", "good", "bad"} \/ dev'[c].tmp = "synced"
            /\ k.arch[c] \in {"VERIFIED", "LOCAL_DELETE_PENDING", "LOCAL_DELETED"} =>
                  dev'[c].art \in {"good", "bad"} /\ dev'[c].man \in {"good", "bad"}
        BY <1>2, <2>1 DEF GoodFiles
    <2>3. \A k \in stable', c \in Chunks :
            /\ cat.arch[c] \in {"NONE", "COPYING"} => k.arch[c] \in {"NONE", "COPYING"}
            /\ cat.arch[c] \in {"LOCAL_DELETE_PENDING", "LOCAL_DELETED"} =>
                  k.arch[c] \in {"LOCAL_DELETE_PENDING", "LOCAL_DELETED"}
        BY <2>1 DEF ArchiveInv, FilesBeforeCatalog
    <2> QED
        BY <2>2, <2>3 DEF FilesBeforeCatalog
<1>5. DeletionIsAuthorised'
    BY <1>1 DEF ArchiveInv, DeletionIsAuthorised
<1>6. AttemptAgrees'
    BY DEF ArchiveInv, AttemptAgrees
<1>7. AttemptDurable'
    <2>1. CASE mgr.step = "idle"
        BY <2>1 DEF AttemptDurable
    <2>2. CASE mgr.step # "idle"
        <3>1. mgr.chunk \in Chunks
            BY <2>2, AttemptSteps
        <3>2. \/ Synced(dev[mgr.chunk], dev'[mgr.chunk])
              \/ dev'[mgr.chunk] = dev[mgr.chunk]
            BY <3>1
        <3> QED
            BY <3>2 DEF ArchiveInv, AttemptDurable, Synced, Kept, Safe
    <2> QED
        BY <2>1, <2>2
<1> QED
    BY <1>3, <1>4, <1>5, <1>6, <1>7 DEF ArchiveInv

LEMMA EjectingKeeps == ASSUME TypeOK, ArchiveInv, Ejecting \/ Probing PROVE ArchiveInv'
<1>0. \A c \in Chunks : dev[c] \in External /\ dev[c].art # "cached"
    BY DEF TypeOK, ArchiveInv, FilesInOrder
<1>1. ASSUME Unmount PROVE \A c \in Chunks : Synced(dev[c], dev'[c])
    BY <1>0, <1>1, FlushedIsSynced DEF Unmount
<1>2. CASE BeginEject
    <2>1. cat'.arch = cat.arch /\ stable' = stable \cup {cat'} /\ UNCHANGED <<src, dev, mgr>>
        BY <1>2 DEF BeginEject, Commit, TypeOK, CatalogType
    <2> QED
        BY <2>1, SyncedKeeps
<1>3. CASE PrepareEject
    <2>1. CASE FinishEject("ACTIVE", FALSE) /\ UNCHANGED dev
        <3>1. cat'.arch = cat.arch /\ stable' \subseteq stable \cup {cat'}
            BY <2>1, FinishedEject
        <3> QED
            BY <1>3, <2>1, <3>1, SyncedKeeps DEF PrepareEject
    <2>2. CASE /\ dev' = IF vol = "mounted" THEN [c \in Chunks |-> EnsureDirectories(dev[c])] ELSE dev
               /\ stable' \in {stable, {cat}} /\ UNCHANGED cat
        <3>1. \A c \in Chunks : Synced(dev[c], dev'[c]) \/ dev'[c] = dev[c]
            BY <1>0, <2>2, EnsuredIsSynced
        <3>2. stable' \subseteq stable \cup {cat'} /\ cat'.arch = cat.arch
            BY <2>2
        <3> QED
            BY <1>3, <3>1, <3>2, SyncedKeeps DEF PrepareEject
    <2> QED
        BY <1>3, <2>1, <2>2 DEF PrepareEject
<1>4. CASE EjectSucceeds \/ EjectRefused
    <2>1. cat'.arch = cat.arch /\ stable' \subseteq stable \cup {cat'}
        BY <1>4, FinishedEject DEF EjectSucceeds, EjectRefused
    <2>2. \A c \in Chunks : Synced(dev[c], dev'[c]) \/ dev'[c] = dev[c]
        BY <1>1, <1>4 DEF EjectSucceeds, EjectRefused
    <2>3. UNCHANGED <<src, mgr>>
        BY <1>4 DEF EjectSucceeds, EjectRefused
    <2> QED
        BY <2>1, <2>2, <2>3, SyncedKeeps
<1>5. CASE EjectUncertain \/ ReadControl \/ ProbeFails
    <2>1. UNCHANGED <<src, mgr, dev, cat, stable>>
        BY <1>5 DEF EjectUncertain, ReadControl, ProbeFails, catalog
    <2> QED
        BY <2>1, SyncedKeeps
<1>6. CASE ActivateTarget
    <2>1. /\ cat'.arch = cat.arch /\ stable' \subseteq stable \cup {cat'}
          /\ UNCHANGED <<src, mgr, dev>>
        BY <1>6 DEF ActivateTarget, Commit, catalog, TypeOK, CatalogType
    <2> QED
        BY <2>1, SyncedKeeps
<1> QED
    BY <1>2, <1>3, <1>4, <1>5, <1>6 DEF Ejecting, Probing

LEMMA EnvironmentKeeps ==
    ASSUME TypeOK, ArchiveInv, Environment, "tmp" \notin Damageable
    PROVE  ArchiveInv'
<1> DEFINE Parts == FilesInOrder /\ FilesBeforeCatalog /\ NeverLost /\ DeletionIsAuthorised
<1>0. \A c \in Chunks : dev[c] \in External /\ dev[c].art # "cached"
    BY DEF TypeOK, ArchiveInv, FilesInOrder
<1>1. CASE Abort
    <2>1. UNCHANGED <<src, cat, stable>> /\ mgr' = NoAttempt
        BY <1>1 DEF Abort, catalog
    <2>2. CASE UNCHANGED dev
        <3>1. Parts'
            BY <2>1, <2>2, FilesAreGood, FilesOnly
        <3> QED
            BY <2>1, <3>1 DEF ArchiveInv, AttemptAgrees, AttemptDurable, NoAttempt
    <2>3. CASE At("copying") /\ SetFiles(mgr.chunk, [dev[mgr.chunk] EXCEPT !.tmp = "cached"])
        <3> DEFINE c == mgr.chunk
                   d == [dev[c] EXCEPT !.tmp = "cached"]
        <3>1. cat.arch[c] = "COPYING" /\ c \in Chunks
            BY <2>3, AttemptSteps DEF At, ArchiveInv, AttemptAgrees
        <3>2. d \in External /\ d.tmp = "cached" /\ d.art = dev[c].art /\ d.man = dev[c].man
            BY <1>0, <3>1, SetTmp DEF Tmp
        <3>3. SetFiles(c, d)
            BY <2>3
        <3> HIDE DEF d
        <3>4. \A k \in stable : k.arch[c] \in {"NONE", "COPYING"}
            BY <3>1, BeforeVerifying
        <3>5. GoodFiles(c, dev[c])
            BY <3>1, FilesAreGood
        <3>6. GoodFiles(c, d)
            BY <3>1, <3>2, <3>4, <3>5 DEF GoodFiles, Safe
        <3>7. Parts'
            BY <2>1, <3>1, <3>2, <3>3, <3>6, OneChunk
        <3> QED
            BY <2>1, <3>7 DEF ArchiveInv, AttemptAgrees, AttemptDurable, NoAttempt
    <2> QED
        BY <1>1, <2>2, <2>3 DEF Abort
<1>2. CASE Mount
    <2>1. UNCHANGED <<src, mgr, dev, cat, stable>>
        BY <1>2 DEF Mount, catalog
    <2> QED
        BY <2>1, SyncedKeeps
<1>3. CASE Remove
    <2>1. UNCHANGED <<src, cat, stable>>
        BY <1>3 DEF Remove, catalog
    <2>2. ASSUME NEW c \in Chunks PROVE dev'[c] = dev[c] \/ dev'[c] \in Survivors(dev[c])
        BY <1>3, LostFiles DEF Remove
    <2>3. ASSUME NEW c \in Chunks PROVE GoodFiles(c, dev'[c])
        BY <1>0, <2>2, FilesAreGood, SurvivorIsKept, KeptIsGood
    <2>4. Parts'
        BY <2>1, <2>3, FilesOnly
    <2>5. CASE mgr' = NoAttempt
        BY <2>4, <2>5 DEF ArchiveInv, AttemptAgrees, AttemptDurable, NoAttempt
    <2>6. CASE mgr' = mgr /\ mgr.step \notin OnVolume /\ mgr.step # "idle"
        <3>1. AttemptAgrees'
            BY <2>1, <2>6 DEF ArchiveInv, AttemptAgrees
        <3>2. mgr.chunk \in Chunks
            BY <2>6, AttemptSteps
        <3>3. CASE dev'[mgr.chunk] = dev[mgr.chunk]
            BY <2>1, <2>4, <2>6, <3>1, <3>3 DEF ArchiveInv, AttemptDurable
        <3>4. CASE dev'[mgr.chunk] \in Survivors(dev[mgr.chunk])
            <4>1. /\ Kept(dev[mgr.chunk], dev'[mgr.chunk]) /\ dev'[mgr.chunk].tmp # "cached"
                  /\ dev[mgr.chunk].art \in {"good", "bad"} \/ dev[mgr.chunk].tmp = "synced" =>
                        dev'[mgr.chunk].art \in {"good", "bad"} \/ dev'[mgr.chunk].tmp = "synced"
                BY <1>0, <3>2, <3>4, SurvivorIsKept
            <4>2. AttemptDurable'
                BY <2>1, <2>6, <4>1 DEF ArchiveInv, AttemptDurable, Kept, Safe, OnVolume
            <4> QED
                BY <2>4, <3>1, <4>2 DEF ArchiveInv
        <3> QED
            BY <2>2, <3>2, <3>3, <3>4
    <2>7. mgr' = NoAttempt \/ (mgr' = mgr /\ mgr.step \notin OnVolume)
        BY <1>3 DEF Remove
    <2>8. mgr.step = "idle" => mgr = NoAttempt
        BY DEF TypeOK, Attempt, Steps
    <2> QED
        BY <2>5, <2>6, <2>7, <2>8
<1>4. CASE PowerLoss
    <2>1. cat' \in stable /\ stable' = {cat'} /\ mgr' = NoAttempt
        BY <1>4 DEF PowerLoss
    <2>2. ASSUME NEW c \in Chunks
          PROVE  Kept(dev[c], dev'[c]) /\ dev'[c].tmp # "cached"
        BY <1>0, <1>4, LostFiles, SurvivorIsKept DEF PowerLoss
    <2>3. \A c \in Chunks : src[c] = "here" => src'[c] = "here"
        BY <1>4 DEF PowerLoss
    <2>4. ASSUME NEW c \in Chunks PROVE GoodFiles(c, dev'[c])
        BY <2>2, FilesAreGood, KeptIsGood
    <2>5. FilesInOrder'
        BY <2>2, <2>4 DEF FilesInOrder, GoodFiles
    <2>6. NeverLost'
        BY <2>3, <2>4 DEF NeverLost, GoodFiles
    <2>7. FilesBeforeCatalog'
        BY <2>1, <2>4 DEF FilesBeforeCatalog, GoodFiles
    <2>8. DeletionIsAuthorised'
        BY <2>1, <2>3 DEF DeletionIsAuthorised, ArchiveInv
    <2>9. AttemptAgrees' /\ AttemptDurable'
        BY <2>1 DEF AttemptAgrees, AttemptDurable, NoAttempt
    <2> QED
        BY <2>5, <2>6, <2>7, <2>8, <2>9 DEF ArchiveInv
<1>5. ASSUME NEW c \in Chunks, NEW f \in Damageable, Damage(c, f) PROVE ArchiveInv'
    <2>1. UNCHANGED <<src, cat, stable, mgr>> /\ src[c] = "here"
        BY <1>5 DEF Damage, catalog
    <2>2. f # "tmp"
        BY <1>5
    <2>3. PICK d \in External :
            /\ SetFiles(c, d) /\ d.tmp = dev[c].tmp
            /\ \/ dev[c].art = "good" /\ d.art = "bad" /\ d.man = dev[c].man
               \/ dev[c].man = "good" /\ d.man = "bad" /\ d.art = dev[c].art
        <3>1. /\ [dev[c] EXCEPT !.art = "bad"] \in External
              /\ [dev[c] EXCEPT !.man = "bad"] \in External
              /\ [dev[c] EXCEPT !.art = "bad"].art = "bad"
              /\ [dev[c] EXCEPT !.art = "bad"].man = dev[c].man
              /\ [dev[c] EXCEPT !.art = "bad"].tmp = dev[c].tmp
              /\ [dev[c] EXCEPT !.man = "bad"].man = "bad"
              /\ [dev[c] EXCEPT !.man = "bad"].art = dev[c].art
              /\ [dev[c] EXCEPT !.man = "bad"].tmp = dev[c].tmp
            BY <1>0 DEF External
        <3> QED
            BY <1>5, <2>2, <3>1 DEF Damage
    <2>4. GoodFiles(c, d)
        BY <1>0, <2>1, <2>3, FilesAreGood DEF GoodFiles
    <2>5. Parts'
        BY <2>1, <2>3, <2>4, OneChunk
    <2>6. dev'[c] = d /\ \A e \in Chunks : e # c => dev'[e] = dev[e]
        BY <2>3, SetFilesType
    <2>7. AttemptAgrees'
        BY <2>1 DEF ArchiveInv, AttemptAgrees
    <2>8. AttemptDurable'
        <3>1. CASE mgr.chunk = c
            <4>1. mgr.step \notin {"unlink", "sync"}
                BY <1>5, <2>1, <3>1 DEF Damage, ArchiveInv, AttemptDurable
            <4> QED
                BY <2>1, <2>3, <2>6, <3>1, <4>1 DEF ArchiveInv, AttemptDurable
        <3>2. CASE mgr.chunk # c /\ mgr.step # "idle"
            <4>1. dev'[mgr.chunk] = dev[mgr.chunk]
                BY <2>6, <3>2, AttemptSteps
            <4> QED
                BY <2>1, <4>1 DEF ArchiveInv, AttemptDurable
        <3>3. CASE mgr.step = "idle"
            BY <2>1, <3>3 DEF AttemptDurable
        <3> QED
            BY <3>1, <3>2, <3>3
    <2> QED
        BY <2>5, <2>7, <2>8 DEF ArchiveInv
<1> QED
    BY <1>1, <1>2, <1>3, <1>4, <1>5 DEF Environment

LEMMA NextKeeps ==
    ASSUME TypeOK, ArchiveInv, [Next]_vars, "tmp" \notin Damageable
    PROVE  ArchiveInv'
<1>1. CASE Manager
    BY <1>1, CopyingKeeps, VerifyKeeps, VolumeKeeps, CommitKeeps, ReleaseKeeps DEF Manager
<1>2. CASE UNCHANGED vars
    <2>1. UNCHANGED <<src, mgr, dev, cat, stable>>
        BY <1>2 DEF vars
    <2> QED
        BY <2>1, SyncedKeeps
<1> QED
    BY <1>1, <1>2, EjectingKeeps, EnvironmentKeeps DEF Next

LEMMA InitKeeps == Init => ArchiveInv
<1> SUFFICES ASSUME Init PROVE ArchiveInv
    OBVIOUS
<1>1. /\ mgr.step = "idle" /\ stable = {cat}
      /\ \A c \in Chunks : src[c] = "here" /\ dev[c] = NoFiles /\ cat.arch[c] = "NONE"
    BY DEF Init, NoAttempt
<1>2. AttemptAgrees /\ AttemptDurable
    BY <1>1 DEF AttemptAgrees, AttemptDurable
<1>3. FilesInOrder /\ NeverLost
    BY <1>1 DEF FilesInOrder, NeverLost, NoFiles
<1>4. FilesBeforeCatalog /\ DeletionIsAuthorised
    BY <1>1 DEF FilesBeforeCatalog, DeletionIsAuthorised
<1> QED
    BY <1>2, <1>3, <1>4 DEF ArchiveInv

LEMMA Keeps == ASSUME "tmp" \notin Damageable PROVE Spec => []ArchiveInv
    BY InitKeeps, NextKeeps, ArchiveTypeCorrect, PTL DEF Spec

\* Archiving loses no chunk: for every number of chunks, faults, ejects and probes,
\* every kill, removal, power loss and damage to an archived file leaves the source
\* or a durable external copy with its manifest.  The hypothesis is needed: a
\* temporary copy damaged between fsync and read-back leads to VerifiedIsDurable's
\* counterexample.
THEOREM NoChunkIsLost == ASSUME "tmp" \notin Damageable PROVE Spec => []NeverLost
<1>1. ArchiveInv => NeverLost
    BY DEF ArchiveInv
<1> QED
    BY <1>1, Keeps, PTL

\* No power loss brings back a Catalog that does not know that a source was
\* deleted, on the same volumes.
THEOREM DeletionsAreAuthorised ==
    ASSUME "tmp" \notin Damageable PROVE Spec => []DeletionIsAuthorised
<1>1. ArchiveInv => DeletionIsAuthorised
    BY DEF ArchiveInv
<1> QED
    BY <1>1, Keeps, PTL

-----------------------------------------------------------------------------
(* Archive implements Custody. *)

\* A source is deleted through its unlink, and a deleted one stays deleted.
LEMMA SourceSteps ==
    ASSUME TypeOK, ArchiveInv, [Next]_vars, NEW c \in Chunks
    PROVE  /\ src[c] = "here" => src'[c] \in {"here", "unlinked"}
           /\ src[c] = "gone" => src'[c] = "gone"
<1>1. CASE UNCHANGED src
    BY <1>1
<1>2. CASE UnlinkSource \/ SyncSource
    <2>1. mgr.chunk \in Chunks
        BY <1>2, AttemptSteps DEF UnlinkSource, SyncSource, At
    <2>2. /\ UnlinkSource => src[mgr.chunk] = "here"
          /\ SyncSource => src[mgr.chunk] = "unlinked"
        BY DEF UnlinkSource, SyncSource, At, ArchiveInv, AttemptDurable
    <2>3. \A e \in Chunks : e # mgr.chunk => src'[e] = src[e]
        BY <1>2, <2>1 DEF UnlinkSource, SyncSource, TypeOK
    <2>4. UnlinkSource => src'[mgr.chunk] = "unlinked"
        BY <2>1 DEF UnlinkSource, TypeOK
    <2> QED
        BY <1>2, <2>2, <2>3, <2>4
<1>3. CASE PowerLoss
    BY <1>3 DEF PowerLoss
<1>4. CASE Manager /\ ~(UnlinkSource \/ SyncSource)
    <2>1. UNCHANGED src
        BY <1>4 DEF Manager, Reserve, Resume, Copy, CopyEnd, CommitVerifying, Verify, Check,
                    Rename, SyncRename, WriteManifest, SyncManifest, CommitVerified,
                    RecordArchivedMetric, CommitDeletePending, ValidateExternalCommit,
                    RecordDeletedMetric, CommitDeleted
    <2> QED
        BY <1>1, <2>1
<1>5. CASE Ejecting \/ Probing \/ (Environment /\ ~PowerLoss)
    <2>1. UNCHANGED src
        BY <1>5 DEF Ejecting, BeginEject, PrepareEject, EjectSucceeds, EjectRefused,
                    EjectUncertain, Probing, ReadControl, ActivateTarget, ProbeFails,
                    Environment, Abort, Remove, Mount, Damage
    <2> QED
        BY <1>1, <2>1
<1>6. CASE UNCHANGED vars
    BY <1>1, <1>6 DEF vars
<1> QED
    BY <1>2, <1>3, <1>4, <1>5, <1>6 DEF Next, Environment

\* One step of the manager, an eject, a probe or a fault is a step of Custody.
LEMMA CustodyStep ==
    ASSUME TypeOK, ArchiveInv, NeverLost', TypeOK', [Next]_vars
    PROVE  Abstract!Next
<1>1. ASSUME NEW c \in Chunks
      PROVE  /\ Holder(c) \in Abstract!Holders
             /\ Holder(c)' \in Abstract!Holders
             /\ Holder(c)' \in Abstract!MayBecome[Holder(c)]
    <2>1. /\ src[c] \in SourceFile /\ src'[c] \in SourceFile
          /\ src[c] = "here" \/ Safe(dev[c])
          /\ src'[c] = "here" \/ Safe(dev'[c])
        BY DEF TypeOK, ArchiveInv, NeverLost
    <2>2. /\ src[c] = "here" => src'[c] \in {"here", "unlinked"}
          /\ src[c] = "gone" => src'[c] = "gone"
        BY SourceSteps
    <2>3. Holder(c) = IF ~Safe(dev[c]) THEN "local" ELSE IF src[c] = "gone" THEN "external" ELSE "both"
        BY <2>1 DEF Holder
    <2>4. Holder(c)' = IF ~Safe(dev'[c]) THEN "local" ELSE IF src'[c] = "gone" THEN "external" ELSE "both"
        BY <2>1 DEF Holder
    <2>5. /\ Holder(c) = "local" => Holder(c)' # "external"
          /\ Holder(c) = "external" => Holder(c)' = "external"
        BY <2>1, <2>2, <2>3, <2>4
    <2> QED
        BY <2>3, <2>4, <2>5 DEF Abstract!Holders, Abstract!MayBecome
<1> QED
    BY <1>1 DEF Abstract!Next

\* Archiving implements Custody: a chunk is held locally, then by both, then
\* externally, is released only while both copies exist and is never handed back,
\* on a volume whose temporary files are not damaged.
THEOREM ArchiveImplementsCustody ==
    ASSUME "tmp" \notin Damageable PROVE Spec => KeepsCustody
<1>1. Init => Abstract!Init
    BY DEF Init, Abstract!Init, Holder, Safe, NoFiles
<1>2. ASSUME TypeOK, ArchiveInv, NeverLost', TypeOK', [Next]_vars
      PROVE  [Abstract!Next]_([c \in Chunks |-> Holder(c)])
    BY <1>2, CustodyStep
<1> QED
    BY <1>1, <1>2, Keeps, NoChunkIsLost, ArchiveTypeCorrect, PTL
    DEF Spec, KeepsCustody, Abstract!Spec

(***************************************************************************)
(* Drain: any number of drains, which exclude each other, and one retry,   *)
(* which takes no lock.  At most two of them are at work, so that once the *)
(* artifact was in place only one can still be copying, and whoever is     *)
(* about to rename finds a whole file or none.                             *)
(***************************************************************************)
\* What an actor is doing: copying and checking, or past the point where the artifact
\* was in place.
AtRest == {"off", "target", "next"}
EarlyPcs == {"copy", "create", "open", "write", "verifying", "verify", "check", "rename"}
LatePcs == {"manifest", "verified", "pending", "validate", "unlink", "deleted", "done"}
Process == [pc : AtRest \cup {"reserve", "advance"} \cup EarlyPcs \cup LatePcs,
            chunk : 0..DrainChunks, fd : Inodes \cup {0}, then : {"off", "verifying", "check"},
            files : Nat, stop : BOOLEAN]
Place == [temp : Inodes \cup {0}, art : Inodes \cup {0}, man : BOOLEAN]
RowNames == {"OPEN", "SEALED", "COPYING", "VERIFYING", "VERIFIED", "LOCAL_DELETE_PENDING",
             "LOCAL_DELETED"}

DrainTypeOK ==
    /\ row \in [DrainedChunks -> RowNames] /\ source \in SUBSET DrainedChunks
    /\ disk \in [DrainedChunks -> Place] /\ inode \in [Inodes -> 0..Whole]
    /\ actor \in [Actors -> Process]

Early(a, c) == actor[a].pc \in EarlyPcs /\ actor[a].chunk = c
Later(a, c) == actor[a].pc \in LatePcs /\ actor[a].chunk = c

\* The artifact was in place, and somebody counts on it.
Late(c) == Rank(row[c]) >= 5 \/ \E a \in Actors : Later(a, c)

\* Where an actor stands: its descriptor, its row, its files, and the lock of a drain.
ActorOK(a) ==
    /\ actor[a].pc \notin AtRest => actor[a].chunk \in DrainedChunks
    /\ actor[a].pc \in {"copy", "create", "open", "write"} =>
          actor[a].then \in {"verifying", "check"}
    /\ actor[a].fd # 0 <=> actor[a].pc \in {"open", "write"}
    /\ actor[a].fd # 0 => inode[actor[a].fd] < Whole
    /\ actor[a].pc = "advance" => Rank(row[actor[a].chunk]) >= 3
    /\ actor[a].pc \in {"manifest", "verified"} => disk[actor[a].chunk].art # 0
    /\ actor[a].pc \in {"pending", "done"} => Rank(row[actor[a].chunk]) >= 5
    /\ actor[a].pc \in {"validate", "unlink", "deleted"} => Rank(row[actor[a].chunk]) >= 6
    /\ actor[a].pc = "unlink" => ExternalCommit(disk[actor[a].chunk])
    /\ actor[a].pc = "deleted" => actor[a].chunk \notin source
    /\ actor[a].pc # "off" /\ a \in Drains => drainLock = a

\* A descriptor is of one actor.
FdsOK == \A a, b \in Actors : a # b /\ actor[a].fd # 0 => actor[a].fd # actor[b].fd

ChunkOK(c) ==
    /\ Rank(row[c]) >= 5 => disk[c].art # 0
    /\ row[c] = "LOCAL_DELETED" => c \notin source
    /\ c \notin source => Rank(row[c]) >= 6 /\ ExternalCommit(disk[c])

\* When somebody counts on the artifact, at most one actor is still copying; and one that
\* is about to rename finds a whole file or none.
OneEarly ==
    \A c \in DrainedChunks : \A a, b \in Actors :
        Late(c) /\ Early(a, c) /\ Early(b, c) => a = b

RenameOK ==
    \A a \in Actors :
        actor[a].pc = "rename" /\ Late(actor[a].chunk) =>
            disk[actor[a].chunk].temp = 0 \/ WholeFile(disk[actor[a].chunk].temp)

DrainInv ==
    /\ DrainTypeOK /\ FdsOK /\ OneEarly /\ RenameOK
    /\ \A a \in Actors : ActorOK(a)
    /\ \A c \in DrainedChunks : ChunkOK(c)

-----------------------------------------------------------------------------
(* Facts about one state. *)

LEMMA RankIs ==
    /\ Rank("OPEN") = 1 /\ Rank("SEALED") = 2 /\ Rank("COPYING") = 3 /\ Rank("VERIFYING") = 4
    /\ Rank("VERIFIED") = 5 /\ Rank("LOCAL_DELETE_PENDING") = 6 /\ Rank("LOCAL_DELETED") = 7
<1>1. /\ DOMAIN RowStates = 1..7
      /\ RowStates[1] = "OPEN" /\ RowStates[2] = "SEALED" /\ RowStates[3] = "COPYING"
      /\ RowStates[4] = "VERIFYING" /\ RowStates[5] = "VERIFIED"
      /\ RowStates[6] = "LOCAL_DELETE_PENDING" /\ RowStates[7] = "LOCAL_DELETED"
    BY DEF RowStates
<1> HIDE DEF RowStates
<1>2. \A n \in 1..7 : n \in {1, 2, 3, 4, 5, 6, 7}
    OBVIOUS
<1> QED
    BY <1>1, <1>2 DEF Rank

LEMMA RankOf == ASSUME NEW r \in RowNames PROVE Rank(r) \in 1..7 /\ (Rank(r) = 7 <=> r = "LOCAL_DELETED")
BY RankIs DEF RowNames

\* With one retry and the lock of the drains, two actors at most are at work.
LEMMA TwoAtWork ==
    ASSUME DrainInv, \A r, s \in Retries : r = s,
           NEW a \in Actors, NEW b \in Actors, NEW c \in Actors,
           actor[a].pc # "off", actor[b].pc # "off", actor[c].pc # "off"
    PROVE  a = b \/ b = c \/ a = c
BY DEF DrainInv, ActorOK, Actors

LEMMA LeastChunk ==
    ASSUME NEW S \in SUBSET DrainedChunks, S # {} PROVE Min(S) \in S
<1>1. S \in SUBSET Nat
    BY DrainAssumption DEF DrainedChunks
<1>2. PICK n \in S : \A m \in S : ~(<<m, n>> \in OpToRel(<, Nat))
    BY <1>1, NatLessThanWellFounded, WFMin
<1>3. \A m \in S : n <= m
    <2> SUFFICES ASSUME NEW m \in S PROVE n <= m
        OBVIOUS
    <2>1. <<m, n>> \in Nat \X Nat /\ ~(<<m, n>>[1] < <<m, n>>[2])
        BY <1>1, <1>2 DEF OpToRel
    <2> QED
        BY <2>1
<1> QED
    BY <1>3 DEF Min

\* The values of a function on a finite set.
LEMMA ImageIsFinite ==
    ASSUME NEW S, IsFiniteSet(S), NEW f, DOMAIN f = S, f = [x \in S |-> f[x]]
    PROVE  /\ IsFiniteSet({f[x] : x \in S}) /\ Cardinality({f[x] : x \in S}) \in Nat
           /\ Cardinality({f[x] : x \in S}) <= Cardinality(S)
<1> DEFINE T == {f[x] : x \in S}
<1>1. f \in Surjection(S, T)
    BY DEF Surjection
<1>2. IsFiniteSet(T) /\ Cardinality(T) <= Cardinality(S)
    BY <1>1, FS_Surjection
<1> QED
    BY <1>2, FS_CardinalityType

LEMMA UnionIsFinite ==
    ASSUME NEW S, IsFiniteSet(S), NEW T, IsFiniteSet(T)
    PROVE  /\ IsFiniteSet(S \cup T) /\ Cardinality(S \cup T) \in Nat
           /\ Cardinality(S \cup T) <= Cardinality(S) + Cardinality(T)
<1>1. IsFiniteSet(S \cup T) /\ IsFiniteSet(S \cap T)
    BY FS_Union, FS_Subset
<1>2. /\ Cardinality(S \cup T) = Cardinality(S) + Cardinality(T) - Cardinality(S \cap T)
    BY FS_Union
<1>3. /\ Cardinality(S) \in Nat /\ Cardinality(T) \in Nat /\ Cardinality(S \cap T) \in Nat
      /\ Cardinality(S \cup T) \in Nat
    BY <1>1, FS_CardinalityType
<1> QED
    BY <1>1, <1>2, <1>3

LEMMA ActorsAreFinite == IsFiniteSet(Actors) /\ Cardinality(Actors) \in Nat
BY DrainAssumption, FS_Union, FS_CardinalityType DEF Actors

\* Whoever makes a file finds an inode that nobody uses.
LEMMA InodeIsFree ==
    ASSUME DrainTypeOK, NEW a \in Actors, actor[a].fd = 0
    PROVE  Min(Inodes \ Used) \in Inodes \ Used
<1> DEFINE n == DrainChunks
           m == Cardinality(Actors)
           A == {disk[c].temp : c \in DrainedChunks}
           B == {disk[c].art : c \in DrainedChunks}
           C == {actor[b].fd : b \in Actors}
<1>1. n \in Nat /\ m \in Nat /\ IsFiniteSet(DrainedChunks) /\ Cardinality(DrainedChunks) = n
    BY DrainAssumption, ActorsAreFinite, FS_Interval DEF DrainedChunks
<1>2. IsFiniteSet(A) /\ Cardinality(A) \in Nat /\ Cardinality(A) <= n
    <2> DEFINE f == [c \in DrainedChunks |-> disk[c].temp]
    <2>1. DOMAIN f = DrainedChunks /\ f = [c \in DrainedChunks |-> f[c]]
          /\ A = {f[c] : c \in DrainedChunks}
        OBVIOUS
    <2> HIDE DEF f
    <2> QED
        BY <1>1, <2>1, ImageIsFinite
<1>3. IsFiniteSet(B) /\ Cardinality(B) \in Nat /\ Cardinality(B) <= n
    <2> DEFINE f == [c \in DrainedChunks |-> disk[c].art]
    <2>1. DOMAIN f = DrainedChunks /\ f = [c \in DrainedChunks |-> f[c]]
          /\ B = {f[c] : c \in DrainedChunks}
        OBVIOUS
    <2> HIDE DEF f
    <2> QED
        BY <1>1, <2>1, ImageIsFinite
<1>4. IsFiniteSet(C) /\ Cardinality(C) \in Nat /\ Cardinality(C) <= m
    <2> DEFINE f == [b \in Actors |-> actor[b].fd]
    <2>1. DOMAIN f = Actors /\ f = [b \in Actors |-> f[b]] /\ C = {f[b] : b \in Actors}
        OBVIOUS
    <2> HIDE DEF f
    <2>2. /\ IsFiniteSet({f[b] : b \in Actors}) /\ Cardinality({f[b] : b \in Actors}) \in Nat
          /\ Cardinality({f[b] : b \in Actors}) <= Cardinality(Actors)
        BY ONLY <2>1, ActorsAreFinite, ImageIsFinite
    <2> QED
        BY <2>1, <2>2
<1>5. Used = (A \cup B) \cup C /\ 0 \in Used
    BY DEF Used
<1> HIDE DEF A, B, C
<1>6. /\ IsFiniteSet(A \cup B) /\ Cardinality(A \cup B) \in Nat
      /\ Cardinality(A \cup B) <= n + n
    BY <1>1, <1>2, <1>3, UnionIsFinite
<1>7. IsFiniteSet(Used) /\ Cardinality(Used) \in Nat /\ Cardinality(Used) <= 2 * n + m
    BY <1>1, <1>4, <1>5, <1>6, UnionIsFinite
<1>8. IsFiniteSet(Used \ {0}) /\ Cardinality(Used \ {0}) = Cardinality(Used) - 1
    BY <1>5, <1>7, FS_RemoveElement
<1>9. Inodes = 1..(2 * n + m) /\ Inodes \in SUBSET Nat /\ 0 \notin Inodes
    BY <1>1 DEF Inodes
<1>10. Cardinality(Inodes) = 2 * n + m
    BY <1>1, <1>9, FS_Interval, DrainAssumption
<1>11. Inodes \ Used # {}
    <2> SUFFICES ASSUME Inodes \ Used = {} PROVE FALSE
        OBVIOUS
    <2>1. Inodes \in SUBSET (Used \ {0})
        BY <1>9
    <2>2. Cardinality(Inodes) <= Cardinality(Used \ {0})
        BY <1>8, <2>1, FS_Subset
    <2> QED
        BY <1>1, <1>7, <1>8, <1>10, <2>2
<1>12. PICK k \in Inodes \ Used : \A i \in Inodes \ Used : ~(<<i, k>> \in OpToRel(<, Nat))
    <2>1. (Inodes \ Used) \in SUBSET Nat
        BY <1>9
    <2> QED
        BY <1>11, <2>1, NatLessThanWellFounded, WFMin
<1>13. \A i \in Inodes \ Used : k <= i
    <2> SUFFICES ASSUME NEW i \in Inodes \ Used PROVE k <= i
        OBVIOUS
    <2>1. <<i, k>> \in Nat \X Nat /\ ~(<<i, k>>[1] < <<i, k>>[2])
        BY <1>9, <1>12 DEF OpToRel
    <2> QED
        BY <2>1
<1> QED
    BY <1>13 DEF Min

LEMMA LateHasArtifact ==
    ASSUME DrainInv, NEW c \in DrainedChunks, Late(c) PROVE disk[c].art # 0
<1>1. CASE Rank(row[c]) >= 5
    BY <1>1 DEF DrainInv, ChunkOK
<1>2. ASSUME NEW a \in Actors, Later(a, c) PROVE disk[c].art # 0
    <2>1. ActorOK(a) /\ ChunkOK(c) /\ Rank(row[c]) \in 1..7
        BY RankOf DEF DrainInv, DrainTypeOK
    <2>2. actor[a].pc \in {"manifest", "verified"} \/ Rank(row[c]) >= 5
        BY <1>2, <2>1 DEF ActorOK, Later, LatePcs
    <2> QED
        BY <1>2, <2>1, <2>2 DEF ActorOK, ChunkOK, Later
<1> QED
    BY <1>1, <1>2 DEF Late

-----------------------------------------------------------------------------
(* What a step of one actor has to respect. *)

\* Rows go forward, artifacts stay, what is validated stays whole, and a temporary file
\* appears only where the actor makes one.
WorldGrows(a) ==
    /\ \A c \in DrainedChunks :
          /\ Rank(row'[c]) >= Rank(row[c]) /\ (Rank(row'[c]) >= 5 => Late(c))
          /\ disk[c].art # 0 => disk'[c].art # 0
          /\ c \notin source => c \notin source'
          /\ c \notin source' => c \notin source \/ (actor[a].pc = "unlink" /\ actor[a].chunk = c)
          /\ row'[c] = "LOCAL_DELETED" => row[c] = "LOCAL_DELETED" \/ c \notin source
          /\ c \notin source \/ (\E b \in Actors : actor[b].pc = "unlink" /\ actor[b].chunk = c)
               => ExternalCommit(disk[c])'
          /\ disk'[c].temp \in {0, disk[c].temp} \/ (actor[a].pc = "create" /\ actor[a].chunk = c)
    /\ \A i \in Inodes : i \in Used /\ inode[i] = Whole => inode'[i] = Whole

\* The other actors, their lock and their descriptors.
OthersStay(a) ==
    \A b \in Actors : b # a =>
        /\ actor'[b] = actor[b]
        /\ b \in Drains /\ actor[b].pc # "off" => drainLock' = b
        /\ actor[b].fd # 0 => /\ inode'[actor[b].fd] = inode[actor[b].fd]
                              /\ actor'[a].fd # actor[b].fd

\* The actor begins to copy only for a row that is not verified, counts on an artifact
\* only when no temporary file is left, and is about to rename only a whole file.
EntersWell(a) ==
    /\ actor'[a].pc \in EarlyPcs =>
          /\ actor[a].pc # "off"
          /\ Early(a, actor'[a].chunk) \/ Rank(row'[actor'[a].chunk]) < 5
    /\ actor'[a].pc \in LatePcs =>
          /\ actor[a].pc # "off"
          /\ \/ Later(a, actor'[a].chunk) \/ Rank(row[actor'[a].chunk]) >= 5
             \/ disk'[actor'[a].chunk].temp = 0
    /\ actor'[a].pc = "rename" =>
          \/ WholeFile(disk[actor[a].chunk].temp)'
          \/ actor[a].pc = "rename" /\ actor'[a].chunk = actor[a].chunk

LEMMA StepKeeps ==
    ASSUME DrainInv, \A r, s \in Retries : r = s, NEW a \in Actors,
           DrainTypeOK', OthersStay(a), WorldGrows(a), ActorOK(a)', EntersWell(a)
    PROVE  DrainInv'
<1>1. /\ DrainTypeOK /\ FdsOK /\ OneEarly /\ RenameOK
      /\ \A b \in Actors : ActorOK(b) /\ actor[b] \in Process /\ actor'[b] \in Process
      /\ \A c \in DrainedChunks : /\ ChunkOK(c) /\ Rank(row[c]) \in 1..7
                                  /\ Rank(row'[c]) \in 1..7
      /\ \A b \in Actors : b # a => actor'[b] = actor[b]
    BY RankOf DEF DrainInv, DrainTypeOK, OthersStay
<1>2. FdsOK'
    BY <1>1 DEF OthersStay, FdsOK
<1>3. ASSUME NEW b \in Actors PROVE ActorOK(b)'
    <2>1. CASE b = a
        BY <2>1
    <2>2. CASE b # a
        <3> DEFINE c == actor[b].chunk
        <3>1. actor'[b] = actor[b] /\ ActorOK(b)
            BY <1>1, <2>2
        <3>2. actor[b].fd # 0 => inode'[actor[b].fd] < Whole
            BY <2>2, <3>1 DEF ActorOK, OthersStay
        <3>3. actor[b].pc # "off" /\ b \in Drains => drainLock' = b
            BY <2>2 DEF OthersStay
        <3>4. c \in DrainedChunks =>
                /\ Rank(row'[c]) >= Rank(row[c]) /\ Rank(row[c]) \in 1..7 /\ Rank(row'[c]) \in 1..7
                /\ disk[c].art # 0 => disk'[c].art # 0
                /\ c \notin source => c \notin source'
                /\ actor[b].pc = "unlink" => ExternalCommit(disk[c])'
            <4> SUFFICES ASSUME c \in DrainedChunks
                         PROVE  /\ Rank(row'[c]) >= Rank(row[c]) /\ Rank(row[c]) \in 1..7
                                /\ Rank(row'[c]) \in 1..7
                                /\ disk[c].art # 0 => disk'[c].art # 0
                                /\ c \notin source => c \notin source'
                                /\ actor[b].pc = "unlink" => ExternalCommit(disk[c])'
                OBVIOUS
            <4>1. actor[b].pc = "unlink" =>
                    \E x \in Actors : actor[x].pc = "unlink" /\ actor[x].chunk = c
                OBVIOUS
            <4>2. actor[b].pc = "unlink" => ExternalCommit(disk[c])'
                BY <3>1, <4>1 DEF WorldGrows
            <4>3. /\ Rank(row[c]) \in 1..7 /\ Rank(row'[c]) \in 1..7
                BY <1>1
            <4>4. /\ Rank(row'[c]) >= Rank(row[c]) /\ (disk[c].art # 0 => disk'[c].art # 0)
                  /\ c \notin source => c \notin source'
                BY DEF WorldGrows
            <4> QED
                BY <4>2, <4>3, <4>4
        <3>5. CASE actor[b].pc \in AtRest
            BY <3>1, <3>2, <3>3, <3>5 DEF ActorOK, AtRest
        <3>6. CASE actor[b].pc \notin AtRest
            <4>1. c \in DrainedChunks
                BY <3>1, <3>6 DEF ActorOK
            <4>2. /\ actor[b].pc = "advance" => Rank(row'[c]) >= 3
                  /\ actor[b].pc \in {"pending", "done"} => Rank(row'[c]) >= 5
                  /\ actor[b].pc \in {"validate", "unlink", "deleted"} => Rank(row'[c]) >= 6
                BY <3>1, <3>4, <4>1 DEF ActorOK
            <4> QED
                BY <3>1, <3>2, <3>3, <3>4, <4>1, <4>2 DEF ActorOK
        <3> QED
            BY <3>5, <3>6
    <2> QED
        BY <2>1, <2>2
<1>4. ASSUME NEW c \in DrainedChunks PROVE ChunkOK(c)'
    <2>1. Rank(row'[c]) >= 5 => disk'[c].art # 0
        BY LateHasArtifact DEF WorldGrows
    <2>2. row'[c] = "LOCAL_DELETED" => c \notin source'
        BY <1>1 DEF WorldGrows, ChunkOK
    <2>3. ASSUME c \notin source' PROVE Rank(row'[c]) >= 6 /\ ExternalCommit(disk[c])'
        <3>1. Rank(row[c]) >= 6
            BY <1>1, <2>3 DEF WorldGrows, ChunkOK, ActorOK
        <3>2. Rank(row'[c]) >= 6
            BY <1>1, <3>1 DEF WorldGrows
        <3>3. ExternalCommit(disk[c])'
            BY <2>3 DEF WorldGrows
        <3> QED
            BY <3>2, <3>3
    <2> QED
        BY <2>1, <2>2, <2>3 DEF ChunkOK
<1>5. ASSUME NEW c \in DrainedChunks, Late(c)' PROVE Late(c) \/ (Later(a, c)' /\ ~Later(a, c))
    <2>1. CASE Rank(row'[c]) >= 5
        BY <2>1 DEF WorldGrows
    <2>2. ASSUME NEW b \in Actors, Later(b, c)' PROVE Late(c) \/ (Later(a, c)' /\ ~Later(a, c))
        BY <1>1, <2>2 DEF Late, Later
    <2> QED
        BY <1>5, <2>1, <2>2 DEF Late
<1>6. \A pc \in LatePcs : pc \notin EarlyPcs /\ pc # "off"
    BY DEF LatePcs, EarlyPcs
<1>7. ASSUME NEW c \in DrainedChunks, NEW b \in Actors, b # a,
             Late(c)', Early(a, c)', Early(b, c)'
      PROVE  FALSE
    <2>1. Early(b, c) /\ actor[a].pc # "off" /\ actor[b].pc # "off" /\ ~Later(a, c)'
        BY <1>1, <1>6, <1>7 DEF Early, Later, EntersWell, EarlyPcs
    <2>2. Late(c)
        BY <1>5, <1>7, <2>1
    <2>3. ~Early(a, c)
        BY <1>1, <1>7, <2>1, <2>2 DEF OneEarly
    <2>4. Rank(row'[c]) < 5
        BY <1>7, <2>3 DEF EntersWell, Early
    <2>5. PICK z \in Actors : Later(z, c)'
        BY <1>1, <1>7, <2>4 DEF Late
    <2>6. z # a /\ z # b /\ actor[z].pc # "off"
        BY <1>1, <1>6, <1>7, <2>1, <2>5 DEF Later, Early
    <2> QED
        BY <1>7, <2>1, <2>6, TwoAtWork
<1>8. OneEarly'
    <2> SUFFICES ASSUME NEW c \in DrainedChunks, NEW x \in Actors, NEW y \in Actors,
                        Late(c)', Early(x, c)', Early(y, c)', x # y
                 PROVE  FALSE
        BY DEF OneEarly
    <2>1. x # a /\ y # a
        BY <1>7
    <2>2. Early(x, c) /\ Early(y, c)
        BY <1>1, <2>1 DEF Early
    <2>3. ~Late(c)
        BY <1>1, <2>2 DEF OneEarly
    <2>4. Later(a, c)' /\ actor'[a].pc # "off" /\ actor[x].pc # "off" /\ actor[y].pc # "off"
        BY <1>5, <1>6, <2>2, <2>3 DEF Later, Early, EarlyPcs
    <2>5. actor[a].pc # "off"
        BY <2>4 DEF EntersWell, Later
    <2> QED
        BY <2>1, <2>4, <2>5, TwoAtWork
<1>9. RenameOK'
    <2> SUFFICES ASSUME NEW b \in Actors, (actor[b].pc = "rename" /\ Late(actor[b].chunk))'
                 PROVE  (disk[actor[b].chunk].temp = 0 \/ WholeFile(disk[actor[b].chunk].temp))'
        BY DEF RenameOK
    <2> DEFINE c == actor[b].chunk
    <2>1. CASE b = a /\ WholeFile(disk[actor[a].chunk].temp)'
        BY <2>1
    <2>2. CASE b # a \/ (actor[a].pc = "rename" /\ actor'[a].chunk = actor[a].chunk)
        <3>1. actor[b].pc = "rename" /\ actor'[b].chunk = c /\ c \in DrainedChunks
            BY <1>1, <2>2 DEF ActorOK, AtRest
        <3>2. Early(b, c) /\ Early(b, c)' /\ Late(c)'
            BY <3>1 DEF Early, EarlyPcs
        <3>3. CASE Late(c)
            <4>1. disk[c].temp = 0 \/ (disk[c].temp \in Inodes /\ inode[disk[c].temp] = Whole)
                BY <1>1, <3>1, <3>3 DEF RenameOK, WholeFile, DrainTypeOK, Place
            <4>2. ~(actor[a].pc = "create" /\ actor[a].chunk = c)
                <5> SUFFICES ASSUME actor[a].pc = "create", actor[a].chunk = c PROVE FALSE
                    OBVIOUS
                <5>1. Early(a, c) /\ b # a
                    BY <3>1 DEF Early, EarlyPcs
                <5> QED
                    BY <1>1, <3>1, <3>2, <3>3, <5>1 DEF OneEarly
            <4>3. disk'[c].temp \in {0, disk[c].temp}
                BY <3>1, <4>2 DEF WorldGrows
            <4>4. disk[c].temp \in Used
                BY <3>1 DEF Used
            <4>5. disk'[c].temp = 0 \/ (disk'[c].temp # 0 /\ inode'[disk'[c].temp] = Whole)
                BY <4>1, <4>3, <4>4 DEF WorldGrows
            <4> QED
                BY <3>1, <4>5 DEF WholeFile
        <3>4. CASE ~Late(c)
            <4>1. Later(a, c)' /\ ~Later(a, c)
                BY <1>5, <3>1, <3>2, <3>4
            <4>2. actor'[a].pc \in LatePcs /\ actor'[a].chunk = c
                BY <3>1, <4>1 DEF Later
            <4>3. disk'[c].temp = 0
                BY <3>4, <4>1, <4>2 DEF EntersWell, Late
            <4> QED
                BY <3>1, <4>3
        <3> QED
            BY <3>3, <3>4
    <2> QED
        BY <2>1, <2>2 DEF EntersWell
<1> QED
    BY <1>2, <1>3, <1>4, <1>8, <1>9 DEF DrainInv

-----------------------------------------------------------------------------
(* How the world changes. *)

Pcs == AtRest \cup {"reserve", "advance"} \cup EarlyPcs \cup LatePcs

\* What is validated is whole.
LEMMA ValidatedIsWhole ==
    ASSUME DrainInv, NEW c \in DrainedChunks,
           c \notin source \/ (\E b \in Actors : actor[b].pc = "unlink" /\ actor[b].chunk = c)
    PROVE  ExternalCommit(disk[c]) /\ Late(c)
<1>1. CASE c \notin source
    <2>1. Rank(row[c]) \in 1..7 /\ Rank(row[c]) >= 6 /\ ExternalCommit(disk[c])
        BY <1>1, RankOf DEF DrainInv, DrainTypeOK, ChunkOK
    <2> QED
        BY <2>1 DEF Late
<1>2. ASSUME NEW b \in Actors, actor[b].pc = "unlink", actor[b].chunk = c
      PROVE  ExternalCommit(disk[c]) /\ Late(c)
    <2>1. ActorOK(b)
        BY DEF DrainInv
    <2> QED
        BY <1>2, <2>1 DEF ActorOK, Late, Later, LatePcs
<1> QED
    BY <1>1, <1>2

LEMMA RowsKnown ==
    ASSUME DrainInv
    PROVE  \A c \in DrainedChunks :
              /\ Rank(row[c]) \in 1..7 /\ row[c] \in RowNames /\ disk[c] \in Place
              /\ disk[c].temp \in Inodes \cup {0} /\ disk[c].art \in Inodes \cup {0}
              /\ disk[c].man \in BOOLEAN
BY RankOf DEF DrainInv, DrainTypeOK, Place

LEMMA WorldStays ==
    ASSUME DrainInv, NEW a \in Actors, UNCHANGED <<row, source, disk, inode>>
    PROVE  WorldGrows(a)
<1>1. ASSUME NEW c \in DrainedChunks,
             c \notin source \/ (\E b \in Actors : actor[b].pc = "unlink" /\ actor[b].chunk = c)
      PROVE  ExternalCommit(disk[c])'
    BY <1>1, ValidatedIsWhole DEF ExternalCommit, WholeFile
<1> QED
    BY <1>1, RowsKnown DEF WorldGrows, Late

\* A row goes forward.
LEMMA RowGrows ==
    ASSUME DrainInv, NEW a \in Actors, NEW x \in DrainedChunks, NEW to \in RowNames,
           Transition(x, to), UNCHANGED <<source, disk, inode>>,
           Rank(to) >= 5 => Late(x), to = "LOCAL_DELETED" => x \notin source
    PROVE  /\ WorldGrows(a) /\ row' \in [DrainedChunks -> RowNames] /\ Rank(row'[x]) >= Rank(to)
           /\ Rank(row'[x]) \in {Rank(to), Rank(row[x])}
<1>1. row \in [DrainedChunks -> RowNames]
    BY DEF DrainInv, DrainTypeOK
<1>2. /\ row' \in [DrainedChunks -> RowNames] /\ \A c \in DrainedChunks : c # x => row'[c] = row[c]
      /\ row'[x] = IF Rank(to) > Rank(row[x]) THEN to ELSE row[x]
    BY <1>1 DEF Transition
<1>3. Rank(to) \in 1..7 /\ \A c \in DrainedChunks : Rank(row[c]) \in 1..7
    BY RankOf, RowsKnown
<1>4. /\ Rank(row'[x]) >= Rank(to) /\ Rank(row'[x]) \in {Rank(to), Rank(row[x])}
      /\ Rank(row'[x]) >= Rank(row[x])
    BY <1>2, <1>3
<1>5. ASSUME NEW c \in DrainedChunks
      PROVE  /\ Rank(row'[c]) >= Rank(row[c]) /\ (Rank(row'[c]) >= 5 => Late(c))
             /\ row'[c] = "LOCAL_DELETED" => row[c] = "LOCAL_DELETED" \/ c \notin source
    <2>1. CASE c = x
        BY <1>2, <1>4, <2>1 DEF Late
    <2>2. CASE c # x
        BY <1>2, <1>3, <2>2 DEF Late
    <2> QED
        BY <2>1, <2>2
<1>6. ASSUME NEW c \in DrainedChunks,
             c \notin source \/ (\E b \in Actors : actor[b].pc = "unlink" /\ actor[b].chunk = c)
      PROVE  ExternalCommit(disk[c])'
    BY <1>6, ValidatedIsWhole DEF ExternalCommit, WholeFile
<1>7. WorldGrows(a)
    BY <1>5, <1>6 DEF WorldGrows
<1> QED
    BY <1>2, <1>4, <1>7

\* The files of a chunk change, and the artifact stays or becomes a whole one.
LEMMA DiskGrows ==
    ASSUME DrainInv, NEW a \in Actors, actor[a].chunk \in DrainedChunks, NEW d \in Place,
           SetDisk(a, d), UNCHANGED <<row, source, inode>>,
           d.temp \in {0, On(a).temp}, On(a).man => d.man,
           On(a).art # 0 => d.art # 0,
           Late(actor[a].chunk) => d.art = On(a).art \/ WholeFile(d.art)
    PROVE  WorldGrows(a) /\ disk' \in [DrainedChunks -> Place] /\ disk'[actor[a].chunk] = d
<1> DEFINE x == actor[a].chunk
<1>1. /\ disk' \in [DrainedChunks -> Place] /\ disk'[x] = d
      /\ \A c \in DrainedChunks : c # x => disk'[c] = disk[c]
    BY DEF SetDisk, DrainInv, DrainTypeOK
<1>2. ASSUME NEW c \in DrainedChunks,
             c \notin source \/ (\E b \in Actors : actor[b].pc = "unlink" /\ actor[b].chunk = c)
      PROVE  ExternalCommit(disk[c])'
    <2>1. ExternalCommit(disk[c]) /\ Late(c)
        BY <1>2, ValidatedIsWhole
    <2>2. CASE c = x
        BY <1>1, <2>1, <2>2 DEF ExternalCommit, WholeFile, On
    <2>3. CASE c # x
        BY <1>1, <2>1, <2>3 DEF ExternalCommit, WholeFile
    <2> QED
        BY <2>2, <2>3
<1>3. ASSUME NEW c \in DrainedChunks
      PROVE  (disk[c].art # 0 => disk'[c].art # 0) /\ disk'[c].temp \in {0, disk[c].temp}
    BY <1>1 DEF On
<1>4. WorldGrows(a)
    BY <1>2, <1>3, RowsKnown DEF WorldGrows, Late
<1> QED
    BY <1>1, <1>4

-----------------------------------------------------------------------------
(* How an actor goes on. *)

LEMMA StepIs ==
    ASSUME DrainInv, NEW a \in Actors, NEW pc \in Pcs, Step(a, pc)
    PROVE  /\ actor' \in [Actors -> Process] /\ actor'[a].pc = pc
           /\ actor'[a].chunk = actor[a].chunk /\ actor'[a].fd = actor[a].fd
           /\ actor'[a].then = actor[a].then
           /\ \A b \in Actors : b # a => actor'[b] = actor[b]
<1>1. actor \in [Actors -> Process] /\ actor[a] \in Process
    BY DEF DrainInv, DrainTypeOK
<1> DEFINE n == [actor[a] EXCEPT !.pc = pc]
<1>2. /\ n \in Process /\ n.pc = pc /\ n.chunk = actor[a].chunk /\ n.fd = actor[a].fd
      /\ n.then = actor[a].then
    BY <1>1 DEF Process, Pcs
<1>3. actor' = [actor EXCEPT ![a] = n]
    BY <1>1 DEF Step
<1> HIDE DEF n
<1> QED
    BY <1>1, <1>2, <1>3

LEMMA ExitIs ==
    ASSUME DrainInv, NEW a \in Actors, Exits(a)
    PROVE  /\ actor' \in [Actors -> Process] /\ actor'[a].pc = "off" /\ actor'[a].fd = 0
           /\ \A b \in Actors : b # a => actor'[b] = actor[b]
           /\ \A b \in Actors : b # a /\ drainLock = b => drainLock' = b
<1>1. Off \in Process /\ Off.pc = "off" /\ Off.fd = 0
    BY DrainAssumption DEF Off, Process, AtRest
<1>2. actor \in [Actors -> Process] /\ actor' = [actor EXCEPT ![a] = Off]
    BY DEF DrainInv, DrainTypeOK, Exits
<1>3. \A b \in Actors : b # a /\ drainLock = b => drainLock' = b
    BY DEF Exits, Released
<1> QED
    BY <1>1, <1>2, <1>3

\* An actor ends: by itself, by an error, or by a kill.
LEMMA ExitKeeps ==
    ASSUME DrainInv, \A r, s \in Retries : r = s, NEW a \in Actors, Exits(a), WorldGrows(a),
           row' \in [DrainedChunks -> RowNames], disk' \in [DrainedChunks -> Place],
           UNCHANGED <<source, inode>>
    PROVE  DrainInv'
<1>1. DrainTypeOK'
    BY ExitIs DEF DrainInv, DrainTypeOK
<1>2. OthersStay(a)
    BY ExitIs DEF OthersStay, DrainInv, ActorOK
<1>3. ActorOK(a)'
    BY ExitIs DEF ActorOK, AtRest
<1>4. EntersWell(a)
    BY ExitIs DEF EntersWell, EarlyPcs, LatePcs
<1> QED
    BY <1>1, <1>2, <1>3, <1>4, StepKeeps

\* An actor goes to its next step and leaves lock and inodes as they are.
LEMMA GoesKeeps ==
    ASSUME DrainInv, \A r, s \in Retries : r = s, NEW a \in Actors,
           actor' \in [Actors -> Process], actor'[a].fd = actor[a].fd,
           \A b \in Actors : b # a => actor'[b] = actor[b],
           UNCHANGED <<drainLock, inode>>, source' \in SUBSET DrainedChunks,
           row' \in [DrainedChunks -> RowNames], disk' \in [DrainedChunks -> Place],
           WorldGrows(a), ActorOK(a)', EntersWell(a)
    PROVE  DrainInv'
<1>1. DrainTypeOK'
    BY DEF DrainInv, DrainTypeOK
<1>2. OthersStay(a)
    BY DEF OthersStay, DrainInv, ActorOK, FdsOK
<1> QED
    BY <1>1, <1>2, StepKeeps

-----------------------------------------------------------------------------
(* The commands. *)

LEMMA SealKeeps == ASSUME DrainInv, NEW x \in DrainedChunks, SealNext(x) PROVE DrainInv'
<1>1. /\ UNCHANGED <<source, disk, inode, actor, drainLock>> /\ row[x] = "OPEN"
      /\ row' \in [DrainedChunks -> RowNames] /\ row'[x] = "SEALED"
      /\ \A c \in DrainedChunks : c # x => row'[c] = row[c]
    BY DEF SealNext, DrainInv, DrainTypeOK, RowNames
<1>2. ASSUME NEW c \in DrainedChunks
      PROVE  /\ Rank(row'[c]) = Rank(row[c]) \/ (Rank(row[c]) = 1 /\ Rank(row'[c]) = 2)
             /\ row'[c] = "LOCAL_DELETED" <=> row[c] = "LOCAL_DELETED"
    BY <1>1, RankIs
<1>3. \A c \in DrainedChunks : \A n \in 3..7 : Rank(row'[c]) >= n <=> Rank(row[c]) >= n
    BY <1>2, RowsKnown
<1>4. \A c \in DrainedChunks : Late(c)' <=> Late(c)
    BY <1>1, <1>3 DEF Late, Later
<1>5. DrainTypeOK' /\ FdsOK'
    BY <1>1 DEF DrainInv, DrainTypeOK, FdsOK
<1>6. OneEarly'
    BY <1>1, <1>4 DEF DrainInv, OneEarly, Early
<1>7. RenameOK'
    <2> SUFFICES ASSUME NEW a \in Actors, actor[a].pc = "rename", Late(actor[a].chunk)'
                 PROVE  (disk[actor[a].chunk].temp = 0 \/ WholeFile(disk[actor[a].chunk].temp))'
        BY <1>1 DEF RenameOK
    <2>1. actor[a].chunk \in DrainedChunks
        BY DEF DrainInv, ActorOK, AtRest
    <2>2. Late(actor[a].chunk)
        BY <1>1, <1>4, <2>1
    <2> QED
        BY <1>1, <2>2 DEF DrainInv, RenameOK, WholeFile
<1>8. ASSUME NEW a \in Actors PROVE ActorOK(a)'
    <2>1. ActorOK(a)
        BY DEF DrainInv
    <2>2. CASE actor[a].pc \in AtRest
        BY <1>1, <2>1, <2>2 DEF ActorOK, AtRest
    <2>3. CASE actor[a].pc \notin AtRest
        <3>1. actor[a].chunk \in DrainedChunks
            BY <2>1, <2>3 DEF ActorOK
        <3>2. \A n \in 3..7 : Rank(row'[actor[a].chunk]) >= n <=> Rank(row[actor[a].chunk]) >= n
            BY <1>3, <3>1
        <3> QED
            BY <1>1, <2>1, <3>1, <3>2 DEF ActorOK, ExternalCommit, WholeFile
    <2> QED
        BY <2>2, <2>3
<1>9. ASSUME NEW c \in DrainedChunks PROVE ChunkOK(c)'
    <2>1. ChunkOK(c) /\ \A n \in 3..7 : Rank(row'[c]) >= n <=> Rank(row[c]) >= n
        BY <1>3 DEF DrainInv
    <2> QED
        BY <1>1, <1>2, <2>1 DEF ChunkOK, ExternalCommit, WholeFile
<1> QED
    BY <1>5, <1>6, <1>7, <1>8, <1>9 DEF DrainInv

LEMMA StartsKeep ==
    ASSUME DrainInv, \A r, s \in Retries : r = s, NEW a \in Actors,
           StartDrain(a) \/ StartRetry(a)
    PROVE  DrainInv'
<1>1. UNCHANGED <<row, source, disk, inode>> /\ actor[a].pc = "off"
    BY DEF StartDrain, StartRetry, Files0
<1>2. PICK pc \in {"target", "next"} : Step(a, pc)
    BY DEF StartDrain, StartRetry
<1>3. /\ actor' \in [Actors -> Process] /\ actor'[a].pc = pc /\ actor'[a].fd = actor[a].fd
      /\ \A b \in Actors : b # a => actor'[b] = actor[b]
    BY <1>2, StepIs DEF Pcs, AtRest
<1>4. /\ \A b \in Actors : b # a /\ b \in Drains /\ actor[b].pc # "off" => drainLock' = b
      /\ a \in Drains => drainLock' = a
    BY DrainAssumption DEF StartDrain, StartRetry, DrainInv, ActorOK, Actors, Nobody0
<1>5. ActorOK(a) /\ actor[a].fd = 0
    BY <1>1 DEF DrainInv, ActorOK
<1>6. DrainTypeOK'
    BY <1>1, <1>3 DEF DrainInv, DrainTypeOK
<1>7. OthersStay(a)
    BY <1>1, <1>3, <1>4, <1>5 DEF OthersStay
<1>8. ActorOK(a)'
    BY <1>3, <1>4, <1>5 DEF ActorOK, AtRest
<1>9. EntersWell(a)
    BY <1>3 DEF EntersWell, EarlyPcs, LatePcs
<1> QED
    BY <1>1, <1>6, <1>7, <1>8, <1>9, WorldStays, StepKeeps

\* An actor that rests, or has done its work, reads what comes next.
LEMMA IdleKeeps ==
    ASSUME DrainInv, \A r, s \in Retries : r = s, NEW a \in Actors,
           actor[a].pc \in {"target", "next", "done"},
           UNCHANGED <<row, source, disk, inode, drainLock>>,
           actor' \in [Actors -> Process], actor'[a].fd = 0,
           actor'[a].pc \in {"next", "reserve", "advance"},
           \A b \in Actors : b # a => actor'[b] = actor[b],
           actor'[a].pc # "next" => actor'[a].chunk \in DrainedChunks,
           actor'[a].pc = "advance" => Rank(row[actor'[a].chunk]) >= 3
    PROVE  DrainInv'
<1>1. ActorOK(a) /\ actor[a].fd = 0
    BY DEF DrainInv, ActorOK
<1>2. ActorOK(a)'
    BY <1>1 DEF ActorOK, AtRest
<1>3. EntersWell(a)
    BY DEF EntersWell, EarlyPcs, LatePcs
<1> QED
    BY <1>1, <1>2, <1>3, WorldStays, GoesKeeps DEF DrainInv, DrainTypeOK

LEMMA TargetKeeps ==
    ASSUME DrainInv, \A r, s \in Retries : r = s, NEW a \in Actors, ReadTarget(a)
    PROVE  DrainInv'
<1>1. UNCHANGED <<row, source, disk, inode>> /\ actor[a].pc = "target"
    BY DEF ReadTarget, Files0
<1>2. CASE Exits(a)
    BY <1>1, <1>2, WorldStays, ExitKeeps DEF DrainInv, DrainTypeOK
<1>3. CASE Step(a, "next") /\ UNCHANGED drainLock
    <2>1. "next" \in Pcs /\ actor[a].fd = 0
        BY <1>1 DEF Pcs, AtRest, DrainInv, ActorOK
    <2>2. /\ actor' \in [Actors -> Process] /\ actor'[a].pc = "next" /\ actor'[a].fd = 0
          /\ \A b \in Actors : b # a => actor'[b] = actor[b]
        BY <1>3, <2>1, StepIs
    <2> QED
        BY <1>1, <1>3, <2>2, IdleKeeps
<1> QED
    BY <1>2, <1>3 DEF ReadTarget

LEMMA FindKeeps ==
    ASSUME DrainInv, \A r, s \in Retries : r = s, NEW a \in Actors, NextTransaction(a)
    PROVE  DrainInv'
<1>1. UNCHANGED <<row, source, disk, inode>> /\ actor[a].pc = "next"
    BY DEF NextTransaction, Files0
<1>2. CASE Exits(a)
    BY <1>1, <1>2, WorldStays, ExitKeeps DEF DrainInv, DrainTypeOK
<1>3. CASE ~(Backlog = {} \/ actor[a].stop)
    <2> DEFINE x == IF InFlight # {} THEN Min(InFlight) ELSE Min(Unowned)
               pc == IF InFlight # {} THEN "advance" ELSE "reserve"
    <2>1. actor' = [actor EXCEPT ![a].chunk = x, ![a].pc = pc] /\ UNCHANGED drainLock
        BY <1>3 DEF NextTransaction
    <2>2. x \in DrainedChunks /\ (pc = "advance" => Rank(row[x]) >= 3)
        <3>1. CASE InFlight # {}
            <4>1. Min(InFlight) \in InFlight
                BY <3>1, LeastChunk DEF InFlight
            <4> QED
                BY <3>1, <4>1 DEF InFlight
        <3>2. CASE InFlight = {}
            <4>1. Min(Unowned) \in Unowned
                BY <1>3, <3>2, LeastChunk DEF Unowned, Backlog
            <4> QED
                BY <3>2, <4>1 DEF Unowned
        <3> QED
            BY <3>1, <3>2
    <2>3. pc \in {"advance", "reserve"}
        OBVIOUS
    <2> HIDE DEF x, pc
    <2>4. actor[a] \in Process /\ actor[a].fd = 0 /\ actor \in [Actors -> Process] /\ x \in 0..DrainChunks
        BY <1>1, <2>2 DEF DrainInv, DrainTypeOK, ActorOK, DrainedChunks
    <2> DEFINE n1 == [actor[a] EXCEPT !.chunk = x]
               n == [n1 EXCEPT !.pc = pc]
    <2>5. n1 \in Process /\ n1.chunk = x /\ n1.fd = 0
        BY <2>4 DEF Process
    <2>6. actor' = [actor EXCEPT ![a] = n]
        BY <2>1, <2>4
    <2> HIDE DEF n1
    <2>7. n \in Process /\ n.chunk = x /\ n.pc = pc /\ n.fd = 0
        BY <2>3, <2>5 DEF Process
    <2> HIDE DEF n
    <2>8. /\ actor' \in [Actors -> Process] /\ actor'[a] = n
          /\ \A b \in Actors : b # a => actor'[b] = actor[b]
        BY <2>4, <2>6, <2>7
    <2> QED
        BY <1>1, <2>1, <2>2, <2>3, <2>7, <2>8, IdleKeeps
<1> QED
    BY <1>2, <1>3 DEF NextTransaction

LEMMA ReturnsKeeps ==
    ASSUME DrainInv, \A r, s \in Retries : r = s, NEW a \in Actors, RunOnceReturns(a)
    PROVE  DrainInv'
<1>1. UNCHANGED <<row, source, disk, inode>> /\ actor[a].pc = "done"
    BY DEF RunOnceReturns, Files0
<1>2. CASE Exits(a)
    BY <1>1, <1>2, WorldStays, ExitKeeps DEF DrainInv, DrainTypeOK
<1>3. CASE ~Exits(a)
    <2> DEFINE k == actor[a].files + 1
               n == [Off EXCEPT !.pc = "next", !.files = k]
    <2>1. actor' = [actor EXCEPT ![a] = n] /\ UNCHANGED drainLock
        BY <1>3 DEF RunOnceReturns, RunReturns
    <2>2. k \in Nat /\ actor \in [Actors -> Process]
        BY DEF DrainInv, DrainTypeOK, Process
    <2> HIDE DEF k
    <2>3. n \in Process /\ n.pc = "next" /\ n.fd = 0
        <3> DEFINE m == [Off EXCEPT !.pc = "next"]
        <3>1. m \in Process /\ m.pc = "next" /\ m.fd = 0
            <4>1. Off \in Process /\ Off.fd = 0
                BY DrainAssumption DEF Off, Process, AtRest
            <4> QED
                BY <4>1 DEF Process, AtRest
        <3>2. n = [m EXCEPT !.files = k]
            OBVIOUS
        <3> HIDE DEF m, n
        <3> QED
            BY <2>2, <3>1, <3>2 DEF Process
    <2> HIDE DEF n
    <2>4. /\ actor' \in [Actors -> Process] /\ actor'[a] = n
          /\ \A b \in Actors : b # a => actor'[b] = actor[b]
        BY <2>1, <2>2, <2>3
    <2> QED
        BY <1>1, <2>1, <2>3, <2>4, IdleKeeps
<1> QED
    BY <1>2, <1>3

\* A kill, a signal, or another state of the target.
LEMMA FaultsKeep ==
    ASSUME DrainInv, \A r, s \in Retries : r = s, NEW a \in Actors,
           AttemptDies(a) \/ SignalDrain(a)
    PROVE  DrainInv'
<1>1. UNCHANGED <<row, source, disk, inode>>
    BY DEF AttemptDies, SignalDrain, Files0
<1>2. CASE AttemptDies(a)
    BY <1>1, <1>2, WorldStays, ExitKeeps DEF AttemptDies, DrainInv, DrainTypeOK
<1>3. CASE SignalDrain(a)
    <2> DEFINE n == [actor[a] EXCEPT !.stop = TRUE]
    <2>1. actor[a] \in Process /\ actor \in [Actors -> Process] /\ ActorOK(a)
        BY DEF DrainInv, DrainTypeOK
    <2>2. /\ n \in Process /\ n.pc = actor[a].pc /\ n.chunk = actor[a].chunk
          /\ n.fd = actor[a].fd /\ n.then = actor[a].then
        BY <2>1 DEF Process
    <2>3. actor' = [actor EXCEPT ![a] = n] /\ UNCHANGED drainLock /\ actor[a].pc # "off"
        BY <1>3, <2>1 DEF SignalDrain
    <2> HIDE DEF n
    <2>4. /\ actor' \in [Actors -> Process] /\ actor'[a] = n
          /\ \A b \in Actors : b # a => actor'[b] = actor[b]
        BY <2>1, <2>2, <2>3
    <2>5. ActorOK(a)'
        BY <1>1, <2>1, <2>2, <2>3, <2>4 DEF ActorOK, ExternalCommit, WholeFile
    <2>6. EntersWell(a)
        BY <2>2, <2>3, <2>4 DEF EntersWell, Early, Later
    <2> QED
        BY <1>1, <2>2, <2>3, <2>4, <2>5, <2>6, WorldStays, GoesKeeps DEF DrainInv, DrainTypeOK
<1> QED
    BY <1>2, <1>3

LEMMA SameKeeps ==
    ASSUME DrainInv, UNCHANGED <<row, source, disk, inode, actor, drainLock>> PROVE DrainInv'
BY DEF DrainInv, DrainTypeOK, FdsOK, OneEarly, RenameOK, ActorOK, ChunkOK, Late, Early, Later,
       ExternalCommit, WholeFile

-----------------------------------------------------------------------------
(* The rows. *)

LEMMA ReserveKeeps ==
    ASSUME DrainInv, \A r, s \in Retries : r = s, NEW a \in Actors, ReserveChunk(a)
    PROVE  DrainInv'
<1>1. UNCHANGED <<source, disk, inode>> /\ actor[a].pc = "reserve" /\ ActorOK(a)
      /\ actor[a].chunk \in DrainedChunks /\ actor[a].fd = 0
    BY DEF ReserveChunk, Files0, DrainInv, ActorOK, AtRest
<1>2. CASE Exits(a) /\ UNCHANGED row
    BY <1>1, <1>2, WorldStays, ExitKeeps DEF DrainInv, DrainTypeOK
<1>3. CASE Transition(actor[a].chunk, "COPYING") /\ Step(a, "advance") /\ UNCHANGED drainLock
    <2>1. "advance" \in Pcs /\ "COPYING" \in RowNames /\ Rank("COPYING") = 3
        BY RankIs DEF Pcs, RowNames
    <2>2. /\ actor' \in [Actors -> Process] /\ actor'[a].pc = "advance"
          /\ actor'[a].fd = 0 /\ actor'[a].chunk = actor[a].chunk
          /\ \A b \in Actors : b # a => actor'[b] = actor[b]
        BY <1>1, <1>3, <2>1, StepIs
    <2>3. /\ WorldGrows(a) /\ row' \in [DrainedChunks -> RowNames]
          /\ Rank(row'[actor[a].chunk]) >= 3
        BY <1>1, <1>3, <2>1, RowGrows
    <2>4. ActorOK(a)'
        BY <1>1, <1>3, <2>2, <2>3 DEF ActorOK, AtRest
    <2>5. EntersWell(a)
        BY <2>2 DEF EntersWell, EarlyPcs, LatePcs
    <2> QED
        BY <1>1, <1>3, <2>2, <2>3, <2>4, <2>5, GoesKeeps DEF DrainInv, DrainTypeOK
<1> QED
    BY <1>2, <1>3 DEF ReserveChunk

LEMMA AdvanceKeeps ==
    ASSUME DrainInv, \A r, s \in Retries : r = s, NEW a \in Actors, AdvanceRow(a)
    PROVE  DrainInv'
<1> DEFINE x == actor[a].chunk
           pc == EntryOf[row[x]]
<1>1. /\ UNCHANGED <<row, source, disk, inode, drainLock>> /\ actor[a].pc = "advance"
      /\ actor' = [actor EXCEPT ![a].pc = pc, ![a].then = "verifying"]
    BY DEF AdvanceRow, Files0
<1>2. /\ x \in DrainedChunks /\ ActorOK(a) /\ actor[a].fd = 0 /\ Rank(row[x]) >= 3
      /\ row[x] \in RowNames /\ Rank(row[x]) \in 1..7
    BY <1>1, RowsKnown DEF DrainInv, ActorOK, AtRest
<1>3. \/ row[x] = "COPYING" /\ Rank(row[x]) = 3 /\ pc = "copy"
      \/ row[x] = "VERIFYING" /\ Rank(row[x]) = 4 /\ pc = "verify"
      \/ row[x] = "VERIFIED" /\ Rank(row[x]) = 5 /\ pc = "pending"
      \/ row[x] = "LOCAL_DELETE_PENDING" /\ Rank(row[x]) = 6 /\ pc = "validate"
      \/ row[x] = "LOCAL_DELETED" /\ Rank(row[x]) = 7 /\ pc = "done"
    BY <1>2, RankIs DEF RowNames, EntryOf
<1> HIDE DEF pc
<1>4. pc \in Pcs
    BY <1>3 DEF Pcs, EarlyPcs, LatePcs
<1>5. actor \in [Actors -> Process] /\ actor[a] \in Process
    BY DEF DrainInv, DrainTypeOK
<1> DEFINE n1 == [actor[a] EXCEPT !.pc = pc]
           n == [n1 EXCEPT !.then = "verifying"]
<1>6. n1 \in Process /\ n1.pc = pc /\ n1.chunk = x /\ n1.fd = 0
    BY <1>2, <1>4, <1>5 DEF Process, Pcs
<1>7. actor' = [actor EXCEPT ![a] = n]
    BY <1>1, <1>5
<1> HIDE DEF n1
<1>8. n \in Process /\ n.pc = pc /\ n.chunk = x /\ n.fd = 0 /\ n.then = "verifying"
    BY <1>6 DEF Process
<1> HIDE DEF n
<1>9. /\ actor' \in [Actors -> Process] /\ actor'[a] = n
      /\ \A b \in Actors : b # a => actor'[b] = actor[b]
    BY <1>5, <1>7, <1>8
<1>10. ActorOK(a)'
    BY <1>1, <1>2, <1>3, <1>8, <1>9 DEF ActorOK, AtRest
<1>11. EntersWell(a)
    BY <1>1, <1>2, <1>3, <1>8, <1>9 DEF EntersWell, EarlyPcs, LatePcs
<1> QED
    BY <1>1, <1>2, <1>8, <1>9, <1>10, <1>11, WorldStays, GoesKeeps DEF DrainInv, DrainTypeOK

\* A commit of the next state by an actor that may make it.
LEMMA CommitsKeep ==
    ASSUME DrainInv, \A r, s \in Retries : r = s, NEW a \in Actors,
           CommitCopied(a) \/ CommitVerifiedRow(a) \/ CommitPendingRow(a) \/ CommitDeletedRow(a)
    PROVE  DrainInv'
<1> DEFINE x == actor[a].chunk
<1>1. /\ UNCHANGED <<source, disk, inode, drainLock>>
      /\ \/ /\ actor[a].pc = "verifying" /\ Transition(x, "VERIFYING") /\ Step(a, "verify")
         \/ /\ actor[a].pc = "verified" /\ Transition(x, "VERIFIED") /\ Step(a, "pending")
         \/ /\ actor[a].pc = "pending" /\ Transition(x, "LOCAL_DELETE_PENDING")
            /\ Step(a, "validate")
         \/ /\ actor[a].pc = "deleted" /\ Transition(x, "LOCAL_DELETED") /\ Step(a, "done")
    BY DEF CommitCopied, CommitVerifiedRow, CommitPendingRow, CommitDeletedRow, Files0
<1>2. x \in DrainedChunks /\ ActorOK(a) /\ actor[a].fd = 0
      /\ (actor[a].pc = "deleted" => x \notin source)
    BY <1>1 DEF DrainInv, ActorOK, AtRest
<1>3. PICK pc \in {"verify", "pending", "validate", "done"}, to \in RowNames :
         /\ Transition(x, to) /\ Step(a, pc)
         /\ \/ actor[a].pc = "verifying" /\ to = "VERIFYING" /\ pc = "verify"
            \/ actor[a].pc = "verified" /\ to = "VERIFIED" /\ pc = "pending"
            \/ actor[a].pc = "pending" /\ to = "LOCAL_DELETE_PENDING" /\ pc = "validate"
            \/ actor[a].pc = "deleted" /\ to = "LOCAL_DELETED" /\ pc = "done"
    BY <1>1 DEF RowNames
<1>4. pc \in Pcs
    BY DEF Pcs, EarlyPcs, LatePcs
<1>5. /\ actor' \in [Actors -> Process] /\ actor'[a].pc = pc /\ actor'[a].fd = 0
      /\ actor'[a].chunk = x /\ \A b \in Actors : b # a => actor'[b] = actor[b]
    BY <1>2, <1>3, <1>4, StepIs
<1>6. Rank(to) >= 5 => Later(a, x)
    BY <1>3, RankIs DEF Later, LatePcs
<1>7. /\ WorldGrows(a) /\ row' \in [DrainedChunks -> RowNames] /\ Rank(row'[x]) >= Rank(to)
    <2>1. (Rank(to) >= 5 => Late(x)) /\ (to = "LOCAL_DELETED" => x \notin source)
        BY <1>2, <1>3, <1>6 DEF Late
    <2> QED
        BY <1>1, <1>2, <1>3, <2>1, RowGrows
<1>8. /\ pc = "pending" => Rank(row'[x]) >= 5
      /\ pc = "validate" => Rank(row'[x]) >= 6
      /\ pc = "done" => Rank(row'[x]) >= 5
    <2>1. Rank(row'[x]) \in 1..7
        BY <1>2, <1>7, RankOf
    <2> QED
        BY <1>3, <1>7, <2>1, RankIs
<1>9. ActorOK(a)'
    BY <1>1, <1>2, <1>3, <1>5, <1>8 DEF ActorOK, AtRest
<1>10. EntersWell(a)
    BY <1>3, <1>5 DEF EntersWell, Early, Later, EarlyPcs, LatePcs
<1> QED
    BY <1>1, <1>2, <1>5, <1>7, <1>9, <1>10, GoesKeeps DEF DrainInv, DrainTypeOK

-----------------------------------------------------------------------------
(* The files. *)

\* The actor works on a chunk.
LEMMA AtWork ==
    ASSUME DrainInv, NEW a \in Actors, actor[a].pc \notin AtRest
    PROVE  /\ actor[a].chunk \in DrainedChunks /\ ActorOK(a) /\ actor[a] \in Process
           /\ On(a) \in Place /\ On(a).temp \in Inodes \cup {0} /\ On(a).art \in Inodes \cup {0}
           /\ actor[a].pc # "off" /\ actor \in [Actors -> Process]
<1>1. actor[a].chunk \in DrainedChunks /\ ActorOK(a) /\ actor[a] \in Process
      /\ actor \in [Actors -> Process]
    BY DEF DrainInv, DrainTypeOK, ActorOK
<1> QED
    BY <1>1, RowsKnown DEF On, AtRest

\* One step of an actor that stays with its chunk and leaves everything else alone.
LEMMA StaysKeeps ==
    ASSUME DrainInv, \A r, s \in Retries : r = s, NEW a \in Actors,
           UNCHANGED <<row, source, disk, inode>>, UNCHANGED drainLock,
           NEW pc \in Pcs, Step(a, pc),
           \/ actor[a].pc = "open" /\ pc = "write"
           \/ actor[a].pc = "check" /\ pc = "rename" /\ WholeFile(On(a).temp)
           \/ actor[a].pc = "validate" /\ pc = "unlink" /\ ExternalCommit(On(a))
    PROVE  DrainInv'
<1>1. /\ actor[a].chunk \in DrainedChunks /\ ActorOK(a) /\ actor[a].pc # "off"
    BY AtWork DEF AtRest
<1>2. /\ actor' \in [Actors -> Process] /\ actor'[a].pc = pc
      /\ actor'[a].chunk = actor[a].chunk /\ actor'[a].fd = actor[a].fd
      /\ actor'[a].then = actor[a].then
      /\ \A b \in Actors : b # a => actor'[b] = actor[b]
    BY StepIs
<1>3. ActorOK(a)'
    <2>1. CASE actor[a].pc = "open" /\ pc = "write"
        BY <1>1, <1>2, <2>1 DEF ActorOK, AtRest
    <2>2. CASE actor[a].pc = "check" /\ pc = "rename"
        BY <1>1, <1>2, <2>2 DEF ActorOK, AtRest
    <2>3. CASE actor[a].pc = "validate" /\ pc = "unlink" /\ ExternalCommit(On(a))
        BY <1>1, <1>2, <2>3 DEF ActorOK, AtRest, ExternalCommit, WholeFile, On
    <2> QED
        BY <2>1, <2>2, <2>3
<1>4. EntersWell(a)
    BY <1>1, <1>2 DEF EntersWell, Early, Later, EarlyPcs, LatePcs, WholeFile, On
<1> QED
    BY <1>1, <1>2, <1>3, <1>4, WorldStays, GoesKeeps DEF DrainInv, DrainTypeOK

LEMMA OpenKeeps ==
    ASSUME DrainInv, \A r, s \in Retries : r = s, NEW a \in Actors,
           OpenSource(a) \/ ValidateCommit(a)
    PROVE  DrainInv'
<1>1. UNCHANGED <<row, source, disk, inode>>
    BY DEF OpenSource, ValidateCommit, Files0
<1>2. CASE Exits(a)
    BY <1>1, <1>2, WorldStays, ExitKeeps DEF DrainInv, DrainTypeOK
<1>3. CASE ~Exits(a)
    <2>1. PICK pc \in {"write", "unlink"} :
            /\ Step(a, pc) /\ UNCHANGED drainLock
            /\ \/ actor[a].pc = "open" /\ pc = "write"
               \/ actor[a].pc = "validate" /\ pc = "unlink" /\ ExternalCommit(On(a))
        BY <1>3 DEF OpenSource, ValidateCommit
    <2>2. pc \in Pcs
        BY DEF Pcs, EarlyPcs, LatePcs
    <2> QED
        BY <1>1, <2>1, <2>2, StaysKeeps
<1> QED
    BY <1>2, <1>3

\* The temporary file goes, or the manifest comes, and the actor goes on or ends.
LEMMA TidiesKeeps ==
    ASSUME DrainInv, \A r, s \in Retries : r = s, NEW a \in Actors,
           actor[a].pc \notin AtRest, NEW d \in Place, SetDisk(a, d),
           UNCHANGED <<row, source, inode>>, d.temp \in {0, On(a).temp},
           On(a).man => d.man, d.art = On(a).art
    PROVE  /\ WorldGrows(a) /\ disk' \in [DrainedChunks -> Place]
           /\ disk'[actor[a].chunk] = d /\ (Exits(a) => DrainInv')
<1>1. /\ WorldGrows(a) /\ disk' \in [DrainedChunks -> Place] /\ disk'[actor[a].chunk] = d
    BY AtWork, DiskGrows
<1> QED
    BY <1>1, ExitKeeps DEF DrainInv, DrainTypeOK

LEMMA NoTemporary ==
    ASSUME NEW d \in Place
    PROVE  LET e == [d EXCEPT !.temp = 0]
           IN  e \in Place /\ e.temp = 0 /\ e.art = d.art /\ e.man = d.man
BY DEF Place

LEMMA PrepareKeeps ==
    ASSUME DrainInv, \A r, s \in Retries : r = s, NEW a \in Actors, PrepareCopy(a)
    PROVE  DrainInv'
<1> DEFINE d == [On(a) EXCEPT !.temp = 0]
           pc == IF On(a).art # 0 THEN actor[a].then ELSE "create"
<1>1. /\ UNCHANGED <<row, source, inode>> /\ actor[a].pc = "copy"
    BY DEF PrepareCopy
<1>2. /\ actor[a].chunk \in DrainedChunks /\ ActorOK(a) /\ On(a) \in Place
      /\ actor[a].then \in {"verifying", "check"} /\ actor[a].fd = 0
    BY <1>1, AtWork DEF AtRest, ActorOK
<1>3. CASE Exits(a) /\ UNCHANGED disk
    BY <1>1, <1>3, WorldStays, ExitKeeps DEF DrainInv, DrainTypeOK
<1>4. CASE SetDisk(a, d) /\ Step(a, pc) /\ UNCHANGED drainLock
    <2>1. d \in Place /\ d.temp = 0 /\ d.art = On(a).art /\ d.man = On(a).man
        BY <1>2, NoTemporary
    <2>2. pc \in {"verifying", "check", "create"} /\ pc \in Pcs
        BY <1>2 DEF Pcs, EarlyPcs
    <2> HIDE DEF d, pc
    <2>3. /\ actor' \in [Actors -> Process] /\ actor'[a].pc = pc
          /\ actor'[a].chunk = actor[a].chunk /\ actor'[a].fd = actor[a].fd
          /\ actor'[a].then = actor[a].then
          /\ \A b \in Actors : b # a => actor'[b] = actor[b]
        BY <1>4, <2>2, StepIs
    <2>4. WorldGrows(a) /\ disk' \in [DrainedChunks -> Place]
        BY <1>1, <1>4, <2>1, TidiesKeeps DEF AtRest
    <2>5. ActorOK(a)'
        BY <1>1, <1>2, <1>4, <2>2, <2>3 DEF ActorOK, AtRest
    <2>6. EntersWell(a)
        BY <1>1, <2>2, <2>3 DEF EntersWell, Early, EarlyPcs, LatePcs
    <2> QED
        BY <1>1, <1>4, <2>3, <2>4, <2>5, <2>6, GoesKeeps DEF DrainInv, DrainTypeOK
<1> QED
    BY <1>3, <1>4 DEF PrepareCopy

LEMMA CheckKeeps ==
    ASSUME DrainInv, \A r, s \in Retries : r = s, NEW a \in Actors, CheckTemporary(a)
    PROVE  DrainInv'
<1>1. UNCHANGED <<row, source, inode>> /\ actor[a].pc = "check"
    BY DEF CheckTemporary
<1>2. CASE WholeFile(On(a).temp)
    <2>1. Step(a, "rename") /\ UNCHANGED <<disk, drainLock>> /\ "rename" \in Pcs
        BY <1>2 DEF CheckTemporary, Pcs, EarlyPcs
    <2> QED
        BY <1>1, <1>2, <2>1, StaysKeeps
<1>3. CASE ~WholeFile(On(a).temp)
    <2> DEFINE d == [On(a) EXCEPT !.temp = 0]
    <2>1. SetDisk(a, d) /\ Exits(a)
        BY <1>3 DEF CheckTemporary
    <2>2. d \in Place /\ d.temp = 0 /\ d.art = On(a).art /\ d.man = On(a).man
        BY <1>1, AtWork, NoTemporary DEF AtRest
    <2> HIDE DEF d
    <2> QED
        BY <1>1, <2>1, <2>2, TidiesKeeps DEF AtRest
<1> QED
    BY <1>2, <1>3

LEMMA ReadBackKeeps ==
    ASSUME DrainInv, \A r, s \in Retries : r = s, NEW a \in Actors, VerifyTemporary(a)
    PROVE  DrainInv'
<1> DEFINE x == actor[a].chunk
           pc == IF On(a).art # 0 THEN "manifest" ELSE IF On(a).temp = 0 THEN "copy" ELSE "check"
           n1 == [actor[a] EXCEPT !.then = "check"]
           n == [n1 EXCEPT !.pc = pc]
           d == IF On(a).art = 0 THEN On(a) ELSE [On(a) EXCEPT !.temp = 0]
<1>1. /\ UNCHANGED <<row, source, inode>> /\ actor[a].pc = "verify"
    BY DEF VerifyTemporary
<1>2. /\ x \in DrainedChunks /\ ActorOK(a) /\ On(a) \in Place /\ actor[a].fd = 0
      /\ actor[a] \in Process /\ actor \in [Actors -> Process]
    BY <1>1, AtWork DEF AtRest, ActorOK
<1>3. CASE Exits(a) /\ UNCHANGED disk
    BY <1>1, <1>3, WorldStays, ExitKeeps DEF DrainInv, DrainTypeOK
<1>4. CASE ~(x \notin source \/ (On(a).art # 0 /\ ~WholeFile(On(a).art)))
    <2>1. /\ actor' = [actor EXCEPT ![a].then = "check", ![a].pc = pc] /\ UNCHANGED drainLock
          /\ disk' = IF On(a).art = 0 THEN disk ELSE [disk EXCEPT ![x].temp = 0]
        BY <1>4 DEF VerifyTemporary
    <2>2. SetDisk(a, d)
        <3>1. disk \in [DrainedChunks -> Place] /\ On(a) = disk[x]
            BY DEF DrainInv, DrainTypeOK, On
        <3>2. CASE On(a).art = 0
            BY <1>2, <2>1, <3>1, <3>2 DEF SetDisk
        <3>3. CASE On(a).art # 0
            <4>1. disk' = [disk EXCEPT ![x] = [disk[x] EXCEPT !.temp = 0]]
                BY <1>2, <2>1, <3>1, <3>3
            <4> QED
                BY <3>1, <3>3, <4>1 DEF SetDisk
        <3> QED
            BY <3>2, <3>3
    <2>3. /\ d \in Place /\ d.temp \in {0, On(a).temp} /\ d.art = On(a).art /\ d.man = On(a).man
          /\ pc = "manifest" => d.temp = 0 /\ d.art # 0
        <3>1. CASE On(a).art = 0
            BY <1>2, <3>1
        <3>2. CASE On(a).art # 0
            BY <1>2, <3>2, NoTemporary
        <3> QED
            BY <3>1, <3>2
    <2>4. pc \in {"manifest", "copy", "check"} /\ pc \in Pcs
        BY DEF Pcs, EarlyPcs, LatePcs
    <2> HIDE DEF d, pc
    <2>5. n1 \in Process /\ n1.chunk = x /\ n1.fd = 0 /\ n1.then = "check"
        BY <1>2 DEF Process
    <2>6. actor' = [actor EXCEPT ![a] = n]
        BY <1>2, <2>1
    <2> HIDE DEF n1
    <2>7. n \in Process /\ n.chunk = x /\ n.fd = 0 /\ n.then = "check" /\ n.pc = pc
        BY <2>4, <2>5 DEF Process, Pcs
    <2> HIDE DEF n
    <2>8. /\ actor' \in [Actors -> Process] /\ actor'[a] = n
          /\ \A b \in Actors : b # a => actor'[b] = actor[b]
        BY <1>2, <2>6, <2>7
    <2>9. WorldGrows(a) /\ disk' \in [DrainedChunks -> Place] /\ disk'[x] = d
        BY <1>1, <2>2, <2>3, TidiesKeeps DEF AtRest
    <2>10. ActorOK(a)'
        BY <1>1, <1>2, <2>1, <2>3, <2>4, <2>7, <2>8, <2>9 DEF ActorOK, AtRest
    <2>11. EntersWell(a)
        BY <1>1, <2>3, <2>4, <2>7, <2>8, <2>9 DEF EntersWell, Early, EarlyPcs, LatePcs
    <2> QED
        BY <1>1, <1>2, <2>1, <2>7, <2>8, <2>9, <2>10, <2>11, GoesKeeps DEF DrainInv, DrainTypeOK
<1> QED
    BY <1>3, <1>4 DEF VerifyTemporary

LEMMA RenameKeeps ==
    ASSUME DrainInv, \A r, s \in Retries : r = s, NEW a \in Actors, RenameTemporary(a)
    PROVE  DrainInv'
<1> DEFINE x == actor[a].chunk
           d1 == [On(a) EXCEPT !.art = On(a).temp]
           d == [d1 EXCEPT !.temp = 0]
<1>1. UNCHANGED <<row, source, inode>> /\ actor[a].pc = "rename"
    BY DEF RenameTemporary
<1>2. /\ x \in DrainedChunks /\ ActorOK(a) /\ On(a) \in Place /\ actor[a].fd = 0
      /\ On(a).temp \in Inodes \cup {0}
    BY <1>1, AtWork DEF AtRest, ActorOK
<1>3. CASE On(a).temp = 0
    BY <1>1, <1>3, WorldStays, ExitKeeps DEF DrainInv, DrainTypeOK, RenameTemporary
<1>4. CASE On(a).temp # 0
    <2>1. /\ SetDisk(a, [On(a) EXCEPT !.art = On(a).temp, !.temp = 0])
          /\ Step(a, "manifest") /\ UNCHANGED drainLock /\ "manifest" \in Pcs
        BY <1>4 DEF RenameTemporary, Pcs, LatePcs
    <2>2. SetDisk(a, d)
        BY <1>2, <2>1 DEF SetDisk
    <2>3. d1 \in Place /\ d1.art = On(a).temp /\ d1.man = On(a).man
        BY <1>2 DEF Place
    <2> HIDE DEF d1
    <2>4. d \in Place /\ d.art = On(a).temp /\ d.man = On(a).man /\ d.temp = 0
        BY <2>3, NoTemporary
    <2> HIDE DEF d
    <2>5. Late(x) => WholeFile(d.art)
        BY <1>1, <1>2, <1>4, <2>4 DEF DrainInv, RenameOK, On
    <2>6. WorldGrows(a) /\ disk' \in [DrainedChunks -> Place] /\ disk'[x] = d
        BY <1>1, <1>2, <1>4, <2>2, <2>4, <2>5, DiskGrows
    <2>7. /\ actor' \in [Actors -> Process] /\ actor'[a].pc = "manifest"
          /\ actor'[a].chunk = x /\ actor'[a].fd = 0
          /\ \A b \in Actors : b # a => actor'[b] = actor[b]
        BY <1>2, <2>1, StepIs
    <2>8. ActorOK(a)'
        BY <1>1, <1>2, <1>4, <2>1, <2>4, <2>6, <2>7 DEF ActorOK, AtRest
    <2>9. EntersWell(a)
        BY <1>1, <2>4, <2>6, <2>7 DEF EntersWell, EarlyPcs, LatePcs
    <2> QED
        BY <1>1, <1>2, <2>1, <2>6, <2>7, <2>8, <2>9, GoesKeeps DEF DrainInv, DrainTypeOK
<1> QED
    BY <1>3, <1>4

LEMMA ManifestKeeps ==
    ASSUME DrainInv, \A r, s \in Retries : r = s, NEW a \in Actors, WriteExternalManifest(a)
    PROVE  DrainInv'
<1> DEFINE x == actor[a].chunk
           d == [On(a) EXCEPT !.man = TRUE]
<1>1. /\ UNCHANGED <<row, source, inode, drainLock>> /\ actor[a].pc = "manifest"
      /\ SetDisk(a, d) /\ Step(a, "verified") /\ "verified" \in Pcs
    BY DEF WriteExternalManifest, Pcs, LatePcs
<1>2. /\ x \in DrainedChunks /\ ActorOK(a) /\ On(a) \in Place /\ actor[a].fd = 0
      /\ On(a).art # 0
    BY <1>1, AtWork DEF AtRest, ActorOK, On
<1>3. d \in Place /\ d.temp = On(a).temp /\ d.art = On(a).art /\ d.man
    BY <1>2 DEF Place
<1> HIDE DEF d
<1>4. WorldGrows(a) /\ disk' \in [DrainedChunks -> Place] /\ disk'[x] = d
    BY <1>1, <1>3, TidiesKeeps DEF AtRest
<1>5. /\ actor' \in [Actors -> Process] /\ actor'[a].pc = "verified"
      /\ actor'[a].chunk = x /\ actor'[a].fd = 0
      /\ \A b \in Actors : b # a => actor'[b] = actor[b]
    BY <1>1, <1>2, StepIs
<1>6. ActorOK(a)'
    BY <1>1, <1>2, <1>3, <1>4, <1>5 DEF ActorOK, AtRest
<1>7. EntersWell(a)
    BY <1>1, <1>5 DEF EntersWell, Later, EarlyPcs, LatePcs
<1> QED
    BY <1>1, <1>2, <1>4, <1>5, <1>6, <1>7, GoesKeeps DEF DrainInv, DrainTypeOK

LEMMA UnlinkKeeps ==
    ASSUME DrainInv, \A r, s \in Retries : r = s, NEW a \in Actors, UnlinkLocal(a)
    PROVE  DrainInv'
<1> DEFINE x == actor[a].chunk
<1>1. /\ UNCHANGED <<row, disk, inode, drainLock>> /\ actor[a].pc = "unlink"
      /\ source' = source \ {x} /\ Step(a, "deleted") /\ "deleted" \in Pcs
    BY DEF UnlinkLocal, Pcs, LatePcs
<1>2. x \in DrainedChunks /\ ActorOK(a) /\ actor[a].fd = 0 /\ Rank(row[x]) >= 6
    BY <1>1, AtWork DEF AtRest, ActorOK
<1>3. /\ actor' \in [Actors -> Process] /\ actor'[a].pc = "deleted"
      /\ actor'[a].chunk = x /\ actor'[a].fd = 0
      /\ \A b \in Actors : b # a => actor'[b] = actor[b]
    BY <1>1, <1>2, StepIs
<1>4. ASSUME NEW c \in DrainedChunks,
             c \notin source \/ (\E b \in Actors : actor[b].pc = "unlink" /\ actor[b].chunk = c)
      PROVE  ExternalCommit(disk[c])'
    BY <1>1, <1>4, ValidatedIsWhole DEF ExternalCommit, WholeFile
<1>5. ASSUME NEW c \in DrainedChunks
      PROVE  row'[c] = "LOCAL_DELETED" => row[c] = "LOCAL_DELETED"
    BY <1>1
<1>6. WorldGrows(a)
    BY <1>1, <1>4, <1>5, RowsKnown DEF WorldGrows, Late
<1>7. ActorOK(a)'
    BY <1>1, <1>2, <1>3 DEF ActorOK, AtRest
<1>8. EntersWell(a)
    BY <1>1, <1>3 DEF EntersWell, Later, EarlyPcs, LatePcs
<1> QED
    BY <1>1, <1>2, <1>3, <1>6, <1>7, <1>8, GoesKeeps DEF DrainInv, DrainTypeOK

LEMMA WriteKeeps ==
    ASSUME DrainInv, \A r, s \in Retries : r = s, NEW a \in Actors, WriteBlock(a)
    PROVE  DrainInv'
<1> DEFINE x == actor[a].chunk
           i == actor[a].fd
           n1 == [actor[a] EXCEPT !.pc = actor[a].then]
           n == [n1 EXCEPT !.fd = 0]
<1>1. /\ UNCHANGED <<row, source, disk, drainLock>> /\ actor[a].pc = "write"
      /\ inode' = [inode EXCEPT ![i] = @ + 1]
      /\ actor' = IF inode[i] + 1 < Whole THEN actor
                  ELSE [actor EXCEPT ![a].pc = actor[a].then, ![a].fd = 0]
    BY DEF WriteBlock
<1>2. /\ x \in DrainedChunks /\ ActorOK(a) /\ actor[a] \in Process /\ i # 0
      /\ actor \in [Actors -> Process] /\ actor[a].then \in {"verifying", "check"}
      /\ inode[i] < Whole
    BY <1>1, AtWork DEF AtRest, ActorOK
<1>3. i \in Inodes /\ inode \in [Inodes -> 0..Whole] /\ inode[i] \in 0..Whole
    BY <1>2 DEF Process, DrainInv, DrainTypeOK
<1>4. /\ inode' \in [Inodes -> 0..Whole] /\ inode'[i] = inode[i] + 1
      /\ \A j \in Inodes : j # i => inode'[j] = inode[j]
    BY <1>1, <1>2, <1>3 DEF Whole
<1>5. ASSUME NEW c \in DrainedChunks,
             c \notin source \/ (\E b \in Actors : actor[b].pc = "unlink" /\ actor[b].chunk = c)
      PROVE  ExternalCommit(disk[c])'
    <2>1. ExternalCommit(disk[c]) /\ disk[c].art \in Inodes \cup {0}
        BY <1>5, ValidatedIsWhole, RowsKnown
    <2>2. disk[c].art \in Inodes /\ disk[c].art # i
        BY <1>2, <1>3, <2>1 DEF ExternalCommit, WholeFile, Whole
    <2>3. inode'[disk[c].art] = inode[disk[c].art]
        BY <1>4, <2>2
    <2> QED
        BY <1>1, <2>1, <2>3 DEF ExternalCommit, WholeFile
<1>6. \A j \in Inodes : inode[j] = Whole => inode'[j] = Whole
    BY <1>2, <1>3, <1>4 DEF Whole
<1>7. WorldGrows(a)
    BY <1>1, <1>5, <1>6, RowsKnown DEF WorldGrows, Late
<1>8. /\ n \in Process /\ n.pc = actor[a].then /\ n.chunk = x /\ n.fd = 0
    <2>1. n1 \in Process /\ n1.pc = actor[a].then /\ n1.chunk = x
        BY <1>2 DEF Process, EarlyPcs
    <2> HIDE DEF n1
    <2> QED
        BY <2>1 DEF Process
<1>9. \A b \in Actors : b # a => actor[b].fd # i
    BY <1>2 DEF DrainInv, FdsOK
<1>10. \A b \in Actors : b # a /\ actor[b].fd # 0 => inode'[actor[b].fd] = inode[actor[b].fd]
    BY <1>4, <1>9 DEF DrainInv, DrainTypeOK, Process
<1>11. \A b \in Actors : b # a /\ b \in Drains /\ actor[b].pc # "off" => drainLock' = b
    BY <1>1 DEF DrainInv, ActorOK
<1>12. CASE inode[i] + 1 < Whole
    <2>1. actor' = actor
        BY <1>1, <1>12
    <2>2. ActorOK(a)'
        BY <1>1, <1>2, <1>4, <1>12, <2>1 DEF ActorOK, AtRest
    <2>3. EntersWell(a)
        BY <1>1, <2>1 DEF EntersWell, Early, EarlyPcs, LatePcs
    <2>4. OthersStay(a)
        BY <1>9, <1>10, <1>11, <2>1 DEF OthersStay
    <2>5. DrainTypeOK'
        BY <1>1, <1>4, <2>1 DEF DrainInv, DrainTypeOK
    <2> QED
        BY <1>7, <2>2, <2>3, <2>4, <2>5, StepKeeps
<1>13. CASE ~(inode[i] + 1 < Whole)
    <2>1. actor' = [actor EXCEPT ![a] = n]
        BY <1>1, <1>2, <1>13
    <2> HIDE DEF n
    <2>2. /\ actor' \in [Actors -> Process] /\ actor'[a] = n
          /\ \A b \in Actors : b # a => actor'[b] = actor[b]
        BY <1>2, <1>8, <2>1
    <2>3. ActorOK(a)'
        BY <1>1, <1>2, <1>8, <2>2 DEF ActorOK, AtRest
    <2>4. EntersWell(a)
        BY <1>1, <1>2, <1>8, <2>2 DEF EntersWell, Early, EarlyPcs, LatePcs
    <2>5. OthersStay(a)
        BY <1>8, <1>10, <1>11, <2>2 DEF OthersStay
    <2>6. DrainTypeOK'
        BY <1>1, <1>4, <2>2 DEF DrainInv, DrainTypeOK
    <2> QED
        BY <1>7, <2>3, <2>4, <2>5, <2>6, StepKeeps
<1> QED
    BY <1>12, <1>13

LEMMA CreateKeeps ==
    ASSUME DrainInv, \A r, s \in Retries : r = s, NEW a \in Actors, CreateTemporary(a)
    PROVE  DrainInv'
<1> DEFINE x == actor[a].chunk
           i == Min(Inodes \ Used)
           d == [On(a) EXCEPT !.temp = i]
           n1 == [actor[a] EXCEPT !.pc = "open"]
           n == [n1 EXCEPT !.fd = i]
<1>1. /\ UNCHANGED <<row, source>> /\ actor[a].pc = "create"
    BY DEF CreateTemporary
<1>2. /\ x \in DrainedChunks /\ ActorOK(a) /\ actor[a] \in Process /\ On(a) \in Place
      /\ actor \in [Actors -> Process] /\ actor[a].then \in {"verifying", "check"}
      /\ actor[a].fd = 0
    BY <1>1, AtWork DEF AtRest, ActorOK
<1>3. CASE On(a).temp # 0
    <2>1. Exits(a) /\ UNCHANGED <<disk, inode>>
        BY <1>3 DEF CreateTemporary
    <2> QED
        BY <1>1, <2>1, WorldStays, ExitKeeps DEF DrainInv, DrainTypeOK
<1>4. CASE On(a).temp = 0
    <2>1. /\ SetDisk(a, d) /\ inode' = [inode EXCEPT ![i] = 0] /\ UNCHANGED drainLock
          /\ actor' = [actor EXCEPT ![a].pc = "open", ![a].fd = i]
        BY <1>4 DEF CreateTemporary
    <2>2. i \in Inodes \ Used
        BY <1>2, InodeIsFree DEF DrainInv
    <2> HIDE DEF i
    <2>3. /\ d \in Place /\ d.temp = i /\ d.art = On(a).art /\ d.man = On(a).man
        BY <1>2, <2>2 DEF Place
    <2> HIDE DEF d
    <2>4. /\ n1 \in Process /\ n1.pc = "open" /\ n1.chunk = x /\ n1.then = actor[a].then
        BY <1>2 DEF Process, EarlyPcs
    <2>5. actor' = [actor EXCEPT ![a] = n]
        BY <1>2, <2>1
    <2> HIDE DEF n1
    <2>6. /\ n \in Process /\ n.pc = "open" /\ n.chunk = x /\ n.fd = i /\ n.then = actor[a].then
        BY <2>2, <2>4 DEF Process
    <2> HIDE DEF n
    <2>7. /\ actor' \in [Actors -> Process] /\ actor'[a] = n
          /\ \A b \in Actors : b # a => actor'[b] = actor[b]
        BY <1>2, <2>5, <2>6
    <2>8. /\ disk' \in [DrainedChunks -> Place] /\ disk'[x] = d
          /\ \A c \in DrainedChunks : c # x => disk'[c] = disk[c]
        BY <1>2, <2>1, <2>3 DEF SetDisk, DrainInv, DrainTypeOK
    <2>9. /\ inode' \in [Inodes -> 0..Whole] /\ inode'[i] = 0
          /\ \A j \in Inodes : j # i => inode'[j] = inode[j]
        BY <2>1, <2>2 DEF DrainInv, DrainTypeOK, Whole
    <2>10. /\ \A c \in DrainedChunks : disk[c].art # i
           /\ \A b \in Actors : actor[b].fd # i
        BY <2>2 DEF Used
    <2>11. \A c \in DrainedChunks :
              disk'[c].art = disk[c].art /\ (disk'[c].man <=> disk[c].man)
        BY <2>3, <2>8 DEF On
    <2>12. ASSUME NEW c \in DrainedChunks,
                  c \notin source \/ (\E b \in Actors : actor[b].pc = "unlink" /\ actor[b].chunk = c)
           PROVE  ExternalCommit(disk[c])'
        <3>1. ExternalCommit(disk[c]) /\ disk[c].art \in Inodes \cup {0}
            BY <2>12, ValidatedIsWhole, RowsKnown
        <3>2. disk[c].art \in Inodes /\ disk[c].art # i
            BY <2>10, <3>1 DEF ExternalCommit, WholeFile
        <3>3. inode'[disk[c].art] = inode[disk[c].art]
            BY <2>9, <3>2
        <3> QED
            BY <2>11, <3>1, <3>3 DEF ExternalCommit, WholeFile
    <2>13. \A j \in Inodes : j \in Used /\ inode[j] = Whole => inode'[j] = Whole
        BY <2>2, <2>9
    <2>14. \A c \in DrainedChunks :
              disk'[c].temp \in {0, disk[c].temp} \/ (actor[a].pc = "create" /\ actor[a].chunk = c)
        BY <1>1, <2>8
    <2>15. WorldGrows(a)
        BY <1>1, <2>11, <2>12, <2>13, <2>14, RowsKnown DEF WorldGrows, Late
    <2>16. \A b \in Actors : b # a /\ actor[b].fd # 0 => inode'[actor[b].fd] = inode[actor[b].fd]
        BY <2>9, <2>10 DEF DrainInv, DrainTypeOK, Process
    <2>17. \A b \in Actors : b # a /\ b \in Drains /\ actor[b].pc # "off" => drainLock' = b
        BY <2>1 DEF DrainInv, ActorOK
    <2>18. OthersStay(a)
        BY <2>6, <2>7, <2>10, <2>16, <2>17 DEF OthersStay
    <2>19. ActorOK(a)'
        <3>1. i # 0
            BY <2>2, <1>2 DEF Used
        <3> QED
            BY <1>1, <1>2, <2>1, <2>6, <2>7, <2>9, <3>1 DEF ActorOK, AtRest, Whole
    <2>20. EntersWell(a)
        BY <1>1, <2>6, <2>7 DEF EntersWell, Early, EarlyPcs, LatePcs
    <2>21. DrainTypeOK'
        BY <1>1, <2>7, <2>8, <2>9 DEF DrainInv, DrainTypeOK
    <2> QED
        BY <2>15, <2>18, <2>19, <2>20, <2>21, StepKeeps
<1> QED
    BY <1>3, <1>4

-----------------------------------------------------------------------------
(* The invariant holds. *)

LEMMA DrainBegins == DrainInit => DrainInv
<1> SUFFICES ASSUME DrainInit PROVE DrainInv
    OBVIOUS
<1>1. Off \in Process /\ Off.pc = "off" /\ Off.fd = 0
    BY DrainAssumption DEF Off, Process, AtRest
<1> DEFINE d == [temp |-> 0, art |-> 0, man |-> FALSE]
<1>2. d \in Place /\ d.temp = 0 /\ d.art = 0
    BY DEF Place
<1>3. /\ row = [c \in DrainedChunks |-> "OPEN"] /\ source = DrainedChunks
      /\ disk = [c \in DrainedChunks |-> d] /\ inode = [i \in Inodes |-> 0]
      /\ actor = [a \in Actors |-> Off]
    BY DEF DrainInit
<1> HIDE DEF d
<1>4. \A a \in Actors : actor[a].pc = "off" /\ actor[a].fd = 0
    BY <1>1, <1>3
<1>5. DrainTypeOK
    BY <1>1, <1>2, <1>3 DEF DrainTypeOK, RowNames, Whole
<1>6. \A c \in DrainedChunks : Rank(row[c]) = 1 /\ row[c] = "OPEN" /\ c \in source
    BY <1>3, RankIs
<1>7. FdsOK /\ OneEarly /\ RenameOK
    BY <1>4 DEF FdsOK, OneEarly, RenameOK, Early, EarlyPcs
<1>8. \A a \in Actors : ActorOK(a)
    BY <1>4 DEF ActorOK, AtRest
<1>9. \A c \in DrainedChunks : ChunkOK(c)
    BY <1>6 DEF ChunkOK
<1> QED
    BY <1>5, <1>7, <1>8, <1>9 DEF DrainInv

LEMMA DrainSteps ==
    ASSUME \A r, s \in Retries : r = s, DrainInv, [DrainNext]_drainVars
    PROVE  DrainInv'
<1>1. CASE UNCHANGED drainVars
    BY <1>1, SameKeeps DEF drainVars
<1>2. ASSUME NEW c \in DrainedChunks, SealNext(c) PROVE DrainInv'
    BY <1>2, SealKeeps
<1>3. ASSUME NEW state \in {"READY", "LOW_SPACE", "ABSENT"}, TargetChanges(state)
      PROVE  DrainInv'
    BY <1>3, SameKeeps DEF TargetChanges, Files0
<1>4. ASSUME NEW a \in Actors,
             \/ StartDrain(a) \/ StartRetry(a) \/ ReadTarget(a) \/ NextTransaction(a)
             \/ ReserveChunk(a) \/ AdvanceRow(a) \/ RunOnceReturns(a)
             \/ AttemptDies(a) \/ SignalDrain(a)
      PROVE  DrainInv'
    BY <1>4, StartsKeep, TargetKeeps, FindKeeps, ReserveKeeps, AdvanceKeeps, ReturnsKeeps,
       FaultsKeep
<1>5. ASSUME NEW a \in Actors,
             \/ PrepareCopy(a) \/ CreateTemporary(a) \/ OpenSource(a) \/ WriteBlock(a)
             \/ VerifyTemporary(a) \/ CheckTemporary(a) \/ RenameTemporary(a)
      PROVE  DrainInv'
    BY <1>5, PrepareKeeps, CreateKeeps, OpenKeeps, WriteKeeps, ReadBackKeeps,
       CheckKeeps, RenameKeeps
<1>6. ASSUME NEW a \in Actors,
             \/ CommitCopied(a) \/ WriteExternalManifest(a) \/ CommitVerifiedRow(a)
             \/ CommitPendingRow(a) \/ ValidateCommit(a) \/ UnlinkLocal(a)
             \/ CommitDeletedRow(a)
      PROVE  DrainInv'
    BY <1>6, CommitsKeep, ManifestKeeps, OpenKeeps, UnlinkKeeps
<1> QED
    BY <1>1, <1>2, <1>3, <1>4, <1>5, <1>6 DEF DrainNext

\* Any number of drains and one retry, for every number of chunks, files and faults: a
\* source is unlinked, and a row says LOCAL_DELETED, only when the artifact is whole and
\* has its manifest, and it stays whole after that, although the retry does not take the
\* lock of the drains (_copy, _verify_and_commit_external, _validate_external_commit).
THEOREM OneRetryIsSafe ==
    (\A r, s \in Retries : r = s) => (DrainSpec => []SourceGoesOnlyForWhole)
<1> SUFFICES ASSUME \A r, s \in Retries : r = s
             PROVE  DrainSpec => []SourceGoesOnlyForWhole
    OBVIOUS
<1>1. DrainInit => DrainInv
    BY DrainBegins
<1>2. DrainInv /\ [DrainNext]_drainVars => DrainInv'
    BY DrainSteps
<1>3. DrainInv => SourceGoesOnlyForWhole
    BY DEF DrainInv, ChunkOK, SourceGoesOnlyForWhole, ExternalCommit
<1> QED
    BY <1>1, <1>2, <1>3, PTL DEF DrainSpec
=============================================================================
