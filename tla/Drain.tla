------------------------------- MODULE Drain --------------------------------
(***************************************************************************)
(* Several archive managers at work on one target: archive_drain           *)
(* (archive/drain), which a timer starts and a lock file makes exclusive,  *)
(* and archive retry (cli), which runs ArchiveManager.run_once without     *)
(* that lock.  Both take the oldest transaction, and the name of its       *)
(* temporary file is the same for everyone.                                *)
(*                                                                         *)
(* Module Archive has one manager, and power losses; this module has many, *)
(* and the files as inodes: one that another manager has unlinked or       *)
(* renamed is still written by whoever has it open.                        *)
(***************************************************************************)
EXTENDS Integers, Sequences, FiniteSets, FiniteSetsExt

CONSTANTS Drains, Retries,   \* processes of the two commands
          DrainChunks,       \* bound: chunks that are sealed
          MaxFiles,          \* --max-files
          MaxDrainFaults     \* bound: kills, signals and changes of the volume

ASSUME DrainAssumption ==
    /\ Drains \intersect Retries = {} /\ IsFiniteSet(Drains) /\ IsFiniteSet(Retries)
    /\ "nobody" \notin Drains \union Retries
    /\ DrainChunks \in Nat \ {0} /\ MaxFiles \in Nat \ {0}

VARIABLES row,       \* state of every chunk and of its archive transaction
          source,    \* chunks whose sealed file is there
          disk,      \* per chunk: the inodes of temporary and artifact, and the manifest
          inode,     \* how many blocks every inode has
          actor,     \* the processes
          drainLock, \* owner of archive_drain.lock
          volume,    \* state of the target
          drainFaults

drainVars == <<row, source, disk, inode, actor, drainLock, volume, drainFaults>>

Actors == Drains \union Retries
DrainedChunks == 1..DrainChunks
Nobody0 == "nobody"

\* The states a chunk passes, in order.
RowStates == <<"OPEN", "SEALED", "COPYING", "VERIFYING", "VERIFIED", "LOCAL_DELETE_PENDING",
               "LOCAL_DELETED">>
Rank(state) == CHOOSE n \in DOMAIN RowStates : RowStates[n] = state

Whole == 2       \* blocks of a sealed file
Inodes == 1..(2 * DrainChunks + Cardinality(Actors))

Off == [pc |-> "off", chunk |-> 0, fd |-> 0, then |-> "off", files |-> 0, stop |-> FALSE]

DrainInit ==
    /\ row = [c \in DrainedChunks |-> "OPEN"]
    /\ source = DrainedChunks
    /\ disk = [c \in DrainedChunks |-> [temp |-> 0, art |-> 0, man |-> FALSE]]
    /\ inode = [i \in Inodes |-> 0]
    /\ actor = [a \in Actors |-> Off]
    /\ drainLock = Nobody0 /\ volume = "READY" /\ drainFaults = 0

SealNext(c) ==
    /\ row[c] = "OPEN" /\ \A b \in 1..(c - 1) : row[b] # "OPEN"
    /\ row' = [row EXCEPT ![c] = "SEALED"]
    /\ UNCHANGED <<source, disk, inode, actor, drainLock, volume, drainFaults>>

(***************************************************************************)
(* What a process does at its end, and when an exception is raised.        *)
(***************************************************************************)
Step(a, pc) == actor' = [actor EXCEPT ![a].pc = pc]
Files0 == UNCHANGED <<source, disk, inode>>
World0 == UNCHANGED <<volume, drainFaults>>

\* The lock is released in a finally block, or by the end of the process.
Released(a) == drainLock' = IF drainLock = a THEN Nobody0 ELSE drainLock
Exits(a) == actor' = [actor EXCEPT ![a] = Off] /\ Released(a)

\* run_once has returned; a drain goes on unless a bound or a signal ends it.  The
\* deadline may have passed.
RunReturns(a) ==
    \/ Exits(a)
    \/ /\ a \in Drains /\ actor[a].files + 1 < MaxFiles /\ ~actor[a].stop
       /\ actor' = [actor EXCEPT ![a] = [Off EXCEPT !.pc = "next", !.files = actor[a].files + 1]]
       /\ UNCHANGED drainLock

\* Idempotent by its key: a transition that was made before changes nothing.
Transition(c, to) ==
    row' = [row EXCEPT ![c] = IF Rank(to) > Rank(row[c]) THEN to ELSE @]

(***************************************************************************)
(* The commands.                                                           *)
(***************************************************************************)
\* A drain that does not get the lock reports ALREADY_RUNNING and ends.
StartDrain(a) ==
    /\ a \in Drains /\ actor[a].pc = "off" /\ drainLock = Nobody0
    /\ drainLock' = a
    /\ Step(a, "target")
    /\ Files0 /\ World0 /\ UNCHANGED row

\* _select_archive_target, without the lock.
StartRetry(a) ==
    /\ a \in Retries /\ actor[a].pc = "off" /\ volume = "READY"
    /\ Step(a, "next")
    /\ Files0 /\ World0 /\ UNCHANGED <<row, drainLock>>

\* The state of the target is read once.
ReadTarget(a) ==
    /\ actor[a].pc = "target"
    /\ IF volume = "READY" THEN Step(a, "next") /\ UNCHANGED drainLock ELSE Exits(a)
    /\ Files0 /\ World0 /\ UNCHANGED row

InFlight == {c \in DrainedChunks : Rank(row[c]) \in 3..6}
Unowned == {c \in DrainedChunks : row[c] = "SEALED"}
Backlog == InFlight \union Unowned

\* The oldest transaction, else the oldest sealed chunk, else BACKLOG_EMPTY.
NextTransaction(a) ==
    /\ actor[a].pc = "next"
    /\ IF Backlog = {} \/ actor[a].stop THEN Exits(a)
       ELSE /\ actor' = [actor EXCEPT
                ![a].chunk = IF InFlight # {} THEN Min(InFlight) ELSE Min(Unowned),
                ![a].pc = IF InFlight # {} THEN "advance" ELSE "reserve"]
            /\ UNCHANGED drainLock
    /\ Files0 /\ World0 /\ UNCHANGED row

\* The row that another manager has reserved by now is returned as it is.
ReserveChunk(a) ==
    /\ actor[a].pc = "reserve"
    /\ IF actor[a].chunk \in source
       THEN Transition(actor[a].chunk, "COPYING") /\ Step(a, "advance") /\ UNCHANGED drainLock
       ELSE Exits(a) /\ UNCHANGED row
    /\ Files0 /\ World0

EntryOf == [COPYING |-> "copy", VERIFYING |-> "verify", VERIFIED |-> "pending",
            LOCAL_DELETE_PENDING |-> "validate", LOCAL_DELETED |-> "done"]

\* _run_transaction and the first read of _advance.
AdvanceRow(a) ==
    /\ actor[a].pc = "advance"
    /\ actor' = [actor EXCEPT ![a].pc = EntryOf[row[actor[a].chunk]], ![a].then = "verifying"]
    /\ Files0 /\ World0 /\ UNCHANGED <<row, drainLock>>

(***************************************************************************)
(* The files of a transaction.                                             *)
(***************************************************************************)
On(a) == disk[actor[a].chunk]
WholeFile(i) == i # 0 /\ inode[i] = Whole
SetDisk(a, d) == disk' = [disk EXCEPT ![actor[a].chunk] = d]

\* _copy before the file is made: the source is valid, an artifact ends it, a temporary
\* file is removed, whoever writes it.
PrepareCopy(a) ==
    /\ actor[a].pc = "copy"
    /\ IF actor[a].chunk \notin source \/ (On(a).art # 0 /\ ~WholeFile(On(a).art))
       THEN Exits(a) /\ UNCHANGED disk
       ELSE /\ SetDisk(a, [On(a) EXCEPT !.temp = 0])
            /\ Step(a, IF On(a).art # 0 THEN actor[a].then ELSE "create")
            /\ UNCHANGED drainLock
    /\ World0 /\ UNCHANGED <<row, source, inode>>

Used == {disk[c].temp : c \in DrainedChunks} \union {disk[c].art : c \in DrainedChunks}
            \union {actor[a].fd : a \in Actors}

\* O_EXCL: a file made by another manager in between raises.
CreateTemporary(a) ==
    /\ actor[a].pc = "create"
    /\ LET i == Min(Inodes \ Used)
       IN  IF On(a).temp # 0 THEN Exits(a) /\ UNCHANGED <<disk, inode>>
           ELSE /\ SetDisk(a, [On(a) EXCEPT !.temp = i])
                /\ inode' = [inode EXCEPT ![i] = 0]
                /\ actor' = [actor EXCEPT ![a].pc = "open", ![a].fd = i]
                /\ UNCHANGED drainLock
    /\ World0 /\ UNCHANGED <<row, source>>

\* The source is opened after the temporary file was made; from here on it can be read
\* to its end.
OpenSource(a) ==
    /\ actor[a].pc = "open"
    /\ IF actor[a].chunk \in source THEN Step(a, "write") /\ UNCHANGED drainLock ELSE Exits(a)
    /\ Files0 /\ World0 /\ UNCHANGED row

\* One block, through the descriptor.
WriteBlock(a) ==
    /\ actor[a].pc = "write"
    /\ inode' = [inode EXCEPT ![actor[a].fd] = @ + 1]
    /\ actor' = IF inode[actor[a].fd] + 1 < Whole THEN actor
                ELSE [actor EXCEPT ![a].pc = actor[a].then, ![a].fd = 0]
    /\ World0 /\ UNCHANGED <<row, source, disk, drainLock>>

CommitCopied(a) ==
    /\ actor[a].pc = "verifying"
    /\ Transition(actor[a].chunk, "VERIFYING") /\ Step(a, "verify")
    /\ Files0 /\ World0 /\ UNCHANGED drainLock

\* _verify_and_commit_external: an artifact is validated, a lost temporary file is
\* copied again, any other is read back.
VerifyTemporary(a) ==
    /\ actor[a].pc = "verify"
    /\ IF actor[a].chunk \notin source \/ (On(a).art # 0 /\ ~WholeFile(On(a).art))
       THEN Exits(a) /\ UNCHANGED disk
       ELSE /\ actor' = [actor EXCEPT ![a].then = "check",
                  ![a].pc = IF On(a).art # 0 THEN "manifest"
                            ELSE IF On(a).temp = 0 THEN "copy" ELSE "check"]
            /\ disk' = IF On(a).art = 0 THEN disk
                       ELSE [disk EXCEPT ![actor[a].chunk].temp = 0]
            /\ UNCHANGED drainLock
    /\ World0 /\ UNCHANGED <<row, source, inode>>

CheckTemporary(a) ==
    /\ actor[a].pc = "check"
    /\ IF WholeFile(On(a).temp) THEN Step(a, "rename") /\ UNCHANGED <<disk, drainLock>>
       ELSE SetDisk(a, [On(a) EXCEPT !.temp = 0]) /\ Exits(a)
    /\ World0 /\ UNCHANGED <<row, source, inode>>

\* os.replace takes whatever file has the name by now.
RenameTemporary(a) ==
    /\ actor[a].pc = "rename"
    /\ IF On(a).temp = 0 THEN Exits(a) /\ UNCHANGED disk
       ELSE /\ SetDisk(a, [On(a) EXCEPT !.art = On(a).temp, !.temp = 0])
            /\ Step(a, "manifest") /\ UNCHANGED drainLock
    /\ World0 /\ UNCHANGED <<row, source, inode>>

WriteExternalManifest(a) ==
    /\ actor[a].pc = "manifest"
    /\ SetDisk(a, [On(a) EXCEPT !.man = TRUE])
    /\ Step(a, "verified")
    /\ World0 /\ UNCHANGED <<row, source, inode, drainLock>>

CommitVerifiedRow(a) ==
    /\ actor[a].pc = "verified"
    /\ Transition(actor[a].chunk, "VERIFIED") /\ Step(a, "pending")
    /\ Files0 /\ World0 /\ UNCHANGED drainLock

CommitPendingRow(a) ==
    /\ actor[a].pc = "pending"
    /\ Transition(actor[a].chunk, "LOCAL_DELETE_PENDING") /\ Step(a, "validate")
    /\ Files0 /\ World0 /\ UNCHANGED drainLock

\* The mutant trusts the manifest that the same attempt has just written.
ManifestIsEnough(d) == d.man

\* _validate_external_commit reads artifact and manifest once more.
ExternalCommit(d) == d.man /\ WholeFile(d.art)

ValidateCommit(a) ==
    /\ actor[a].pc = "validate"
    /\ IF ExternalCommit(On(a)) THEN Step(a, "unlink") /\ UNCHANGED drainLock ELSE Exits(a)
    /\ Files0 /\ World0 /\ UNCHANGED row

UnlinkLocal(a) ==
    /\ actor[a].pc = "unlink"
    /\ source' = source \ {actor[a].chunk}
    /\ Step(a, "deleted")
    /\ World0 /\ UNCHANGED <<row, disk, inode, drainLock>>

CommitDeletedRow(a) ==
    /\ actor[a].pc = "deleted"
    /\ Transition(actor[a].chunk, "LOCAL_DELETED") /\ Step(a, "done")
    /\ Files0 /\ World0 /\ UNCHANGED drainLock

RunOnceReturns(a) ==
    /\ actor[a].pc = "done"
    /\ RunReturns(a)
    /\ Files0 /\ World0 /\ UNCHANGED row

(***************************************************************************)
(* Faults.                                                                 *)
(***************************************************************************)
DrainFault == drainFaults < MaxDrainFaults /\ drainFaults' = drainFaults + 1

\* A kill, or an error of the volume that ends the attempt: the file that was open stays.
AttemptDies(a) ==
    /\ DrainFault /\ actor[a].pc # "off"
    /\ Exits(a)
    /\ Files0 /\ UNCHANGED <<row, volume>>

SignalDrain(a) ==
    /\ DrainFault /\ a \in Drains /\ actor[a].pc # "off" /\ ~actor[a].stop
    /\ actor' = [actor EXCEPT ![a].stop = TRUE]
    /\ Files0 /\ UNCHANGED <<row, drainLock, volume>>

TargetChanges(state) ==
    /\ DrainFault /\ volume # state
    /\ volume' = state
    /\ Files0 /\ UNCHANGED <<row, actor, drainLock>>

DrainNext ==
    \/ \E c \in DrainedChunks : SealNext(c)
    \/ \E a \in Actors :
          \/ StartDrain(a) \/ StartRetry(a) \/ ReadTarget(a) \/ NextTransaction(a)
          \/ ReserveChunk(a) \/ AdvanceRow(a) \/ PrepareCopy(a) \/ CreateTemporary(a)
          \/ OpenSource(a) \/ WriteBlock(a) \/ CommitCopied(a) \/ VerifyTemporary(a) \/ CheckTemporary(a)
          \/ RenameTemporary(a) \/ WriteExternalManifest(a) \/ CommitVerifiedRow(a)
          \/ CommitPendingRow(a) \/ ValidateCommit(a) \/ UnlinkLocal(a) \/ CommitDeletedRow(a)
          \/ RunOnceReturns(a) \/ AttemptDies(a) \/ SignalDrain(a)
    \/ \E state \in {"READY", "LOW_SPACE", "ABSENT"} : TargetChanges(state)

DrainSpec == DrainInit /\ [][DrainNext]_drainVars

\* verify_all: what it reports of a chunk whose row says that it was verified.
VerifyAll(c) == IF ExternalCommit(disk[c]) THEN "VERIFIED" ELSE "FAILED"

(***************************************************************************)
(* Properties.                                                             *)
(***************************************************************************)
\* However a drain and a retry get into each other's way (one unlinks, renames or
\* publishes the file that the other one is still writing), a source goes only when the
\* artifact is whole and has its manifest, and the artifact stays whole after it (_copy,
\* _verify_and_commit_external, _validate_external_commit).  It holds for two managers,
\* and not for three.
SourceGoesOnlyForWhole ==
    \A c \in DrainedChunks :
        c \notin source \/ row[c] = "LOCAL_DELETED" => disk[c].man /\ WholeFile(disk[c].art)

\* The promise of ADR 0015: the verified transition is committed only after the final
\* artifact is in place, so that archive verify finds it.  Two managers without a common
\* lock break it (RenameTemporary, DrainVerified.cfg).
VerifiedIsWhole ==
    \A c \in DrainedChunks : Rank(row[c]) >= Rank("VERIFIED") => VerifyAll(c) = "VERIFIED"

=============================================================================
