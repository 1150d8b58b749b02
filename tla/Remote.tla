------------------------------- MODULE Remote -------------------------------
(***************************************************************************)
(* Remote archiving of sealed Raw chunks: a client pulls a chunk from the  *)
(* host of the Recorder onto its own medium (archive/remote_session.py,    *)
(* archive/remote_receive.py), and the host deletes the source under the   *)
(* receipt of that copy (archive/remote_authorization.py,                  *)
(* archive/remote_delete.py, storage/catalog/archive_ops.py).              *)
(*                                                                         *)
(* A session is one run_one with an identity of its own, and so is its     *)
(* receipt.  Every verb it sends runs as a process on the host, here a     *)
(* job; a client that times out leaves the job running.  Startup recovery  *)
(* and the operator run jobs too.  Each step of a job or a session lies    *)
(* between two durable effects, and either host may fail after any step.   *)
(***************************************************************************)
EXTENDS Naturals

CONSTANTS
    Chunks,      \* sealed chunks of the host
    NoChunk,     \* no source selected
    Sessions,    \* run_one calls, each with a receipt of its own
    Deleting,    \* the calls with delete=True
    NoSession,   \* no receipt
    Jobs,        \* processes the host can run at a time
    NoJob,       \* the session waits for no process
    MaxFaults    \* bound on timeouts, kills, failed reads and power losses

ASSUME NoneAssumption == NoChunk \notin Chunks /\ NoSession \notin Sessions /\ NoJob \notin Jobs
ASSUME DeletingAssumption == Deleting \subseteq Sessions
ASSUME FaultAssumption == MaxFaults \in Nat

VARIABLES
    src,      \* data/sealed of the host
    remote,   \* remote_archive_transactions: one row per chunk at most
    local,    \* archive_transactions: same-host ownership
    med,      \* the client's medium: artifact, manifest, Archive Set entry
    rec,      \* receipts on the medium
    ses,      \* the sessions
    jobs,     \* the processes on the host
    faults

host == <<src, remote, local>>
medium == <<med, rec>>
vars == <<src, remote, local, med, rec, ses, jobs, faults>>

-----------------------------------------------------------------------------
(* Files.  A published file was fsynced under its temporary name; it is    *)
(* "cached" until its directory is fsynced.  "unlinked" is an unlink whose *)
(* directory is not fsynced.                                               *)

Fact == {"none", "cached", "durable"}
SourceFile == {"here", "unlinked", "gone"}

\* `by` is the session whose verified_at_utc_ns the archive manifest holds,
\* `bound` the one of the manifest whose hash the Archive Set entry holds.
Medium == [raw : Fact, man : Fact, by : Sessions \cup {NoSession},
           ent : Fact, bound : Sessions \cup {NoSession}]

\* _publish_no_clobber: a destination that exists is kept.
Publish(f) == IF f = "none" THEN "cached" ELSE f

\* fsync_directory, for one file of the directory.
FsyncDirectory(f) == IF f = "cached" THEN "durable" ELSE f

\* What a power loss leaves of a file.
AfterLoss(f) == IF f = "cached" THEN {"none", "durable"} ELSE {f}

\* os.fsync of data/sealed writes every unlink in it.
SyncedSealed == [c \in Chunks |-> IF src[c] = "unlinked" THEN "gone" ELSE src[c]]

\* The chain a receipt stands for: Raw, archive manifest, Archive Set entry.
Chain(m) == m.raw = "durable" /\ m.man = "durable" /\ m.ent = "durable" /\ m.bound = m.by

-----------------------------------------------------------------------------
(* The Catalog of the host.  Commits on the remote tables are FULL, and    *)
(* make every earlier commit durable; the same-host reservation is not:    *)
(* "cached" until then.                                                    *)

Row == [ses : Sessions \cup {NoSession}, st : {"NONE", "PENDING", "DELETED"}]
NoRow == [ses |-> NoSession, st |-> "NONE"]

\* remote_archive_transaction: the row of a receipt.
RowOf(s) == IF ses[s].chunk # NoChunk /\ remote[ses[s].chunk].ses = s
            THEN remote[ses[s].chunk] ELSE NoRow

\* select_chunk: SEALED, no owner, an intact source.
Selectable(c) == local[c] = "none" /\ remote[c] = NoRow /\ src[c] = "here"

CommitRow(c, row) == /\ remote' = [remote EXCEPT ![c] = row]
                     /\ local' = [d \in Chunks |-> FsyncDirectory(local[d])]

\* reserve_remote_archive_transaction: free, or exactly this pending receipt.
Reservable(s, c) == /\ local[c] = "none"
                    /\ remote[c] \in {NoRow, [ses |-> s, st |-> "PENDING"]}

\* reserve_archive_transaction of the same-host archive (module Archive).
ReserveArchive(c) == /\ local[c] = "none" /\ remote[c] = NoRow /\ src[c] = "here"
                     /\ local' = [local EXCEPT ![c] = "cached"]
                     /\ UNCHANGED <<src, remote, med, rec, ses, jobs, faults>>

-----------------------------------------------------------------------------
(* The session on the client. *)

SessionPc == {"idle", "raw", "rawsync", "man", "mansync", "ent", "entsync", "rec", "recsync",
              "call", "wait", "inspect", "done", "failed"}

Session == [pc : SessionPc, chunk : Chunks \cup {NoChunk}, delete : BOOLEAN,
            verb : {"authorize", "delete"}, try : {1, 2}, job : Jobs \cup {NoJob}]

NewSession(s) == [pc |-> "idle", chunk |-> NoChunk, delete |-> s \in Deleting,
                  verb |-> "authorize", try |-> 1, job |-> NoJob]

Ends(r, pc) == [r EXCEPT !.pc = pc, !.verb = "authorize", !.try = 1, !.job = NoJob]

\* The session alone moves, to pc, with the medium as given by its action.
Steps(s, pc) == /\ ses' = [ses EXCEPT ![s].pc = pc]
                /\ UNCHANGED <<src, remote, local, jobs, faults>>

\* run_one, select_oldest_source: any source of no owner; a source that fails
\* its validation ends the session.
SelectSource(s) ==
    /\ ses[s].pc = "idle"
    /\ \E c \in Chunks :
          /\ Selectable(c)
          /\ ses' = [ses EXCEPT ![s].pc = "raw", ![s].chunk = c]
    /\ UNCHANGED <<src, remote, local, med, rec, jobs, faults>>

\* _commit_raw: keep the artifact that is there, or pull, fsync, read back and
\* publish it; the host's verb raw selects the chunk again.
CommitRaw(s) ==
    LET c == ses[s].chunk IN
    /\ ses[s].pc = "raw"
    /\ \/ /\ med[c].raw # "none" \/ Selectable(c)
          /\ med' = [med EXCEPT ![c].raw = Publish(@)]
          /\ Steps(s, "rawsync")
       \/ /\ med[c].raw = "none" /\ ~Selectable(c)
          /\ Steps(s, "failed") /\ UNCHANGED med
    /\ UNCHANGED rec

SyncRaw(s) ==
    /\ ses[s].pc = "rawsync"
    /\ med' = [c \in Chunks |-> [med[c] EXCEPT !.raw = FsyncDirectory(@)]]
    /\ Steps(s, "man") /\ UNCHANGED rec

\* _commit_archive_manifest: the manifest that is there wins.
CommitArchiveManifest(s) ==
    LET c == ses[s].chunk IN
    /\ ses[s].pc = "man"
    /\ med' = [med EXCEPT ![c] = [@ EXCEPT !.man = Publish(med[c].man),
                                           !.by = IF med[c].man = "none" THEN s ELSE med[c].by]]
    /\ Steps(s, "mansync") /\ UNCHANGED rec

SyncManifest(s) ==
    /\ ses[s].pc = "mansync"
    /\ med' = [c \in Chunks |-> [med[c] EXCEPT !.man = FsyncDirectory(@)]]
    /\ Steps(s, "ent") /\ UNCHANGED rec

\* commit_entry: an entry that is there must be the same, hash of the archive
\* manifest included.
CommitEntry(s) ==
    LET c == ses[s].chunk IN
    /\ ses[s].pc = "ent"
    /\ \/ /\ med[c].ent = "none" \/ med[c].bound = med[c].by
          /\ med' = [med EXCEPT ![c] = [@ EXCEPT !.ent = Publish(med[c].ent),
                                                 !.bound = med[c].by]]
          /\ Steps(s, "entsync")
       \/ /\ med[c].ent # "none" /\ med[c].bound # med[c].by
          /\ Steps(s, "failed") /\ UNCHANGED med
    /\ UNCHANGED rec

SyncEntries(s) ==
    /\ ses[s].pc = "entsync"
    /\ med' = [c \in Chunks |-> [med[c] EXCEPT !.ent = FsyncDirectory(@)]]
    /\ Steps(s, "rec") /\ UNCHANGED rec

\* _commit_receipt: the receipt of this session is new.
CommitReceipt(s) ==
    /\ ses[s].pc = "rec"
    /\ rec' = [rec EXCEPT ![s] = Publish(@)]
    /\ Steps(s, "recsync") /\ UNCHANGED med

\* Mutant: the receipt is used before its directory is fsynced.
ReceiptUsedEarly(s) == /\ ses[s].pc = "recsync"
                       /\ Steps(s, "call") /\ UNCHANGED medium

\* fsync of receipts/, then revalidate_remote_archive_receipt reads the whole
\* chain back before the receipt is used.
RevalidateReceipt(s) ==
    LET m == med[ses[s].chunk] IN
    /\ ses[s].pc = "recsync"
    /\ rec' = [t \in Sessions |-> FsyncDirectory(rec[t])]
    /\ Steps(s, IF m.raw # "none" /\ m.man # "none" /\ m.ent # "none" /\ m.bound = m.by
                THEN "call" ELSE "failed")
    /\ UNCHANGED med

\* What run_one does with the authority it is told of.
Accepted(r, st) ==
    IF r.verb = "authorize" /\ r.delete /\ st = "PENDING"
    THEN [r EXCEPT !.pc = "call", !.verb = "delete", !.try = 1, !.job = NoJob]
    ELSE Ends(r, IF r.delete /\ st # "DELETED" THEN "failed" ELSE "done")

\* RemoteTransportError: ask the host what it knows.
Failed(r) == [r EXCEPT !.pc = "inspect", !.job = NoJob]

Again(r) == IF r.try = 1 THEN [r EXCEPT !.pc = "call", !.try = 2] ELSE Ends(r, "failed")

\* Mutant: a delete that was authorised counts as done.
PendingIsEnough(r, st) == IF st = "NONE" THEN Again(r) ELSE Ends(r, "done")

\* _authorize_same_identity and _delete_same_receipt, after inspect_authority.
Inspected(r, st) ==
    IF r.verb = "authorize"
    THEN IF st = "NONE" THEN Again(r) ELSE Accepted(r, st)
    ELSE IF st = "PENDING" THEN Again(r) ELSE Ends(r, IF st = "NONE" THEN "failed" ELSE "done")

InspectAuthority(s) ==
    /\ ses[s].pc = "inspect"
    /\ ses' = [ses EXCEPT ![s] = Inspected(@, RowOf(s).st)]
    /\ UNCHANGED <<src, remote, local, med, rec, jobs, faults>>

-----------------------------------------------------------------------------
(* Processes of the host. *)

JobPc == {"free", "select", "reserve", "load", "validate", "unlink", "sync", "absent",
          "terminal", "commit", "observe"}

Job == [pc : JobPc, ses : Sessions \cup {NoSession}]
Free == [pc |-> "free", ses |-> NoSession]

Starts(j, s, pc) == /\ jobs[j] = Free
                    /\ jobs' = [jobs EXCEPT ![j] = [pc |-> pc, ses |-> s]]

JobSteps(j, pc) == jobs' = [jobs EXCEPT ![j].pc = pc] /\ UNCHANGED ses

\* The process ends; its answer, "NONE" for an error, reaches the session if
\* it still waits.
Answer(j, st) ==
    LET s == jobs[j].ses IN
    /\ jobs' = [jobs EXCEPT ![j] = Free]
    /\ ses' = IF ses[s].pc = "wait" /\ ses[s].job = j
              THEN [ses EXCEPT ![s] = IF st = "NONE" THEN Failed(@) ELSE Accepted(@, st)]
              ELSE ses

At(j, pc) == /\ jobs[j].pc = pc
             /\ UNCHANGED <<med, rec, faults>>

\* authorize_receipt, delete_authorized: start the verb over OpenSSH.
Call(s, j) ==
    /\ ses[s].pc = "call"
    /\ Starts(j, s, IF ses[s].verb = "authorize" THEN "select" ELSE "load")
    /\ ses' = [ses EXCEPT ![s] = [@ EXCEPT !.pc = "wait", !.job = j]]
    /\ UNCHANGED <<src, remote, local, med, rec, faults>>

\* Verb delete, run again by an operator for a receipt that is pending.
Retry(s, j) ==
    /\ RowOf(s).st = "PENDING" /\ Starts(j, s, "load")
    /\ UNCHANGED <<src, remote, local, med, rec, ses, faults>>

\* A start of the service looks at every remote row (reconcile_sealed); a
\* terminal one is left alone.
Recover(s, j) ==
    /\ RowOf(s).st = "PENDING" /\ Starts(j, s, "observe")
    /\ UNCHANGED <<src, remote, local, med, rec, ses, faults>>

\* Verb authorize up to its transaction: select_chunk and the revalidation.
AuthorizeSelect(j) ==
    /\ At(j, "select") /\ UNCHANGED host
    /\ \/ Selectable(ses[jobs[j].ses].chunk) /\ JobSteps(j, "reserve")
       \/ ~Selectable(ses[jobs[j].ses].chunk) /\ Answer(j, "NONE")

ReserveRemote(j) ==
    LET s == jobs[j].ses
        c == ses[s].chunk
    IN /\ At(j, "reserve") /\ UNCHANGED src
       /\ \/ /\ Reservable(s, c)
             /\ CommitRow(c, [ses |-> s, st |-> "PENDING"]) /\ Answer(j, "PENDING")
          \/ ~Reservable(s, c) /\ Answer(j, "NONE") /\ UNCHANGED <<remote, local>>

\* _load_authority: the row, a SEALED chunk, no same-host ownership, and the
\* retained manifest; "NONE" if it raises.
LoadAuthority(s) == IF local[ses[s].chunk] = "none" THEN RowOf(s).st ELSE "NONE"

\* delete_authorized: the authority, then the leaf.
DeleteLoad(j) ==
    LET s == jobs[j].ses
        here == src[ses[s].chunk] = "here"
    IN /\ At(j, "load") /\ UNCHANGED host
       /\ \/ LoadAuthority(s) = "NONE" /\ Answer(j, "NONE")
          \/ LoadAuthority(s) = "DELETED" /\ Answer(j, IF here THEN "NONE" ELSE "DELETED")
          \/ LoadAuthority(s) = "PENDING" /\ JobSteps(j, IF here THEN "validate" ELSE "absent")

\* fsync of the parent, _validate_held_raw, _require_unchanged_pending and the
\* identity of the leaf.
DeleteValidate(j) ==
    LET s == jobs[j].ses IN
    /\ At(j, "validate")
    /\ src' = SyncedSealed /\ UNCHANGED <<remote, local>>
    /\ IF LoadAuthority(s) = "PENDING" /\ src[ses[s].chunk] = "here"
       THEN JobSteps(j, "unlink") ELSE Answer(j, "NONE")

\* os.unlink; FileNotFoundError if another caller was faster.
DeleteUnlink(j) ==
    LET c == ses[jobs[j].ses].chunk IN
    /\ At(j, "unlink") /\ UNCHANGED <<remote, local>>
    /\ \/ /\ src[c] = "here"
          /\ src' = [src EXCEPT ![c] = "unlinked"] /\ JobSteps(j, "sync")
       \/ src[c] # "here" /\ JobSteps(j, "absent") /\ UNCHANGED src

DeleteSync(j) == /\ At(j, "sync")
                 /\ src' = SyncedSealed /\ UNCHANGED <<remote, local>>
                 /\ JobSteps(j, "terminal")

\* Mutant: an absent source is an error.
AbsentIsRefused(j) == At(j, "absent") /\ UNCHANGED host /\ Answer(j, "NONE")

\* _reconcile_absent.
ReconcileAbsent(j) ==
    LET s == jobs[j].ses IN
    /\ At(j, "absent") /\ UNCHANGED <<remote, local>>
    /\ \/ /\ src[ses[s].chunk] = "here" \/ LoadAuthority(s) = "NONE"
          /\ Answer(j, "NONE") /\ UNCHANGED src
       \/ /\ src[ses[s].chunk] # "here" /\ LoadAuthority(s) = "DELETED"
          /\ Answer(j, "DELETED") /\ UNCHANGED src
       \/ /\ src[ses[s].chunk] # "here" /\ LoadAuthority(s) = "PENDING"
          /\ src' = SyncedSealed /\ JobSteps(j, "terminal")

\* _terminalize up to its commit.
Terminalize(j) ==
    LET s == jobs[j].ses IN
    /\ At(j, "terminal") /\ UNCHANGED host
    /\ \/ src[ses[s].chunk] = "here" /\ Answer(j, "NONE")
       \/ src[ses[s].chunk] # "here" /\ LoadAuthority(s) = "DELETED" /\ Answer(j, "DELETED")
       \/ src[ses[s].chunk] # "here" /\ LoadAuthority(s) = "PENDING" /\ JobSteps(j, "commit")

\* commit_remote_deleted; a commit that finds another state is settled by
\* _fresh_catalog_outcome.
CommitRemoteDeleted(j) ==
    LET s == jobs[j].ses IN
    /\ At(j, "commit") /\ UNCHANGED src
    /\ \/ /\ LoadAuthority(s) = "PENDING"
          /\ CommitRow(ses[s].chunk, [ses |-> s, st |-> "DELETED"])
          /\ Answer(j, "DELETED")
       \/ /\ LoadAuthority(s) # "PENDING"
          /\ Answer(j, LoadAuthority(s)) /\ UNCHANGED <<remote, local>>

\* classify_remote_recovery, whose two reads of the lifecycle around the look
\* at the source must agree; only a pending row whose source is absent is
\* settled (CASE B), a pending source is kept (CASE A).
RecoverClassify(j) ==
    LET s == jobs[j].ses
        caseB == RowOf(s).st = "PENDING" /\ src[ses[s].chunk] # "here"
    IN /\ At(j, "observe") /\ UNCHANGED host
       /\ IF caseB THEN JobSteps(j, "absent") ELSE Answer(j, "NONE")

JobStep(j) == \/ AuthorizeSelect(j) \/ ReserveRemote(j)
              \/ DeleteLoad(j) \/ DeleteValidate(j) \/ DeleteUnlink(j) \/ DeleteSync(j)
              \/ ReconcileAbsent(j) \/ Terminalize(j) \/ CommitRemoteDeleted(j)
              \/ RecoverClassify(j)

SessionStep(s) == \/ SelectSource(s) \/ CommitRaw(s) \/ SyncRaw(s) \/ CommitArchiveManifest(s)
                  \/ SyncManifest(s) \/ CommitEntry(s) \/ SyncEntries(s) \/ CommitReceipt(s)
                  \/ RevalidateReceipt(s) \/ InspectAuthority(s) \/ \E j \in Jobs : Call(s, j)

-----------------------------------------------------------------------------
(* Failures, at most MaxFaults of them. *)

Fault == faults < MaxFaults /\ faults' = faults + 1

\* RemoteTransportTimeout, or an ssh that fails while the verb goes on.
TimedOut(r) == Failed(r)

Timeout(s) == /\ Fault /\ ses[s].pc = "wait"
              /\ ses' = [ses EXCEPT ![s] = TimedOut(@)]
              /\ UNCHANGED <<src, remote, local, med, rec, jobs>>

\* A process of the host ends with an error, or is killed.
KillJob(j) == /\ Fault /\ jobs[j].pc # "free" /\ Answer(j, "NONE")
              /\ UNCHANGED <<src, remote, local, med, rec>>

\* The session ends with an error, or is killed.
KillSession(s) == /\ Fault /\ ses[s].pc \notin {"idle", "done", "failed"}
                  /\ ses' = [ses EXCEPT ![s] = Ends(@, "failed")]
                  /\ UNCHANGED <<src, remote, local, med, rec, jobs>>

\* The host loses power: its processes end, an unsynced unlink may come back.
HostPowerLoss ==
    /\ Fault
    /\ src' \in {f \in [Chunks -> SourceFile] :
                    \A c \in Chunks : f[c] \in IF src[c] = "unlinked" THEN {"here", "gone"}
                                               ELSE {src[c]}}
    /\ local' \in {f \in [Chunks -> Fact] : \A c \in Chunks : f[c] \in AfterLoss(local[c])}
    /\ jobs' = [j \in Jobs |-> Free]
    /\ ses' = [s \in Sessions |-> IF ses[s].pc = "wait" THEN Failed(ses[s]) ELSE ses[s]]
    /\ UNCHANGED <<remote, med, rec>>

\* The client loses power: its sessions end, unsynced names may be gone.
ClientPowerLoss ==
    /\ Fault
    /\ med' \in {f \in [Chunks -> Medium] : \A c \in Chunks :
                    /\ f[c].raw \in AfterLoss(med[c].raw)
                    /\ f[c].man \in AfterLoss(med[c].man) /\ f[c].by = med[c].by
                    /\ f[c].ent \in AfterLoss(med[c].ent) /\ f[c].bound = med[c].bound}
    /\ rec' \in {f \in [Sessions -> Fact] : \A s \in Sessions : f[s] \in AfterLoss(rec[s])}
    /\ ses' = [s \in Sessions |->
                  IF ses[s].pc \in {"idle", "done"} THEN ses[s]
                  ELSE Ends(ses[s], "failed")]
    /\ UNCHANGED <<src, remote, local, jobs>>

-----------------------------------------------------------------------------
Init ==
    /\ src = [c \in Chunks |-> "here"]
    /\ remote = [c \in Chunks |-> NoRow]
    /\ local = [c \in Chunks |-> "none"]
    /\ med = [c \in Chunks |-> [raw |-> "none", man |-> "none", by |-> NoSession,
                                ent |-> "none", bound |-> NoSession]]
    /\ rec = [s \in Sessions |-> "none"]
    /\ ses = [s \in Sessions |-> NewSession(s)]
    /\ jobs = [j \in Jobs |-> Free]
    /\ faults = 0

Next ==
    \/ \E c \in Chunks : ReserveArchive(c)
    \/ \E s \in Sessions : SessionStep(s) \/ Timeout(s) \/ KillSession(s)
    \/ \E s \in Sessions, j \in Jobs : Retry(s, j) \/ Recover(s, j)
    \/ \E j \in Jobs : JobStep(j) \/ KillJob(j)
    \/ HostPowerLoss
    \/ ClientPowerLoss

Spec == Init /\ [][Next]_vars

\* A process that was started runs, and a receipt that stays pending is
\* retried again and again ("CASE A remains explicit operator/workflow
\* retry", docs/archive_transfer_contract.md); sessions owe nothing.
Fairness == /\ \A j \in Jobs : WF_vars(JobStep(j))
            /\ \A s \in Sessions : SF_vars(\E j \in Jobs : Retry(s, j))
FairSpec == Spec /\ Fairness

-----------------------------------------------------------------------------
\* Type correctness: a session waits exactly for the process it started.
TypeOK ==
    /\ src \in [Chunks -> SourceFile]
    /\ remote \in [Chunks -> Row]
    /\ local \in [Chunks -> Fact]
    /\ med \in [Chunks -> Medium]
    /\ rec \in [Sessions -> Fact]
    /\ ses \in [Sessions -> Session]
    /\ \A s \in Sessions : ses[s].pc = "wait" <=> ses[s].job # NoJob
    /\ jobs \in [Jobs -> Job]
    /\ faults \in 0..MaxFaults

\* A receipt on the medium, also one that a failed session left there, stands
\* for a durable artifact, archive manifest and entry that bind each other:
\* no power loss of the client leaves a receipt without its chain.
ReceiptHasChain == \A s \in Sessions : rec[s] # "none" => Chain(med[ses[s].chunk])

\* A source that is gone, even if only until a power loss, was authorised by a
\* row of the Catalog whose receipt is durable on the medium: whatever the
\* timeouts, retries and restarts, the client holds what the host deleted.
DeletedIsArchived ==
    \A c \in Chunks : src[c] # "here" =>
        /\ remote[c].ses # NoSession
        /\ rec[remote[c].ses] = "durable" /\ ses[remote[c].ses].chunk = c
        /\ Chain(med[c])

\* REMOTE_DELETED is committed only once the unlink is durable: startup never
\* meets a terminal row with its source present.
TerminalIsAbsent == \A c \in Chunks : remote[c].st = "DELETED" => src[c] = "gone"

\* A chunk has one owner, the same-host archive or one remote receipt, also
\* after a power loss.
OneOwner == \A c \in Chunks : local[c] # "none" => remote[c] = NoRow

\* A session that reports a deletion reports the state of the Catalog, however
\* its calls and answers were lost.
ReportIsTrue == \A s \in Sessions : ses[s].pc = "done" /\ ses[s].delete => RowOf(s).st = "DELETED"

\* Custody is handed over without a hole: whatever the timeouts, retries, kills and
\* power losses on either side, a receipt stands for its chain, a deleted source for
\* a durable receipt that authorised it, a terminal row for a durable unlink, and a
\* chunk has one owner (remote_receive, remote_authorization, remote_delete).
HandoverIsSafe ==
    TypeOK /\ ReceiptHasChain /\ DeletedIsArchived /\ TerminalIsAbsent /\ OneOwner

\* A row keeps its receipt and its terminal state for ever.
BindingIsForever ==
    [][\A c \in Chunks : remote[c] # NoRow =>
          /\ remote'[c].ses = remote[c].ses
          /\ remote[c].st = "DELETED" => remote'[c].st = "DELETED"]_vars

\* A deletion that was authorised is completed.
PendingIsDeleted == \A c \in Chunks : remote[c].st = "PENDING" ~> remote[c].st = "DELETED"

\* A deletion runs its course: it keeps the receipt that authorised it and its
\* terminal state for ever, and reaches that state whichever step of whichever
\* process failed on the way (reserve_remote_archive_transaction, remote_delete,
\* recovery at startup).
DeletionRunsItsCourse == BindingIsForever /\ PendingIsDeleted
=============================================================================
