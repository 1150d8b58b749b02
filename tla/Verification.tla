---------------------------- MODULE Verification ----------------------------
(***************************************************************************)
(* The verification of sealed raw chunks (service/verification.py, its     *)
(* worker, and the queue of storage/catalog/chunks.py): batches under one  *)
(* lock and a budget, while commands enrol chunks again without the lock,  *)
(* the archive takes files away and disks damage them.                     *)
(*                                                                         *)
(* What is compared (digests, statistics, flags) is abstracted to whether  *)
(* artifact and manifest are whole.  A failed chunk waits a minute; here   *)
(* it becomes due again in some later state.                               *)
(***************************************************************************)
EXTENDS Integers, FiniteSets, FiniteSetsExt

CONSTANTS Verifiers,      \* processes: the worker and commands
          QueueLength,    \* chunks, named by the order of their enrolment
          ChunkBytes,     \* per chunk, its stored and expanded bytes
          MaxBytes,       \* budget of a batch
          MaxBatch,       \* max_files of a batch
          MaxAttacks,     \* bound: damages
          MaxVerifies,    \* bound: attempts
          MaxVerifyKills  \* bound: kills

VChunks == 1..QueueLength
NoHolder == "nobody"

ASSUME VerificationAssumption ==
    /\ ChunkBytes \in [VChunks -> Nat \ {0}]
    /\ QueueLength \in Nat /\ MaxBytes \in Nat \ {0} /\ MaxBatch \in Nat \ {0}
    /\ MaxAttacks \in Nat /\ MaxVerifies \in Nat /\ MaxVerifyKills \in Nat
    /\ NoHolder \notin Verifiers

VARIABLES copy,       \* per chunk [place, whole, version]: artifact and manifest
          queue,      \* raw_verification_queue: per chunk [proof, error, due]
          results,    \* raw_verification_results: [chunk, id, version]
          failEvents, \* RAW_VERIFICATION_FAILED: chunk -> number of the attempt
          vlock,      \* holder of raw-verification.lock
          vproc,      \* per process [pc, rows, bytes, blocked, seen]
          vspent,     \* attempts, damages and kills so far
          vhist       \* history: the chunk's bytes were whole when its proof was closed

vervars == <<copy, queue, results, failEvents, vlock, vproc, vspent, vhist>>

NoProof == 0
RestingVerifier == [pc |-> "idle", rows |-> {}, bytes |-> 0, blocked |-> {},
                    seen |-> [whole |-> TRUE, version |-> 0, place |-> "host"]]

VerInit ==
    /\ copy = [c \in VChunks |-> [place |-> "host", whole |-> TRUE, version |-> 1]]
    /\ queue = [c \in VChunks |-> [in |-> FALSE, proof |-> NoProof, error |-> FALSE,
                                   due |-> TRUE]]
    /\ results = {} /\ failEvents = <<>>
    /\ vlock = NoHolder
    /\ vproc = [v \in Verifiers |-> RestingVerifier]
    /\ vspent = [attempts |-> 0, damages |-> 0, kills |-> 0]
    /\ vhist = {}

VAt(v, pc) == vproc[v].pc = pc
VGoes(v, pc) == vproc' = [vproc EXCEPT ![v].pc = pc]

\* The row at work: the oldest of the batch that is left.
Row(v) == Min(vproc[v].rows)

\* The current verifier's proof (RAW_VERIFICATION_VERSION).
Proved(c) == queue[c].proof # NoProof

-----------------------------------------------------------------------------
(* The queue.                                                                *)

\* enroll_raw_verification: at the seal, and again by a command that does not
\* hold the lock.  A chunk keeps its place; its proof and its wait are dropped.
Enrol(c) ==
    /\ queue[c].in => Proved(c) \/ queue[c].error
    /\ queue' = [queue EXCEPT ![c] = [in |-> TRUE, proof |-> NoProof, error |-> FALSE,
                                      due |-> TRUE]]
    /\ UNCHANGED <<copy, results, failEvents, vlock, vproc, vspent, vhist>>

\* next_attempt_utc_ns passes.
BecomesDue(c) ==
    /\ queue[c].in /\ ~queue[c].due
    /\ queue' = [queue EXCEPT ![c].due = TRUE]
    /\ UNCHANGED <<copy, results, failEvents, vlock, vproc, vspent, vhist>>

\* pending_raw_verifications: the oldest without proof that are due.
Pending ==
    LET waiting == {c \in VChunks : queue[c].in /\ ~Proved(c) /\ queue[c].due}
    IN  {c \in waiting : Cardinality({d \in waiting : d < c}) < MaxBatch}

\* raw_verification_status.
CaughtUp == \A c \in VChunks : queue[c].in => Proved(c)

-----------------------------------------------------------------------------
(* A batch: verify_new.                                                      *)

\* The lock, or ALREADY_RUNNING; then one reading of the queue.
BeginBatch(v) ==
    /\ VAt(v, "idle") /\ vlock = NoHolder /\ Pending # {}
    /\ vlock' = v
    /\ vproc' = [vproc EXCEPT ![v].pc = "row", ![v].rows = Pending]
    /\ UNCHANGED <<copy, queue, results, failEvents, vspent, vhist>>

DropRow(v) == [vproc[v] EXCEPT !.rows = @ \ {Row(v)}, !.pc = "row"]

\* A row beyond the budget is left for another batch.
SkipRow(v) ==
    /\ VAt(v, "row") /\ vproc[v].rows # {}
    /\ vproc[v].bytes + ChunkBytes[Row(v)] > MaxBytes
    /\ vproc' = [vproc EXCEPT ![v] = [DropRow(v) EXCEPT !.blocked = @ \cup {Row(v)}]]
    /\ UNCHANGED <<copy, queue, results, failEvents, vlock, vspent, vhist>>

\* verify_chunk begins: manifest, durable evidence and the place of the bytes.
ReadManifest(v) ==
    /\ VAt(v, "row") /\ vproc[v].rows # {} /\ vspent.attempts < MaxVerifies
    /\ vproc[v].bytes + ChunkBytes[Row(v)] <= MaxBytes
    /\ vproc' = [vproc EXCEPT ![v].pc = "artifact", ![v].seen = copy[Row(v)]]
    /\ vspent' = [vspent EXCEPT !.attempts = @ + 1]
    /\ UNCHANGED <<copy, queue, results, failEvents, vlock, vhist>>

\* read_artifact: fails when the file has gone or is damaged.
ReadArtifact(v) ==
    /\ VAt(v, "artifact")
    /\ LET c == Row(v) IN
       VGoes(v, IF copy[c].place = vproc[v].seen.place /\ copy[c].whole
                  THEN "close" ELSE "event")
    /\ UNCHANGED <<copy, queue, results, failEvents, vlock, vspent, vhist>>

\* As a bug would have it: nothing is looked at again after the read-back.
CloseWithoutLook(v) ==
    /\ VAt(v, "close")
    /\ vhist' = IF copy[Row(v)].whole THEN vhist \cup {vspent.attempts} ELSE vhist
    /\ VGoes(v, "record")
    /\ UNCHANGED <<copy, queue, results, failEvents, vlock, vspent>>

\* The signature of the file, the manifest and the evidence must be what they
\* were.
CloseProof(v) ==
    /\ VAt(v, "close")
    /\ IF copy[Row(v)] = vproc[v].seen
         THEN /\ vhist' = IF copy[Row(v)].whole THEN vhist \cup {vspent.attempts} ELSE vhist
              /\ VGoes(v, "record")
         ELSE vhist' = vhist /\ VGoes(v, "event")
    /\ UNCHANGED <<copy, queue, results, failEvents, vlock, vspent>>

Charge(v) == [DropRow(v) EXCEPT !.bytes = @ + ChunkBytes[Row(v)]]

\* record_raw_verification with evidence: refused when the row has changed.
RecordProof(v) ==
    /\ VAt(v, "record")
    /\ LET c == Row(v) IN
       IF copy[c].version # vproc[v].seen.version
         THEN VGoes(v, "event") /\ UNCHANGED <<queue, results>>
         ELSE /\ results' = results \cup {[chunk |-> c, id |-> vspent.attempts]}
              /\ queue' = [queue EXCEPT ![c].proof = vspent.attempts, ![c].error = FALSE]
              /\ vproc' = [vproc EXCEPT ![v] = Charge(v)]
    /\ UNCHANGED <<copy, failEvents, vlock, vspent, vhist>>

\* The first failure of a chunk is kept as an event ...
RecordFailure(v) ==
    /\ VAt(v, "event") /\ VGoes(v, "error")
    /\ LET c == Row(v) IN
       failEvents' = IF c \in DOMAIN failEvents THEN failEvents
                     ELSE [x \in DOMAIN failEvents \cup {c} |->
                             IF x = c THEN vspent.attempts ELSE failEvents[x]]
    /\ UNCHANGED <<copy, queue, results, vlock, vspent, vhist>>

\* ... and the last one in the queue, where it takes the proof away.
RecordError(v) ==
    /\ VAt(v, "error")
    /\ queue' = [queue EXCEPT ![Row(v)].proof = NoProof, ![Row(v)].error = TRUE,
                              ![Row(v)].due = FALSE]
    /\ vproc' = [vproc EXCEPT ![v] = Charge(v)]
    /\ UNCHANGED <<copy, results, failEvents, vlock, vspent, vhist>>

\* The last row is done, or max_seconds have passed before the next one.
EndBatch(v) ==
    /\ VAt(v, "row")
    /\ vlock' = NoHolder
    /\ vproc' = [vproc EXCEPT ![v] = RestingVerifier]
    /\ UNCHANGED <<copy, queue, results, failEvents, vspent, vhist>>

-----------------------------------------------------------------------------
(* Around it.                                                                *)

\* The archive takes the artifact to a volume that is attached.
Archives(c) ==
    /\ queue[c].in /\ copy[c].place = "host"
    /\ copy' = [copy EXCEPT ![c].place = "volume"]
    /\ UNCHANGED <<queue, results, failEvents, vlock, vproc, vspent, vhist>>

\* A disk or a hand damages the artifact, or another file replaces the manifest.
DamagesCopy(c) ==
    /\ vspent.damages < MaxAttacks /\ vspent' = [vspent EXCEPT !.damages = @ + 1]
    /\ \/ copy' = [copy EXCEPT ![c].whole = FALSE]
       \/ copy' = [copy EXCEPT ![c].version = 2]
    /\ UNCHANGED <<queue, results, failEvents, vlock, vproc, vhist>>

\* A kill releases the lock of the process.
KillVerifier(v) ==
    /\ ~VAt(v, "idle") /\ vspent.kills < MaxVerifyKills
    /\ vspent' = [vspent EXCEPT !.kills = @ + 1]
    /\ vlock' = NoHolder /\ vproc' = [vproc EXCEPT ![v] = RestingVerifier]
    /\ UNCHANGED <<copy, queue, results, failEvents, vhist>>

VerNext ==
    \/ \E c \in VChunks : Enrol(c) \/ BecomesDue(c) \/ Archives(c) \/ DamagesCopy(c)
    \/ \E v \in Verifiers :
          \/ BeginBatch(v) \/ SkipRow(v) \/ ReadManifest(v) \/ ReadArtifact(v)
          \/ CloseProof(v) \/ RecordProof(v) \/ RecordFailure(v) \/ RecordError(v)
          \/ EndBatch(v) \/ KillVerifier(v)

VerSpec == VerInit /\ [][VerNext]_vervars

-----------------------------------------------------------------------------
(* Properties.                                                               *)

\* A proof stands for bytes that were whole at the end of their read-back,
\* whatever was archived, damaged or enrolled meanwhile; a queue entry has no
\* proof but a recorded one of its own chunk; and a chunk whose last attempt
\* failed is pending and keeps the event of its first failure.
ProofIsTrue ==
    /\ \A r \in results : r.id \in vhist
    /\ \A c \in VChunks :
          /\ Proved(c) => [chunk |-> c, id |-> queue[c].proof] \in results
          /\ queue[c].error => ~Proved(c) /\ c \in DOMAIN failEvents
          /\ c \in DOMAIN failEvents =>
                \A r \in results : r.chunk = c => r.id # failEvents[c]
    /\ CaughtUp => \A c \in VChunks : ~queue[c].error
=============================================================================
