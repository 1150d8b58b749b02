------------------------ MODULE ArchiveStores_proofs ------------------------
(***************************************************************************)
(* Proofs about the stores that stand for sealed chunks beside the archive *)
(* transaction: Verification (the proofs of chunks), ArchiveSet (the media *)
(* and their index) and CatalogSnapshot (the copies of the Catalog).       *)
(***************************************************************************)
EXTENDS Verification, ArchiveSet, CatalogSnapshot, WellFoundedInduction, TLAPS

(***************************************************************************)
(* Verification: the batch lock, the attempts under it and what their      *)
(* proofs and failures stand for.                                          *)
(***************************************************************************)
-----------------------------------------------------------------------------
(* The inductive invariant. *)

CopyType == [place : {"host", "volume"}, whole : BOOLEAN, version : 0..2]
EntryType == [in : BOOLEAN, proof : Nat, error : BOOLEAN, due : BOOLEAN]
AtWork == {"artifact", "close", "record", "event", "error"}

VerTypeOK ==
    /\ copy \in [VChunks -> CopyType]
    /\ queue \in [VChunks -> EntryType]
    /\ results \subseteq [chunk : VChunks, id : Nat]
    /\ DOMAIN failEvents \subseteq VChunks /\ failEvents \in [DOMAIN failEvents -> Nat]
    /\ vlock \in Verifiers \cup {NoHolder}
    /\ vproc \in [Verifiers -> [pc : {"idle", "row"} \cup AtWork, rows : SUBSET VChunks,
                                bytes : Nat, blocked : SUBSET VChunks, seen : CopyType]]
    /\ vspent \in [attempts : 0..MaxVerifies, damages : 0..MaxAttacks,
                   kills : 0..MaxVerifyKills]
    /\ vhist \subseteq Nat

\* One batch at a time, of chunks that are enrolled, and a row while one is read.
BatchOK(v) ==
    /\ ~VAt(v, "idle") => vlock = v
    /\ vproc[v].pc \in AtWork => vproc[v].rows # {}
    /\ \A c \in vproc[v].rows : queue[c].in

\* The attempt in hand has no result and no event yet; what it has read was whole
\* when it was read; a proof to be recorded was closed on whole bytes; a failure to
\* be recorded has its event.
AttemptOK(v) ==
    /\ vproc[v].pc \in {"artifact", "close", "record"} =>
          \A c \in DOMAIN failEvents : failEvents[c] # vspent.attempts
    /\ vproc[v].pc \in {"artifact", "close", "record", "event"} =>
          \A r \in results : r.id # vspent.attempts
    /\ VAt(v, "artifact") /\ copy[Row(v)].whole => vproc[v].seen.whole
    /\ VAt(v, "close") => vproc[v].seen.whole
    /\ VAt(v, "record") => vspent.attempts \in vhist
    /\ VAt(v, "error") => Row(v) \in DOMAIN failEvents

\* A queue entry has no proof but a recorded one; a failed one has its event.
QueueOK ==
    \A c \in VChunks :
        /\ Proved(c) => [chunk |-> c, id |-> queue[c].proof] \in results
        /\ queue[c].error => queue[c].in /\ ~Proved(c) /\ c \in DOMAIN failEvents

\* Results were closed on whole bytes, and no attempt has both a result and an event.
RecordsOK ==
    /\ \A r \in results : r.id \in vhist /\ r.id <= vspent.attempts
    /\ \A c \in DOMAIN failEvents :
          /\ failEvents[c] <= vspent.attempts
          /\ \A r \in results : r.chunk = c => r.id # failEvents[c]

VerInv ==
    /\ VerTypeOK /\ QueueOK /\ RecordsOK
    /\ \A v \in Verifiers : BatchOK(v) /\ AttemptOK(v)
-----------------------------------------------------------------------------
(* The row at work, and the processes that rest. *)

\* Every set of numbers that is not empty has a least one.
LEMMA OldestIsThere == ASSUME NEW S, S \subseteq Nat, S # {} PROVE Min(S) \in S
<1>1. PICK x \in S : \A y \in S : ~(<<y, x>> \in OpToRel(<, Nat))
    BY NatLessThanWellFounded, WFMin
<1>2. \A y \in S : x <= y
    <2> SUFFICES ASSUME NEW y \in S PROVE x <= y
        OBVIOUS
    <2>1. <<y, x>> \in Nat \X Nat /\ ~(<<y, x>>[1] < <<y, x>>[2])
        BY <1>1 DEF OpToRel
    <2> QED
        BY <2>1
<1> QED
    BY <1>2 DEF Min

LEMMA RowIsThere ==
    ASSUME VerTypeOK, NEW v \in Verifiers, vproc[v].rows # {}
    PROVE  Row(v) \in vproc[v].rows /\ Row(v) \in VChunks
<1>1. vproc[v].rows \subseteq VChunks
    BY DEF VerTypeOK
<1>2. VChunks \subseteq Nat
    BY VerificationAssumption DEF VChunks
<1> QED
    BY <1>1, <1>2, OldestIsThere DEF Row

\* While one process is at work the others rest.
LEMMA OthersRest ==
    ASSUME VerInv, NEW v \in Verifiers, ~VAt(v, "idle"), NEW u \in Verifiers, u # v
    PROVE  VAt(u, "idle")
    BY DEF VerInv, BatchOK

LEMMA AtWorkRow ==
    ASSUME VerInv, NEW v \in Verifiers, vproc[v].pc \in AtWork
    PROVE  /\ Row(v) \in vproc[v].rows /\ Row(v) \in VChunks /\ queue[Row(v)].in
           /\ ~VAt(v, "idle") /\ vlock = v /\ vproc[v].rows # {}
<1>1. vproc[v].rows # {} /\ ~VAt(v, "idle") /\ vlock = v
    BY DEF VerInv, BatchOK, AtWork, VAt
<1> QED
    BY <1>1, RowIsThere DEF VerInv, BatchOK

\* The number of the attempt in hand.
LEMMA Attempts == ASSUME VerTypeOK PROVE vspent.attempts \in Nat
    BY VerificationAssumption DEF VerTypeOK

\* A process that rests is fine as long as no chunk leaves the queue.
RestOK(u) == vproc'[u] = vproc[u] /\ VAt(u, "idle")

LEMMA RestingStays ==
    ASSUME VerInv, NEW u \in Verifiers, RestOK(u), \A c \in VChunks : queue[c].in => queue'[c].in
    PROVE  BatchOK(u)' /\ AttemptOK(u)'
<1>1. vproc[u].rows \subseteq VChunks
    BY DEF VerInv, VerTypeOK
<1>2. VAt(u, "idle")' /\ vproc'[u].pc = "idle" /\ vproc'[u].rows = vproc[u].rows
    BY DEF RestOK, VAt
<1>3. BatchOK(u)'
    BY <1>1, <1>2 DEF VerInv, BatchOK, AtWork
<1>4. AttemptOK(u)'
    BY <1>2 DEF AttemptOK, VAt
<1> QED
    BY <1>3, <1>4

-----------------------------------------------------------------------------
(* Type correctness. *)

LEMMA BatchTypes ==
    ASSUME VerInv, NEW v \in Verifiers,
           \/ BeginBatch(v) \/ SkipRow(v) \/ ReadManifest(v) \/ ReadArtifact(v) \/ CloseProof(v)
           \/ RecordProof(v) \/ RecordFailure(v) \/ RecordError(v) \/ EndBatch(v)
           \/ KillVerifier(v)
    PROVE  VerTypeOK'
<1> DEFINE Process == [pc : {"idle", "row"} \cup AtWork, rows : SUBSET VChunks,
                       bytes : Nat, blocked : SUBSET VChunks, seen : CopyType]
<1>0. /\ vproc \in [Verifiers -> Process] /\ vproc[v] \in Process
      /\ copy \in [VChunks -> CopyType] /\ vspent.attempts \in Nat
      /\ queue \in [VChunks -> EntryType]
      /\ RestingVerifier \in Process
    BY Attempts DEF VerInv, VerTypeOK, RestingVerifier, CopyType
<1>1. CASE BeginBatch(v)
    <2>1. Pending \subseteq VChunks
        BY DEF Pending
    <2>2. vproc' \in [Verifiers -> Process]
        BY <1>0, <1>1, <2>1 DEF BeginBatch
    <2> QED
        BY <1>1, <2>2 DEF BeginBatch, VerInv, VerTypeOK
<1>2. CASE SkipRow(v)
    <2>1. Row(v) \in VChunks
        BY <1>2, RowIsThere DEF SkipRow, VerInv
    <2>2. [DropRow(v) EXCEPT !.blocked = @ \cup {Row(v)}] \in Process
        BY <1>0, <2>1 DEF DropRow
    <2>3. vproc' \in [Verifiers -> Process]
        BY <1>0, <1>2, <2>2 DEF SkipRow
    <2> QED
        BY <1>2, <2>3 DEF SkipRow, VerInv, VerTypeOK
<1>3. CASE ReadManifest(v)
    <2>1. copy[Row(v)] \in CopyType
        BY <1>0, <1>3, RowIsThere DEF ReadManifest, VerInv
    <2>2. vproc' \in [Verifiers -> Process]
        BY <1>0, <1>3, <2>1 DEF ReadManifest, AtWork
    <2>3. vspent' \in [attempts : 0..MaxVerifies, damages : 0..MaxAttacks,
                       kills : 0..MaxVerifyKills]
        BY <1>0, <1>3, VerificationAssumption DEF ReadManifest, VerInv, VerTypeOK
    <2> QED
        BY <1>3, <2>2, <2>3 DEF ReadManifest, VerInv, VerTypeOK
<1>4. CASE ReadArtifact(v)
    <2>1. vproc' \in [Verifiers -> Process]
        BY <1>0, <1>4 DEF ReadArtifact, VGoes, AtWork
    <2> QED
        BY <1>4, <2>1 DEF ReadArtifact, VerInv, VerTypeOK
<1>5. CASE CloseProof(v)
    <2>1. vproc' \in [Verifiers -> Process]
        BY <1>0, <1>5 DEF CloseProof, VGoes, AtWork
    <2>2. vhist' \subseteq Nat
        BY <1>0, <1>5 DEF CloseProof, VerInv, VerTypeOK
    <2> QED
        BY <1>5, <2>1, <2>2 DEF CloseProof, VerInv, VerTypeOK
<1>6. ASSUME vproc[v].pc \in AtWork PROVE Charge(v) \in Process
    <2>1. Row(v) \in VChunks
        BY <1>6, AtWorkRow
    <2>2. DropRow(v) \in Process /\ ChunkBytes[Row(v)] \in Nat
        BY <1>0, <2>1, VerificationAssumption DEF DropRow
    <2> QED
        BY <2>2 DEF Charge
<1>7. CASE RecordProof(v)
    <2>1. Row(v) \in VChunks /\ Charge(v) \in Process
        BY <1>6, <1>7, AtWorkRow DEF RecordProof, VAt, AtWork
    <2>2. vproc' \in [Verifiers -> Process]
        BY <1>0, <1>7, <2>1 DEF RecordProof, VGoes, AtWork
    <2>3. queue' \in [VChunks -> EntryType]
        BY <1>0, <1>7, <2>1 DEF RecordProof, EntryType
    <2>4. results' \subseteq [chunk : VChunks, id : Nat]
        BY <1>0, <1>7, <2>1 DEF RecordProof, VerInv, VerTypeOK
    <2> QED
        BY <1>7, <2>2, <2>3, <2>4 DEF RecordProof, VerInv, VerTypeOK
<1>8. CASE RecordFailure(v)
    <2>1. Row(v) \in VChunks
        BY <1>8, AtWorkRow DEF RecordFailure, VAt, AtWork
    <2>2. vproc' \in [Verifiers -> Process]
        BY <1>0, <1>8 DEF RecordFailure, VGoes, AtWork
    <2>3. DOMAIN failEvents' \subseteq VChunks /\ failEvents' \in [DOMAIN failEvents' -> Nat]
        BY <1>0, <1>8, <2>1 DEF RecordFailure, VerInv, VerTypeOK
    <2> QED
        BY <1>8, <2>2, <2>3 DEF RecordFailure, VerInv, VerTypeOK
<1>9. CASE RecordError(v)
    <2>1. Row(v) \in VChunks /\ Charge(v) \in Process
        BY <1>6, <1>9, AtWorkRow DEF RecordError, VAt, AtWork
    <2>2. vproc' \in [Verifiers -> Process]
        BY <1>0, <1>9, <2>1 DEF RecordError
    <2>3. queue' \in [VChunks -> EntryType]
        <3>1. PICK r \in VChunks : r = Row(v)
            BY <2>1
        <3>2. queue' = [queue EXCEPT ![r].proof = NoProof, ![r].error = TRUE,
                                     ![r].due = FALSE]
            BY <1>9, <3>1 DEF RecordError
        <3>3. queue \in [VChunks -> EntryType]
            BY <1>0
        <3> QED
            BY <3>2, <3>3 DEF EntryType, NoProof
    <2> QED
        BY <1>9, <2>2, <2>3 DEF RecordError, VerInv, VerTypeOK
<1>10. CASE EndBatch(v) \/ KillVerifier(v)
    <2>1. vproc' \in [Verifiers -> Process]
        BY <1>0, <1>10 DEF EndBatch, KillVerifier
    <2>2. vspent' \in [attempts : 0..MaxVerifies, damages : 0..MaxAttacks,
                       kills : 0..MaxVerifyKills]
        BY <1>10, VerificationAssumption DEF EndBatch, KillVerifier, VerInv, VerTypeOK
    <2> QED
        BY <1>10, <2>1, <2>2 DEF EndBatch, KillVerifier, VerInv, VerTypeOK
<1> QED
    BY <1>1, <1>2, <1>3, <1>4, <1>5, <1>7, <1>8, <1>9, <1>10

LEMMA AroundTypes ==
    ASSUME VerTypeOK, NEW c \in VChunks,
           Enrol(c) \/ BecomesDue(c) \/ Archives(c) \/ DamagesCopy(c)
    PROVE  VerTypeOK'
<1>1. CASE Enrol(c) \/ BecomesDue(c)
    <2>1. /\ [in |-> TRUE, proof |-> NoProof, error |-> FALSE, due |-> TRUE] \in EntryType
          /\ \A e \in EntryType : [e EXCEPT !.due = TRUE] \in EntryType
        BY DEF EntryType, NoProof
    <2>2. queue \in [VChunks -> EntryType]
        BY DEF VerTypeOK
    <2>3. CASE Enrol(c)
        BY <2>1, <2>2, <2>3 DEF Enrol, VerTypeOK
    <2>4. CASE BecomesDue(c)
        <3>1. queue' = [queue EXCEPT ![c] = [queue[c] EXCEPT !.due = TRUE]]
            BY <2>4 DEF BecomesDue
        <3>2. queue' \in [VChunks -> EntryType]
            BY <2>1, <2>2, <3>1
        <3> QED
            BY <2>4, <3>2 DEF BecomesDue, VerTypeOK
    <2> QED
        BY <1>1, <2>3, <2>4
<1>2. CASE Archives(c) \/ DamagesCopy(c)
    <2>0. copy \in [VChunks -> CopyType] /\ copy[c] \in CopyType
        BY DEF VerTypeOK
    <2>1. copy' \in [VChunks -> CopyType]
        <3>1. \E d \in {[copy[c] EXCEPT !.place = "volume"], [copy[c] EXCEPT !.whole = FALSE],
                         [copy[c] EXCEPT !.version = 2]} : copy' = [copy EXCEPT ![c] = d]
            BY <1>2 DEF Archives, DamagesCopy
        <3>2. [copy[c] EXCEPT !.place = "volume"] \in CopyType
            BY <2>0 DEF CopyType
        <3>3. [copy[c] EXCEPT !.whole = FALSE] \in CopyType
            BY <2>0 DEF CopyType
        <3>4. [copy[c] EXCEPT !.version = 2] \in CopyType
            BY <2>0 DEF CopyType
        <3> QED
            BY <2>0, <3>1, <3>2, <3>3, <3>4
    <2>2. vspent' \in [attempts : 0..MaxVerifies, damages : 0..MaxAttacks,
                       kills : 0..MaxVerifyKills]
        BY <1>2, VerificationAssumption DEF Archives, DamagesCopy, VerTypeOK
    <2> QED
        BY <1>2, <2>1, <2>2 DEF Archives, DamagesCopy, VerTypeOK
<1> QED
    BY <1>1, <1>2
-----------------------------------------------------------------------------
(* The steps of a batch. *)

\* The records of a step that writes none.
LEMMA SameRecords ==
    ASSUME RecordsOK, QueueOK, UNCHANGED <<results, failEvents, queue>>, vhist \subseteq vhist',
           vspent.attempts <= vspent'.attempts, VerTypeOK, VerTypeOK'
    PROVE  RecordsOK' /\ QueueOK'
<1>1. \A r \in results : r.id \in Nat
    BY DEF VerTypeOK
<1>2. \A c \in DOMAIN failEvents : failEvents[c] \in Nat
    BY DEF VerTypeOK
<1>3. vspent.attempts \in Nat /\ vspent'.attempts \in Nat
    BY VerificationAssumption DEF VerTypeOK
<1>4. RecordsOK'
    BY <1>1, <1>2, <1>3 DEF RecordsOK
<1>5. QueueOK'
    BY DEF QueueOK, Proved
<1> QED
    BY <1>4, <1>5

\* The other processes through a step of v.
LEMMA OthersStay ==
    ASSUME VerInv, NEW v \in Verifiers, ~VAt(v, "idle") \/ vlock = NoHolder,
           \A u \in Verifiers : u # v => vproc'[u] = vproc[u],
           \A c \in VChunks : queue[c].in => queue'[c].in
    PROVE  \A u \in Verifiers : u # v => BatchOK(u)' /\ AttemptOK(u)'
<1> SUFFICES ASSUME NEW u \in Verifiers, u # v PROVE BatchOK(u)' /\ AttemptOK(u)'
    OBVIOUS
<1>1. VAt(u, "idle")
    <2>1. CASE ~VAt(v, "idle")
        BY <2>1, OthersRest
    <2>2. CASE vlock = NoHolder
        BY <2>2, VerificationAssumption DEF VerInv, BatchOK
    <2> QED
        BY <2>1, <2>2
<1> QED
    BY <1>1, RestingStays DEF RestOK

\* BeginBatch takes the lock and the rows; EndBatch and a kill give both back.
LEMMA BatchEnds ==
    ASSUME VerInv, NEW v \in Verifiers, BeginBatch(v) \/ EndBatch(v) \/ KillVerifier(v)
    PROVE  VerInv'
<1>1. VerTypeOK /\ VerTypeOK'
    BY BatchTypes DEF VerInv
<1>2. /\ UNCHANGED <<results, failEvents, queue, vhist>>
      /\ vspent'.attempts = vspent.attempts
      /\ ~VAt(v, "idle") \/ vlock = NoHolder
      /\ \A u \in Verifiers : u # v => vproc'[u] = vproc[u]
    BY <1>1 DEF BeginBatch, EndBatch, KillVerifier, VAt, VerTypeOK
<1>3. vspent.attempts <= vspent'.attempts
    BY <1>1, <1>2, Attempts
<1>4. RecordsOK' /\ QueueOK'
    BY <1>1, <1>2, <1>3, SameRecords DEF VerInv
<1>5. \A u \in Verifiers : u # v => BatchOK(u)' /\ AttemptOK(u)'
    BY <1>2, OthersStay
<1>6. CASE BeginBatch(v)
    <2>1. \A c \in Pending : queue[c].in
        BY DEF Pending
    <2>2. vlock' = v /\ vproc'[v].pc = "row" /\ vproc'[v].rows = Pending
        BY <1>1, <1>6 DEF BeginBatch, VerTypeOK
    <2>3. BatchOK(v)'
        BY <1>2, <2>1, <2>2 DEF BatchOK, AtWork
    <2>4. AttemptOK(v)'
        BY <2>2 DEF AttemptOK, VAt
    <2> QED
        BY <1>1, <1>4, <1>5, <2>3, <2>4 DEF VerInv
<1>7. CASE EndBatch(v) \/ KillVerifier(v)
    <2>1. vproc'[v].pc = "idle" /\ vproc'[v].rows = {}
        BY <1>1, <1>7 DEF EndBatch, KillVerifier, RestingVerifier, VerTypeOK
    <2>2. BatchOK(v)' /\ AttemptOK(v)'
        BY <2>1 DEF BatchOK, AttemptOK, VAt, AtWork
    <2> QED
        BY <1>1, <1>4, <1>5, <2>2 DEF VerInv
<1> QED
    BY <1>6, <1>7

\* A row is passed over, or its files are read: the attempt gets its number, and
\* reaches its proof only with bytes that are whole.
LEMMA ReadingSteps ==
    ASSUME VerInv, NEW v \in Verifiers,
           SkipRow(v) \/ ReadManifest(v) \/ ReadArtifact(v) \/ CloseProof(v)
    PROVE  VerInv'
<1>1. VerTypeOK /\ VerTypeOK'
    BY BatchTypes DEF VerInv
<1>2. /\ UNCHANGED <<results, failEvents, queue, copy, vlock>> /\ vhist \subseteq vhist'
      /\ ~VAt(v, "idle") /\ (vproc[v].rows # {} \/ vproc[v].pc \in AtWork)
      /\ \A u \in Verifiers : u # v => vproc'[u] = vproc[u]
    BY <1>1 DEF SkipRow, ReadManifest, ReadArtifact, CloseProof, VAt, VGoes, VerTypeOK, AtWork
<1>3. ~VAt(v, "idle") /\ vlock = v /\ vproc[v].rows # {} /\ Row(v) \in vproc[v].rows
    BY <1>1, <1>2, AtWorkRow, RowIsThere DEF VerInv, BatchOK
<1>4. vspent.attempts \in Nat /\ vspent'.attempts \in {vspent.attempts, vspent.attempts + 1}
    BY <1>1, Attempts DEF SkipRow, ReadManifest, ReadArtifact, CloseProof, VerTypeOK
<1>5. RecordsOK' /\ QueueOK'
    BY <1>1, <1>2, <1>4, SameRecords DEF VerInv
<1>6. \A u \in Verifiers : u # v => BatchOK(u)' /\ AttemptOK(u)'
    BY <1>2, <1>3, OthersStay
<1>7. /\ vproc'[v].rows \subseteq vproc[v].rows
      /\ vproc'[v].rows # {} \/ vproc'[v].pc = "row"
    <2>1. CASE SkipRow(v)
        <3>1. vproc'[v] = [DropRow(v) EXCEPT !.blocked = @ \cup {Row(v)}]
            BY <1>1, <2>1 DEF SkipRow, VerTypeOK
        <3>2. /\ vproc'[v].rows = vproc[v].rows \ {Row(v)} /\ vproc'[v].pc = "row"
            BY <1>1, <3>1 DEF DropRow, VerTypeOK
        <3> QED
            BY <3>2
    <2>2. CASE ReadManifest(v) \/ ReadArtifact(v) \/ CloseProof(v)
        <3>1. vproc'[v].rows = vproc[v].rows
            BY <1>1, <2>2 DEF ReadManifest, ReadArtifact, CloseProof, VGoes, VerTypeOK
        <3> QED
            BY <1>3, <3>1
    <2> QED
        BY <2>1, <2>2
<1>8. BatchOK(v)'
    <2>1. \A c \in vproc'[v].rows : queue'[c].in
        BY <1>2, <1>7 DEF VerInv, BatchOK
    <2> QED
        BY <1>2, <1>3, <1>7, <2>1 DEF BatchOK, AtWork
<1>9. AttemptOK(v)'
    <2>1. CASE SkipRow(v)
        <3>1. vproc'[v].pc = "row"
            BY <1>1, <2>1 DEF SkipRow, DropRow, VerTypeOK
        <3> QED
            BY <3>1 DEF AttemptOK, VAt
    <2>2. CASE ReadManifest(v)
        <3>1. /\ vproc'[v].pc = "artifact" /\ vproc'[v].rows = vproc[v].rows
              /\ vproc'[v].seen = copy[Row(v)]
              /\ vspent'.attempts = vspent.attempts + 1
            BY <1>1, <2>2 DEF ReadManifest, VerTypeOK
        <3>2. /\ \A c \in DOMAIN failEvents : failEvents[c] \in Nat /\ failEvents[c] <= vspent.attempts
              /\ \A r \in results : r.id \in Nat /\ r.id <= vspent.attempts
            BY <1>1 DEF VerInv, RecordsOK, VerTypeOK
        <3>3. Row(v)' = Row(v)
            BY <3>1 DEF Row
        <3> QED
            BY <1>2, <1>4, <3>1, <3>2, <3>3 DEF AttemptOK, VAt
    <2>3. CASE ReadArtifact(v)
        <3>1. /\ vproc[v].pc = "artifact" /\ vproc'[v].pc \in {"close", "event"}
              /\ vproc'[v].pc = "close" => copy[Row(v)].whole
              /\ vproc'[v].seen = vproc[v].seen /\ vspent' = vspent
            BY <1>1, <2>3 DEF ReadArtifact, VAt, VGoes, VerTypeOK
        <3> QED
            BY <1>2, <3>1 DEF VerInv, AttemptOK, VAt
    <2>4. CASE CloseProof(v)
        <3>1. /\ vproc[v].pc = "close" /\ vproc'[v].pc \in {"record", "event"}
              /\ vproc'[v].pc = "record" => copy[Row(v)] = vproc[v].seen
              /\ vproc'[v].pc = "record" /\ copy[Row(v)].whole =>
                    vhist' = vhist \cup {vspent.attempts}
              /\ vproc'[v].seen = vproc[v].seen /\ vspent' = vspent
            BY <1>1, <2>4 DEF CloseProof, VAt, VGoes, VerTypeOK
        <3>2. vproc[v].seen.whole
            BY <3>1 DEF VerInv, AttemptOK, VAt
        <3> QED
            BY <1>2, <3>1, <3>2 DEF VerInv, AttemptOK, VAt
    <2> QED
        BY <2>1, <2>2, <2>3, <2>4
<1> QED
    BY <1>1, <1>5, <1>6, <1>8, <1>9 DEF VerInv
\* A row is charged and dropped.
LEMMA ChargedBatch ==
    ASSUME VerInv, NEW v \in Verifiers, vproc[v].pc \in AtWork,
           vproc' = [vproc EXCEPT ![v] = Charge(v)], UNCHANGED vlock,
           \A c \in VChunks : queue[c].in => queue'[c].in
    PROVE  /\ \A u \in Verifiers : u # v => BatchOK(u)' /\ AttemptOK(u)'
           /\ BatchOK(v)' /\ AttemptOK(v)'
<1>1. VerTypeOK
    BY DEF VerInv
<1>2. ~VAt(v, "idle") /\ vlock = v
    BY AtWorkRow
<1>3. \A u \in Verifiers : u # v => vproc'[u] = vproc[u]
    BY <1>1 DEF VerTypeOK
<1>4. \A u \in Verifiers : u # v => BatchOK(u)' /\ AttemptOK(u)'
    BY <1>2, <1>3, OthersStay
<1>5. vproc'[v] = Charge(v)
    BY <1>1 DEF VerTypeOK
<1>6. vproc'[v].pc = "row" /\ vproc'[v].rows \subseteq vproc[v].rows
    BY <1>1, <1>5 DEF Charge, DropRow, VerTypeOK
<1>7. vproc[v].rows \subseteq VChunks /\ \A c \in vproc[v].rows : queue[c].in
    BY <1>1 DEF VerInv, BatchOK, VerTypeOK
<1>8. BatchOK(v)'
    BY <1>2, <1>6, <1>7 DEF BatchOK, AtWork
<1>9. AttemptOK(v)'
    BY <1>6 DEF AttemptOK, VAt
<1> QED
    BY <1>4, <1>8, <1>9

\* record_raw_verification with evidence: the result is the attempt's, and no
\* failure of the chunk is.
LEMMA ProofIsRecorded ==
    ASSUME VerInv, NEW v \in Verifiers, RecordProof(v)
    PROVE  VerInv'
<1>1. VerTypeOK /\ VerTypeOK'
    BY BatchTypes DEF VerInv
<1>2. vproc[v].pc = "record" /\ vproc[v].pc \in AtWork
    BY DEF RecordProof, VAt, AtWork
<1>3. PICK c \in VChunks : c = Row(v) /\ queue[c].in
    BY <1>2, AtWorkRow
<1>4. /\ \A d \in DOMAIN failEvents : failEvents[d] # vspent.attempts
      /\ \A r \in results : r.id # vspent.attempts
      /\ vspent.attempts \in vhist /\ vspent.attempts \in Nat
    BY <1>1, <1>2, Attempts DEF VerInv, AttemptOK, VAt
<1>5. UNCHANGED <<failEvents, vlock, vspent, vhist>>
    BY DEF RecordProof
<1>6. CASE vproc'[v].pc = "event" /\ UNCHANGED <<queue, results>> /\ VGoes(v, "event")
    <2>1. /\ vproc'[v].rows = vproc[v].rows
          /\ \A u \in Verifiers : u # v => vproc'[u] = vproc[u]
        BY <1>1, <1>6 DEF VGoes, VerTypeOK
    <2>2. RecordsOK' /\ QueueOK'
        BY <1>1, <1>4, <1>5, <1>6, SameRecords DEF VerInv
    <2>3. \A u \in Verifiers : u # v => BatchOK(u)' /\ AttemptOK(u)'
        BY <1>2, <1>6, <2>1, AtWorkRow, OthersStay
    <2>4. BatchOK(v)'
        BY <1>2, <1>5, <1>6, <2>1 DEF VerInv, BatchOK, VAt
    <2>5. AttemptOK(v)'
        BY <1>4, <1>5, <1>6 DEF AttemptOK, VAt
    <2> QED
        BY <1>1, <2>2, <2>3, <2>4, <2>5 DEF VerInv
<1>7. CASE /\ results' = results \cup {[chunk |-> c, id |-> vspent.attempts]}
           /\ queue' = [queue EXCEPT ![c].proof = vspent.attempts, ![c].error = FALSE]
           /\ vproc' = [vproc EXCEPT ![v] = Charge(v)]
    <2>1. /\ queue'[c].proof = vspent.attempts /\ ~queue'[c].error
          /\ queue'[c].in = queue[c].in
          /\ \A d \in VChunks : d # c => queue'[d] = queue[d]
        BY <1>1, <1>7 DEF VerTypeOK, EntryType
    <2>2. QueueOK'
        <3>1. ASSUME NEW d \in VChunks, queue'[d].proof # NoProof
              PROVE  [chunk |-> d, id |-> queue'[d].proof] \in results'
            <4>1. CASE d = c
                <5>1. [chunk |-> d, id |-> queue'[d].proof] = [chunk |-> c, id |-> vspent.attempts]
                    BY <2>1, <4>1
                <5> QED
                    BY ONLY <1>7, <5>1
            <4>2. CASE d # c
                <5>1. queue'[d] = queue[d]
                    BY <2>1, <4>2
                <5>2. [chunk |-> d, id |-> queue[d].proof] \in results
                    BY <3>1, <5>1 DEF VerInv, QueueOK, Proved
                <5>3. \A r \in results : r \in results'
                    BY <1>7
                <5>4. [chunk |-> d, id |-> queue'[d].proof] = [chunk |-> d, id |-> queue[d].proof]
                    BY <5>1
                <5> QED
                    BY ONLY <5>2, <5>3, <5>4
            <4> QED
                BY <4>1, <4>2
        <3>2. ASSUME NEW d \in VChunks, queue'[d].error
              PROVE  queue'[d].in /\ queue'[d].proof = NoProof /\ d \in DOMAIN failEvents'
            <4>1. d # c /\ queue'[d] = queue[d]
                BY <2>1, <3>2
            <4> QED
                BY <1>5, <3>2, <4>1 DEF VerInv, QueueOK, Proved
        <3> QED
            BY <3>1, <3>2 DEF QueueOK, Proved
    <2>3. RecordsOK'
        BY <1>4, <1>5, <1>7 DEF VerInv, RecordsOK
    <2>4. \A d \in VChunks : queue[d].in => queue'[d].in
        BY <1>3, <2>1
    <2>5. /\ \A u \in Verifiers : u # v => BatchOK(u)' /\ AttemptOK(u)'
          /\ BatchOK(v)' /\ AttemptOK(v)'
        BY <1>2, <1>5, <1>7, <2>4, ChargedBatch
    <2> QED
        BY <1>1, <2>2, <2>3, <2>5 DEF VerInv
<1>8. VGoes(v, "event") => vproc'[v].pc = "event"
    BY <1>1 DEF VGoes, VerTypeOK
<1> QED
    BY <1>3, <1>6, <1>7, <1>8 DEF RecordProof

\* The first failure of a chunk is kept; its attempt has no result.
LEMMA FailureIsRecorded ==
    ASSUME VerInv, NEW v \in Verifiers, RecordFailure(v)
    PROVE  VerInv'
<1>1. VerTypeOK /\ VerTypeOK'
    BY BatchTypes DEF VerInv
<1>2. vproc[v].pc = "event" /\ vproc[v].pc \in AtWork
    BY DEF RecordFailure, VAt, AtWork
<1>3. PICK c \in VChunks : c = Row(v)
    BY <1>2, AtWorkRow
<1>4. /\ \A r \in results : r.id # vspent.attempts
      /\ vspent.attempts \in Nat
    BY <1>1, <1>2, Attempts DEF VerInv, AttemptOK, VAt
<1>5. /\ UNCHANGED <<queue, results, vlock, vspent, vhist>>
      /\ vproc'[v].pc = "error" /\ vproc'[v].rows = vproc[v].rows
      /\ \A u \in Verifiers : u # v => vproc'[u] = vproc[u]
    BY <1>1 DEF RecordFailure, VGoes, VerTypeOK
<1>6. /\ DOMAIN failEvents' = DOMAIN failEvents \cup {c}
      /\ \A d \in DOMAIN failEvents : failEvents'[d] = failEvents[d]
      /\ c \notin DOMAIN failEvents => failEvents'[c] = vspent.attempts
    BY <1>3 DEF RecordFailure
<1>7. RecordsOK'
    BY <1>4, <1>5, <1>6 DEF VerInv, RecordsOK
<1>8. QueueOK'
    BY <1>5, <1>6 DEF VerInv, QueueOK, Proved
<1>9. \A u \in Verifiers : u # v => BatchOK(u)' /\ AttemptOK(u)'
    BY <1>2, <1>5, AtWorkRow, OthersStay
<1>10. BatchOK(v)'
    BY <1>2, <1>5 DEF VerInv, BatchOK, VAt
<1>11. Row(v)' = c
    BY <1>3, <1>5 DEF Row
<1>12. AttemptOK(v)'
    BY <1>5, <1>6, <1>11 DEF AttemptOK, VAt
<1> QED
    BY <1>1, <1>7, <1>8, <1>9, <1>10, <1>12 DEF VerInv

\* The failed chunk loses its proof and waits.
LEMMA ErrorIsRecorded ==
    ASSUME VerInv, NEW v \in Verifiers, RecordError(v)
    PROVE  VerInv'
<1>1. VerTypeOK /\ VerTypeOK'
    BY BatchTypes DEF VerInv
<1>2. vproc[v].pc = "error" /\ vproc[v].pc \in AtWork
    BY DEF RecordError, VAt, AtWork
<1>3. PICK c \in VChunks : c = Row(v) /\ queue[c].in
    BY <1>2, AtWorkRow
<1>4. c \in DOMAIN failEvents
    BY <1>2, <1>3 DEF VerInv, AttemptOK, VAt
<1>5. /\ queue'[c].proof = NoProof /\ queue'[c].in = queue[c].in
      /\ \A d \in VChunks : d # c => queue'[d] = queue[d]
    BY <1>1, <1>3 DEF RecordError, VerTypeOK, EntryType
<1>6. UNCHANGED <<results, failEvents, vlock, vspent, vhist>>
    BY DEF RecordError
<1>7. RecordsOK'
    BY <1>6 DEF VerInv, RecordsOK
<1>8. QueueOK'
    BY <1>3, <1>4, <1>5, <1>6 DEF VerInv, QueueOK, Proved
<1>9. /\ \A u \in Verifiers : u # v => BatchOK(u)' /\ AttemptOK(u)'
      /\ BatchOK(v)' /\ AttemptOK(v)'
    BY <1>2, <1>3, <1>5, <1>6, ChargedBatch DEF RecordError
<1> QED
    BY <1>1, <1>7, <1>8, <1>9 DEF VerInv

-----------------------------------------------------------------------------
(* The steps around it. *)

\* enroll_raw_verification without the lock, a wait that ends, the archive and a
\* damaged disk: no chunk leaves the queue and no bytes become whole again.
LEMMA AroundSteps ==
    ASSUME VerInv, NEW c \in VChunks,
           Enrol(c) \/ BecomesDue(c) \/ Archives(c) \/ DamagesCopy(c)
    PROVE  VerInv'
<1>1. VerTypeOK /\ VerTypeOK'
    BY AroundTypes DEF VerInv
<1>2. /\ UNCHANGED <<results, failEvents, vlock, vproc, vhist>>
      /\ vspent'.attempts = vspent.attempts
    BY <1>1 DEF Enrol, BecomesDue, Archives, DamagesCopy, VerTypeOK
<1>3. ASSUME NEW d \in VChunks
      PROVE  /\ queue[d].in => queue'[d].in
             /\ queue'[d].proof \in {NoProof, queue[d].proof}
             /\ queue'[d].error => queue[d].error /\ queue'[d].in = queue[d].in
                                   /\ queue'[d].proof = queue[d].proof
    <2>1. CASE Enrol(c)
        BY <1>1, <2>1 DEF Enrol, VerTypeOK
    <2>2. CASE BecomesDue(c)
        BY <1>1, <2>2 DEF BecomesDue, VerTypeOK, EntryType
    <2>3. CASE Archives(c) \/ DamagesCopy(c)
        BY <2>3 DEF Archives, DamagesCopy
    <2> QED
        BY <2>1, <2>2, <2>3
<1>4. \A d \in VChunks : copy'[d].whole => copy[d].whole
    BY <1>1 DEF Enrol, BecomesDue, Archives, DamagesCopy, VerTypeOK, CopyType
<1>5. RecordsOK'
    BY <1>2 DEF VerInv, RecordsOK
<1>6. QueueOK'
    BY <1>2, <1>3 DEF VerInv, QueueOK, Proved
<1>7. ASSUME NEW v \in Verifiers PROVE BatchOK(v)' /\ AttemptOK(v)'
    <2>1. vproc[v].rows \subseteq VChunks
        BY <1>1 DEF VerTypeOK
    <2>2. BatchOK(v)'
        BY <1>2, <1>3, <2>1 DEF VerInv, BatchOK, VAt
    <2>3. VAt(v, "artifact") => Row(v) \in VChunks
        BY AtWorkRow DEF VAt, AtWork
    <2>4. Row(v)' = Row(v)
        BY <1>2 DEF Row
    <2>5. AttemptOK(v)'
        BY <1>2, <1>4, <2>3, <2>4 DEF VerInv, AttemptOK, VAt
    <2> QED
        BY <2>2, <2>5
<1> QED
    BY <1>1, <1>5, <1>6, <1>7 DEF VerInv

-----------------------------------------------------------------------------
(* The theorem. *)

LEMMA VerInitHolds == VerInit => VerInv
<1> SUFFICES ASSUME VerInit PROVE VerInv
    OBVIOUS
<1>1. RestingVerifier.rows = {} /\ RestingVerifier.pc = "idle"
    BY DEF RestingVerifier
<1>2. VerTypeOK
    <2>1. RestingVerifier \in [pc : {"idle", "row"} \cup AtWork, rows : SUBSET VChunks,
                               bytes : Nat, blocked : SUBSET VChunks, seen : CopyType]
        BY DEF RestingVerifier, CopyType
    <2>2. /\ copy \in [VChunks -> CopyType] /\ queue \in [VChunks -> EntryType]
          /\ vspent \in [attempts : 0..MaxVerifies, damages : 0..MaxAttacks,
                         kills : 0..MaxVerifyKills]
        BY VerificationAssumption DEF VerInit, CopyType, EntryType, NoProof
    <2>3. DOMAIN failEvents \subseteq VChunks /\ failEvents \in [DOMAIN failEvents -> Nat]
        BY DEF VerInit
    <2> QED
        BY <2>1, <2>2, <2>3 DEF VerInit, VerTypeOK
<1>3. QueueOK
    BY DEF VerInit, QueueOK, Proved, NoProof
<1>4. RecordsOK
    BY DEF VerInit, RecordsOK
<1>5. \A v \in Verifiers : BatchOK(v) /\ AttemptOK(v)
    BY <1>1 DEF VerInit, BatchOK, AttemptOK, VAt, AtWork
<1> QED
    BY <1>2, <1>3, <1>4, <1>5 DEF VerInv

LEMMA VerNextHolds == ASSUME VerInv, [VerNext]_vervars PROVE VerInv'
<1>1. CASE UNCHANGED vervars
    BY <1>1 DEF vervars, VerInv, VerTypeOK, QueueOK, RecordsOK, BatchOK, AttemptOK, Proved, VAt,
                Row
<1>2. CASE VerNext
    BY <1>2, AroundSteps, BatchEnds, ReadingSteps, ProofIsRecorded, FailureIsRecorded,
       ErrorIsRecorded DEF VerNext
<1> QED
    BY <1>1, <1>2

\* What the verification records is true for every number of processes, chunks,
\* damages, kills and attempts and every budget of a batch: a proof stands for bytes
\* that were whole when verify_chunk closed it, and belongs to its own chunk; a chunk
\* that failed is pending with the event of its first failure; and the queue reports
\* that it has caught up only when no chunk has failed.
THEOREM ProofsAreTrue == VerSpec => []ProofIsTrue
<1>1. VerInv => ProofIsTrue
    <2> SUFFICES ASSUME VerInv PROVE ProofIsTrue
        OBVIOUS
    <2>1. /\ \A r \in results : r.id \in vhist
          /\ \A c \in VChunks :
                c \in DOMAIN failEvents =>
                    \A r \in results : r.chunk = c => r.id # failEvents[c]
        BY DEF VerInv, RecordsOK
    <2>2. \A c \in VChunks :
              /\ Proved(c) => [chunk |-> c, id |-> queue[c].proof] \in results
              /\ queue[c].error => queue[c].in /\ ~Proved(c) /\ c \in DOMAIN failEvents
        BY DEF VerInv, QueueOK
    <2> QED
        BY <2>1, <2>2 DEF ProofIsTrue, CaughtUp
<1> QED
    BY <1>1, VerInitHolds, VerNextHolds, PTL DEF VerSpec

(***************************************************************************)
(* ArchiveSet: what a medium keeps of the identities and entries whose     *)
(* commit has returned, and what a rebuilt index holds.                    *)
(***************************************************************************)
-----------------------------------------------------------------------------
(* The inductive invariant. *)

Entry == [set : Sets, body : Bodies]
Entries == [SetChunks -> Entry \cup {NoEntry}]
Medium == [id : Sets \cup {Absent}, idSafe : Sets \cup {Absent}, dirs : BOOLEAN,
           dirsSafe : BOOLEAN, ent : Entries, entSafe : Entries, junk : SUBSET {"partial"}]

\* A process between bind or open and its close; between the look at the identity
\* and the end of commit_entry; and behind the directories' fsync.
Binding == {"rename id", "sync id", "bind dirs", "bind fsync"}
Ensured == {"entry", "rename entry", "sync entry", "lost entry"}
Entering == {"entry dirs", "entry fsync"} \cup Ensured
Binder == [pc : {"idle", "bound"} \cup Binding \cup Entering, m : Media \cup {Absent},
           set : Sets \cup {Absent}, chunk : SetChunks \cup {Absent},
           body : Bodies \cup {Absent}]

IdVow == [m : Media, id : Sets]
EntryVow == [m : Media, chunk : SetChunks, entry : Entry]
IndexRow == [set : Sets, chunk : SetChunks, m : Media, body : Bodies]

SetTypeOK ==
    /\ med \in [Media -> Medium]
    /\ bnd \in [Binders -> Binder]
    /\ vowed \subseteq IdVow \cup EntryVow
    /\ reb \in [pc : {"idle", "scan"}, todo : SUBSET Media, rows : SUBSET IndexRow,
                sets : SUBSET [m : Media, set : Sets], owed : SUBSET IndexRow]
    /\ setIndex \in [rows : SUBSET IndexRow, sets : SUBSET [m : Media, set : Sets],
                     owed : SUBSET IndexRow]
    /\ setFaults \in 0..MaxSetFaults

\* What is durable is what is visible, and an entry is visible only on a medium whose
\* identity and directories are durable.
MediumOK(m) ==
    /\ med[m].idSafe # Absent => med[m].id = med[m].idSafe
    /\ med[m].dirsSafe => med[m].dirs
    /\ \A c \in SetChunks :
          /\ med[m].entSafe[c] # NoEntry => med[m].ent[c] = med[m].entSafe[c]
          /\ med[m].ent[c] # NoEntry => med[m].ent[c].set = med[m].idSafe /\ med[m].dirsSafe

\* A process works on the medium and for the set it has found there.
BinderOK(w) ==
    /\ ~BndAt(w, "idle") => bnd[w].m \in Media \ Shelf /\ bnd[w].set \in Sets
    /\ bnd[w].pc \in {"bind dirs", "bind fsync"} => med[bnd[w].m].id = bnd[w].set
    /\ bnd[w].pc \in {"bind fsync", "entry fsync"} => med[bnd[w].m].dirs
    /\ bnd[w].pc \in Entering =>
          /\ bnd[w].chunk \in SetChunks /\ bnd[w].body \in Bodies
          /\ med[bnd[w].m].id = bnd[w].set
    /\ bnd[w].pc \in Ensured => med[bnd[w].m].idSafe = bnd[w].set /\ med[bnd[w].m].dirsSafe

\* What was returned is durable.
VowOK(v) ==
    /\ v \in IdVow => med[v.m].idSafe = v.id
    /\ v \in EntryVow => med[v.m].entSafe[v.chunk] = v.entry

\* The rebuild has the entries it owes of every medium it has read.
RebuildOK ==
    reb.pc = "scan" =>
        /\ \A o \in reb.owed : o.m \in reb.todo \/ o \in reb.rows
        /\ \A o \in reb.owed : \E v \in vowed \cap EntryVow : o = RowOf(v.m, v.chunk, v.entry)
        /\ \A r \in reb.rows : [m |-> r.m, set |-> r.set] \in reb.sets

SetInv ==
    /\ SetTypeOK
    /\ \A m \in Media : MediumOK(m)
    /\ \A w \in Binders : BinderOK(w)
    /\ \A v \in vowed : VowOK(v)
    /\ RebuildOK /\ IndexIsWhole
-----------------------------------------------------------------------------
(* Types. *)

LEMMA NoEntryIsNone == NoEntry \notin Entry /\ \A e \in Entry : e.set \in Sets /\ e.set # Absent
    BY ArchiveSetAssumption DEF NoEntry, Entry

LEMMA UnboundType == Unbound \in Binder /\ Unbound.pc = "idle" /\ Unbound.m = Absent
    BY DEF Unbound, Binder

LEMMA VowKinds ==
    ASSUME SetTypeOK
    PROVE  /\ \A v \in vowed : v \in IdVow <=> "entry" \notin DOMAIN v
           /\ \A v \in vowed : v \in EntryVow <=> "entry" \in DOMAIN v
           /\ EntryVows = vowed \cap EntryVow
<1>1. \A v \in IdVow : DOMAIN v = {"m", "id"}
    BY DEF IdVow
<1>2. \A v \in EntryVow : DOMAIN v = {"m", "chunk", "entry"}
    BY DEF EntryVow
<1>3. vowed \subseteq IdVow \cup EntryVow
    BY DEF SetTypeOK
<1>4. "entry" \notin {"m", "id"} /\ "entry" \in {"m", "chunk", "entry"}
    OBVIOUS
<1>5. /\ \A v \in vowed : v \in IdVow <=> "entry" \notin DOMAIN v
      /\ \A v \in vowed : v \in EntryVow <=> "entry" \in DOMAIN v
    BY <1>1, <1>2, <1>3, <1>4
<1> QED
    BY <1>5 DEF EntryVows

\* The program counter alone moves.
LEMMA GoType ==
    ASSUME SetTypeOK, NEW w \in Binders,
           NEW pc \in {"idle", "bound"} \cup Binding \cup Entering, BndGo(w, pc)
    PROVE  /\ bnd' \in [Binders -> Binder]
           /\ bnd'[w].pc = pc /\ bnd'[w].m = bnd[w].m /\ bnd'[w].set = bnd[w].set
           /\ bnd'[w].chunk = bnd[w].chunk /\ bnd'[w].body = bnd[w].body
           /\ \A u \in Binders : u # w => bnd'[u] = bnd[u]
<1>1. bnd \in [Binders -> Binder] /\ bnd[w] \in Binder
    BY DEF SetTypeOK
<1>2. bnd' = [bnd EXCEPT ![w] = [bnd[w] EXCEPT !.pc = pc]]
    BY DEF BndGo
<1>3. [bnd[w] EXCEPT !.pc = pc] \in Binder
    BY <1>1 DEF Binder
<1> QED
    BY <1>1, <1>2, <1>3 DEF Binder

LEMMA FailType ==
    ASSUME SetTypeOK, NEW w \in Binders, Fails(w)
    PROVE  /\ bnd' \in [Binders -> Binder] /\ bnd'[w].pc = "idle"
           /\ \A u \in Binders : u # w => bnd'[u] = bnd[u]
    BY UnboundType DEF Fails, SetTypeOK

\* One medium changes.
MediumBecomes(m, d) == d \in Medium /\ med' = [med EXCEPT ![m] = d]

LEMMA MediumFields ==
    ASSUME SetTypeOK, NEW m \in Media
    PROVE  /\ med[m] \in Medium
           /\ med[m].id \in Sets \cup {Absent} /\ med[m].idSafe \in Sets \cup {Absent}
           /\ med[m].ent \in Entries /\ med[m].entSafe \in Entries
           /\ med[m].dirs \in BOOLEAN /\ med[m].dirsSafe \in BOOLEAN
<1>1. med[m] \in Medium
    BY DEF SetTypeOK
<1> QED
    BY <1>1 DEF Medium

LEMMA SetFields ==
    ASSUME NEW d \in Medium
    PROVE  /\ \A s \in Sets \cup {Absent} : [d EXCEPT !.id = s] \in Medium
           /\ \A s \in Sets \cup {Absent} : [d EXCEPT !.idSafe = s] \in Medium
           /\ [d EXCEPT !.dirs = TRUE] \in Medium /\ [d EXCEPT !.dirsSafe = TRUE] \in Medium
           /\ \A e \in Entries : [d EXCEPT !.ent = e] \in Medium
           /\ \A e \in Entries : [d EXCEPT !.entSafe = e] \in Medium
           /\ \A j \in SUBSET {"partial"} : [d EXCEPT !.junk = j] \in Medium
<1>1. \A s \in Sets \cup {Absent} : [d EXCEPT !.id = s] \in Medium
    BY DEF Medium
<1>2. \A s \in Sets \cup {Absent} : [d EXCEPT !.idSafe = s] \in Medium
    BY DEF Medium
<1>3. [d EXCEPT !.dirs = TRUE] \in Medium
    BY DEF Medium
<1>4. [d EXCEPT !.dirsSafe = TRUE] \in Medium
    BY DEF Medium
<1>5. \A e \in Entries : [d EXCEPT !.ent = e] \in Medium
    BY DEF Medium
<1>6. \A e \in Entries : [d EXCEPT !.entSafe = e] \in Medium
    BY DEF Medium
<1>7. \A j \in SUBSET {"partial"} : [d EXCEPT !.junk = j] \in Medium
    BY DEF Medium
<1> QED
    BY <1>1, <1>2, <1>3, <1>4, <1>5, <1>6, <1>7

LEMMA BecomesType ==
    ASSUME SetTypeOK, NEW m \in Media, NEW d, MediumBecomes(m, d)
    PROVE  /\ med' \in [Media -> Medium] /\ med'[m] = d
           /\ \A n \in Media : n # m => med'[n] = med[n]
    BY DEF SetTypeOK, MediumBecomes

-----------------------------------------------------------------------------
(* What every step keeps. *)

\* Nothing durable is lost, and nothing visible but by a torn medium.
Grown(m) ==
    /\ med[m].idSafe # Absent => med'[m].idSafe = med[m].idSafe
    /\ med[m].dirsSafe => med'[m].dirsSafe
    /\ \A c \in SetChunks :
          med[m].entSafe[c] # NoEntry => med'[m].entSafe[c] = med[m].entSafe[c]
Live(m) == (med[m].id # Absent => med'[m].id = med[m].id) /\ (med[m].dirs => med'[m].dirs)

MediaKept == \A m \in Media : MediumOK(m)' /\ Grown(m) /\ Live(m)

LEMMA OneMedium ==
    ASSUME \A n \in Media : MediumOK(n), NEW m \in Media,
           \A n \in Media : n # m => med'[n] = med[n],
           MediumOK(m)', Grown(m), Live(m)
    PROVE  MediaKept
<1> SUFFICES ASSUME NEW n \in Media, n # m PROVE MediumOK(n)' /\ Grown(n) /\ Live(n)
    BY DEF MediaKept
<1>1. med'[n] = med[n] /\ MediumOK(n)
    OBVIOUS
<1> QED
    BY <1>1 DEF MediumOK, Grown, Live

LEMMA NoMedium == ASSUME \A n \in Media : MediumOK(n), UNCHANGED med PROVE MediaKept
    BY DEF MediumOK, Grown, Live, MediaKept

\* A process that did not move, on a medium that was not torn off.
LEMMA BinderStays ==
    ASSUME SetInv, NEW u \in Binders, bnd'[u] = bnd[u],
           ~BndAt(u, "idle") => Grown(bnd[u].m) /\ Live(bnd[u].m)
    PROVE  BinderOK(u)'
<1>1. CASE bnd[u].pc = "idle"
    BY <1>1 DEF BinderOK, BndAt, Entering, Ensured
<1>2. CASE bnd[u].pc # "idle"
    <2>1. /\ bnd[u].m \in Media \ Shelf /\ bnd[u].set \in Sets /\ bnd[u].set # Absent
          /\ Grown(bnd[u].m) /\ Live(bnd[u].m)
        BY <1>2, ArchiveSetAssumption DEF SetInv, BinderOK, BndAt
    <2>2. BinderOK(u)
        BY DEF SetInv
    <2> QED
        BY <2>1, <2>2 DEF BinderOK, BndAt, Grown, Live
<1> QED
    BY <1>1, <1>2

LEMMA VowsStay ==
    ASSUME SetInv, \A m \in Media : Grown(m)
    PROVE  \A v \in vowed : VowOK(v)'
<1> SUFFICES ASSUME NEW v \in vowed PROVE VowOK(v)'
    OBVIOUS
<1>1. VowOK(v)
    BY DEF SetInv
<1>2. ASSUME v \in IdVow PROVE med'[v.m].idSafe = v.id
    <2>1. v.m \in Media /\ v.id \in Sets /\ v.id # Absent
        BY <1>2, ArchiveSetAssumption DEF IdVow
    <2> QED
        BY <1>1, <1>2, <2>1 DEF VowOK, Grown
<1>3. ASSUME v \in EntryVow PROVE med'[v.m].entSafe[v.chunk] = v.entry
    <2>1. v.m \in Media /\ v.chunk \in SetChunks /\ v.entry # NoEntry
        BY <1>3, NoEntryIsNone DEF EntryVow
    <2> QED
        BY <1>1, <1>3, <2>1 DEF VowOK, Grown
<1> QED
    BY <1>2, <1>3 DEF VowOK

LEMMA RebuildStays ==
    ASSUME RebuildOK, UNCHANGED reb, vowed \subseteq vowed'
    PROVE  RebuildOK'
<1>1. \A v \in vowed \cap EntryVow : v \in vowed' \cap EntryVow
    OBVIOUS
<1> QED
    BY <1>1 DEF RebuildOK, RowOf

\* What a step of a process has to show.
LEMMA BinderStep ==
    ASSUME SetInv, NEW w \in Binders, MediaKept, BinderOK(w)', SetTypeOK',
           \A u \in Binders : u # w => bnd'[u] = bnd[u],
           UNCHANGED <<reb, setIndex>>, vowed \subseteq vowed',
           \A v \in vowed' \ vowed : VowOK(v)'
    PROVE  SetInv'
<1>1. \A m \in Media : MediumOK(m)' /\ Grown(m) /\ Live(m)
    BY DEF MediaKept
<1>2. \A u \in Binders : BinderOK(u)'
    <2> SUFFICES ASSUME NEW u \in Binders, u # w PROVE BinderOK(u)'
        OBVIOUS
    <2>1. ~BndAt(u, "idle") => Grown(bnd[u].m) /\ Live(bnd[u].m)
        BY <1>1 DEF SetInv, BinderOK
    <2> QED
        BY <2>1, BinderStays
<1>3. \A v \in vowed' : VowOK(v)'
    BY <1>1, VowsStay
<1>4. RebuildOK' /\ IndexIsWhole'
    BY RebuildStays DEF SetInv, IndexIsWhole
<1> QED
    BY <1>1, <1>2, <1>3, <1>4 DEF SetInv
-----------------------------------------------------------------------------
(* The steps that leave the media alone. *)

LEMMA QuietStep ==
    ASSUME SetInv, NEW w \in Binders, UNCHANGED <<med, reb, setIndex, vowed, setFaults>>,
           bnd' \in [Binders -> Binder], \A u \in Binders : u # w => bnd'[u] = bnd[u],
           BinderOK(w)'
    PROVE  SetInv'
<1>1. SetTypeOK'
    BY DEF SetInv, SetTypeOK
<1>2. MediaKept
    BY NoMedium DEF SetInv
<1> QED
    BY <1>1, <1>2, BinderStep

\* A process binds or opens a medium: it has a medium and a set.
LEMMA ArrivalSteps ==
    ASSUME SetInv, NEW w \in Binders, BindMedium(w) \/ OpenMedium(w)
    PROVE  SetInv'
<1>1. PICK m \in Media \ Shelf, s \in Sets, pc \in {"rename id", "sync id", "bound"} :
          bnd' = [bnd EXCEPT ![w] = [Unbound EXCEPT !.m = m, !.set = s, !.pc = pc]]
    <2>1. CASE BindMedium(w)
        BY <2>1 DEF BindMedium
    <2>2. CASE OpenMedium(w)
        <3>1. \A m \in Media \ Shelf : med[m].id \in Sets \cup {Absent}
            BY MediumFields DEF SetInv
        <3> QED
            BY <2>2, <3>1 DEF OpenMedium
    <2> QED
        BY <2>1, <2>2
<1> DEFINE b == [Unbound EXCEPT !.m = m, !.set = s, !.pc = pc]
<1>2. b \in Binder /\ b.m = m /\ b.set = s /\ b.pc = pc
    BY DEF Unbound, Binder, Binding
<1> HIDE DEF b
<1>3. bnd' \in [Binders -> Binder] /\ bnd'[w] = b /\ \A u \in Binders : u # w => bnd'[u] = bnd[u]
    BY <1>1, <1>2 DEF SetInv, SetTypeOK, b
<1>4. BinderOK(w)'
    BY <1>2, <1>3 DEF BinderOK, BndAt, Entering, Ensured
<1> QED
    BY <1>3, <1>4, QuietStep DEF BindMedium, OpenMedium

LEMMA FailingStep ==
    ASSUME SetInv, NEW w \in Binders, Fails(w), UNCHANGED <<med, reb, setIndex, vowed, setFaults>>
    PROVE  SetInv'
<1>1. /\ bnd' \in [Binders -> Binder] /\ bnd'[w].pc = "idle"
      /\ \A u \in Binders : u # w => bnd'[u] = bnd[u]
    BY FailType DEF SetInv
<1>2. BinderOK(w)'
    BY <1>1 DEF BinderOK, BndAt, Entering, Ensured
<1> QED
    BY <1>1, <1>2, QuietStep

\* commit_entry compares the identity; the entry that is there is compared.
LEMMA LookingSteps ==
    ASSUME SetInv, NEW w \in Binders, CommitSetEntry(w) \/ LookForEntry(w)
    PROVE  SetInv'
<1>1. CASE Fails(w)
    BY <1>1, FailingStep DEF CommitSetEntry, LookForEntry
<1>2. ASSUME CommitSetEntry(w), ~Fails(w) PROVE SetInv'
    <2>1. PICK c \in SetChunks, b \in Bodies :
              /\ med[bnd[w].m].id = bnd[w].set
              /\ bnd' = [bnd EXCEPT ![w].pc = "entry dirs", ![w].chunk = c, ![w].body = b]
        BY <1>2 DEF CommitSetEntry
    <2> DEFINE d == [bnd[w] EXCEPT !.pc = "entry dirs", !.chunk = c, !.body = b]
    <2>2. bnd[w] \in Binder /\ bnd' = [bnd EXCEPT ![w] = d]
        BY <2>1 DEF SetInv, SetTypeOK
    <2>3. /\ d \in Binder /\ d.pc = "entry dirs" /\ d.chunk = c /\ d.body = b
          /\ d.m = bnd[w].m /\ d.set = bnd[w].set
        BY <2>2 DEF Binder, Entering
    <2> HIDE DEF d
    <2>4. /\ bnd' \in [Binders -> Binder] /\ bnd'[w] = d
          /\ \A u \in Binders : u # w => bnd'[u] = bnd[u]
        BY <2>2, <2>3 DEF SetInv, SetTypeOK
    <2>5. bnd[w].m \in Media \ Shelf /\ bnd[w].set \in Sets
        BY <1>2 DEF CommitSetEntry, BndAt, SetInv, BinderOK
    <2>6. med' = med
        BY <1>2 DEF CommitSetEntry
    <2>7. BinderOK(w)'
        BY <2>1, <2>3, <2>4, <2>5, <2>6 DEF BinderOK, BndAt, Entering, Ensured
    <2> QED
        BY <1>2, <2>4, <2>7, QuietStep DEF CommitSetEntry
<1>3. ASSUME LookForEntry(w), ~Fails(w) PROVE SetInv'
    <2>1. PICK pc \in {"rename entry", "sync entry"} : BndGo(w, pc)
        BY <1>3 DEF LookForEntry
    <2>2. /\ bnd' \in [Binders -> Binder] /\ \A u \in Binders : u # w => bnd'[u] = bnd[u]
          /\ bnd'[w].pc = pc /\ bnd'[w].m = bnd[w].m /\ bnd'[w].set = bnd[w].set
          /\ bnd'[w].chunk = bnd[w].chunk /\ bnd'[w].body = bnd[w].body
        BY <2>1, GoType DEF SetInv, Entering, Ensured
    <2>3. bnd[w].pc = "entry" /\ med' = med /\ BinderOK(w)
        BY <1>3 DEF LookForEntry, BndAt, SetInv
    <2>4. BinderOK(w)'
        BY <2>2, <2>3 DEF BinderOK, BndAt, Entering, Ensured
    <2> QED
        BY <1>3, <2>2, <2>4, QuietStep DEF LookForEntry
<1> QED
    BY <1>1, <1>2, <1>3

-----------------------------------------------------------------------------
(* The steps of a process on its medium. *)
-----------------------------------------------------------------------------
(* The steps of a process on its medium. *)

\* MediumOK, Grown and Live of one medium, before and after.
Sound(d) ==
    /\ d.idSafe # Absent => d.id = d.idSafe
    /\ d.dirsSafe => d.dirs
    /\ \A c \in SetChunks :
          /\ d.entSafe[c] # NoEntry => d.ent[c] = d.entSafe[c]
          /\ d.ent[c] # NoEntry => d.ent[c].set = d.idSafe /\ d.dirsSafe
Grows(e, d) ==
    /\ e.idSafe # Absent => d.idSafe = e.idSafe
    /\ e.dirsSafe => d.dirsSafe
    /\ \A c \in SetChunks : e.entSafe[c] # NoEntry => d.entSafe[c] = e.entSafe[c]
Lives(e, d) == (e.id # Absent => d.id = e.id) /\ (e.dirs => d.dirs)

LEMMA SoundMedium == ASSUME SetInv, NEW m \in Media PROVE Sound(med[m])
    BY DEF SetInv, MediumOK, Sound

LEMMA MediumStep ==
    ASSUME SetInv, NEW w \in Binders, NEW m \in Media, NEW d \in Medium,
           med' = [med EXCEPT ![m] = d], Sound(d), Grows(med[m], d), Lives(med[m], d),
           bnd' \in [Binders -> Binder], \A u \in Binders : u # w => bnd'[u] = bnd[u],
           BinderOK(w)', UNCHANGED <<reb, setIndex>>, setFaults' \in 0..MaxSetFaults,
           vowed \subseteq vowed', vowed' \subseteq IdVow \cup EntryVow,
           \A v \in vowed' \ vowed : VowOK(v)'
    PROVE  SetInv'
<1>1. /\ med' \in [Media -> Medium] /\ med'[m] = d
      /\ \A n \in Media : n # m => med'[n] = med[n]
    BY DEF SetInv, SetTypeOK
<1>2. MediumOK(m)' /\ Grown(m) /\ Live(m)
    BY <1>1 DEF Sound, Grows, Lives, MediumOK, Grown, Live
<1>3. MediaKept
    BY <1>1, <1>2, OneMedium DEF SetInv
<1>4. SetTypeOK'
    BY <1>1 DEF SetInv, SetTypeOK
<1> QED
    BY <1>3, <1>4, BinderStep

\* Where a process is and what it works for.
LEMMA AtMedium ==
    ASSUME SetInv, NEW w \in Binders, bnd[w].pc # "idle"
    PROVE  /\ bnd[w].m \in Media \ Shelf /\ bnd[w].m \in Media
           /\ bnd[w].set \in Sets /\ bnd[w].set # Absent
           /\ med[bnd[w].m] \in Medium /\ Sound(med[bnd[w].m]) /\ BinderOK(w)
<1>1. bnd[w].m \in Media \ Shelf /\ bnd[w].set \in Sets /\ BinderOK(w)
    BY DEF SetInv, BinderOK, BndAt
<1> QED
    BY <1>1, SoundMedium, MediumFields, ArchiveSetAssumption DEF SetInv

\* _publish_no_clobber: an identity that is there stays.
LEMMA IdentityIsPublished ==
    ASSUME SetInv, NEW w \in Binders, PublishIdentity(w)
    PROVE  SetInv'
<1>1. bnd[w].pc = "rename id" /\ BndGo(w, "sync id")
      /\ UNCHANGED <<reb, setIndex, vowed, setFaults>>
    BY DEF PublishIdentity, BndAt
<1>2. PICK m \in Media \ Shelf : m = bnd[w].m
    BY <1>1, AtMedium
<1> DEFINE e == med[m]
           d == [e EXCEPT !.id = IF e.id = Absent THEN bnd[w].set ELSE e.id]
<1>3. /\ e \in Medium /\ Sound(e) /\ bnd[w].set \in Sets
      /\ bnd[w].set # Absent
    BY <1>1, <1>2, AtMedium
<1>4. med' = [med EXCEPT ![m] = d]
    BY <1>2 DEF PublishIdentity
<1>5. d \in Medium
    BY <1>3, SetFields, MediumFields, <1>2 DEF SetInv
<1>6. /\ d.idSafe = e.idSafe /\ d.dirs = e.dirs /\ d.dirsSafe = e.dirsSafe /\ d.ent = e.ent
      /\ d.entSafe = e.entSafe /\ d.id = IF e.id = Absent THEN bnd[w].set ELSE e.id
    BY <1>3 DEF Medium
<1> HIDE DEF d, e
<1>7. Sound(d) /\ Grows(e, d) /\ Lives(e, d)
    BY <1>3, <1>6 DEF Sound, Grows, Lives
<1>8. /\ bnd' \in [Binders -> Binder] /\ \A u \in Binders : u # w => bnd'[u] = bnd[u]
      /\ bnd'[w].pc = "sync id" /\ bnd'[w].m = m /\ bnd'[w].set = bnd[w].set
    BY <1>1, <1>2, GoType DEF SetInv, Binding
<1>9. BinderOK(w)'
    BY <1>3, <1>8, <1>2 DEF BinderOK, BndAt, Entering, Ensured
<1>10. vowed \subseteq IdVow \cup EntryVow /\ setFaults \in 0..MaxSetFaults
    BY DEF SetInv, SetTypeOK
<1> QED
    BY <1>1, <1>2, <1>4, <1>5, <1>7, <1>8, <1>9, <1>10, MediumStep DEF e

\* The root directory is synchronised: the identity is durable, or the bind fails.
LEMMA IdentityIsSynced ==
    ASSUME SetInv, NEW w \in Binders, SyncIdentity(w)
    PROVE  SetInv'
<1>1. bnd[w].pc = "sync id" /\ UNCHANGED <<reb, setIndex, vowed, setFaults>>
    BY DEF SyncIdentity, BndAt
<1>2. PICK m \in Media \ Shelf : m = bnd[w].m
    BY <1>1, AtMedium
<1>3. CASE med[m].id # bnd[w].set
    <2>1. med' = med /\ Fails(w)
        BY <1>2, <1>3 DEF SyncIdentity
    <2> QED
        BY <1>1, <2>1, FailingStep
<1>4. CASE med[m].id = bnd[w].set
    <2> DEFINE e == med[m]
               d == [e EXCEPT !.idSafe = e.id]
    <2>1. /\ e \in Medium /\ Sound(e) /\ e.id = bnd[w].set /\ bnd[w].set \in Sets
          /\ bnd[w].set # Absent
        BY <1>1, <1>2, <1>4, AtMedium
    <2>2. med' = [med EXCEPT ![m] = d] /\ BndGo(w, "bind dirs")
        BY <1>2, <1>4 DEF SyncIdentity
    <2>3. d \in Medium
        BY <2>1, SetFields, MediumFields, <1>2 DEF SetInv
    <2>4. /\ d.id = e.id /\ d.dirs = e.dirs /\ d.dirsSafe = e.dirsSafe /\ d.ent = e.ent
          /\ d.entSafe = e.entSafe /\ d.idSafe = e.id
        BY <2>1 DEF Medium
    <2>5. med'[m] = d
        BY <1>2, <2>2 DEF SetInv, SetTypeOK
    <2> HIDE DEF d, e
    <2>6. \A c \in SetChunks : e.ent[c] # NoEntry => e.idSafe # Absent
        BY <2>1, MediumFields, NoEntryIsNone, ArchiveSetAssumption, <1>2
        DEF Sound, Entries, SetInv, e
    <2>7. Sound(d) /\ Grows(e, d) /\ Lives(e, d)
        BY <2>1, <2>4, <2>6 DEF Sound, Grows, Lives
    <2>8. /\ bnd' \in [Binders -> Binder] /\ \A u \in Binders : u # w => bnd'[u] = bnd[u]
          /\ bnd'[w].pc = "bind dirs" /\ bnd'[w].m = m /\ bnd'[w].set = bnd[w].set
        BY <2>2, <1>2, GoType DEF SetInv, Binding
    <2>9. BinderOK(w)'
        BY <2>1, <2>4, <2>5, <2>8, <1>2 DEF BinderOK, BndAt, Entering, Ensured
    <2>10. vowed \subseteq IdVow \cup EntryVow /\ setFaults \in 0..MaxSetFaults
        BY DEF SetInv, SetTypeOK
    <2> QED
        BY <1>1, <1>2, <2>2, <2>3, <2>7, <2>8, <2>9, <2>10, MediumStep DEF e
<1> QED
    BY <1>3, <1>4
LEMMA EntryNeedsIdentity ==
    ASSUME NEW e \in Medium, Sound(e)
    PROVE  \A c \in SetChunks : e.ent[c] # NoEntry =>
              e.idSafe # Absent /\ e.id = e.idSafe /\ e.ent[c].set = e.idSafe /\ e.dirsSafe
<1>1. \A c \in SetChunks : e.ent[c] \in Entry \cup {NoEntry}
    BY DEF Medium, Entries
<1>2. \A c \in SetChunks : e.ent[c] # NoEntry => e.ent[c].set # Absent
    BY <1>1, NoEntryIsNone
<1> QED
    BY <1>2 DEF Sound

\* _ensure_inventory_directories.
LEMMA DirectoriesAreMade ==
    ASSUME SetInv, NEW w \in Binders, MakeDirectories(w)
    PROVE  SetInv'
<1>1. /\ bnd[w].pc \in {"bind dirs", "entry dirs"}
      /\ UNCHANGED <<reb, setIndex, vowed, setFaults>>
    BY DEF MakeDirectories
<1>2. PICK m \in Media \ Shelf : m = bnd[w].m
    BY <1>1, AtMedium
<1> DEFINE e == med[m]
           d == [e EXCEPT !.dirs = TRUE]
           pc == IF BndAt(w, "bind dirs") THEN "bind fsync" ELSE "entry fsync"
<1>3. e \in Medium /\ Sound(e) /\ BinderOK(w)
    BY <1>1, <1>2, AtMedium
<1>4. med' = [med EXCEPT ![m] = d] /\ BndGo(w, pc)
    BY <1>2 DEF MakeDirectories
<1>5. d \in Medium
    BY <1>3, SetFields
<1>6. /\ d.id = e.id /\ d.idSafe = e.idSafe /\ d.dirs /\ d.dirsSafe = e.dirsSafe
      /\ d.ent = e.ent /\ d.entSafe = e.entSafe
    BY <1>3 DEF Medium
<1>7. med'[m] = d
    BY <1>2, <1>4 DEF SetInv, SetTypeOK
<1> HIDE DEF d
<1>8. Sound(d) /\ Grows(e, d) /\ Lives(e, d)
    BY <1>3, <1>6 DEF Sound, Grows, Lives
<1>9. /\ bnd' \in [Binders -> Binder] /\ \A u \in Binders : u # w => bnd'[u] = bnd[u]
      /\ bnd'[w].pc = pc /\ bnd'[w].m = m /\ bnd'[w].set = bnd[w].set
      /\ bnd'[w].chunk = bnd[w].chunk /\ bnd'[w].body = bnd[w].body
    BY <1>2, <1>4, GoType DEF SetInv, Binding, Entering
<1>10. bnd[w].pc = "entry dirs" <=> pc = "entry fsync"
    BY <1>1 DEF BndAt
<1>11. BinderOK(w)'
    BY <1>1, <1>2, <1>3, <1>6, <1>7, <1>9, <1>10 DEF BinderOK, BndAt, Entering, Ensured
<1>12. vowed \subseteq IdVow \cup EntryVow /\ setFaults \in 0..MaxSetFaults
    BY DEF SetInv, SetTypeOK
<1> QED
    BY <1>1, <1>2, <1>4, <1>5, <1>8, <1>9, <1>11, <1>12, MediumStep

\* Then identity and entries are durable, and bind returns.
LEMMA DirectoriesAreSynced ==
    ASSUME SetInv, NEW w \in Binders, SyncDirectories(w)
    PROVE  SetInv'
<1>1. /\ bnd[w].pc \in {"bind fsync", "entry fsync"} /\ bnd[w].pc # "idle"
      /\ UNCHANGED <<reb, setIndex, setFaults>>
    BY DEF SyncDirectories
<1>2. PICK m \in Media \ Shelf : m = bnd[w].m
    BY <1>1, AtMedium
<1> DEFINE e == med[m]
           d == [e EXCEPT !.dirsSafe = TRUE, !.idSafe = e.id, !.entSafe = e.ent]
           pc == IF BndAt(w, "bind fsync") THEN "bound" ELSE "entry"
<1>3. /\ e \in Medium /\ Sound(e) /\ BinderOK(w) /\ bnd[w].set \in Sets
      /\ bnd[w].set # Absent
    BY <1>1, <1>2, AtMedium
<1>4. e.id = bnd[w].set /\ e.dirs
    BY <1>1, <1>2, <1>3 DEF BinderOK, Entering
<1>5. med' = [med EXCEPT ![m] = d] /\ BndGo(w, pc)
    BY <1>2 DEF SyncDirectories
<1>6. d \in Medium
    BY <1>3 DEF Medium
<1>7. /\ d.id = e.id /\ d.idSafe = e.id /\ d.dirs = e.dirs /\ d.dirsSafe
      /\ d.ent = e.ent /\ d.entSafe = e.ent
    BY <1>3 DEF Medium
<1>8. med'[m] = d
    BY <1>2, <1>5 DEF SetInv, SetTypeOK
<1> HIDE DEF d
<1>9. /\ \A c \in SetChunks : e.ent[c] # NoEntry => e.ent[c].set = e.id
      /\ \A c \in SetChunks : e.entSafe[c] # NoEntry => e.ent[c] = e.entSafe[c]
      /\ e.idSafe # Absent => e.id = e.idSafe
    BY <1>3, EntryNeedsIdentity DEF Sound
<1>10. Sound(d)
    BY <1>4, <1>7, <1>9 DEF Sound
<1>11. Grows(e, d) /\ Lives(e, d)
    BY <1>4, <1>7, <1>9 DEF Grows, Lives
<1>12. /\ bnd' \in [Binders -> Binder] /\ \A u \in Binders : u # w => bnd'[u] = bnd[u]
       /\ bnd'[w].pc = pc /\ bnd'[w].m = m /\ bnd'[w].set = bnd[w].set
       /\ bnd'[w].chunk = bnd[w].chunk /\ bnd'[w].body = bnd[w].body
    BY <1>2, <1>5, GoType DEF SetInv, Binding, Entering, Ensured
<1>13. bnd[w].pc = "entry fsync" <=> pc = "entry"
    BY <1>1 DEF BndAt
<1>14. BinderOK(w)'
    BY <1>1, <1>2, <1>3, <1>4, <1>7, <1>8, <1>12, <1>13 DEF BinderOK, BndAt, Entering, Ensured
<1>15. PICK vow \in IdVow : vow = [m |-> m, id |-> bnd[w].set]
    BY <1>2, <1>3 DEF IdVow
<1>16. vowed' \in {vowed, vowed \cup {vow}}
    BY <1>2, <1>15 DEF SyncDirectories
<1>17. VowOK(vow)'
    <2>1. vow \notin EntryVow
        <3>1. \A v \in EntryVow : "entry" \in DOMAIN v
            BY DEF EntryVow
        <3>2. "entry" \notin DOMAIN vow
            BY <1>15
        <3> QED
            BY <3>1, <3>2
    <2>2. vow.m = m /\ vow.id = d.idSafe
        BY <1>4, <1>7, <1>15
    <2> QED
        BY <1>8, <2>1, <2>2 DEF VowOK
<1>18. /\ vowed \subseteq vowed' /\ vowed' \subseteq IdVow \cup EntryVow
       /\ \A v \in vowed' \ vowed : VowOK(v)'
    BY <1>16, <1>17 DEF SetInv, SetTypeOK
<1>19. setFaults' \in 0..MaxSetFaults
    BY <1>1 DEF SetInv, SetTypeOK
<1> QED
    BY <1>1, <1>2, <1>5, <1>6, <1>10, <1>11, <1>12, <1>14, <1>18, <1>19, MediumStep

\* _atomic_publish: the first entry stays, and the identity is durable before it.
LEMMA EntryIsPublished ==
    ASSUME SetInv, NEW w \in Binders, PublishEntry(w)
    PROVE  SetInv'
<1>1. bnd[w].pc = "rename entry" /\ UNCHANGED <<reb, setIndex, vowed, setFaults>>
    BY DEF PublishEntry, BndAt
<1>2. PICK m \in Media \ Shelf : m = bnd[w].m
    BY <1>1, AtMedium
<1>3. /\ med[m] \in Medium /\ Sound(med[m]) /\ BinderOK(w) /\ bnd[w].set \in Sets
    BY <1>1, <1>2, AtMedium
<1>4. PICK c \in SetChunks : c = bnd[w].chunk
    BY <1>1, <1>3 DEF BinderOK, Entering, Ensured
<1>5. /\ med[m].idSafe = bnd[w].set /\ med[m].dirsSafe /\ SetEntry(w) \in Entry
      /\ SetEntry(w).set = bnd[w].set
    BY <1>1, <1>2, <1>3 DEF BinderOK, Entering, Ensured, SetEntry, Entry
<1>6. ASSUME NEW pc \in {"sync entry", "lost entry"}, BndGo(w, pc)
      PROVE  /\ bnd' \in [Binders -> Binder] /\ \A u \in Binders : u # w => bnd'[u] = bnd[u]
             /\ bnd'[w].pc = pc /\ bnd'[w].m = m /\ bnd'[w].set = bnd[w].set
             /\ bnd'[w].chunk = bnd[w].chunk /\ bnd'[w].body = bnd[w].body
    BY <1>2, <1>6, GoType DEF SetInv, Entering, Ensured
<1>7. CASE med' = med /\ BndGo(w, "lost entry")
    <2>1. BinderOK(w)'
        BY <1>1, <1>2, <1>3, <1>6, <1>7 DEF BinderOK, BndAt, Entering, Ensured
    <2> QED
        BY <1>1, <1>6, <1>7, <2>1, QuietStep
<1>8. CASE /\ med[m].ent[c] = NoEntry /\ BndGo(w, "sync entry")
           /\ med' = [med EXCEPT ![m].ent[c] = SetEntry(w)]
    <2> DEFINE e == med[m]
               d == [e EXCEPT !.ent = [e.ent EXCEPT ![c] = SetEntry(w)]]
    <2>1. med' = [med EXCEPT ![m] = d]
        BY <1>8
    <2>2. [e.ent EXCEPT ![c] = SetEntry(w)] \in Entries /\ e.ent \in Entries
        BY <1>5, <1>3 DEF Medium, Entries
    <2>3. d \in Medium
        BY <1>3, <2>2, SetFields
    <2>4. /\ d.id = e.id /\ d.idSafe = e.idSafe /\ d.dirs = e.dirs /\ d.dirsSafe = e.dirsSafe
          /\ d.entSafe = e.entSafe /\ d.ent = [e.ent EXCEPT ![c] = SetEntry(w)]
        BY <1>3 DEF Medium
    <2>5. /\ d.ent[c] = SetEntry(w) /\ \A x \in SetChunks : x # c => d.ent[x] = e.ent[x]
        BY <2>2, <2>4 DEF Entries
    <2>6. med'[m] = d
        BY <1>2, <2>1 DEF SetInv, SetTypeOK
    <2> HIDE DEF d, e
    <2>7. e.ent[c] = NoEntry
        BY <1>8 DEF e
    <2>8. e.idSafe = bnd[w].set /\ e.dirsSafe /\ Sound(e)
        BY <1>3, <1>5 DEF e
    <2>9. e.entSafe[c] = NoEntry
        BY <2>7, <2>8 DEF Sound
    <2>10. Sound(d)
        BY <1>5, <2>4, <2>5, <2>8, <2>9 DEF Sound
    <2>11. Grows(e, d) /\ Lives(e, d)
        BY <2>4 DEF Grows, Lives
    <2>12. BinderOK(w)'
        <3>1. /\ bnd'[w].pc = "sync entry" /\ bnd'[w].m = m /\ bnd'[w].set = bnd[w].set
              /\ bnd'[w].chunk = bnd[w].chunk /\ bnd'[w].body = bnd[w].body
            BY <1>6, <1>8
        <3>2. e.id = bnd[w].set /\ bnd[w].body \in Bodies
            BY <1>1, <1>2, <1>3 DEF BinderOK, Entering, Ensured, e
        <3>3. /\ med'[bnd'[w].m].id = bnd'[w].set /\ med'[bnd'[w].m].idSafe = bnd'[w].set
              /\ med'[bnd'[w].m].dirsSafe
            BY <2>4, <2>6, <2>8, <3>1, <3>2
        <3>4. bnd'[w].m \in Media \ Shelf /\ bnd'[w].set \in Sets /\ bnd'[w].chunk \in SetChunks
            BY <1>3, <1>4, <3>1
        <3> QED
            BY <3>1, <3>2, <3>3, <3>4 DEF BinderOK, BndAt, Entering, Ensured
    <2>13. vowed \subseteq IdVow \cup EntryVow /\ setFaults \in 0..MaxSetFaults
        BY DEF SetInv, SetTypeOK
    <2> QED
        BY <1>1, <1>2, <1>6, <1>8, <2>1, <2>3, <2>10, <2>11, <2>12, <2>13, MediumStep DEF e
<1> QED
    BY <1>2, <1>4, <1>7, <1>8 DEF PublishEntry

\* The entries' directory is synchronised, by the winner and by the loser, before
\* commit_entry returns.
LEMMA EntryIsSynced ==
    ASSUME SetInv, NEW w \in Binders, SyncSetEntry(w)
    PROVE  SetInv'
<1>1. /\ bnd[w].pc \in {"sync entry", "lost entry"} /\ bnd[w].pc # "idle"
      /\ UNCHANGED <<reb, setIndex, setFaults>> /\ BndGo(w, "bound")
    BY DEF SyncSetEntry
<1>2. PICK m \in Media \ Shelf : m = bnd[w].m
    BY <1>1, AtMedium
<1> DEFINE e == med[m]
           d == [e EXCEPT !.entSafe = e.ent]
<1>3. /\ e \in Medium /\ Sound(e) /\ BinderOK(w) /\ bnd[w].set \in Sets
    BY <1>1, <1>2, AtMedium
<1>4. PICK c \in SetChunks : c = bnd[w].chunk
    BY <1>1, <1>3 DEF BinderOK, Entering, Ensured
<1>5. SetEntry(w) \in Entry
    BY <1>1, <1>3 DEF BinderOK, Entering, Ensured, SetEntry, Entry
<1>6. med' = [med EXCEPT ![m] = d]
    BY <1>2 DEF SyncSetEntry
<1>7. d \in Medium
    BY <1>3 DEF Medium
<1>8. /\ d.id = e.id /\ d.idSafe = e.idSafe /\ d.dirs = e.dirs /\ d.dirsSafe = e.dirsSafe
      /\ d.ent = e.ent /\ d.entSafe = e.ent
    BY <1>3 DEF Medium
<1>9. med'[m] = d
    BY <1>2, <1>6 DEF SetInv, SetTypeOK
<1> HIDE DEF d
<1>10. Sound(d) /\ Grows(e, d) /\ Lives(e, d)
    BY <1>3, <1>8 DEF Sound, Grows, Lives
<1>11. /\ bnd' \in [Binders -> Binder] /\ \A u \in Binders : u # w => bnd'[u] = bnd[u]
       /\ bnd'[w].pc = "bound" /\ bnd'[w].m = m /\ bnd'[w].set = bnd[w].set
    BY <1>1, <1>2, GoType DEF SetInv
<1>12. BinderOK(w)'
    BY <1>2, <1>3, <1>11 DEF BinderOK, BndAt, Entering, Ensured
<1>12a. PICK vow \in EntryVow : vow = [m |-> m, chunk |-> c, entry |-> SetEntry(w)]
    BY <1>2, <1>4, <1>5 DEF EntryVow
<1>13. vowed' = IF e.ent[c] = SetEntry(w) THEN vowed \cup {vow} ELSE vowed
    BY <1>2, <1>4, <1>12a DEF SyncSetEntry
<1>14. vow.m = m /\ vow.chunk = c /\ vow.entry = SetEntry(w)
    BY <1>12a
<1>15. vow \notin IdVow
    <2>1. \A v \in IdVow : "entry" \notin DOMAIN v
        BY DEF IdVow
    <2>2. "entry" \in DOMAIN vow
        BY <1>12a
    <2> QED
        BY <2>1, <2>2
<1>16. ASSUME e.ent[c] = SetEntry(w) PROVE VowOK(vow)'
    <2>1. med'[vow.m].entSafe[vow.chunk] = vow.entry
        BY <1>8, <1>9, <1>14, <1>16
    <2> QED
        BY <1>15, <2>1 DEF VowOK
<1>17. /\ vowed \subseteq vowed' /\ vowed' \subseteq IdVow \cup EntryVow
       /\ \A v \in vowed' \ vowed : VowOK(v)'
    BY <1>13, <1>16 DEF SetInv, SetTypeOK
<1>18. setFaults' \in 0..MaxSetFaults
    BY <1>1 DEF SetInv, SetTypeOK
<1> QED
    BY <1>1, <1>2, <1>6, <1>7, <1>10, <1>11, <1>12, <1>17, <1>18, MediumStep
-----------------------------------------------------------------------------
(* Faults. *)

\* A killed process leaves its temporary file, which no one takes for an entry.
LEMMA BinderIsKilled ==
    ASSUME SetInv, NEW w \in Binders, KillBinder(w)
    PROVE  SetInv'
<1>1. bnd[w].pc # "idle" /\ Fails(w) /\ UNCHANGED <<reb, setIndex, vowed>>
    BY DEF KillBinder
<1>2. PICK m \in Media : m = bnd[w].m
    BY <1>1, AtMedium
<1> DEFINE e == med[m]
<1>3. e \in Medium /\ Sound(e)
    BY <1>1, <1>2, AtMedium
<1>4. PICK d \in Medium : /\ med' = [med EXCEPT ![m] = d]
                          /\ d.id = e.id /\ d.idSafe = e.idSafe /\ d.dirs = e.dirs
                          /\ d.dirsSafe = e.dirsSafe /\ d.ent = e.ent /\ d.entSafe = e.entSafe
    <2>1. CASE med' = med
        <3>1. med' = [med EXCEPT ![m] = e]
            BY <2>1 DEF SetInv, SetTypeOK
        <3> QED
            BY <1>3, <3>1
    <2>2. CASE med' = [med EXCEPT ![m].junk = {"partial"}]
        <3>1. [e EXCEPT !.junk = {"partial"}] \in Medium
            BY <1>3, SetFields
        <3>2. med' = [med EXCEPT ![m] = [e EXCEPT !.junk = {"partial"}]]
            BY <2>2
        <3> DEFINE f == [e EXCEPT !.junk = {"partial"}]
        <3>3. /\ f.id = e.id /\ f.idSafe = e.idSafe /\ f.dirs = e.dirs
              /\ f.dirsSafe = e.dirsSafe /\ f.ent = e.ent /\ f.entSafe = e.entSafe
            BY <1>3 DEF Medium
        <3> QED
            BY <3>1, <3>2, <3>3
    <2> QED
        BY <1>2, <2>1, <2>2 DEF KillBinder
<1>5. Sound(d) /\ Grows(e, d) /\ Lives(e, d)
    BY <1>3, <1>4 DEF Sound, Grows, Lives
<1>6. /\ bnd' \in [Binders -> Binder] /\ bnd'[w].pc = "idle"
      /\ \A u \in Binders : u # w => bnd'[u] = bnd[u]
    BY <1>1, FailType DEF SetInv
<1>7. BinderOK(w)'
    BY <1>6 DEF BinderOK, BndAt, Entering, Ensured
<1>8. vowed \subseteq IdVow \cup EntryVow
    BY DEF SetInv, SetTypeOK
<1>9. setFaults' \in 0..MaxSetFaults
    <2>1. setFaults \in 0..MaxSetFaults
        BY DEF SetInv, SetTypeOK
    <2>2. setFaults < MaxSetFaults /\ setFaults' = setFaults + 1
        BY DEF KillBinder
    <2> QED
        BY ONLY <2>1, <2>2, ArchiveSetAssumption DEF ArchiveSetAssumption
<1> QED
    BY <1>1, <1>4, <1>5, <1>6, <1>7, <1>8, <1>9, MediumStep

\* A torn medium keeps what was synchronised and any part of the rest.
LEMMA MediumIsTorn ==
    ASSUME SetInv, NEW m \in Media \ Shelf, TearOff(m)
    PROVE  SetInv'
<1> DEFINE e == med[m]
<1>1. e \in Medium /\ Sound(e) /\ e.ent \in Entries /\ e.entSafe \in Entries
    BY SoundMedium, MediumFields DEF SetInv
<1>2. PICK id \in {e.id, e.idSafe}, dirs \in {e.dirs, e.dirsSafe}, lost \in SUBSET SetChunks :
          med' = [med EXCEPT ![m] =
                    [id |-> id, idSafe |-> id, dirs |-> dirs, dirsSafe |-> dirs,
                     ent |-> [c \in SetChunks |-> IF ~dirs THEN NoEntry
                                                  ELSE IF c \in lost THEN e.entSafe[c]
                                                  ELSE e.ent[c]],
                     entSafe |-> [c \in SetChunks |-> IF ~dirs THEN NoEntry
                                                      ELSE IF c \in lost THEN e.entSafe[c]
                                                      ELSE e.ent[c]],
                     junk |-> e.junk]]
    BY DEF TearOff
<1> DEFINE kept == [c \in SetChunks |-> IF ~dirs THEN NoEntry
                                        ELSE IF c \in lost THEN e.entSafe[c] ELSE e.ent[c]]
           d == [id |-> id, idSafe |-> id, dirs |-> dirs, dirsSafe |-> dirs, ent |-> kept,
                 entSafe |-> kept, junk |-> e.junk]
<1>3. kept \in Entries
    BY <1>1 DEF Entries
<1>4. d \in Medium
    BY <1>1, <1>3 DEF Medium
<1>5. med' = [med EXCEPT ![m] = d]
    BY <1>2
<1>6. /\ d.id = id /\ d.idSafe = id /\ d.dirs = dirs /\ d.dirsSafe = dirs
      /\ d.ent = kept /\ d.entSafe = kept
    OBVIOUS
<1>7. \A c \in SetChunks :
          /\ kept[c] # NoEntry => dirs /\ (kept[c] = e.ent[c] \/ kept[c] = e.entSafe[c])
          /\ dirs => kept[c] = IF c \in lost THEN e.entSafe[c] ELSE e.ent[c]
    OBVIOUS
<1> HIDE DEF d, kept, e
<1>8. /\ e.idSafe # Absent => id = e.idSafe
      /\ e.dirsSafe => dirs
    BY <1>1 DEF Sound
<1>9. \A c \in SetChunks : kept[c] # NoEntry => kept[c] = e.ent[c]
    BY <1>1, <1>7 DEF Sound
<1>10. \A c \in SetChunks : kept[c] # NoEntry => kept[c].set = id
    BY <1>1, <1>8, <1>9, EntryNeedsIdentity
<1>11. Sound(d)
    BY <1>6, <1>7, <1>10 DEF Sound
<1>12. \A c \in SetChunks : e.entSafe[c] # NoEntry => kept[c] = e.entSafe[c]
    <2> SUFFICES ASSUME NEW c \in SetChunks, e.entSafe[c] # NoEntry
                 PROVE  kept[c] = e.entSafe[c]
        OBVIOUS
    <2>1. e.ent[c] = e.entSafe[c]
        BY <1>1 DEF Sound
    <2>2. dirs
        BY <1>1, <1>8, <2>1, EntryNeedsIdentity
    <2> QED
        BY <1>7, <2>1, <2>2
<1>13. Grows(e, d)
    BY <1>6, <1>8, <1>12 DEF Grows
<1>14. /\ med' \in [Media -> Medium] /\ med'[m] = d
       /\ \A n \in Media : n # m => med'[n] = med[n]
    BY <1>4, <1>5 DEF SetInv, SetTypeOK
<1>15. MediumOK(m)' /\ Grown(m)
    BY <1>11, <1>13, <1>14 DEF Sound, Grows, MediumOK, Grown, e
<1>16. \A n \in Media : MediumOK(n)' /\ Grown(n) /\ (n # m => Live(n))
    <2> SUFFICES ASSUME NEW n \in Media, n # m PROVE MediumOK(n)' /\ Grown(n) /\ Live(n)
        BY <1>15
    <2>1. med'[n] = med[n] /\ MediumOK(n)
        BY <1>14 DEF SetInv
    <2> QED
        BY <2>1 DEF MediumOK, Grown, Live
<1>17. /\ \A u \in Binders : bnd'[u] = IF bnd[u].m = m THEN Unbound ELSE bnd[u]
       /\ bnd' \in [Binders -> Binder]
    BY UnboundType DEF TearOff, SetInv, SetTypeOK
<1>18. \A u \in Binders : BinderOK(u)'
    <2> SUFFICES ASSUME NEW u \in Binders PROVE BinderOK(u)'
        OBVIOUS
    <2>1. CASE bnd[u].m = m
        <3>1. bnd'[u].pc = "idle"
            BY <1>17, <2>1, UnboundType
        <3> QED
            BY <3>1 DEF BinderOK, BndAt, Entering, Ensured
    <2>2. CASE bnd[u].m # m
        <3>1. ~BndAt(u, "idle") => Grown(bnd[u].m) /\ Live(bnd[u].m)
            BY <1>16, <2>2 DEF SetInv, BinderOK
        <3> QED
            BY <1>17, <2>2, <3>1, BinderStays
    <2> QED
        BY <2>1, <2>2
<1>19. UNCHANGED <<reb, setIndex, vowed>> /\ setFaults' \in 0..MaxSetFaults
    BY ArchiveSetAssumption DEF TearOff, SetInv, SetTypeOK
<1>20. SetTypeOK'
    BY <1>14, <1>17, <1>19 DEF SetInv, SetTypeOK
<1>21. \A v \in vowed' : VowOK(v)'
    BY <1>16, <1>19, VowsStay
<1>22. RebuildOK' /\ IndexIsWhole'
    BY <1>19, RebuildStays DEF SetInv, IndexIsWhole
<1> QED
    BY <1>16, <1>18, <1>20, <1>21, <1>22 DEF SetInv

-----------------------------------------------------------------------------
(* The rebuild of the index. *)

LEMMA IndexStep ==
    ASSUME SetInv, UNCHANGED <<med, bnd, vowed, setFaults>>,
           reb' \in [pc : {"idle", "scan"}, todo : SUBSET Media, rows : SUBSET IndexRow,
                     sets : SUBSET [m : Media, set : Sets], owed : SUBSET IndexRow],
           setIndex' \in [rows : SUBSET IndexRow, sets : SUBSET [m : Media, set : Sets],
                          owed : SUBSET IndexRow],
           RebuildOK', IndexIsWhole'
    PROVE  SetInv'
<1>1. SetTypeOK'
    BY DEF SetInv, SetTypeOK
<1>2. (\A m \in Media : MediumOK(m))' /\ (\A v \in vowed : VowOK(v))'
    BY DEF SetInv, MediumOK, VowOK
<1>3. (\A w \in Binders : BinderOK(w))'
    BY DEF SetInv, BinderOK, BndAt
<1> QED
    BY <1>1, <1>2, <1>3 DEF SetInv

LEMMA RowFacts ==
    ASSUME NEW m \in Media, NEW c \in SetChunks, NEW e \in Entry
    PROVE  /\ RowOf(m, c, e) \in IndexRow
           /\ RowOf(m, c, e).m = m /\ RowOf(m, c, e).set = e.set
    BY DEF RowOf, IndexRow, Entry

LEMMA RestingRebuild ==
    NoRebuild \in [pc : {"idle", "scan"}, todo : SUBSET Media, rows : SUBSET IndexRow,
                   sets : SUBSET [m : Media, set : Sets], owed : SUBSET IndexRow]
    BY DEF NoRebuild

\* The rebuild begins with every medium to read and owes every entry returned so far.
LEMMA RebuildBegins == ASSUME SetInv, StartRebuild PROVE SetInv'
<1>1. EntryVows = vowed \cap EntryVow
    BY VowKinds DEF SetInv
<1> DEFINE owed == {RowOf(v.m, v.chunk, v.entry) : v \in EntryVows}
<1>2. \A v \in EntryVows : /\ v.m \in Media /\ v.chunk \in SetChunks /\ v.entry \in Entry
                           /\ RowOf(v.m, v.chunk, v.entry) \in IndexRow
                           /\ RowOf(v.m, v.chunk, v.entry).m = v.m
    <2> SUFFICES ASSUME NEW v \in EntryVows
                 PROVE  /\ v.m \in Media /\ v.chunk \in SetChunks /\ v.entry \in Entry
                        /\ RowOf(v.m, v.chunk, v.entry) \in IndexRow
                        /\ RowOf(v.m, v.chunk, v.entry).m = v.m
        OBVIOUS
    <2>1. v.m \in Media /\ v.chunk \in SetChunks /\ v.entry \in Entry
        BY <1>1 DEF EntryVow
    <2> QED
        BY <2>1, RowFacts
<1>3. owed \in SUBSET IndexRow /\ \A o \in owed : o.m \in Media
    BY <1>2
<1>4. \A o \in owed : \E v \in vowed \cap EntryVow : o = RowOf(v.m, v.chunk, v.entry)
    BY <1>1
<1>5. reb' = [pc |-> "scan", todo |-> Media, rows |-> {}, sets |-> {}, owed |-> owed]
    BY DEF StartRebuild
<1> HIDE DEF owed
<1>6. /\ reb'.pc = "scan" /\ reb'.todo = Media /\ reb'.rows = {} /\ reb'.owed = owed
      /\ reb' \in [pc : {"idle", "scan"}, todo : SUBSET Media, rows : SUBSET IndexRow,
                   sets : SUBSET [m : Media, set : Sets], owed : SUBSET IndexRow]
    BY <1>3, <1>5
<1>7. UNCHANGED <<med, bnd, vowed, setFaults, setIndex>>
    BY DEF StartRebuild
<1>8. RebuildOK'
    BY <1>3, <1>4, <1>6, <1>7 DEF RebuildOK, RowOf
<1>9. IndexIsWhole' /\ setIndex' \in [rows : SUBSET IndexRow, sets : SUBSET [m : Media, set : Sets],
                                      owed : SUBSET IndexRow]
    BY <1>7 DEF SetInv, SetTypeOK, IndexIsWhole
<1> QED
    BY <1>6, <1>7, <1>8, <1>9, IndexStep

\* scan_archive_medium reads every entry that was returned for the medium, and
\* refuses one that names another set.
LEMMA MediumIsScanned == ASSUME SetInv, NEW m \in Media, ScanMedium(m) PROVE SetInv'
<1>1. UNCHANGED <<med, bnd, vowed, setFaults, setIndex>> /\ reb.pc = "scan"
    BY DEF ScanMedium
<1>2. IndexIsWhole' /\ setIndex' \in [rows : SUBSET IndexRow, sets : SUBSET [m : Media, set : Sets],
                                      owed : SUBSET IndexRow]
    BY <1>1 DEF SetInv, SetTypeOK, IndexIsWhole
<1>3. CASE reb' = NoRebuild
    <2>1. RebuildOK'
        BY <1>3 DEF RebuildOK, NoRebuild
    <2> QED
        BY <1>1, <1>2, <1>3, <2>1, RestingRebuild, IndexStep
<1> DEFINE found == {c \in SetChunks : med[m].ent[c] # NoEntry}
           seen == {RowOf(m, c, med[m].ent[c]) : c \in found}
<1>4. CASE /\ med[m].id # Absent /\ \A c \in found : med[m].ent[c].set = med[m].id
           /\ reb' = [reb EXCEPT !.todo = @ \ {m},
                        !.sets = @ \cup {[m |-> m, set |-> med[m].id]},
                        !.rows = @ \cup seen]
    <2>1. /\ med[m].id \in Sets /\ med[m].ent \in Entries /\ MediumOK(m)
        BY <1>4, MediumFields DEF SetInv
    <2>2. \A c \in found : /\ med[m].ent[c] \in Entry
                           /\ RowOf(m, c, med[m].ent[c]) \in IndexRow
                           /\ RowOf(m, c, med[m].ent[c]).m = m
                           /\ RowOf(m, c, med[m].ent[c]).set = med[m].id
        <3> SUFFICES ASSUME NEW c \in found
                     PROVE  /\ med[m].ent[c] \in Entry
                            /\ RowOf(m, c, med[m].ent[c]) \in IndexRow
                            /\ RowOf(m, c, med[m].ent[c]).m = m
                            /\ RowOf(m, c, med[m].ent[c]).set = med[m].id
            OBVIOUS
        <3>1. med[m].ent[c] \in Entry /\ c \in SetChunks
            BY <2>1 DEF Entries
        <3>2. med[m].ent[c].set = med[m].id
            BY <1>4
        <3> QED
            BY <3>1, <3>2, RowFacts
    <2>3. seen \in SUBSET IndexRow /\ \A r \in seen : r.m = m /\ r.set = med[m].id
        BY <2>2
    <2>4. [m |-> m, set |-> med[m].id] \in [m : Media, set : Sets]
        BY <2>1
    <2>5. reb \in [pc : {"idle", "scan"}, todo : SUBSET Media, rows : SUBSET IndexRow,
                   sets : SUBSET [m : Media, set : Sets], owed : SUBSET IndexRow]
        BY DEF SetInv, SetTypeOK
    <2>6. \A v \in vowed \cap EntryVow : v.m = m => RowOf(v.m, v.chunk, v.entry) \in seen
        <3> SUFFICES ASSUME NEW v \in vowed \cap EntryVow, v.m = m
                     PROVE  RowOf(m, v.chunk, v.entry) \in seen
            OBVIOUS
        <3>1. /\ v.chunk \in SetChunks /\ v.entry \in Entry /\ v.entry # NoEntry
              /\ med[m].entSafe[v.chunk] = v.entry
            BY NoEntryIsNone DEF EntryVow, SetInv, VowOK
        <3>2. med[m].ent[v.chunk] = v.entry /\ v.chunk \in found
            BY <2>1, <3>1 DEF MediumOK
        <3> QED
            BY <3>2
    <2> HIDE DEF seen
    <2>7. /\ reb'.pc = reb.pc /\ reb'.todo = reb.todo \ {m} /\ reb'.rows = reb.rows \cup seen
          /\ reb'.sets = reb.sets \cup {[m |-> m, set |-> med[m].id]} /\ reb'.owed = reb.owed
        BY <1>4, <2>5
    <2>8. reb' \in [pc : {"idle", "scan"}, todo : SUBSET Media, rows : SUBSET IndexRow,
                    sets : SUBSET [m : Media, set : Sets], owed : SUBSET IndexRow]
        BY <1>4, <2>3, <2>4, <2>5
    <2>9. \A o \in reb'.owed : o.m \in reb'.todo \/ o \in reb'.rows
        <3> SUFFICES ASSUME NEW o \in reb.owed PROVE o.m \in reb'.todo \/ o \in reb'.rows
            BY <2>7
        <3>1. o.m \in reb.todo \/ o \in reb.rows
            BY <1>1 DEF SetInv, RebuildOK
        <3>2. PICK v \in vowed \cap EntryVow : o = RowOf(v.m, v.chunk, v.entry)
            BY <1>1 DEF SetInv, RebuildOK
        <3>3. o.m = v.m
            BY <3>2, RowFacts DEF EntryVow
        <3> QED
            BY <2>6, <2>7, <3>1, <3>2, <3>3
    <2>10. \A o \in reb'.owed : \E v \in vowed' \cap EntryVow : o = RowOf(v.m, v.chunk, v.entry)
        BY <1>1, <2>7 DEF SetInv, RebuildOK
    <2>11. \A r \in reb'.rows : [m |-> r.m, set |-> r.set] \in reb'.sets
        <3>1. \A r \in reb.rows : [m |-> r.m, set |-> r.set] \in reb.sets
            BY <1>1 DEF SetInv, RebuildOK
        <3>2. \A r \in seen : [m |-> r.m, set |-> r.set] = [m |-> m, set |-> med[m].id]
            BY <2>3
        <3> QED
            BY <2>7, <3>1, <3>2
    <2>12. RebuildOK'
        BY <2>9, <2>10, <2>11 DEF RebuildOK, RowOf
    <2> QED
        BY <1>1, <1>2, <2>8, <2>12, IndexStep
<1> QED
    BY <1>3, <1>4 DEF ScanMedium

\* The index is replaced only when no chunk of a set is on two media.
LEMMA IndexIsCommitted == ASSUME SetInv, CommitIndex PROVE SetInv'
<1>1. /\ UNCHANGED <<med, bnd, vowed, setFaults>> /\ reb' = NoRebuild
      /\ reb.pc = "scan" /\ reb.todo = {}
    BY DEF CommitIndex
<1>2. RebuildOK'
    BY <1>1 DEF RebuildOK, NoRebuild
<1>3. CASE UNCHANGED setIndex
    <2>1. IndexIsWhole' /\ setIndex' \in [rows : SUBSET IndexRow,
                                          sets : SUBSET [m : Media, set : Sets],
                                          owed : SUBSET IndexRow]
        BY <1>3 DEF SetInv, SetTypeOK, IndexIsWhole
    <2> QED
        BY <1>1, <1>2, <2>1, RestingRebuild, IndexStep
<1>4. CASE /\ \A r, q \in reb.rows : r.set = q.set /\ r.chunk = q.chunk => r = q
           /\ setIndex' = [rows |-> reb.rows, sets |-> reb.sets, owed |-> reb.owed]
    <2>1. /\ reb.owed \subseteq reb.rows
          /\ \A r \in reb.rows : [m |-> r.m, set |-> r.set] \in reb.sets
        BY <1>1 DEF SetInv, RebuildOK
    <2>2. /\ setIndex'.rows = reb.rows /\ setIndex'.sets = reb.sets /\ setIndex'.owed = reb.owed
        BY <1>4
    <2>3. IndexIsWhole'
        BY <1>4, <2>1, <2>2 DEF IndexIsWhole
    <2>4. setIndex' \in [rows : SUBSET IndexRow, sets : SUBSET [m : Media, set : Sets],
                         owed : SUBSET IndexRow]
        BY <1>4 DEF SetInv, SetTypeOK
    <2> QED
        BY <1>1, <1>2, <2>3, <2>4, RestingRebuild, IndexStep
<1> QED
    BY <1>3, <1>4 DEF CommitIndex

-----------------------------------------------------------------------------
(* The theorem. *)

LEMMA FilledMedium ==
    ASSUME NEW s \in Sets
    PROVE  /\ Filled(s) \in Medium /\ Sound(Filled(s))
           /\ Filled(s).id = s /\ Filled(s).idSafe = s
           /\ \A c \in SetChunks : /\ Filled(s).ent[c] \in Entry
                                   /\ Filled(s).entSafe[c] = Filled(s).ent[c]
<1> DEFINE b == CHOOSE x \in Bodies : TRUE
           entries == [c \in SetChunks |-> [set |-> s, body |-> b]]
<1>1. b \in Bodies
    BY ArchiveSetAssumption
<1> HIDE DEF b
<1>2. [set |-> s, body |-> b] \in Entry
    BY <1>1 DEF Entry
<1>3. entries \in Entries /\ \A c \in SetChunks : entries[c] \in Entry /\ entries[c].set = s
    BY <1>2 DEF Entries
<1>4. Filled(s) = [id |-> s, idSafe |-> s, dirs |-> TRUE, dirsSafe |-> TRUE, ent |-> entries,
                   entSafe |-> entries, junk |-> {}]
    BY DEF Filled, b
<1> HIDE DEF entries
<1>5. Filled(s) \in Medium
    BY <1>3, <1>4 DEF Medium
<1>6. Sound(Filled(s))
    BY <1>3, <1>4 DEF Sound
<1> QED
    BY <1>3, <1>4, <1>5, <1>6

LEMMA BlankMedium == Blank \in Medium /\ Sound(Blank)
<1>1. [c \in SetChunks |-> NoEntry] \in Entries
    BY DEF Entries
<1>2. Blank \in Medium
    BY <1>1 DEF Blank, Medium
<1>3. Sound(Blank)
    BY DEF Blank, Sound
<1> QED
    BY <1>2, <1>3

LEMMA SetInitHolds == ArchiveSetInit => SetInv
<1> SUFFICES ASSUME ArchiveSetInit PROVE SetInv
    OBVIOUS
<1>1. PICK s \in Sets : med = [m \in Media |-> IF m \in Shelf THEN Filled(s) ELSE Blank]
    BY DEF ArchiveSetInit
<1>2. \A m \in Media : med[m] \in Medium /\ Sound(med[m])
    BY <1>1, FilledMedium, BlankMedium
<1>3. \A m \in Shelf : m \in Media /\ med[m] = Filled(s)
    BY <1>1, ArchiveSetAssumption
<1>4. \A w \in Binders : bnd[w] = Unbound
    BY DEF ArchiveSetInit
<1>5. \A v \in vowed : \/ /\ v \in IdVow /\ v \notin EntryVow /\ med[v.m].idSafe = v.id
                       \/ /\ v \in EntryVow /\ v \notin IdVow
                          /\ med[v.m].entSafe[v.chunk] = v.entry
    <2>1. ASSUME NEW m \in Shelf
          PROVE  LET v == [m |-> m, id |-> med[m].id] IN
                 v \in IdVow /\ v \notin EntryVow /\ med[v.m].idSafe = v.id
        <3>1. m \in Media /\ med[m].id = s /\ med[m].idSafe = s
            BY <1>3, FilledMedium
        <3>2. \A v \in EntryVow : "entry" \in DOMAIN v
            BY DEF EntryVow
        <3>3. "entry" \notin DOMAIN [m |-> m, id |-> med[m].id]
            OBVIOUS
        <3> QED
            BY <3>1, <3>2, <3>3 DEF IdVow
    <2>2. ASSUME NEW m \in Shelf, NEW c \in SetChunks
          PROVE  LET v == [m |-> m, chunk |-> c, entry |-> med[m].ent[c]] IN
                 v \in EntryVow /\ v \notin IdVow /\ med[v.m].entSafe[v.chunk] = v.entry
        <3>1. m \in Media /\ med[m].ent[c] \in Entry /\ med[m].entSafe[c] = med[m].ent[c]
            BY <1>3, FilledMedium
        <3>2. \A v \in IdVow : "entry" \notin DOMAIN v
            BY DEF IdVow
        <3>3. "entry" \in DOMAIN [m |-> m, chunk |-> c, entry |-> med[m].ent[c]]
            OBVIOUS
        <3> QED
            BY <3>1, <3>2, <3>3 DEF EntryVow
    <2>3. vowed = {[m |-> m, id |-> med[m].id] : m \in Shelf}
                    \cup {[m |-> m, chunk |-> c, entry |-> med[m].ent[c]] :
                             m \in Shelf, c \in SetChunks}
        BY DEF ArchiveSetInit
    <2> QED
        BY <2>1, <2>2, <2>3
<1>6. SetTypeOK
    <2>1. med \in [Media -> Medium]
        BY <1>1, <1>2
    <2>2. bnd \in [Binders -> Binder]
        BY UnboundType DEF ArchiveSetInit
    <2>3. vowed \subseteq IdVow \cup EntryVow
        BY <1>5
    <2> QED
        BY <2>1, <2>2, <2>3, RestingRebuild, ArchiveSetAssumption DEF ArchiveSetInit, SetTypeOK
<1>7. \A m \in Media : MediumOK(m)
    BY <1>2 DEF MediumOK, Sound
<1>8. \A w \in Binders : BinderOK(w)
    BY <1>4, UnboundType DEF BinderOK, BndAt, Entering, Ensured
<1>9. \A v \in vowed : VowOK(v)
    BY <1>5 DEF VowOK
<1>10. RebuildOK /\ IndexIsWhole
    BY DEF ArchiveSetInit, NoRebuild, RebuildOK, IndexIsWhole
<1> QED
    BY <1>6, <1>7, <1>8, <1>9, <1>10 DEF SetInv

LEMMA SetNextHolds == ASSUME SetInv, [ArchiveSetNext]_setvars PROVE SetInv'
<1>1. CASE UNCHANGED setvars
    <2>1. UNCHANGED <<med, bnd, vowed, setFaults, reb, setIndex>>
        BY <1>1 DEF setvars
    <2>2. SetTypeOK' /\ RebuildOK' /\ IndexIsWhole'
        BY <2>1, RebuildStays DEF SetInv, SetTypeOK, IndexIsWhole
    <2> QED
        BY <2>1, <2>2, IndexStep DEF SetTypeOK
<1>2. ASSUME NEW w \in Binders, CloseStore(w) PROVE SetInv'
    BY <1>2, FailingStep DEF CloseStore
<1>3. CASE ArchiveSetNext
    BY <1>2, <1>3, ArrivalSteps, LookingSteps, IdentityIsPublished, IdentityIsSynced,
       DirectoriesAreMade, DirectoriesAreSynced, EntryIsPublished, EntryIsSynced,
       BinderIsKilled, MediumIsTorn, RebuildBegins, MediumIsScanned, IndexIsCommitted
    DEF ArchiveSetNext
<1> QED
    BY <1>1, <1>3

\* An archive set keeps its promises for every number of media, sets, processes,
\* chunks, kills and torn media: what bind or commit_entry has returned is on the
\* medium for ever, so a medium has one set and a chunk one entry; every durable
\* entry has the durable identity of its medium, though it may have been written by a
\* process that only opened it; and an index that was rebuilt has every entry that had
\* been returned before, under its own set and no chunk twice.
THEOREM PromisesOfSets == ArchiveSetSpec => []ArchiveSetIsKept
<1>1. SetInv => ArchiveSetIsKept
    <2> SUFFICES ASSUME SetInv PROVE ArchiveSetIsKept
        OBVIOUS
    <2>1. PromisesAreKept
        <3> SUFFICES ASSUME NEW v \in vowed
                     PROVE  IF "entry" \in DOMAIN v THEN med[v.m].ent[v.chunk] = v.entry
                            ELSE med[v.m].id = v.id
            BY DEF PromisesAreKept
        <3>1. /\ v \in IdVow <=> "entry" \notin DOMAIN v
              /\ v \in EntryVow <=> "entry" \in DOMAIN v
            BY VowKinds DEF SetInv
        <3>2. ASSUME v \in IdVow PROVE med[v.m].id = v.id
            <4>1. v.m \in Media /\ v.id # Absent /\ med[v.m].idSafe = v.id
                BY <3>2, ArchiveSetAssumption DEF IdVow, SetInv, VowOK
            <4> QED
                BY <4>1 DEF SetInv, MediumOK
        <3>3. ASSUME v \in EntryVow PROVE med[v.m].ent[v.chunk] = v.entry
            <4>1. /\ v.m \in Media /\ v.chunk \in SetChunks /\ v.entry # NoEntry
                  /\ med[v.m].entSafe[v.chunk] = v.entry
                BY <3>3, NoEntryIsNone DEF EntryVow, SetInv, VowOK
            <4> QED
                BY <4>1 DEF SetInv, MediumOK
        <3> QED
            BY <3>1, <3>2, <3>3
    <2>2. EntriesHaveIdentity
        BY DEF SetInv, MediumOK, EntriesHaveIdentity
    <2>3. IndexIsWhole
        BY DEF SetInv
    <2> QED
        BY <2>1, <2>2, <2>3 DEF ArchiveSetIsKept
<1> QED
    BY <1>1, SetInitHolds, SetNextHolds, PTL DEF ArchiveSetSpec

(***************************************************************************)
(* CatalogSnapshot: the generations that a retention document names, and   *)
(* the stages that exporters stream from.                                  *)
(***************************************************************************)
-----------------------------------------------------------------------------
(* The inductive invariant. *)

Document == [generation : Nat, latest : 0..MaxGenerations, previous : 0..MaxGenerations]
Presence == {"whole", "absent", "part"}

\* The steps of the keeper of the store, in their order.
Written == {"sync1", "replace2", "sync2", "cleanup"}
Active == {"receive", "publish", "sync", "replace1"} \cup Written

ReceiptStates == {"NONE", "REMOTE_DELETE_PENDING", "REMOTE_DELETED"}

Slot == [seen : Document, durable : Document]
Generation == [seen : Presence, durable : Presence]
Keeper == [pc : {"off"} \cup Active, from : Exporters, required : ReceiptStates,
           id : 0..MaxGenerations, base : Document, first : 1..2, left : SUBSET Generations]
Stage == [pc : {"off", "cleanup", "stage", "lock", "backup", "stream"},
          stage : {"none", "locked", "copied"}, lock : BOOLEAN,
          required : ReceiptStates, copy : ReceiptStates]

SnapshotTypeOK ==
    /\ remote \in ReceiptStates /\ exporter \in [Exporters -> Stage]
    /\ slots \in [1..2 -> Slot] /\ gens \in [Generations -> Generation]
    /\ acked \in Nat /\ csSpent \in [begun : Nat, losses : Nat, kills : Nat]
    /\ keeper \in Keeper /\ (keeper.pc # "off" => keeper.id # 0)

\* Every document that a slot shows, or may show after a power loss.
Documents == {slots[1].seen, slots[1].durable, slots[2].seen, slots[2].durable}

\* A generation that no power loss can take.
Solid(g) == gens[g].seen = "whole" /\ gens[g].durable = "whole"

\* Documents are at least as new as the last result, and all they name is solid.
DocumentsOK ==
    \A d \in Documents :
        /\ d.generation >= acked /\ (d.generation > 0 => d.latest # 0)
        /\ d.latest # 0 => Solid(d.latest)
        /\ d.previous # 0 => Solid(d.previous)

\* A number stands for one document, and a slot is never older than its disk.
NumbersOK ==
    /\ \A d, e \in Documents : d.generation = e.generation => d = e
    /\ \A n \in 1..2 : slots[n].durable.generation <= slots[n].seen.generation

\* The keeper's new document is the newest, and what it names is solid before it is
\* written; both slots hold it on disk before a generation is removed.
KeeperOK ==
    keeper.pc # "off" =>
      /\ keeper.base.generation >= acked
      /\ keeper.base.latest # 0 => Solid(keeper.base.latest)
      /\ \A d \in Documents : d.generation <= keeper.base.generation \/ d = Updated
      /\ keeper.pc = "sync" => gens[keeper.id].seen = "whole"
      /\ keeper.pc \in {"replace1"} \cup Written => Solid(keeper.id)
      /\ keeper.pc \in Written => slots[keeper.first].seen = Updated
      /\ keeper.pc \in Written \ {"sync1"} => slots[keeper.first].durable = Updated
      /\ keeper.pc \in {"sync2", "cleanup"} => slots[3 - keeper.first].seen = Updated
      /\ keeper.pc = "cleanup" =>
            /\ slots[3 - keeper.first].durable = Updated
            /\ keeper.id \notin keeper.left /\ keeper.base.latest \notin keeper.left

\* Whoever copies or streams holds the lock of its stage.
StagesOK ==
    \A e \in Exporters :
        /\ exporter[e].pc \in {"backup", "stream"} => exporter[e].lock
        /\ exporter[e].pc = "stream" => exporter[e].stage = "copied"

StoreOK == DocumentsOK /\ NumbersOK /\ KeeperOK
SnapshotInv == SnapshotTypeOK /\ StoreOK /\ StagesOK

-----------------------------------------------------------------------------
(* Facts about one state. *)

LEMMA TwoSlots ==
    ASSUME SnapshotTypeOK, NEW n \in 1..2
    PROVE  /\ slots[n] \in Slot /\ slots[n].seen \in Document /\ slots[n].durable \in Document
           /\ slots[n].seen \in Documents /\ slots[n].durable \in Documents
BY DEF SnapshotTypeOK, Slot, Documents

LEMMA DocumentTypes ==
    ASSUME SnapshotTypeOK, NEW d \in Documents
    PROVE  /\ d \in Document /\ d.generation \in Nat
           /\ d.latest \in 0..MaxGenerations /\ d.previous \in 0..MaxGenerations
<1>1. 1 \in 1..2 /\ 2 \in 1..2
    OBVIOUS
<1> QED
    BY <1>1 DEF SnapshotTypeOK, Slot, Documents, Document

\* Every slot is valid, so what is read is the newest document.
LEMMA NewestIsRead ==
    ASSUME SnapshotTypeOK, DocumentsOK, NumbersOK
    PROVE  /\ Readable /\ ReadRetention \in Documents
           /\ \A d \in Documents : d.generation <= ReadRetention.generation
<1>1. ValidSlots = 1..2
    <2> SUFFICES ASSUME NEW n \in 1..2 PROVE ValidSlot(slots[n].seen)
        BY DEF ValidSlots
    <2>1. slots[n].seen \in Documents
        BY TwoSlots
    <2> QED
        BY <2>1 DEF DocumentsOK, Solid, ValidSlot
<1>2. Readable
    <2>1. 1 \in 1..2 /\ 2 \in 1..2
        OBVIOUS
    <2> QED
        BY <1>1, <2>1, TwoSlots DEF Readable, NumbersOK
<1> DEFINE Newest(n) == \A k \in ValidSlots : slots[k].seen.generation <= slots[n].seen.generation
<1>3. \E n \in ValidSlots : Newest(n)
    <2>1. slots[1].seen.generation \in Nat /\ slots[2].seen.generation \in Nat
        BY TwoSlots, DocumentTypes
    <2>2. CASE slots[1].seen.generation <= slots[2].seen.generation
        <3>1. Newest(2)
            BY <1>1, <2>1, <2>2
        <3> QED
            BY <1>1, <3>1
    <2>3. CASE slots[2].seen.generation <= slots[1].seen.generation
        <3>1. Newest(1)
            BY <1>1, <2>1, <2>3
        <3> QED
            BY <1>1, <3>1
    <2> QED
        BY <2>1, <2>2, <2>3
<1>4. PICK n \in 1..2 : Newest(n) /\ ReadRetention = slots[n].seen
    <2>1. ReadRetention = slots[CHOOSE n \in ValidSlots : Newest(n)].seen
        BY DEF ReadRetention
    <2> HIDE DEF Newest
    <2> QED
        BY <1>1, <1>3, <2>1
<1>5. ReadRetention \in Documents
    BY <1>4, TwoSlots
<1>6. ASSUME NEW d \in Documents PROVE d.generation <= ReadRetention.generation
    <2>1. PICK k \in 1..2 : d \in {slots[k].seen, slots[k].durable}
        BY DEF Documents
    <2>2. /\ slots[k].seen \in Documents /\ slots[k].durable \in Documents
          /\ slots[k].durable.generation <= slots[k].seen.generation
          /\ slots[k].seen.generation <= ReadRetention.generation
        BY <1>1, <1>4, TwoSlots DEF NumbersOK
    <2>3. /\ slots[k].seen.generation \in Nat /\ slots[k].durable.generation \in Nat
          /\ ReadRetention.generation \in Nat
        BY <1>5, <2>2, DocumentTypes
    <2> QED
        BY <2>1, <2>2, <2>3
<1> QED
    BY <1>2, <1>5, <1>6

LEMMA UpdatedIs ==
    ASSUME SnapshotTypeOK
    PROVE  /\ Updated \in Document /\ Updated.generation = keeper.base.generation + 1
           /\ Updated.latest = keeper.id /\ Updated.previous = keeper.base.latest
           /\ keeper.base.generation \in Nat /\ keeper.base.latest \in 0..MaxGenerations
           /\ keeper.id \in 0..MaxGenerations
<1>1. /\ keeper.base.generation \in Nat /\ keeper.base.latest \in 0..MaxGenerations
      /\ keeper.id \in 0..MaxGenerations
    BY DEF SnapshotTypeOK, Keeper, Document
<1> QED
    BY <1>1 DEF Updated, Document

-----------------------------------------------------------------------------
(* The steps. *)

\* Steps of the exporters.
LEMMA StoreUntouched ==
    ASSUME StoreOK, UNCHANGED <<slots, gens, acked, keeper>>
    PROVE  StoreOK'
BY DEF StoreOK, DocumentsOK, NumbersOK, KeeperOK, Documents, Solid, Updated

\* A store that is at rest.
LEMMA AtRest == ASSUME keeper.pc = "off" PROVE KeeperOK
BY DEF KeeperOK

\* Documents that stay name generations that stay.
LEMMA DocumentsStay ==
    ASSUME SnapshotTypeOK, DocumentsOK, NumbersOK, UNCHANGED <<slots, acked>>,
           \A d \in Documents : /\ d.latest # 0 /\ Solid(d.latest) => Solid(d.latest)'
                                /\ d.previous # 0 /\ Solid(d.previous) => Solid(d.previous)'
    PROVE  DocumentsOK' /\ NumbersOK'
<1>1. Documents' = Documents
    BY DEF Documents
<1>2. NumbersOK'
    BY <1>1 DEF NumbersOK
<1>3. DocumentsOK'
    BY <1>1 DEF DocumentsOK
<1> QED
    BY <1>2, <1>3

\* What a step of the keeper keeps of its memory.
LEMMA KeeperGoes ==
    ASSUME SnapshotTypeOK, NEW p \in Active, NEW f \in 1..2, NEW l \in SUBSET Generations,
           keeper.pc # "off",
           keeper' = [keeper EXCEPT !.pc = p, !.first = f, !.left = l]
    PROVE  /\ keeper' \in Keeper /\ keeper'.pc = p /\ keeper'.id = keeper.id
           /\ keeper'.base = keeper.base /\ keeper'.first = f /\ keeper'.left = l
           /\ Updated' = Updated /\ keeper'.id # 0 /\ keeper'.pc # "off"
<1>1. /\ keeper' \in Keeper /\ keeper'.pc = p /\ keeper'.id = keeper.id
      /\ keeper'.base = keeper.base /\ keeper'.first = f /\ keeper'.left = l
    BY DEF SnapshotTypeOK, Keeper
<1> QED
    BY <1>1 DEF SnapshotTypeOK, Updated, Active, Written

\* The same, for a step that only goes on.
LEMMA KeeperGoesOn ==
    ASSUME SnapshotTypeOK, NEW p \in Active, keeper.pc # "off",
           keeper' = [keeper EXCEPT !.pc = p]
    PROVE  /\ keeper' \in Keeper /\ keeper'.pc = p /\ keeper'.id = keeper.id
           /\ keeper'.base = keeper.base /\ keeper'.first = keeper.first
           /\ keeper'.left = keeper.left
           /\ Updated' = Updated /\ keeper'.id # 0 /\ keeper'.pc # "off"
<1>1. /\ keeper' \in Keeper /\ keeper'.pc = p /\ keeper'.id = keeper.id
      /\ keeper'.base = keeper.base /\ keeper'.first = keeper.first
      /\ keeper'.left = keeper.left
    BY DEF SnapshotTypeOK, Keeper
<1> QED
    BY <1>1 DEF SnapshotTypeOK, Updated, Active, Written

\* A snapshot begins from the newest document there is.
LEMMA BeginsFromNewest ==
    ASSUME SnapshotInv, NEW e \in Exporters, SnapshotPostSession(e)
    PROVE  SnapshotInv'
<1>1. /\ SnapshotTypeOK /\ DocumentsOK /\ NumbersOK /\ StagesOK
    BY DEF SnapshotInv, StoreOK
<1>2. /\ exporter[e].pc = "off" /\ csSpent.begun < MaxGenerations
      /\ exporter' = [exporter EXCEPT ![e] =
                        [NoStage EXCEPT !.pc = "cleanup", !.required = remote,
                                        !.stage = exporter[e].stage]]
      /\ csSpent' = [csSpent EXCEPT !.begun = @ + 1]
      /\ keeper' = [NoKeeper EXCEPT !.pc = "receive", !.from = e, !.required = remote,
                       !.id = csSpent.begun + 1, !.base = ReadRetention]
      /\ UNCHANGED <<remote, slots, gens, acked>>
    BY DEF SnapshotPostSession, Export
<1>3. /\ ReadRetention \in Documents /\ ReadRetention \in Document
      /\ \A d \in Documents : d.generation <= ReadRetention.generation
    BY <1>1, NewestIsRead, DocumentTypes
<1>4. csSpent.begun \in Nat /\ csSpent.begun + 1 \in 1..MaxGenerations
    BY <1>1, <1>2, SnapshotAssumption DEF SnapshotTypeOK
<1>5. /\ keeper' \in Keeper /\ keeper'.pc = "receive" /\ keeper'.id # 0
      /\ keeper'.base = ReadRetention
    <2>1. {} \in SUBSET Generations /\ 1 \in 1..2 /\ csSpent.begun + 1 \in 0..MaxGenerations
        BY <1>4
    <2>2. remote \in ReceiptStates /\ "receive" \in {"off"} \cup Active
        BY <1>1 DEF SnapshotTypeOK, Active
    <2>3. keeper' = [pc |-> "receive", from |-> e, required |-> remote,
                     id |-> csSpent.begun + 1, base |-> ReadRetention, first |-> 1,
                     left |-> {}]
        BY <1>2 DEF NoKeeper
    <2> QED
        BY <1>3, <1>4, <2>1, <2>2, <2>3 DEF Keeper
<1>6. exporter' \in [Exporters -> Stage] /\ StagesOK'
    <2>1. remote \in ReceiptStates /\ exporter[e] \in Stage /\ exporter \in [Exporters -> Stage]
        BY <1>1 DEF SnapshotTypeOK
    <2> DEFINE s == [NoStage EXCEPT !.pc = "cleanup", !.required = remote,
                                    !.stage = exporter[e].stage]
    <2>2. s \in Stage /\ s.pc = "cleanup"
        BY <2>1 DEF NoStage, Stage, ReceiptStates
    <2> HIDE DEF s
    <2>3. exporter' = [exporter EXCEPT ![e] = s]
        BY <1>2 DEF s
    <2> QED
        BY <1>1, <2>1, <2>2, <2>3 DEF StagesOK
<1>7. SnapshotTypeOK'
    BY <1>1, <1>2, <1>5, <1>6 DEF SnapshotTypeOK
<1>8. DocumentsOK' /\ NumbersOK' /\ Documents' = Documents
    BY <1>1, <1>2 DEF DocumentsOK, NumbersOK, Documents, Solid
<1>9. KeeperOK'
    <2>1. /\ ReadRetention.generation >= acked
          /\ ReadRetention.latest # 0 => Solid(ReadRetention.latest)
        BY <1>1, <1>3 DEF DocumentsOK
    <2> QED
        BY <1>2, <1>3, <1>5, <1>8, <2>1 DEF KeeperOK, Solid, Written
<1> QED
    BY <1>6, <1>7, <1>8, <1>9 DEF SnapshotInv, StoreOK

\* A step of the keeper before it writes: generations only become solid.
LEMMA BeforeWriting ==
    ASSUME SnapshotInv, keeper.pc # "off",
           gens' \in [Generations -> Generation],
           \A g \in Generations : Solid(g) => Solid(g)',
           UNCHANGED <<remote, exporter, slots, acked, csSpent>>,
           NEW p \in Active \ Written, NEW f \in 1..2,
           keeper' = [keeper EXCEPT !.pc = p, !.first = f],
           p = "sync" => gens'[keeper.id].seen = "whole",
           p = "replace1" => Solid(keeper.id)'
    PROVE  SnapshotInv'
<1>1. /\ SnapshotTypeOK /\ DocumentsOK /\ NumbersOK /\ StagesOK /\ KeeperOK
      /\ keeper.left \in SUBSET Generations /\ keeper \in Keeper
    BY DEF SnapshotInv, StoreOK, SnapshotTypeOK, Keeper
<1>2. keeper' = [keeper EXCEPT !.pc = p, !.first = f, !.left = keeper.left]
    BY <1>1 DEF Keeper
<1>3. /\ keeper' \in Keeper /\ keeper'.pc = p /\ keeper'.id = keeper.id
      /\ keeper'.base = keeper.base /\ Updated' = Updated /\ keeper'.id # 0
    <2>1. p \in Active
        OBVIOUS
    <2> QED
        BY ONLY <1>1, <1>2, <2>1, KeeperGoes, keeper.pc # "off", f \in 1..2
<1>4. SnapshotTypeOK'
    BY <1>1, <1>3 DEF SnapshotTypeOK
<1>5. \A d \in Documents : /\ d.latest # 0 => d.latest \in Generations
                           /\ d.previous # 0 => d.previous \in Generations
    BY <1>1, DocumentTypes, SnapshotAssumption DEF Generations
<1>6. DocumentsOK' /\ NumbersOK'
    BY <1>1, <1>5, DocumentsStay
<1>7. StagesOK'
    BY <1>1 DEF StagesOK
<1>8. Documents' = Documents
    BY DEF Documents
<1>9. KeeperOK'
    <2>1. keeper.base.latest # 0 => keeper.base.latest \in Generations
        BY <1>1, UpdatedIs, SnapshotAssumption DEF Generations
    <2>2. /\ keeper.base.generation >= acked
          /\ keeper.base.latest # 0 => Solid(keeper.base.latest)'
          /\ \A d \in Documents : d.generation <= keeper.base.generation \/ d = Updated
        BY <1>1, <2>1 DEF KeeperOK
    <2>3. p \notin Written
        OBVIOUS
    <2> QED
        BY <1>3, <1>8, <2>2, <2>3 DEF KeeperOK, Solid, Written
<1> QED
    BY <1>4, <1>6, <1>7, <1>9 DEF SnapshotInv, StoreOK

LEMMA ReceiveKeeps ==
    ASSUME SnapshotInv, NEW e \in Exporters, Receive(e) PROVE SnapshotInv'
<1>1. /\ keeper.pc = "receive" /\ keeper' = [keeper EXCEPT !.pc = "publish"]
      /\ UNCHANGED <<remote, exporter, slots, gens, acked, csSpent>>
    BY DEF Receive
<1>2. /\ keeper \in Keeper /\ keeper.first \in 1..2 /\ gens \in [Generations -> Generation]
    BY DEF SnapshotInv, SnapshotTypeOK, Keeper
<1>3. keeper' = [keeper EXCEPT !.pc = "publish", !.first = keeper.first]
    BY <1>1, <1>2 DEF Keeper
<1>4. "publish" \in Active \ Written
    BY DEF Active, Written
<1>5. \A g \in Generations : Solid(g) => Solid(g)'
    BY <1>1 DEF Solid
<1> QED
    BY <1>1, <1>2, <1>3, <1>4, <1>5, BeforeWriting

LEMMA PublishKeeps == ASSUME SnapshotInv, PublishGeneration PROVE SnapshotInv'
<1>1. /\ keeper.pc = "publish" /\ keeper' = [keeper EXCEPT !.pc = "sync"]
      /\ gens' = [gens EXCEPT ![keeper.id].seen = "whole"]
      /\ UNCHANGED <<remote, exporter, slots, acked, csSpent>>
    BY DEF PublishGeneration
<1>2. /\ keeper \in Keeper /\ keeper.first \in 1..2 /\ gens \in [Generations -> Generation]
      /\ keeper.id \in 0..MaxGenerations /\ keeper.id # 0
    BY <1>1 DEF SnapshotInv, SnapshotTypeOK, Keeper
<1>3. keeper' = [keeper EXCEPT !.pc = "sync", !.first = keeper.first]
    BY <1>1, <1>2 DEF Keeper
<1>4. "sync" \in Active \ Written
    BY DEF Active, Written
<1>5. keeper.id \in Generations
    BY <1>2, SnapshotAssumption DEF Generations
<1>6. /\ gens' \in [Generations -> Generation] /\ gens'[keeper.id].seen = "whole"
      /\ \A g \in Generations : Solid(g) => Solid(g)'
    BY <1>1, <1>2, <1>5 DEF Solid, Generation, Presence
<1> QED
    BY <1>1, <1>2, <1>3, <1>4, <1>6, BeforeWriting

\* What fsync makes of a directory.
LEMMA SyncedGenerations ==
    ASSUME gens \in [Generations -> Generation]
    PROVE  /\ Synced(gens) \in [Generations -> Generation]
           /\ \A g \in Generations : /\ Synced(gens)[g].seen = gens[g].seen
                                     /\ Synced(gens)[g].durable = gens[g].seen
BY DEF Synced, Both, Generation

LEMMA SyncGenerationsKeeps == ASSUME SnapshotInv, SyncGenerations PROVE SnapshotInv'
<1>1. /\ keeper.pc = "sync" /\ gens' = Synced(gens)
      /\ keeper' = [keeper EXCEPT !.pc = "replace1", !.first = FirstSlot]
      /\ UNCHANGED <<remote, exporter, slots, acked, csSpent>>
    BY DEF SyncGenerations, SyncsDirectory
<1>2. /\ FirstSlot \in 1..2 /\ gens \in [Generations -> Generation]
      /\ keeper.id \in 0..MaxGenerations /\ keeper.id # 0
    BY <1>1 DEF SnapshotInv, SnapshotTypeOK, Keeper, FirstSlot
<1>3. "replace1" \in Active \ Written
    BY DEF Active, Written
<1>4. keeper.id \in Generations /\ gens[keeper.id].seen = "whole"
    BY <1>1, <1>2, SnapshotAssumption DEF Generations, SnapshotInv, StoreOK, KeeperOK
<1>5. /\ gens' \in [Generations -> Generation]
      /\ \A g \in Generations : Solid(g) => Solid(g)'
      /\ Solid(keeper.id)'
    <2>1. \A g \in Generations : gens'[g].seen = gens[g].seen /\ gens'[g].durable = gens[g].seen
        BY <1>1, <1>2, SyncedGenerations
    <2>2. keeper.id' = keeper.id
        BY <1>1 DEF SnapshotInv, SnapshotTypeOK, Keeper
    <2> QED
        BY <1>1, <1>2, <1>4, <2>1, <2>2, SyncedGenerations DEF Solid
<1> QED
    BY <1>1, <1>2, <1>3, <1>5, BeforeWriting

-----------------------------------------------------------------------------
(* Writing the documents. *)

\* Slots that show, now or after a power loss, what they did or the new document.
LEMMA DocumentsWritten ==
    ASSUME SnapshotInv, keeper.pc \in {"replace1"} \cup Written,
           slots' \in [1..2 -> Slot], Documents' \subseteq Documents \cup {Updated},
           \A n \in 1..2 : slots'[n].durable.generation <= slots'[n].seen.generation,
           UNCHANGED <<gens, acked>>
    PROVE  /\ DocumentsOK' /\ NumbersOK'
           /\ \A d \in Documents' : d.generation <= keeper.base.generation \/ d = Updated
<1>1. /\ SnapshotTypeOK /\ DocumentsOK /\ NumbersOK /\ KeeperOK /\ keeper.pc # "off"
    BY DEF SnapshotInv, StoreOK, Written
<1>2. /\ Updated \in Document /\ Updated.generation = keeper.base.generation + 1
      /\ Updated.latest = keeper.id /\ Updated.previous = keeper.base.latest
      /\ keeper.base.generation \in Nat /\ keeper.id # 0 /\ acked \in Nat
    BY <1>1, UpdatedIs DEF SnapshotTypeOK
<1>3. /\ keeper.base.generation >= acked /\ Solid(keeper.id)
      /\ keeper.base.latest # 0 => Solid(keeper.base.latest)
      /\ \A d \in Documents : d.generation <= keeper.base.generation \/ d = Updated
    BY <1>1 DEF KeeperOK
<1>4. \A d \in Documents : d.generation \in Nat
    BY <1>1, DocumentTypes
<1>5. DocumentsOK'
    <2> SUFFICES ASSUME NEW d \in Documents'
                 PROVE  /\ d.generation >= acked /\ (d.generation > 0 => d.latest # 0)
                        /\ d.latest # 0 => Solid(d.latest)
                        /\ d.previous # 0 => Solid(d.previous)
        BY DEF DocumentsOK, Solid
    <2>1. CASE d \in Documents
        BY <1>1, <2>1 DEF DocumentsOK
    <2>2. CASE d = Updated
        BY <1>2, <1>3, <2>2
    <2> QED
        BY <2>1, <2>2
<1>6. NumbersOK'
    <2>1. ASSUME NEW d \in Documents', NEW e \in Documents', d.generation = e.generation
          PROVE  d = e
        <3>1. CASE d \in Documents /\ e \in Documents
            BY <1>1, <2>1, <3>1 DEF NumbersOK
        <3>2. CASE d = Updated \/ e = Updated
            BY <1>2, <1>3, <1>4, <2>1, <3>2
        <3> QED
            BY <3>1, <3>2
    <2> QED
        BY <2>1 DEF NumbersOK
<1> QED
    BY <1>3, <1>5, <1>6

\* A keeper that writes, and what it has written.
LEMMA WritingKeeps ==
    ASSUME SnapshotInv, keeper.pc \in {"replace1"} \cup Written,
           slots' \in [1..2 -> Slot], Documents' \subseteq Documents \cup {Updated},
           \A n \in 1..2 : slots'[n].durable.generation <= slots'[n].seen.generation,
           UNCHANGED <<remote, exporter, gens, acked, csSpent>>,
           NEW p \in Written, NEW l \in SUBSET Generations,
           keeper' = [keeper EXCEPT !.pc = p, !.left = l],
           slots'[keeper.first].seen = Updated,
           p # "sync1" => slots'[keeper.first].durable = Updated,
           p \in {"sync2", "cleanup"} => slots'[3 - keeper.first].seen = Updated,
           p = "cleanup" => /\ slots'[3 - keeper.first].durable = Updated
                            /\ keeper.id \notin l /\ keeper.base.latest \notin l
    PROVE  SnapshotInv'
<1>1. /\ SnapshotTypeOK /\ KeeperOK /\ StagesOK /\ keeper.pc # "off"
      /\ keeper \in Keeper /\ keeper.first \in 1..2 /\ p \in Active
    BY DEF SnapshotInv, StoreOK, SnapshotTypeOK, Keeper, Written, Active
<1>2. keeper' = [keeper EXCEPT !.pc = p, !.first = keeper.first, !.left = l]
    BY <1>1 DEF Keeper
<1>3. /\ keeper' \in Keeper /\ keeper'.pc = p /\ keeper'.id = keeper.id
      /\ keeper'.base = keeper.base /\ Updated' = Updated /\ keeper'.id # 0
      /\ keeper'.first = keeper.first /\ keeper'.left = l
    BY ONLY <1>1, <1>2, KeeperGoes, l \in SUBSET Generations
<1>4. /\ DocumentsOK' /\ NumbersOK'
      /\ \A d \in Documents' : d.generation <= keeper.base.generation \/ d = Updated
    BY DocumentsWritten
<1>5. SnapshotTypeOK' /\ StagesOK'
    BY <1>1, <1>3 DEF SnapshotTypeOK, StagesOK
<1>6. /\ keeper.base.generation >= acked /\ Solid(keeper.id)
      /\ keeper.base.latest # 0 => Solid(keeper.base.latest)
    BY <1>1 DEF KeeperOK
<1>7. KeeperOK'
    BY <1>3, <1>4, <1>6 DEF KeeperOK, Solid, Written
<1> QED
    BY <1>4, <1>5, <1>7 DEF SnapshotInv, StoreOK

\* A slot is replaced: its disk still has what it had.
LEMMA SlotReplaced ==
    ASSUME SnapshotInv, keeper.pc # "off", NEW n \in 1..2,
           slots' = [slots EXCEPT ![n].seen = Updated]
    PROVE  /\ slots' \in [1..2 -> Slot] /\ Documents' \subseteq Documents \cup {Updated}
           /\ \A k \in 1..2 : slots'[k].durable.generation <= slots'[k].seen.generation
           /\ slots'[n].seen = Updated /\ slots'[n].durable = slots[n].durable
           /\ slots'[3 - n] = slots[3 - n]
<1>1. /\ SnapshotTypeOK /\ slots \in [1..2 -> Slot] /\ KeeperOK /\ NumbersOK
    BY DEF SnapshotInv, StoreOK, SnapshotTypeOK
<1>2. /\ Updated \in Document /\ Updated.generation = keeper.base.generation + 1
      /\ keeper.base.generation \in Nat
    BY <1>1, UpdatedIs
<1>3. /\ slots' \in [1..2 -> Slot]
      /\ slots'[n].seen = Updated /\ slots'[n].durable = slots[n].durable
      /\ slots'[3 - n] = slots[3 - n]
    BY <1>1, <1>2 DEF Slot
<1>4. \A k \in 1..2 : k # n => slots'[k] = slots[k]
    BY <1>1 DEF Slot
<1>5. Documents' \subseteq Documents \cup {Updated}
    <2>1. \A k \in 1..2 : {slots'[k].seen, slots'[k].durable}
                            \subseteq {slots[k].seen, slots[k].durable, Updated}
        BY <1>3, <1>4
    <2> QED
        BY <2>1 DEF Documents
<1>6. ASSUME NEW k \in 1..2
      PROVE  slots'[k].durable.generation <= slots'[k].seen.generation
    <2>1. CASE k = n
        <3>1. slots[n].durable \in Documents /\ slots[n].durable.generation \in Nat
            BY <1>1, TwoSlots, DocumentTypes
        <3>2. \/ slots[n].durable.generation <= keeper.base.generation
              \/ slots[n].durable = Updated
            BY <1>1, <3>1 DEF KeeperOK
        <3> QED
            BY <1>2, <1>3, <2>1, <3>1, <3>2
    <2>2. CASE k # n
        BY <1>1, <1>4, <2>2 DEF NumbersOK
    <2> QED
        BY <2>1, <2>2
<1> QED
    BY <1>3, <1>5, <1>6

\* The directory of the slots is synchronised.
LEMMA SlotsSynced ==
    ASSUME SnapshotTypeOK, slots' = Synced(slots)
    PROVE  /\ slots' \in [1..2 -> Slot] /\ Documents' \subseteq Documents
           /\ \A n \in 1..2 : /\ slots'[n].seen = slots[n].seen
                              /\ slots'[n].durable = slots[n].seen
                              /\ slots'[n].durable.generation <= slots'[n].seen.generation
<1>1. slots \in [1..2 -> Slot]
    BY DEF SnapshotTypeOK
<1>2. /\ slots' \in [1..2 -> Slot]
      /\ \A n \in 1..2 : slots'[n].seen = slots[n].seen /\ slots'[n].durable = slots[n].seen
    BY <1>1 DEF Synced, Both, Slot
<1>3. \A n \in 1..2 : slots[n].seen.generation \in Nat
    BY TwoSlots, DocumentTypes
<1>4. Documents' \subseteq Documents
    BY <1>2 DEF Documents
<1> QED
    BY <1>2, <1>3, <1>4

LEMMA WriteRetentionKeeps == ASSUME SnapshotInv, WriteRetention PROVE SnapshotInv'
<1>1. /\ SnapshotTypeOK /\ KeeperOK /\ keeper \in Keeper /\ keeper.first \in 1..2
      /\ 3 - keeper.first \in 1..2 /\ keeper.left \in SUBSET Generations
    BY DEF SnapshotInv, StoreOK, SnapshotTypeOK, Keeper
<1>2. ASSUME NEW p, keeper' = [keeper EXCEPT !.pc = p]
      PROVE  keeper' = [keeper EXCEPT !.pc = p, !.left = keeper.left]
    BY <1>1, <1>2 DEF Keeper
<1>3. CASE ReplaceSlot(keeper.first, "replace1", "sync1")
    <2>1. /\ keeper.pc = "replace1" /\ slots' = [slots EXCEPT ![keeper.first].seen = Updated]
          /\ keeper' = [keeper EXCEPT !.pc = "sync1", !.left = keeper.left]
          /\ UNCHANGED <<remote, exporter, gens, acked, csSpent>>
        BY <1>2, <1>3 DEF ReplaceSlot
    <2>2. /\ slots' \in [1..2 -> Slot] /\ Documents' \subseteq Documents \cup {Updated}
          /\ \A k \in 1..2 : slots'[k].durable.generation <= slots'[k].seen.generation
          /\ slots'[keeper.first].seen = Updated
        BY <1>1, <2>1, SlotReplaced
    <2>3. "sync1" \in Written
        BY DEF Written
    <2> QED
        BY <1>1, <2>1, <2>2, <2>3, WritingKeeps
<1>4. CASE SyncSlots("sync1", "replace2")
    <2> DEFINE l == {g \in Generations : gens[g].seen # "absent"}
                      \ {keeper.id, keeper.base.latest}
    <2>1. /\ keeper.pc = "sync1" /\ slots' = Synced(slots) /\ l \in SUBSET Generations
          /\ keeper' = [keeper EXCEPT !.pc = "replace2", !.left = l]
          /\ UNCHANGED <<remote, exporter, gens, acked, csSpent>>
        BY <1>4 DEF SyncSlots
    <2> HIDE DEF l
    <2>2. /\ slots' \in [1..2 -> Slot] /\ Documents' \subseteq Documents \cup {Updated}
          /\ \A k \in 1..2 : slots'[k].durable.generation <= slots'[k].seen.generation
          /\ slots'[keeper.first].seen = slots[keeper.first].seen
          /\ slots'[keeper.first].durable = slots[keeper.first].seen
        BY <1>1, <2>1, SlotsSynced
    <2>3. "replace2" \in Written /\ slots[keeper.first].seen = Updated /\ "sync1" \in Written
        BY <1>1, <2>1 DEF Written, KeeperOK
    <2> QED
        BY <2>1, <2>2, <2>3, WritingKeeps
<1>5. CASE ReplaceSlot(3 - keeper.first, "replace2", "sync2")
    <2>1. /\ keeper.pc = "replace2"
          /\ slots' = [slots EXCEPT ![3 - keeper.first].seen = Updated]
          /\ keeper' = [keeper EXCEPT !.pc = "sync2", !.left = keeper.left]
          /\ UNCHANGED <<remote, exporter, gens, acked, csSpent>>
        BY <1>2, <1>5 DEF ReplaceSlot
    <2>2. /\ slots' \in [1..2 -> Slot] /\ Documents' \subseteq Documents \cup {Updated}
          /\ \A k \in 1..2 : slots'[k].durable.generation <= slots'[k].seen.generation
          /\ slots'[3 - keeper.first].seen = Updated
          /\ slots'[3 - (3 - keeper.first)] = slots[3 - (3 - keeper.first)]
        BY <1>1, <2>1, SlotReplaced
    <2>3. 3 - (3 - keeper.first) = keeper.first
        BY <1>1
    <2>4. /\ "sync2" \in Written /\ "replace2" \in Written
          /\ slots[keeper.first].seen = Updated /\ slots[keeper.first].durable = Updated
        BY <1>1, <2>1 DEF Written, KeeperOK
    <2> QED
        BY <1>1, <2>1, <2>2, <2>3, <2>4, WritingKeeps
<1>6. CASE SyncSlots("sync2", "cleanup")
    <2> DEFINE l == {g \in Generations : gens[g].seen # "absent"}
                      \ {keeper.id, keeper.base.latest}
    <2>1. /\ keeper.pc = "sync2" /\ slots' = Synced(slots) /\ l \in SUBSET Generations
          /\ keeper' = [keeper EXCEPT !.pc = "cleanup", !.left = l]
          /\ keeper.id \notin l /\ keeper.base.latest \notin l
          /\ UNCHANGED <<remote, exporter, gens, acked, csSpent>>
        BY <1>6 DEF SyncSlots
    <2> HIDE DEF l
    <2>2. /\ slots' \in [1..2 -> Slot] /\ Documents' \subseteq Documents \cup {Updated}
          /\ \A k \in 1..2 : slots'[k].durable.generation <= slots'[k].seen.generation
          /\ \A k \in 1..2 : slots'[k].seen = slots[k].seen /\ slots'[k].durable = slots[k].seen
        BY <1>1, <2>1, SlotsSynced
    <2>3. /\ "cleanup" \in Written /\ "sync2" \in Written
          /\ slots[keeper.first].seen = Updated /\ slots[3 - keeper.first].seen = Updated
        BY <1>1, <2>1 DEF Written, KeeperOK
    <2>4. /\ slots'[keeper.first].seen = Updated /\ slots'[keeper.first].durable = Updated
          /\ slots'[3 - keeper.first].seen = Updated
          /\ slots'[3 - keeper.first].durable = Updated
        BY <1>1, <2>2, <2>3
    <2> QED
        BY ONLY <1>1, <2>1, <2>2, <2>3, <2>4, WritingKeeps, SnapshotInv
<1> QED
    BY <1>3, <1>4, <1>5, <1>6 DEF WriteRetention

-----------------------------------------------------------------------------
(* Removing generations, and the end. *)

\* Before a generation is removed, every document is the new one.
LEMMA OnlyUpdated ==
    ASSUME SnapshotInv, keeper.pc = "cleanup" PROVE \A d \in Documents : d = Updated
<1>1. /\ keeper.first \in 1..2
      /\ slots[keeper.first].seen = Updated /\ slots[keeper.first].durable = Updated
      /\ slots[3 - keeper.first].seen = Updated /\ slots[3 - keeper.first].durable = Updated
    BY DEF SnapshotInv, StoreOK, SnapshotTypeOK, Keeper, KeeperOK, Written
<1>2. CASE keeper.first = 1
    BY <1>1, <1>2 DEF Documents
<1>3. CASE keeper.first = 2
    BY <1>1, <1>3 DEF Documents
<1> QED
    BY <1>1, <1>2, <1>3

LEMMA RemoveKeeps ==
    ASSUME SnapshotInv, NEW g \in Generations, RemoveObsolete(g) PROVE SnapshotInv'
<1>1. /\ SnapshotTypeOK /\ DocumentsOK /\ NumbersOK /\ KeeperOK /\ StagesOK
      /\ keeper.pc = "cleanup" /\ g \in keeper.left /\ keeper \in Keeper
      /\ gens \in [Generations -> Generation] /\ keeper.left \in SUBSET Generations
      /\ keeper.first \in 1..2
      /\ UNCHANGED <<remote, exporter, slots, acked, csSpent>>
    BY DEF SnapshotInv, StoreOK, SnapshotTypeOK, RemoveObsolete, Keeper
<1>2. PICK l \in SUBSET keeper.left : keeper' = [keeper EXCEPT !.left = l]
    BY DEF RemoveObsolete
<1>3. /\ gens' \in [Generations -> Generation]
      /\ \A h \in Generations : h # g => gens'[h] = gens[h]
    <2>1. CASE gens' = gens
        BY <1>1, <2>1
    <2>2. CASE gens' = [gens EXCEPT ![g].seen = "absent"]
        BY <1>1, <2>2 DEF Generation, Presence
    <2> QED
        BY <2>1, <2>2 DEF RemoveObsolete
<1>4. /\ l \in SUBSET Generations /\ "cleanup" \in Active /\ keeper.pc # "off"
      /\ keeper' = [keeper EXCEPT !.pc = "cleanup", !.first = keeper.first, !.left = l]
    BY <1>1, <1>2 DEF Active, Written, Keeper
<1>5. /\ keeper' \in Keeper /\ keeper'.pc = "cleanup" /\ keeper'.id = keeper.id
      /\ keeper'.base = keeper.base /\ Updated' = Updated /\ keeper'.id # 0
      /\ keeper'.first = keeper.first /\ keeper'.left = l
    BY ONLY <1>1, <1>4, KeeperGoes
<1>6. g # keeper.id /\ g # keeper.base.latest
    BY <1>1 DEF KeeperOK
<1>7. \A h \in {keeper.id, keeper.base.latest} : h # 0 => (Solid(h) => Solid(h)')
    <2> SUFFICES ASSUME NEW h \in {keeper.id, keeper.base.latest}, h # 0, Solid(h)
                 PROVE  Solid(h)'
        OBVIOUS
    <2>1. h \in Generations /\ h # g
        BY <1>1, <1>6, UpdatedIs, SnapshotAssumption DEF Generations
    <2> QED
        BY <1>3, <2>1 DEF Solid
<1>8. \A d \in Documents : d.latest = keeper.id /\ d.previous = keeper.base.latest
    BY <1>1, OnlyUpdated, UpdatedIs
<1>9. DocumentsOK' /\ NumbersOK'
    BY <1>1, <1>7, <1>8, DocumentsStay
<1>10. SnapshotTypeOK' /\ StagesOK' /\ Documents' = Documents
    BY <1>1, <1>3, <1>5 DEF SnapshotTypeOK, StagesOK, Documents
<1>11. /\ keeper.base.generation >= acked /\ Solid(keeper.id)' /\ keeper.id \notin l
       /\ keeper.base.latest # 0 => Solid(keeper.base.latest)'
       /\ keeper.base.latest \notin l /\ keeper.id # 0
       /\ \A d \in Documents : d.generation <= keeper.base.generation \/ d = Updated
    BY <1>1, <1>5, <1>7 DEF KeeperOK, Written
<1>12. /\ slots[keeper.first].seen = Updated /\ slots[keeper.first].durable = Updated
       /\ slots[3 - keeper.first].seen = Updated /\ slots[3 - keeper.first].durable = Updated
    BY <1>1 DEF KeeperOK, Written
<1>13. KeeperOK'
    BY <1>1, <1>5, <1>10, <1>11, <1>12 DEF KeeperOK, Solid, Written
<1> QED
    BY <1>9, <1>10, <1>13 DEF SnapshotInv, StoreOK

LEMMA NoKeeperIs == NoKeeper \in Keeper /\ NoKeeper.pc = "off"
<1>1. (CHOOSE e \in Exporters : TRUE) \in Exporters
    BY SnapshotAssumption
<1>2. EmptyRetention \in Document
    BY SnapshotAssumption DEF EmptyRetention, Document
<1>3. 0 \in 0..MaxGenerations /\ {} \in SUBSET Generations /\ 1 \in 1..2
    BY SnapshotAssumption
<1> QED
    BY <1>1, <1>2, <1>3 DEF NoKeeper, Keeper, ReceiptStates

LEMMA ReturnedKeeps == ASSUME SnapshotInv, SnapshotReturned PROVE SnapshotInv'
<1>1. /\ SnapshotTypeOK /\ DocumentsOK /\ NumbersOK /\ KeeperOK /\ StagesOK
      /\ keeper.pc = "cleanup" /\ gens \in [Generations -> Generation]
      /\ gens' = Synced(gens) /\ acked' = Updated.generation /\ keeper' = NoKeeper
      /\ UNCHANGED <<remote, exporter, slots, csSpent>>
    BY DEF SnapshotInv, StoreOK, SnapshotTypeOK, SnapshotReturned
<1>2. /\ gens' \in [Generations -> Generation]
      /\ \A g \in Generations : Solid(g) => Solid(g)'
    BY <1>1, SyncedGenerations DEF Solid
<1>3. /\ acked' \in Nat /\ keeper' \in Keeper /\ keeper'.pc = "off"
    BY <1>1, NoKeeperIs, UpdatedIs
<1>4. SnapshotTypeOK' /\ StagesOK' /\ KeeperOK' /\ Documents' = Documents
    BY <1>1, <1>2, <1>3 DEF SnapshotTypeOK, StagesOK, KeeperOK, Documents
<1>5. \A d \in Documents : /\ d.latest # 0 => d.latest \in Generations
                           /\ d.previous # 0 => d.previous \in Generations
    BY <1>1, DocumentTypes, SnapshotAssumption DEF Generations
<1>6. \A d \in Documents : d.generation >= acked'
    BY <1>1, <1>3, OnlyUpdated
<1>7. DocumentsOK'
    BY <1>1, <1>2, <1>4, <1>5, <1>6 DEF DocumentsOK
<1>8. NumbersOK'
    BY <1>1, <1>4 DEF NumbersOK
<1> QED
    BY <1>4, <1>7, <1>8 DEF SnapshotInv, StoreOK

LEMMA KeeperFailsKeeps == ASSUME SnapshotInv, KeeperFails PROVE SnapshotInv'
<1>1. /\ SnapshotTypeOK /\ DocumentsOK /\ NumbersOK /\ StagesOK /\ keeper' = NoKeeper
      /\ UNCHANGED <<remote, exporter, slots, gens, acked, csSpent>>
    BY DEF SnapshotInv, StoreOK, KeeperFails
<1>2. SnapshotTypeOK' /\ StagesOK' /\ KeeperOK'
    BY <1>1, NoKeeperIs DEF SnapshotTypeOK, StagesOK, KeeperOK
<1>3. DocumentsOK' /\ NumbersOK'
    BY <1>1, DocumentsStay DEF Solid
<1> QED
    BY <1>2, <1>3 DEF SnapshotInv, StoreOK

\* A power loss keeps, of each slot, one of its documents, and every solid generation.
LEMMA PowerLossKeeps == ASSUME SnapshotInv, PowerLoss PROVE SnapshotInv'
<1>1. /\ SnapshotTypeOK /\ DocumentsOK /\ NumbersOK /\ StagesOK /\ keeper' = NoKeeper
      /\ csSpent' = [csSpent EXCEPT !.losses = @ + 1]
      /\ gens \in [Generations -> Generation]
      /\ UNCHANGED <<remote, exporter, acked>>
    BY DEF SnapshotInv, StoreOK, SnapshotTypeOK, PowerLoss
<1>2. PICK d \in {slots[1].seen, slots[1].durable} \X {slots[2].seen, slots[2].durable} :
          slots' = [n \in 1..2 |-> Both(d[n])]
    BY DEF PowerLoss
<1>3. PICK f \in [Generations -> Presence] :
          /\ \A g \in Generations : f[g] \in AfterLoss(gens[g])
          /\ gens' = [g \in Generations |-> Both(f[g])]
    BY DEF PowerLoss, Presence
<1>4. /\ gens' \in [Generations -> Generation]
      /\ \A g \in Generations : Solid(g) => Solid(g)'
    BY <1>3 DEF Solid, Generation, Both, AfterLoss
<1>5. /\ slots' \in [1..2 -> Slot] /\ Documents' \subseteq Documents
      /\ \A n \in 1..2 : slots'[n].durable = slots'[n].seen
    <2>1. d[1] \in {slots[1].seen, slots[1].durable} /\ d[2] \in {slots[2].seen, slots[2].durable}
        OBVIOUS
    <2>2. \A n \in 1..2 : d[n] \in Document
        BY <1>1, <2>1, TwoSlots
    <2>3. \A n \in 1..2 : slots'[n].seen = d[n] /\ slots'[n].durable = d[n]
        BY <1>2 DEF Both
    <2>4. slots' \in [1..2 -> Slot]
        BY <1>2, <2>2 DEF Both, Slot
    <2>5. Documents' \subseteq Documents
        BY <2>1, <2>3 DEF Documents
    <2> QED
        BY <2>3, <2>4, <2>5
<1>6. csSpent' \in [begun : Nat, losses : Nat, kills : Nat]
    BY <1>1 DEF SnapshotTypeOK
<1>7. SnapshotTypeOK' /\ StagesOK' /\ KeeperOK'
    BY <1>1, <1>4, <1>5, <1>6, NoKeeperIs DEF SnapshotTypeOK, StagesOK, KeeperOK
<1>8. \A x \in Documents : /\ x.latest # 0 => x.latest \in Generations
                           /\ x.previous # 0 => x.previous \in Generations
    BY <1>1, DocumentTypes, SnapshotAssumption DEF Generations
<1>9. DocumentsOK'
    BY <1>1, <1>4, <1>5, <1>8 DEF DocumentsOK
<1>10. NumbersOK'
    <2>1. \A n \in 1..2 : slots'[n].seen.generation \in Nat
        BY <1>5 DEF Slot, Document
    <2> QED
        BY <1>1, <1>5, <2>1 DEF NumbersOK
<1> QED
    BY <1>7, <1>9, <1>10 DEF SnapshotInv, StoreOK

-----------------------------------------------------------------------------
(* The exporters. *)

\* A step of exporters that leaves the store.
LEMMA ExportersKeep ==
    ASSUME SnapshotInv, exporter' \in [Exporters -> Stage], StagesOK', remote' \in ReceiptStates,
           csSpent' \in [begun : Nat, losses : Nat, kills : Nat],
           UNCHANGED <<slots, gens, acked, keeper>>
    PROVE  SnapshotInv'
<1>1. SnapshotTypeOK'
    BY DEF SnapshotInv, SnapshotTypeOK
<1> QED
    BY <1>1, StoreUntouched DEF SnapshotInv

\* One exporter moves to stage s.
LEMMA OneExporterKeeps ==
    ASSUME SnapshotInv, NEW e \in Exporters, NEW s \in Stage,
           s.pc \in {"backup", "stream"} => s.lock,
           s.pc = "stream" => s.stage = "copied",
           exporter' = [exporter EXCEPT ![e] = s],
           csSpent' \in [begun : Nat, losses : Nat, kills : Nat],
           UNCHANGED <<remote, slots, gens, acked, keeper>>
    PROVE  SnapshotInv'
<1>1. exporter \in [Exporters -> Stage] /\ StagesOK /\ remote \in ReceiptStates
    BY DEF SnapshotInv, SnapshotTypeOK
<1>2. exporter' \in [Exporters -> Stage] /\ StagesOK'
    BY <1>1 DEF StagesOK
<1> QED
    BY <1>1, <1>2, ExportersKeep

LEMMA ExporterSteps ==
    ASSUME SnapshotInv, NEW e \in Exporters,
           \/ CleanupStages(e) \/ MakeStage(e) \/ LockStage(e) \/ Backup(e)
           \/ CloseStream(e) \/ KillExporter(e)
    PROVE  SnapshotInv'
<1>1. /\ exporter \in [Exporters -> Stage] /\ exporter[e] \in Stage /\ StagesOK
      /\ remote \in ReceiptStates /\ csSpent \in [begun : Nat, losses : Nat, kills : Nat]
    BY DEF SnapshotInv, SnapshotTypeOK
<1>2. NoStage \in Stage /\ NoStage.pc = "off"
    BY DEF NoStage, Stage, ReceiptStates
<1>3. CASE CleanupStages(e)
    <2>1. /\ exporter[e].pc = "cleanup"
          /\ exporter' = [f \in Exporters |->
                IF f = e THEN [exporter[e] EXCEPT !.pc = "stage", !.stage = "none"]
                ELSE IF Inactive(f) THEN [exporter[f] EXCEPT !.stage = "none"]
                ELSE exporter[f]]
          /\ UNCHANGED <<remote, keeper, slots, gens, acked, csSpent>>
        BY <1>3 DEF CleanupStages
    <2>2. ASSUME NEW f \in Exporters
          PROVE  /\ exporter'[f] \in Stage
                 /\ exporter'[f].pc \in {"backup", "stream"} => exporter'[f].lock
                 /\ exporter'[f].pc = "stream" => exporter'[f].stage = "copied"
        <3>1. exporter[f] \in Stage
            BY <1>1
        <3>2. CASE f = e
            BY <2>1, <3>1, <3>2 DEF Stage
        <3>3. CASE f # e /\ Inactive(f)
            <4>1. exporter'[f] = [exporter[f] EXCEPT !.stage = "none"]
                BY <2>1, <3>3
            <4>2. exporter[f].pc \notin {"backup", "stream"}
                BY <1>1, <3>3 DEF StagesOK, Inactive
            <4> QED
                BY <3>1, <4>1, <4>2 DEF Stage
        <3>4. CASE f # e /\ ~Inactive(f)
            BY <1>1, <2>1, <3>4 DEF StagesOK
        <3> QED
            BY <3>2, <3>3, <3>4
    <2>3. exporter' \in [Exporters -> Stage] /\ StagesOK'
        BY <2>1, <2>2 DEF StagesOK
    <2> QED
        BY <1>1, <2>1, <2>3, ExportersKeep
<1>4. CASE MakeStage(e)
    <2> DEFINE s == [exporter[e] EXCEPT !.pc = "lock", !.stage = "locked"]
    <2>1. s \in Stage /\ s.pc = "lock"
        BY <1>1 DEF Stage
    <2>2. /\ exporter' = [exporter EXCEPT ![e] = s]
          /\ UNCHANGED <<remote, keeper, slots, gens, acked, csSpent>>
        BY <1>1, <1>4 DEF MakeStage
    <2> HIDE DEF s
    <2> QED
        BY <1>1, <2>1, <2>2, OneExporterKeeps
<1>5. CASE LockStage(e)
    <2> DEFINE s == [exporter[e] EXCEPT !.pc = "backup", !.lock = TRUE]
    <2>1. s \in Stage /\ s.pc = "backup" /\ s.lock
        BY <1>1 DEF Stage
    <2>2. /\ exporter' = [exporter EXCEPT ![e] = s]
          /\ UNCHANGED <<remote, keeper, slots, gens, acked, csSpent>>
        BY <1>1, <1>5 DEF LockStage
    <2> HIDE DEF s
    <2> QED
        BY <1>1, <2>1, <2>2, OneExporterKeeps
<1>6. CASE Backup(e)
    <2> DEFINE s == [exporter[e] EXCEPT !.pc = "stream", !.stage = "copied", !.copy = remote]
    <2>1. exporter[e].lock
        BY <1>1, <1>6 DEF Backup, StagesOK
    <2>2. s \in Stage /\ s.pc = "stream" /\ s.stage = "copied" /\ s.lock
        BY <1>1, <2>1 DEF Stage
    <2>3. /\ \/ exporter' = [exporter EXCEPT ![e] = s]
             \/ exporter' = [exporter EXCEPT ![e] = NoStage]
          /\ UNCHANGED <<remote, keeper, slots, gens, acked, csSpent>>
        BY <1>1, <1>6 DEF Backup
    <2> HIDE DEF s
    <2> QED
        BY <1>1, <1>2, <2>2, <2>3, OneExporterKeeps
<1>7. CASE CloseStream(e)
    BY <1>1, <1>2, <1>7, OneExporterKeeps DEF CloseStream
<1>8. CASE KillExporter(e)
    <2> DEFINE s == [NoStage EXCEPT !.stage = exporter[e].stage]
    <2>1. s \in Stage /\ s.pc = "off"
        BY <1>1 DEF Stage, NoStage, ReceiptStates
    <2>2. /\ exporter' = [exporter EXCEPT ![e] = s]
          /\ csSpent' \in [begun : Nat, losses : Nat, kills : Nat]
          /\ UNCHANGED <<remote, keeper, slots, gens, acked>>
        BY <1>1, <1>8 DEF KillExporter
    <2> HIDE DEF s
    <2> QED
        BY <2>1, <2>2, OneExporterKeeps
<1> QED
    BY <1>3, <1>4, <1>5, <1>6, <1>7, <1>8

LEMMA RemoteDeletesKeeps == ASSUME SnapshotInv, RemoteDeletes PROVE SnapshotInv'
<1>1. /\ exporter \in [Exporters -> Stage] /\ StagesOK
      /\ csSpent \in [begun : Nat, losses : Nat, kills : Nat]
      /\ remote' = "REMOTE_DELETED"
      /\ UNCHANGED <<exporter, keeper, slots, gens, acked, csSpent>>
    BY DEF SnapshotInv, SnapshotTypeOK, RemoteDeletes
<1>2. StagesOK' /\ remote' \in ReceiptStates
    BY <1>1 DEF StagesOK, ReceiptStates
<1> QED
    BY <1>1, <1>2, ExportersKeep

-----------------------------------------------------------------------------
(* The theorem. *)

LEMMA SnapshotsBegin == CsInit => SnapshotInv
<1> SUFFICES ASSUME CsInit PROVE SnapshotInv
    OBVIOUS
<1>1. EmptyRetention \in Document /\ EmptyRetention = [generation |-> 0, latest |-> 0, previous |-> 0]
    BY SnapshotAssumption DEF EmptyRetention, Document
<1>2. /\ slots \in [1..2 -> Slot] /\ \A d \in Documents : d = EmptyRetention
      /\ \A n \in 1..2 : slots[n].seen = EmptyRetention /\ slots[n].durable = EmptyRetention
    BY <1>1 DEF CsInit, Both, Slot, Documents
<1>3. gens \in [Generations -> Generation]
    BY DEF CsInit, Both, Generation, Presence
<1>4. /\ exporter \in [Exporters -> Stage] /\ StagesOK
    <2>1. NoStage \in Stage /\ NoStage.pc = "off"
        BY DEF NoStage, Stage, ReceiptStates
    <2> QED
        BY <2>1 DEF CsInit, StagesOK
<1>5. /\ keeper \in Keeper /\ keeper.pc = "off"
    BY NoKeeperIs DEF CsInit
<1>6. SnapshotTypeOK
    BY <1>2, <1>3, <1>4, <1>5 DEF SnapshotTypeOK, CsInit, ReceiptStates
<1>7. DocumentsOK /\ NumbersOK /\ KeeperOK
    BY <1>1, <1>2, <1>5 DEF DocumentsOK, NumbersOK, KeeperOK, CsInit
<1> QED
    BY <1>4, <1>6, <1>7 DEF SnapshotInv, StoreOK

LEMMA SnapshotSteps == SnapshotInv /\ [CsNext]_csvars => SnapshotInv'
<1> SUFFICES ASSUME SnapshotInv, [CsNext]_csvars PROVE SnapshotInv'
    OBVIOUS
<1>1. CASE CsNext
    BY <1>1, RemoteDeletesKeeps, ExporterSteps, BeginsFromNewest, ReceiveKeeps, PublishKeeps,
       SyncGenerationsKeeps, WriteRetentionKeeps, RemoveKeeps, ReturnedKeeps,
       KeeperFailsKeeps, PowerLossKeeps DEF CsNext
<1>2. CASE UNCHANGED csvars
    <2>1. UNCHANGED <<remote, exporter, keeper, slots, gens, acked, csSpent>>
        BY <1>2 DEF csvars
    <2>2. /\ exporter' \in [Exporters -> Stage] /\ StagesOK' /\ remote' \in ReceiptStates
          /\ csSpent' \in [begun : Nat, losses : Nat, kills : Nat]
        BY <2>1 DEF SnapshotInv, SnapshotTypeOK, StagesOK
    <2> QED
        BY <2>1, <2>2, ExportersKeep
<1> QED
    BY <1>1, <1>2

\* A Catalog snapshot that was returned stays readable and whole, and no exporter loses
\* the stage it streams from, across failures of the keeper, kills of exporters and power
\* losses between any two operations (archive/catalog_snapshot.py).
THEOREM SnapshotsStay == CsSpec => []SnapshotsAreKept
<1>1. SnapshotInv => SnapshotsAreKept
    <2> SUFFICES ASSUME SnapshotInv PROVE LatestSurvives /\ StreamIsOwned
        BY DEF SnapshotsAreKept
    <2>1. /\ SnapshotTypeOK /\ DocumentsOK /\ NumbersOK /\ StagesOK
        BY DEF SnapshotInv, StoreOK
    <2>2. Readable /\ ReadRetention \in Documents
        BY <2>1, NewestIsRead
    <2>3. LatestSurvives
        <3>1. ReadRetention.generation \in Nat /\ acked \in Nat
            BY <2>1, <2>2, DocumentTypes DEF SnapshotTypeOK
        <3> QED
            BY <2>1, <2>2, <3>1 DEF LatestSurvives, DocumentsOK, Solid
    <2>4. StreamIsOwned
        BY <2>1 DEF StagesOK, StreamIsOwned
    <2> QED
        BY <2>3, <2>4
<1> QED
    BY <1>1, SnapshotsBegin, SnapshotSteps, PTL DEF CsSpec
=============================================================================
