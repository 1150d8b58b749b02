---------------------------- MODULE Remote_proofs ----------------------------
(* Theorems about Remote, for all sets of chunks, sessions and processes   *)
(* and every number of faults.                                             *)
EXTENDS Remote, TLAPS

-----------------------------------------------------------------------------
(* The inductive invariant. *)

\* A session has chosen its chunk exactly once it left "idle".
ChunkChosen == \A s \in Sessions : ses[s].chunk = NoChunk <=> ses[s].pc = "idle"

\* What a session has made durable on the medium when it stands at pc, for m
\* the medium's files of its chunk.
Reached(pc, m) ==
    /\ pc = "rawsync" => m.raw # "none"
    /\ pc \in {"man", "mansync", "ent", "entsync"} => m.raw = "durable"
    /\ pc = "mansync" => m.man # "none"
    /\ pc \in {"ent", "entsync"} => m.man = "durable"
    /\ pc = "entsync" => m.ent # "none" /\ m.bound = m.by
    /\ pc \in {"rec", "recsync"} => Chain(m)

MediumReached ==
    \A s \in Sessions : ses[s].chunk # NoChunk => Reached(ses[s].pc, med[ses[s].chunk])

\* The receipt a session has when it stands at pc.
ReceiptReached ==
    \A s \in Sessions : /\ ses[s].pc = "recsync" => rec[s] # "none"
                        /\ ses[s].pc \in {"call", "wait", "inspect"} => rec[s] = "durable"

ReceiptHasChunk == \A s \in Sessions : rec[s] # "none" => ses[s].chunk # NoChunk

MediumInv == ChunkChosen /\ MediumReached /\ ReceiptReached /\ ReceiptHasChunk /\ ReceiptHasChain

\* A row names a durable receipt of its own chunk.
RowHasReceipt ==
    \A c \in Chunks : /\ remote[c].st = "NONE" <=> remote[c].ses = NoSession
                      /\ remote[c].ses # NoSession =>
                            rec[remote[c].ses] = "durable" /\ ses[remote[c].ses].chunk = c

\* A process runs for a durable receipt; once it has seen the row of that
\* receipt the row stays, and one that goes on to the terminal row has made the
\* unlink durable.
JobOK(b) ==
    /\ b.pc = "free" <=> b.ses = NoSession
    /\ b.pc # "free" => rec[b.ses] = "durable"
    /\ b.pc \in {"validate", "unlink", "sync", "absent", "terminal", "commit"} =>
          remote[ses[b.ses].chunk].ses = b.ses
    /\ b.pc = "sync" => src[ses[b.ses].chunk] # "here"
    /\ b.pc \in {"terminal", "commit"} => src[ses[b.ses].chunk] = "gone"

JobsOK == \A j \in Jobs : JobOK(jobs[j])

\* Only a source with a row is deleted.
DeletedHasRow == \A c \in Chunks : src[c] # "here" => remote[c].ses # NoSession

RowInv == RowHasReceipt /\ DeletedHasRow /\ TerminalIsAbsent /\ OneOwner

RemoteInv == MediumInv /\ RowInv /\ JobsOK /\ ReportIsTrue
-----------------------------------------------------------------------------
(* What the operators on files, sessions and processes build. *)

LEMMA MediumFields ==
    ASSUME TypeOK, NEW c \in Chunks
    PROVE  /\ med[c] \in Medium
           /\ med[c].raw \in Fact /\ med[c].man \in Fact /\ med[c].ent \in Fact
           /\ med[c].by \in Sessions \cup {NoSession}
           /\ med[c].bound \in Sessions \cup {NoSession}
    BY DEF TypeOK, Medium

LEMMA FactType ==
    ASSUME NEW f \in Fact
    PROVE  Publish(f) \in Fact /\ FsyncDirectory(f) \in Fact /\ Publish(f) # "none"
    BY DEF Fact, Publish, FsyncDirectory

LEMMA SetRaw ==
    ASSUME NEW m \in Medium, NEW f \in Fact
    PROVE  /\ [m EXCEPT !.raw = f] \in Medium
           /\ [m EXCEPT !.raw = f].raw = f
           /\ [m EXCEPT !.raw = f].man = m.man /\ [m EXCEPT !.raw = f].by = m.by
           /\ [m EXCEPT !.raw = f].ent = m.ent /\ [m EXCEPT !.raw = f].bound = m.bound
    BY DEF Medium

LEMMA SetMan ==
    ASSUME NEW m \in Medium, NEW f \in Fact
    PROVE  /\ [m EXCEPT !.man = f] \in Medium
           /\ [m EXCEPT !.man = f].man = f
           /\ [m EXCEPT !.man = f].raw = m.raw /\ [m EXCEPT !.man = f].by = m.by
           /\ [m EXCEPT !.man = f].ent = m.ent /\ [m EXCEPT !.man = f].bound = m.bound
    BY DEF Medium

WithMan(m, f, b) == [m EXCEPT !.man = f, !.by = b]
WithEnt(m, f, b) == [m EXCEPT !.ent = f, !.bound = b]

LEMMA SetManBy ==
    ASSUME NEW m \in Medium, NEW f \in Fact, NEW b \in Sessions \cup {NoSession}
    PROVE  /\ WithMan(m, f, b) \in Medium
           /\ WithMan(m, f, b).man = f /\ WithMan(m, f, b).by = b
           /\ WithMan(m, f, b).raw = m.raw /\ WithMan(m, f, b).ent = m.ent
           /\ WithMan(m, f, b).bound = m.bound
    BY DEF Medium, WithMan

LEMMA SetEnt ==
    ASSUME NEW m \in Medium, NEW f \in Fact
    PROVE  /\ [m EXCEPT !.ent = f] \in Medium
           /\ [m EXCEPT !.ent = f].ent = f
           /\ [m EXCEPT !.ent = f].raw = m.raw /\ [m EXCEPT !.ent = f].by = m.by
           /\ [m EXCEPT !.ent = f].man = m.man /\ [m EXCEPT !.ent = f].bound = m.bound
    BY DEF Medium

LEMMA SetEntBound ==
    ASSUME NEW m \in Medium, NEW f \in Fact, NEW b \in Sessions \cup {NoSession}
    PROVE  /\ WithEnt(m, f, b) \in Medium
           /\ WithEnt(m, f, b).ent = f /\ WithEnt(m, f, b).bound = b
           /\ WithEnt(m, f, b).raw = m.raw /\ WithEnt(m, f, b).man = m.man
           /\ WithEnt(m, f, b).by = m.by
    BY DEF Medium, WithEnt

\* A session that only talks to the host, or ends.
Talk == {"call", "wait", "inspect"}
Keeps(r, q) == /\ q \in Session /\ q.chunk = r.chunk /\ q.delete = r.delete
               /\ q.pc = "wait" <=> q.job # NoJob

LEMMA EndsKeeps ==
    ASSUME NEW r \in Session, NEW pc \in {"done", "failed"}
    PROVE  Keeps(r, Ends(r, pc)) /\ Ends(r, pc).pc = pc
    BY DEF Keeps, Ends, Session, SessionPc

LEMMA FailedKeeps ==
    ASSUME NEW r \in Session
    PROVE  Keeps(r, Failed(r)) /\ Failed(r).pc = "inspect"
    BY DEF Keeps, Failed, Session, SessionPc

LEMMA AgainKeeps ==
    ASSUME NEW r \in Session, r.job = NoJob
    PROVE  Keeps(r, Again(r)) /\ Again(r).pc \in {"call", "failed"}
<1>1. Keeps(r, [r EXCEPT !.pc = "call", !.try = 2])
      /\ [r EXCEPT !.pc = "call", !.try = 2].pc = "call"
    BY DEF Keeps, Session, SessionPc
<1> QED
    BY <1>1, EndsKeeps DEF Again

\* A session that is told "DELETED" may report it; otherwise one that deletes
\* goes on or fails.
LEMMA AcceptedKeeps ==
    ASSUME NEW r \in Session, NEW st
    PROVE  /\ Keeps(r, Accepted(r, st))
           /\ Accepted(r, st).pc \in {"call", "done", "failed"}
           /\ Accepted(r, st).pc = "done" /\ r.delete => st = "DELETED"
<1> DEFINE q == [r EXCEPT !.pc = "call", !.verb = "delete", !.try = 1, !.job = NoJob]
<1>1. Keeps(r, q) /\ q.pc = "call"
    BY DEF Keeps, Session, SessionPc
<1>2. CASE r.verb = "authorize" /\ r.delete /\ st = "PENDING"
    BY <1>1, <1>2 DEF Accepted
<1>3. CASE ~(r.verb = "authorize" /\ r.delete /\ st = "PENDING")
    <2> DEFINE pc == IF r.delete /\ st # "DELETED" THEN "failed" ELSE "done"
    <2>1. pc \in {"done", "failed"} /\ (pc = "done" /\ r.delete => st = "DELETED")
        OBVIOUS
    <2>2. Accepted(r, st) = Ends(r, pc)
        BY <1>3 DEF Accepted
    <2> HIDE DEF pc
    <2>3. Keeps(r, Ends(r, pc)) /\ Ends(r, pc).pc = pc
        BY <2>1, EndsKeeps
    <2> QED
        BY <2>1, <2>2, <2>3
<1> QED
    BY <1>2, <1>3

LEMMA InspectedKeeps ==
    ASSUME NEW r \in Session, r.job = NoJob, NEW st \in {"NONE", "PENDING", "DELETED"}
    PROVE  /\ Keeps(r, Inspected(r, st))
           /\ Inspected(r, st).pc \in {"call", "done", "failed"}
           /\ Inspected(r, st).pc = "done" /\ r.delete => st = "DELETED"
    BY AgainKeeps, AcceptedKeeps, EndsKeeps DEF Inspected

LEMMA InitOK == Init => TypeOK /\ RemoteInv
<1> SUFFICES ASSUME Init PROVE TypeOK /\ RemoteInv
    OBVIOUS
<1> USE NoneAssumption, FaultAssumption
<1>1. \A s \in Sessions : /\ NewSession(s) \in Session /\ NewSession(s).pc = "idle"
                          /\ NewSession(s).chunk = NoChunk /\ NewSession(s).job = NoJob
    BY DEF NewSession, Session, SessionPc
<1>2. TypeOK
    <2>1. med \in [Chunks -> Medium]
        BY DEF Init, Medium, Fact
    <2>2. remote \in [Chunks -> Row] /\ jobs \in [Jobs -> Job]
        BY DEF Init, Row, NoRow, Job, JobPc, Free
    <2>3. ses \in [Sessions -> Session] /\ \A s \in Sessions : ses[s].pc = "wait" <=> ses[s].job # NoJob
        BY <1>1 DEF Init
    <2> QED
        BY <2>1, <2>2, <2>3 DEF Init, TypeOK, SourceFile, Fact
<1>3. MediumInv
    BY <1>1 DEF Init, MediumInv, ChunkChosen, MediumReached, ReceiptReached, ReceiptHasChunk,
                ReceiptHasChain
<1>4. RowInv /\ JobsOK
    BY DEF Init, RowInv, RowHasReceipt, JobsOK, JobOK, DeletedHasRow,
           TerminalIsAbsent, OneOwner, NoRow, Free
<1>5. ReportIsTrue
    BY <1>1 DEF Init, ReportIsTrue
<1> QED
    BY <1>2, <1>3, <1>4, <1>5 DEF RemoteInv

-----------------------------------------------------------------------------
(* How sessions move: on the medium, or while they talk to the host. *)

\* A step that leaves the medium alone and only lets sessions talk or end.
Moves(r, q) == /\ Keeps(r, q)
               /\ \/ q.pc = r.pc
                  \/ r.pc # "idle" /\ q.pc \in {"done", "failed"}
                  \/ r.pc \in Talk /\ q.pc \in Talk

OnlyTalk == /\ ses' \in [Sessions -> Session]
            /\ \A s \in Sessions : Moves(ses[s], ses'[s])
            /\ UNCHANGED <<med, rec>>

MovePc == SessionPc \ {"idle", "wait"}

LEMMA StepPc ==
    ASSUME TypeOK, NEW s \in Sessions, NEW pc \in MovePc,
           ses[s].pc # "wait", Steps(s, pc)
    PROVE  /\ ses'[s].pc = pc
           /\ \A t \in Sessions : ses'[t].chunk = ses[t].chunk /\ (t # s => ses'[t] = ses[t])
<1> DEFINE r == [ses[s] EXCEPT !.pc = pc]
<1>1. ses[s] \in Session /\ ses[s].job = NoJob
    BY DEF TypeOK
<1>2. r \in Session /\ r.pc = pc /\ r.chunk = ses[s].chunk /\ r.job = ses[s].job
      /\ r.delete = ses[s].delete
    BY <1>1 DEF Session, MovePc
<1>3. ses' = [ses EXCEPT ![s] = r]
    BY DEF Steps
<1> HIDE DEF r
<1>4. ses \in [Sessions -> Session]
    BY DEF TypeOK
<1>5. ses' \in [Sessions -> Session] /\ ses'[s] = r
      /\ \A t \in Sessions : t # s => ses'[t] = ses[t]
    BY <1>2, <1>3, <1>4
<1> QED
    BY <1>1, <1>2, <1>5 DEF TypeOK, MovePc

LEMMA StepType ==
    ASSUME TypeOK, NEW s \in Sessions, NEW pc \in MovePc,
           ses[s].pc # "wait", Steps(s, pc)
    PROVE  /\ ses' \in [Sessions -> Session]
           /\ \A t \in Sessions : ses'[t].pc = "wait" <=> ses'[t].job # NoJob
<1> DEFINE r == [ses[s] EXCEPT !.pc = pc]
<1>1. ses[s] \in Session /\ ses[s].job = NoJob
    BY DEF TypeOK
<1>2. r \in Session /\ r.pc = pc /\ r.chunk = ses[s].chunk /\ r.job = ses[s].job
      /\ r.delete = ses[s].delete
    BY <1>1 DEF Session, MovePc
<1>3. ses' = [ses EXCEPT ![s] = r]
    BY DEF Steps
<1> HIDE DEF r
<1>4. ses \in [Sessions -> Session]
    BY DEF TypeOK
<1>5. ses' \in [Sessions -> Session] /\ ses'[s] = r
      /\ \A t \in Sessions : t # s => ses'[t] = ses[t]
    BY <1>2, <1>3, <1>4
<1> QED
    BY <1>1, <1>2, <1>5 DEF TypeOK, MovePc

LEMMA MoveOne ==
    ASSUME TypeOK, NEW s \in Sessions, NEW q, Moves(ses[s], q),
           ses' = [ses EXCEPT ![s] = q] \/ UNCHANGED ses, UNCHANGED <<med, rec>>
    PROVE  /\ OnlyTalk
           /\ \A t \in Sessions : t # s => ses'[t] = ses[t]
           /\ ses'[s] = q \/ ses'[s] = ses[s]
<1>1. q \in Session
    BY DEF Moves, Keeps
<1>2. \A t \in Sessions : Moves(ses[t], ses[t])
    BY DEF Moves, Keeps, TypeOK
<1>3. ses \in [Sessions -> Session]
    BY DEF TypeOK
<1>4. CASE ses' = [ses EXCEPT ![s] = q]
    BY <1>1, <1>2, <1>3, <1>4 DEF OnlyTalk
<1>5. CASE UNCHANGED ses
    BY <1>2, <1>3, <1>5 DEF OnlyTalk
<1> QED
    BY <1>4, <1>5

\* The end of a process moves at most the session that waits for it, and only
\* "DELETED" lets one that deletes report.
LEMMA AnswerTalks ==
    ASSUME TypeOK, NEW j \in Jobs, jobs[j].ses \in Sessions, NEW st, Answer(j, st),
           UNCHANGED <<med, rec>>
    PROVE  /\ OnlyTalk
           /\ jobs' = [jobs EXCEPT ![j] = Free]
           /\ \A t \in Sessions :
                 ses'[t].pc = "done" /\ ses'[t].delete /\ ses[t].pc # "done"
                    => t = jobs[j].ses /\ st = "DELETED"
<1> DEFINE s == jobs[j].ses
           q == IF st = "NONE" THEN Failed(ses[s]) ELSE Accepted(ses[s], st)
<1>1. ses[s] \in Session
    BY DEF TypeOK
<1>2. CASE ses[s].pc = "wait" /\ ses[s].job = j
    <2>1. ses' = [ses EXCEPT ![s] = q]
        BY <1>2 DEF Answer
    <2>2. Keeps(ses[s], q) /\ q.pc \in {"inspect", "call", "done", "failed"}
          /\ (q.pc = "done" /\ ses[s].delete => st = "DELETED")
        BY <1>1, FailedKeeps, AcceptedKeeps
    <2> HIDE DEF q
    <2>3. Moves(ses[s], q) /\ q.delete = ses[s].delete
        BY <1>2, <2>2 DEF Moves, Talk, Keeps
    <2>4. /\ OnlyTalk
          /\ \A t \in Sessions : t # s => ses'[t] = ses[t]
          /\ ses'[s] = q \/ ses'[s] = ses[s]
        BY <2>1, <2>3, MoveOne
    <2> QED
        BY <2>2, <2>3, <2>4 DEF Answer
<1>3. CASE ~(ses[s].pc = "wait" /\ ses[s].job = j)
    <2>1. UNCHANGED ses /\ jobs' = [jobs EXCEPT ![j] = Free]
        BY <1>3 DEF Answer
    <2>2. Moves(ses[s], ses[s])
        BY <1>1 DEF Moves, Keeps, TypeOK
    <2>3. OnlyTalk
        BY <2>1, <2>2, MoveOne
    <2> QED
        BY <2>1, <2>3
<1> QED
    BY <1>2, <1>3

-----------------------------------------------------------------------------
(* Without a power loss the medium only grows. *)

Grows(m, n) ==
    /\ m.raw # "none" => n.raw # "none"
    /\ m.raw = "durable" => n.raw = "durable"
    /\ m.man # "none" => n.man # "none" /\ n.by = m.by
    /\ m.man = "durable" => n.man = "durable"
    /\ m.ent # "none" => n.ent # "none"
    /\ m.ent = "durable" => n.ent = "durable"
    /\ m.man # "none" /\ m.bound = m.by => n.bound = n.by

LEMMA ReachedStays ==
    ASSUME NEW m, NEW n, Grows(m, n), NEW pc
    PROVE  /\ Reached(pc, m) => Reached(pc, n)
           /\ Chain(m) => Chain(n)
    BY DEF Grows, Reached, Chain

MediumGrows == \A c \in Chunks : Grows(med[c], med'[c])

\* Receipts stay, and only session s gains one, when its chain is there.
ReceiptsGrow(s) ==
    \A t \in Sessions :
        /\ rec[t] = "durable" => rec'[t] = "durable"
        /\ rec[t] # "none" => rec'[t] # "none"
        /\ rec'[t] # "none" => rec[t] # "none" \/ (t = s /\ Chain(med'[ses[s].chunk]))

LEMMA MediumStep ==
    ASSUME TypeOK, MediumInv, NEW s \in Sessions, NEW pc \in MovePc,
           ses[s].pc \notin {"idle", "wait"}, Steps(s, pc),
           MediumGrows, Reached(pc, med'[ses[s].chunk]),
           ReceiptsGrow(s),
           pc = "recsync" => rec'[s] # "none",
           pc \in Talk => rec'[s] = "durable"
    PROVE  MediumInv'
<1>1. /\ ses'[s].pc = pc
      /\ \A t \in Sessions : ses'[t].chunk = ses[t].chunk /\ (t # s => ses'[t] = ses[t])
    <2>1. ses[s].pc # "wait"
        OBVIOUS
    <2> QED
        BY <2>1, StepPc
<1>2. \A t \in Sessions : ses[t].chunk # NoChunk => ses[t].chunk \in Chunks
    BY DEF TypeOK, Session
<1>3. ChunkChosen'
    BY <1>1 DEF MediumInv, ChunkChosen, MovePc
<1>4. MediumReached'
    <2> SUFFICES ASSUME NEW t \in Sessions, ses'[t].chunk # NoChunk
                 PROVE  Reached(ses'[t].pc, med'[ses'[t].chunk])
        BY DEF MediumReached
    <2>1. CASE t = s
        BY <1>1, <2>1
    <2>2. CASE t # s
        <3>1. ses'[t] = ses[t] /\ ses[t].chunk \in Chunks
            BY <1>1, <1>2, <2>2
        <3>2. Reached(ses[t].pc, med[ses[t].chunk])
            BY <3>1 DEF MediumInv, MediumReached
        <3> QED
            BY <3>1, <3>2, ReachedStays DEF MediumGrows
    <2> QED
        BY <2>1, <2>2
<1>5. ReceiptReached'
    BY <1>1 DEF MediumInv, ReceiptReached, Talk, ReceiptsGrow
<1>6. ReceiptHasChunk'
    BY <1>1 DEF MediumInv, ReceiptHasChunk, ChunkChosen, ReceiptsGrow
<1>7. ReceiptHasChain'
    <2> SUFFICES ASSUME NEW t \in Sessions, rec'[t] # "none" PROVE Chain(med'[ses'[t].chunk])
        BY DEF ReceiptHasChain
    <2>1. CASE rec[t] # "none"
        <3>1. ses[t].chunk \in Chunks /\ Chain(med[ses[t].chunk])
            BY <1>2, <2>1 DEF MediumInv, ReceiptHasChunk, ReceiptHasChain
        <3> QED
            BY <1>1, <3>1, ReachedStays DEF MediumGrows
    <2>2. CASE rec[t] = "none"
        BY <1>1, <2>2 DEF ReceiptsGrow
    <2> QED
        BY <2>1, <2>2
<1> QED
    BY <1>3, <1>4, <1>5, <1>6, <1>7 DEF MediumInv

LEMMA TalkMedium == ASSUME TypeOK, MediumInv, OnlyTalk PROVE MediumInv'
<1>1. ASSUME NEW t \in Sessions
      PROVE  /\ ses'[t].chunk = ses[t].chunk
             /\ ses'[t].pc = "idle" <=> ses[t].pc = "idle"
             /\ ses'[t].pc = "recsync" => ses[t].pc = "recsync"
             /\ ses'[t].pc \in Talk => ses[t].pc \in Talk
             /\ ses'[t].pc = ses[t].pc \/ ses'[t].pc \in Talk \cup {"done", "failed"}
    BY DEF OnlyTalk, Moves, Keeps, Talk
<1>2. \A m : \A pc \in Talk \cup {"done", "failed"} : Reached(pc, m)
    BY DEF Reached, Talk
<1>3. med' = med /\ rec' = rec
    BY DEF OnlyTalk
<1>4. MediumReached'
    BY <1>1, <1>2, <1>3 DEF MediumInv, MediumReached
<1>5. ReceiptReached'
    BY <1>1, <1>3 DEF MediumInv, ReceiptReached, Talk
<1>6. ChunkChosen' /\ ReceiptHasChunk' /\ ReceiptHasChain'
    BY <1>1, <1>3 DEF MediumInv, ChunkChosen, ReceiptHasChunk, ReceiptHasChain
<1> QED
    BY <1>4, <1>5, <1>6 DEF MediumInv

LEMMA TalkType ==
    ASSUME TypeOK, OnlyTalk
    PROVE  /\ ses' \in [Sessions -> Session]
           /\ \A s \in Sessions : ses'[s].pc = "wait" <=> ses'[s].job # NoJob
           /\ med' \in [Chunks -> Medium] /\ rec' \in [Sessions -> Fact]
    BY DEF TypeOK, OnlyTalk, Moves, Keeps

-----------------------------------------------------------------------------
(* The steps of a session on the medium. *)

LEMMA SelectKeeps ==
    ASSUME TypeOK, MediumInv, NEW s \in Sessions, SelectSource(s)
    PROVE  /\ TypeOK' /\ MediumInv'
           /\ \A t \in Sessions : t # s => ses'[t] = ses[t]
           /\ ses'[s].pc # "done" /\ rec[s] = "none"
<1>1. PICK c \in Chunks : ses' = [ses EXCEPT ![s].pc = "raw", ![s].chunk = c]
    BY DEF SelectSource
<1> DEFINE r == [ses[s] EXCEPT !.pc = "raw", !.chunk = c]
<1>2. ses[s] \in Session /\ ses[s].pc = "idle" /\ ses[s].chunk = NoChunk /\ ses[s].job = NoJob
    BY DEF SelectSource, TypeOK, MediumInv, ChunkChosen
<1>3. r \in Session /\ r.pc = "raw" /\ r.chunk = c /\ r.job = NoJob
    BY <1>2 DEF Session, SessionPc
<1>4. ses' = [ses EXCEPT ![s] = r]
    BY <1>1 DEF TypeOK
<1> HIDE DEF r
<1>5. ses \in [Sessions -> Session]
    BY DEF TypeOK
<1>6. /\ ses' \in [Sessions -> Session] /\ ses'[s] = r
      /\ \A t \in Sessions : t # s => ses'[t] = ses[t]
    BY <1>3, <1>4, <1>5
<1>7. UNCHANGED <<src, remote, local, med, rec, jobs, faults>>
    BY DEF SelectSource
<1>8. TypeOK'
    BY <1>3, <1>6, <1>7 DEF TypeOK
<1>9. rec[s] = "none"
    BY <1>2 DEF MediumInv, ReceiptHasChunk
<1>10. c # NoChunk
    BY NoneAssumption
<1>11. MediumReached'
    BY <1>3, <1>6, <1>7 DEF MediumInv, MediumReached, Reached
<1>12. ChunkChosen' /\ ReceiptReached' /\ ReceiptHasChunk' /\ ReceiptHasChain'
    BY <1>3, <1>6, <1>7, <1>9, <1>10
       DEF MediumInv, ChunkChosen, ReceiptReached, ReceiptHasChunk, ReceiptHasChain
<1> QED
    BY <1>3, <1>6, <1>8, <1>9, <1>11, <1>12 DEF MediumInv

\* What a step on the medium leaves to the host: its files, rows and processes,
\* the durable receipts, and the reports of the sessions.
ReceiptsStay == \A t \in Sessions : rec[t] = "durable" => /\ rec'[t] = "durable"
                                                          /\ ses'[t].chunk = ses[t].chunk
NoReport == \A t \in Sessions : ses'[t].pc = "done" => ses'[t] = ses[t]
HostStays == UNCHANGED <<src, remote, local, jobs>>

LEMMA StepKeeps ==
    ASSUME TypeOK, NEW s \in Sessions, NEW pc \in MovePc, pc # "done",
           ses[s].pc # "wait", Steps(s, pc),
           med' \in [Chunks -> Medium], rec' \in [Sessions -> Fact],
           ReceiptsGrow(s)
    PROVE  TypeOK' /\ HostStays /\ ReceiptsStay /\ NoReport
<1>2. UNCHANGED <<src, remote, local, jobs, faults>>
    BY DEF Steps
<1>3. /\ ses' \in [Sessions -> Session]
      /\ \A t \in Sessions : ses'[t].pc = "wait" <=> ses'[t].job # NoJob
    BY StepType
<1>4. TypeOK'
    BY <1>2, <1>3 DEF TypeOK
<1>5. /\ ses'[s].pc = pc
      /\ \A t \in Sessions : ses'[t].chunk = ses[t].chunk /\ (t # s => ses'[t] = ses[t])
    BY StepPc
<1> QED
    BY <1>2, <1>4, <1>5 DEF HostStays, ReceiptsStay, NoReport, ReceiptsGrow

\* A session on the medium has a chunk, and may fail.
LEMMA OnChunk ==
    ASSUME TypeOK, MediumInv, NEW s \in Sessions, ses[s].pc \notin {"idle", "wait"}
    PROVE  /\ ses[s].chunk \in Chunks
           /\ ses[s].pc # "wait"
           /\ Reached(ses[s].pc, med[ses[s].chunk])
    BY DEF TypeOK, Session, MediumInv, ChunkChosen, MediumReached

LEMMA FailingKeeps ==
    ASSUME TypeOK, MediumInv, NEW s \in Sessions, ses[s].pc \notin {"idle", "wait"},
           Steps(s, "failed"), UNCHANGED <<med, rec>>
    PROVE  TypeOK' /\ MediumInv' /\ HostStays /\ ReceiptsStay /\ NoReport
<1>1. Reached("failed", med'[ses[s].chunk])
    BY DEF Reached
<1>2. MediumGrows /\ ReceiptsGrow(s)
    BY DEF MediumGrows, Grows, ReceiptsGrow
<1>3. "failed" \in MovePc /\ "failed" \notin Talk
    BY DEF SessionPc, MovePc, Talk
<1>4. ses[s].pc # "wait"
    OBVIOUS
<1>5. med' \in [Chunks -> Medium] /\ rec' \in [Sessions -> Fact]
    BY DEF TypeOK
<1>6. TypeOK' /\ HostStays /\ ReceiptsStay /\ NoReport
    BY <1>2, <1>3, <1>4, <1>5, StepKeeps
<1>7. MediumInv'
    BY <1>1, <1>2, <1>3, MediumStep
<1> QED
    BY <1>6, <1>7

\* A step that writes files of the medium, but no receipt.
LEMMA FilesKeep ==
    ASSUME TypeOK, MediumInv, NEW s \in Sessions,
           NEW pc \in {"rawsync", "man", "mansync", "ent", "entsync", "rec"},
           ses[s].pc \notin {"idle", "wait"}, Steps(s, pc), UNCHANGED rec,
           med' \in [Chunks -> Medium], MediumGrows,
           Reached(pc, med'[ses[s].chunk])
    PROVE  TypeOK' /\ MediumInv' /\ HostStays /\ ReceiptsStay /\ NoReport
<1>1. pc \in MovePc /\ pc \notin Talk /\ pc # "recsync" /\ pc # "done"
    BY DEF SessionPc, MovePc, Talk
<1>2. ses[s].pc # "wait" /\ ReceiptsGrow(s)
    BY DEF ReceiptsGrow
<1>3. rec' \in [Sessions -> Fact]
    BY DEF TypeOK
<1>4. TypeOK' /\ HostStays /\ ReceiptsStay /\ NoReport
    BY <1>1, <1>2, <1>3, StepKeeps
<1>5. MediumInv'
    BY <1>1, <1>2, MediumStep
<1> QED
    BY <1>4, <1>5

\* One file of one chunk is written.
LEMMA OneChunk ==
    ASSUME TypeOK, NEW c \in Chunks, NEW n \in Medium, Grows(med[c], n),
           med' = [med EXCEPT ![c] = n]
    PROVE  /\ med' \in [Chunks -> Medium] /\ med'[c] = n
           /\ MediumGrows
<1>1. \A m : Grows(m, m)
    BY DEF Grows
<1>2. med \in [Chunks -> Medium]
    BY DEF TypeOK
<1> QED
    BY <1>1, <1>2 DEF MediumGrows

LEMMA CommitRawKeeps ==
    ASSUME TypeOK, MediumInv, NEW s \in Sessions, CommitRaw(s)
    PROVE  TypeOK' /\ MediumInv' /\ HostStays /\ ReceiptsStay /\ NoReport
<1> DEFINE c == ses[s].chunk
           f == Publish(med[c].raw)
           n == [med[c] EXCEPT !.raw = f]
<1>1. ses[s].pc = "raw" /\ ses[s].pc \notin {"idle", "wait"} /\ UNCHANGED rec
    BY DEF CommitRaw
<1>2. c \in Chunks
    BY <1>1, OnChunk
<1>3. CASE Steps(s, "failed") /\ UNCHANGED med
    BY <1>1, <1>3, FailingKeeps
<1>4. CASE Steps(s, "rawsync") /\ med' = [med EXCEPT ![c].raw = Publish(@)]
    <2>1. med[c] \in Medium /\ f \in Fact /\ f # "none"
          /\ (med[c].raw # "none" => f = med[c].raw)
        BY <1>2, MediumFields, FactType DEF Publish
    <2>2. med' = [med EXCEPT ![c] = n]
        BY <1>4
    <2>3. n \in Medium /\ n.raw = f /\ Grows(med[c], n)
        BY <2>1, SetRaw DEF Grows
    <2>4. Reached("rawsync", n)
        BY <2>1, <2>3 DEF Reached
    <2> HIDE DEF n, f
    <2>5. /\ med' \in [Chunks -> Medium] /\ med'[c] = n
          /\ MediumGrows
        BY <1>2, <2>2, <2>3, OneChunk
    <2> QED
        BY <1>1, <1>4, <2>4, <2>5, FilesKeep
<1> QED
    BY <1>3, <1>4 DEF CommitRaw

LEMMA CommitManifestKeeps ==
    ASSUME TypeOK, MediumInv, NEW s \in Sessions, CommitArchiveManifest(s)
    PROVE  TypeOK' /\ MediumInv' /\ HostStays /\ ReceiptsStay /\ NoReport
<1> DEFINE c == ses[s].chunk
           f == Publish(med[c].man)
           b == IF med[c].man = "none" THEN s ELSE med[c].by
           n == WithMan(med[c], f, b)
<1>1. ses[s].pc = "man" /\ ses[s].pc \notin {"idle", "wait"} /\ UNCHANGED rec
      /\ Steps(s, "mansync")
    BY DEF CommitArchiveManifest
<1>2. c \in Chunks /\ med[c].raw = "durable"
    BY <1>1, OnChunk DEF Reached
<1>3. med[c] \in Medium /\ f \in Fact /\ f # "none" /\ b \in Sessions \cup {NoSession}
      /\ (med[c].man # "none" => f = med[c].man /\ b = med[c].by)
    BY <1>2, MediumFields, FactType DEF Publish
<1>4. med' = [med EXCEPT ![c] = n]
    BY DEF CommitArchiveManifest, WithMan
<1> HIDE DEF f, b
<1>5. n \in Medium /\ n.man = f /\ n.by = b
      /\ n.raw = med[c].raw /\ n.ent = med[c].ent /\ n.bound = med[c].bound
    BY <1>3, SetManBy
<1> HIDE DEF n
<1>6. Grows(med[c], n)
    BY <1>3, <1>5 DEF Grows
<1>7. Reached("mansync", n)
    BY <1>2, <1>3, <1>5 DEF Reached
<1>8. /\ med' \in [Chunks -> Medium] /\ med'[c] = n
      /\ MediumGrows
    BY <1>2, <1>4, <1>5, <1>6, OneChunk
<1> QED
    BY <1>1, <1>7, <1>8, FilesKeep

LEMMA CommitEntryKeeps ==
    ASSUME TypeOK, MediumInv, NEW s \in Sessions, CommitEntry(s)
    PROVE  TypeOK' /\ MediumInv' /\ HostStays /\ ReceiptsStay /\ NoReport
<1> DEFINE c == ses[s].chunk
           f == Publish(med[c].ent)
           b == med[c].by
           n == WithEnt(med[c], f, b)
<1>1. ses[s].pc = "ent" /\ ses[s].pc \notin {"idle", "wait"} /\ UNCHANGED rec
    BY DEF CommitEntry
<1>2. c \in Chunks /\ med[c].raw = "durable" /\ med[c].man = "durable"
    BY <1>1, OnChunk DEF Reached
<1>3. CASE Steps(s, "failed") /\ UNCHANGED med
    BY <1>1, <1>3, FailingKeeps
<1>4. CASE Steps(s, "entsync") /\ med' = [med EXCEPT ![c] = n]
    <2>1. med[c] \in Medium /\ f \in Fact /\ f # "none" /\ b \in Sessions \cup {NoSession}
          /\ (med[c].ent # "none" => f = med[c].ent)
        BY <1>2, MediumFields, FactType DEF Publish
    <2> HIDE DEF f
    <2>2. n \in Medium /\ n.ent = f /\ n.bound = b
          /\ n.raw = med[c].raw /\ n.man = med[c].man /\ n.by = med[c].by
        BY <2>1, SetEntBound
    <2>3. Grows(med[c], n) /\ Reached("entsync", n)
        BY <1>2, <2>1, <2>2 DEF Grows, Reached
    <2> HIDE DEF n
    <2>4. /\ med' \in [Chunks -> Medium] /\ med'[c] = n
          /\ MediumGrows
        BY <1>2, <1>4, <2>2, <2>3, OneChunk
    <2> QED
        BY <1>1, <1>4, <2>3, <2>4, FilesKeep
<1> QED
    BY <1>3, <1>4 DEF CommitEntry, WithEnt

LEMMA SyncRawKeeps ==
    ASSUME TypeOK, MediumInv, NEW s \in Sessions, SyncRaw(s)
    PROVE  TypeOK' /\ MediumInv' /\ HostStays /\ ReceiptsStay /\ NoReport
<1> DEFINE c == ses[s].chunk
           n(d) == [med[d] EXCEPT !.raw = FsyncDirectory(med[d].raw)]
<1>1. ses[s].pc = "rawsync" /\ ses[s].pc \notin {"idle", "wait"} /\ UNCHANGED rec
      /\ Steps(s, "man")
    BY DEF SyncRaw
<1>2. c \in Chunks /\ Reached("rawsync", med[c])
    BY <1>1, OnChunk
<1>3. med' = [d \in Chunks |-> n(d)]
    BY DEF SyncRaw
<1>4. ASSUME NEW d \in Chunks
      PROVE  /\ n(d) \in Medium /\ Grows(med[d], n(d))
             /\ n(d).raw = FsyncDirectory(med[d].raw)
             /\ n(d).man = med[d].man
             /\ n(d).by = med[d].by
             /\ n(d).ent = med[d].ent
             /\ n(d).bound = med[d].bound
    <2>1. med[d] \in Medium /\ med[d].raw \in Fact /\ FsyncDirectory(med[d].raw) \in Fact
        BY MediumFields, FactType
    <2> QED
        BY <2>1, SetRaw DEF Grows, FsyncDirectory
<1>5. med[c].raw \in Fact
    BY <1>2, MediumFields
<1>6. Reached("man", n(c))
    BY <1>2, <1>4, <1>5 DEF Reached, FsyncDirectory, Fact
<1> HIDE DEF n
<1>7. /\ med' \in [Chunks -> Medium] /\ med'[c] = n(c)
      /\ MediumGrows
    BY <1>2, <1>3, <1>4 DEF MediumGrows
<1> QED
    BY <1>1, <1>6, <1>7, FilesKeep

LEMMA SyncManifestKeeps ==
    ASSUME TypeOK, MediumInv, NEW s \in Sessions, SyncManifest(s)
    PROVE  TypeOK' /\ MediumInv' /\ HostStays /\ ReceiptsStay /\ NoReport
<1> DEFINE c == ses[s].chunk
           n(d) == [med[d] EXCEPT !.man = FsyncDirectory(med[d].man)]
<1>1. ses[s].pc = "mansync" /\ ses[s].pc \notin {"idle", "wait"} /\ UNCHANGED rec
      /\ Steps(s, "ent")
    BY DEF SyncManifest
<1>2. c \in Chunks /\ Reached("mansync", med[c])
    BY <1>1, OnChunk
<1>3. med' = [d \in Chunks |-> n(d)]
    BY DEF SyncManifest
<1>4. ASSUME NEW d \in Chunks
      PROVE  /\ n(d) \in Medium /\ Grows(med[d], n(d))
             /\ n(d).man = FsyncDirectory(med[d].man)
             /\ n(d).raw = med[d].raw
             /\ n(d).by = med[d].by
             /\ n(d).ent = med[d].ent
             /\ n(d).bound = med[d].bound
    <2>1. med[d] \in Medium /\ med[d].man \in Fact /\ FsyncDirectory(med[d].man) \in Fact
        BY MediumFields, FactType
    <2> QED
        BY <2>1, SetMan DEF Grows, FsyncDirectory
<1>5. med[c].man \in Fact
    BY <1>2, MediumFields
<1>6. Reached("ent", n(c))
    BY <1>2, <1>4, <1>5 DEF Reached, FsyncDirectory, Fact
<1> HIDE DEF n
<1>7. /\ med' \in [Chunks -> Medium] /\ med'[c] = n(c)
      /\ MediumGrows
    BY <1>2, <1>3, <1>4 DEF MediumGrows
<1> QED
    BY <1>1, <1>6, <1>7, FilesKeep

LEMMA SyncEntriesKeeps ==
    ASSUME TypeOK, MediumInv, NEW s \in Sessions, SyncEntries(s)
    PROVE  TypeOK' /\ MediumInv' /\ HostStays /\ ReceiptsStay /\ NoReport
<1> DEFINE c == ses[s].chunk
           n(d) == [med[d] EXCEPT !.ent = FsyncDirectory(med[d].ent)]
<1>1. ses[s].pc = "entsync" /\ ses[s].pc \notin {"idle", "wait"} /\ UNCHANGED rec
      /\ Steps(s, "rec")
    BY DEF SyncEntries
<1>2. c \in Chunks /\ Reached("entsync", med[c])
    BY <1>1, OnChunk
<1>3. med' = [d \in Chunks |-> n(d)]
    BY DEF SyncEntries
<1>4. ASSUME NEW d \in Chunks
      PROVE  /\ n(d) \in Medium /\ Grows(med[d], n(d))
             /\ n(d).ent = FsyncDirectory(med[d].ent)
             /\ n(d).raw = med[d].raw
             /\ n(d).man = med[d].man
             /\ n(d).by = med[d].by
             /\ n(d).bound = med[d].bound
    <2>1. med[d] \in Medium /\ med[d].ent \in Fact /\ FsyncDirectory(med[d].ent) \in Fact
        BY MediumFields, FactType
    <2> QED
        BY <2>1, SetEnt DEF Grows, FsyncDirectory
<1>5. med[c].ent \in Fact
    BY <1>2, MediumFields
<1>6. Reached("rec", n(c))
    BY <1>2, <1>4, <1>5 DEF Reached, FsyncDirectory, Fact, Chain
<1> HIDE DEF n
<1>7. /\ med' \in [Chunks -> Medium] /\ med'[c] = n(c)
      /\ MediumGrows
    BY <1>2, <1>3, <1>4 DEF MediumGrows
<1> QED
    BY <1>1, <1>6, <1>7, FilesKeep

LEMMA CommitReceiptKeeps ==
    ASSUME TypeOK, MediumInv, NEW s \in Sessions, CommitReceipt(s)
    PROVE  TypeOK' /\ MediumInv' /\ HostStays /\ ReceiptsStay /\ NoReport
<1> DEFINE f == Publish(rec[s])
<1>1. ses[s].pc = "rec" /\ ses[s].pc \notin {"idle", "wait"} /\ ses[s].pc # "wait"
      /\ UNCHANGED med /\ Steps(s, "recsync") /\ rec' = [rec EXCEPT ![s] = f]
    BY DEF CommitReceipt
<1>2. ses[s].chunk \in Chunks /\ Chain(med[ses[s].chunk])
    BY <1>1, OnChunk DEF Reached
<1>3. f \in Fact /\ f # "none" /\ (rec[s] # "none" => f = rec[s])
    BY FactType DEF TypeOK, Publish
<1> HIDE DEF f
<1>4. /\ rec' \in [Sessions -> Fact]
      /\ ReceiptsGrow(s)
      /\ rec'[s] # "none"
    BY <1>1, <1>2, <1>3 DEF TypeOK, ReceiptsGrow
<1>5. Reached("recsync", med'[ses[s].chunk])
    BY <1>1, <1>2 DEF Reached
<1>6. MediumGrows /\ med' \in [Chunks -> Medium]
    BY <1>1 DEF Grows, MediumGrows, TypeOK
<1>7. "recsync" \in MovePc /\ "recsync" \notin Talk
    BY DEF SessionPc, MovePc, Talk
<1>8. TypeOK' /\ HostStays /\ ReceiptsStay /\ NoReport
    BY <1>1, <1>4, <1>6, <1>7, StepKeeps
<1>9. MediumInv'
    BY <1>1, <1>4, <1>5, <1>6, <1>7, MediumStep
<1> QED
    BY <1>8, <1>9

LEMMA RevalidateKeeps ==
    ASSUME TypeOK, MediumInv, NEW s \in Sessions, RevalidateReceipt(s)
    PROVE  TypeOK' /\ MediumInv' /\ HostStays /\ ReceiptsStay /\ NoReport
<1>1. ses[s].pc = "recsync" /\ ses[s].pc \notin {"idle", "wait"} /\ ses[s].pc # "wait"
      /\ UNCHANGED med /\ rec' = [t \in Sessions |-> FsyncDirectory(rec[t])]
    BY DEF RevalidateReceipt
<1>2. PICK pc \in {"call", "failed"} : Steps(s, pc)
    BY DEF RevalidateReceipt
<1>3. rec[s] # "none"
    BY <1>1 DEF MediumInv, ReceiptReached
<1>4. \A t \in Sessions : rec[t] \in Fact
    BY DEF TypeOK
<1>5. /\ rec' \in [Sessions -> Fact]
      /\ ReceiptsGrow(s)
      /\ rec'[s] = "durable"
    BY <1>1, <1>3, <1>4, FactType DEF FsyncDirectory, Fact, ReceiptsGrow
<1>6. Reached(pc, med'[ses[s].chunk])
    BY DEF Reached
<1>7. MediumGrows /\ med' \in [Chunks -> Medium]
    BY <1>1 DEF Grows, MediumGrows, TypeOK
<1>8. pc \in MovePc /\ pc # "recsync" /\ pc # "done"
    BY DEF SessionPc, MovePc
<1>9. TypeOK' /\ HostStays /\ ReceiptsStay /\ NoReport
    BY <1>1, <1>2, <1>5, <1>7, <1>8, StepKeeps
<1>10. MediumInv'
    BY <1>1, <1>2, <1>5, <1>6, <1>7, <1>8, MediumStep
<1> QED
    BY <1>9, <1>10

\* Every step of a session on the medium.
LEMMA WritingKeeps ==
    ASSUME TypeOK, MediumInv, NEW s \in Sessions,
           \/ CommitRaw(s) \/ SyncRaw(s) \/ CommitArchiveManifest(s) \/ SyncManifest(s)
           \/ CommitEntry(s) \/ SyncEntries(s) \/ CommitReceipt(s) \/ RevalidateReceipt(s)
    PROVE  TypeOK' /\ MediumInv' /\ HostStays /\ ReceiptsStay /\ NoReport
    BY CommitRawKeeps, SyncRawKeeps, CommitManifestKeeps, SyncManifestKeeps, CommitEntryKeeps,
       SyncEntriesKeeps, CommitReceiptKeeps, RevalidateKeeps

\* A power loss of the client takes files and receipts that were not synced,
\* and every session that worked with them.
LEMMA ClientLossKeeps ==
    ASSUME TypeOK, MediumInv, ClientPowerLoss
    PROVE  TypeOK' /\ MediumInv' /\ HostStays /\ ReceiptsStay /\ NoReport
<1>1. /\ med' \in [Chunks -> Medium] /\ rec' \in [Sessions -> Fact]
      /\ \A c \in Chunks : /\ med'[c].raw \in AfterLoss(med[c].raw)
                           /\ med'[c].man \in AfterLoss(med[c].man) /\ med'[c].by = med[c].by
                           /\ med'[c].ent \in AfterLoss(med[c].ent)
                           /\ med'[c].bound = med[c].bound
      /\ \A s \in Sessions : rec'[s] \in AfterLoss(rec[s])
    BY DEF ClientPowerLoss
<1>2. UNCHANGED <<src, remote, local, jobs>> /\ faults' \in 0..MaxFaults
    BY FaultAssumption DEF ClientPowerLoss, Fault, TypeOK
<1>3. ses' = [s \in Sessions |-> IF ses[s].pc \in {"idle", "done"} THEN ses[s]
                                ELSE Ends(ses[s], "failed")]
    BY DEF ClientPowerLoss
<1>4. ASSUME NEW s \in Sessions
      PROVE  /\ ses'[s] \in Session /\ ses'[s].chunk = ses[s].chunk
             /\ ses'[s].pc = "wait" <=> ses'[s].job # NoJob
             /\ \/ ses[s].pc \in {"idle", "done"} /\ ses'[s] = ses[s]
                \/ ses[s].pc \notin {"idle", "done"} /\ ses'[s].pc = "failed"
    <2>1. ses[s] \in Session /\ (ses[s].pc = "wait" <=> ses[s].job # NoJob)
        BY DEF TypeOK
    <2>2. CASE ses[s].pc \in {"idle", "done"}
        BY <1>3, <2>1, <2>2
    <2>3. CASE ses[s].pc \notin {"idle", "done"}
        BY <1>3, <2>1, <2>3, EndsKeeps DEF Keeps
    <2> QED
        BY <2>2, <2>3
<1>5. TypeOK'
    BY <1>1, <1>2, <1>3, <1>4 DEF TypeOK
<1>6. \A s \in Sessions : /\ rec'[s] # "none" => rec[s] # "none"
                          /\ rec[s] = "durable" => rec'[s] = "durable"
    BY <1>1 DEF AfterLoss
<1>7. \A c \in Chunks : Chain(med[c]) => Chain(med'[c])
    BY <1>1 DEF AfterLoss, Chain
<1>8. ChunkChosen' /\ ReceiptReached' /\ ReceiptHasChunk'
    BY <1>4, <1>6 DEF MediumInv, ChunkChosen, ReceiptReached, ReceiptHasChunk
<1>9. MediumReached'
    BY <1>4 DEF MediumReached, Reached, MediumInv, ChunkChosen
<1>10. ReceiptHasChain'
    <2> SUFFICES ASSUME NEW s \in Sessions, rec'[s] # "none" PROVE Chain(med'[ses'[s].chunk])
        BY DEF ReceiptHasChain
    <2>1. ses[s].chunk \in Chunks /\ Chain(med[ses[s].chunk])
        BY <1>6 DEF MediumInv, ReceiptHasChunk, ReceiptHasChain, TypeOK, Session
    <2> QED
        BY <1>4, <1>7, <2>1
<1> QED
    BY <1>2, <1>4, <1>5, <1>6, <1>8, <1>9, <1>10
       DEF MediumInv, HostStays, ReceiptsStay, NoReport

-----------------------------------------------------------------------------
(* The host: rows, sources and processes. *)

\* The session of a process.
LEMMA JobSession ==
    ASSUME TypeOK, MediumInv, NEW b \in Job, JobOK(b), b.pc # "free"
    PROVE  b.ses \in Sessions /\ rec[b.ses] = "durable" /\ ses[b.ses].chunk \in Chunks
<1>1. b.ses \in Sessions /\ rec[b.ses] = "durable"
    BY DEF Job, JobOK
<1>2. ses[b.ses].chunk # NoChunk /\ ses[b.ses] \in Session
    BY <1>1 DEF MediumInv, ReceiptHasChunk, TypeOK
<1> QED
    BY <1>1, <1>2 DEF Session

\* A step on the medium and a power loss of the client leave the host alone.
LEMMA HostUndisturbed ==
    ASSUME TypeOK, RemoteInv, HostStays, ReceiptsStay
    PROVE  RowInv' /\ JobsOK'
<1>1. UNCHANGED <<src, remote, local, jobs>>
    BY DEF HostStays
<1>2. RowHasReceipt'
    BY <1>1 DEF RemoteInv, RowInv, RowHasReceipt, TypeOK, Row, ReceiptsStay
<1>3. JobsOK'
    <2> SUFFICES ASSUME NEW j \in Jobs PROVE JobOK(jobs[j])'
        BY DEF JobsOK
    <2>1. JobOK(jobs[j]) /\ jobs[j] \in Job
        BY DEF RemoteInv, JobsOK, TypeOK
    <2>2. CASE jobs[j].pc = "free"
        BY <1>1, <2>1, <2>2 DEF JobOK
    <2>3. CASE jobs[j].pc # "free"
        <3>1. jobs[j].ses \in Sessions /\ rec[jobs[j].ses] = "durable"
            BY <2>1, <2>3, JobSession DEF RemoteInv
        <3>2. rec'[jobs[j].ses] = "durable" /\ ses'[jobs[j].ses].chunk = ses[jobs[j].ses].chunk
            BY <3>1 DEF ReceiptsStay
        <3> QED
            BY <1>1, <2>1, <3>2 DEF JobOK
    <2> QED
        BY <2>2, <2>3
<1>4. DeletedHasRow' /\ TerminalIsAbsent' /\ OneOwner'
    BY <1>1 DEF RemoteInv, RowInv, DeletedHasRow, TerminalIsAbsent, OneOwner
<1> QED
    BY <1>2, <1>3, <1>4 DEF RowInv

LEMMA ReportUndisturbed ==
    ASSUME RemoteInv, HostStays, NoReport PROVE ReportIsTrue'
<1> SUFFICES ASSUME NEW s \in Sessions, ses'[s].pc = "done", ses'[s].delete
             PROVE  RowOf(s).st' = "DELETED"
    BY DEF ReportIsTrue
<1>1. ses'[s] = ses[s] /\ remote' = remote
    BY DEF NoReport, HostStays
<1>2. RowOf(s)' = RowOf(s)
    BY <1>1 DEF RowOf
<1> QED
    BY <1>1, <1>2 DEF RemoteInv, ReportIsTrue

\* What a step of a process keeps.
SourcesStay == \A c \in Chunks : /\ src[c] # "here" => src'[c] # "here"
                                 /\ src[c] = "gone" => src'[c] = "gone"
RowsStay == \A c \in Chunks : remote[c] # NoRow =>
                /\ remote'[c].ses = remote[c].ses
                /\ remote[c].st = "DELETED" => remote'[c].st = "DELETED"

\* The rows and sources after such a step.
HostMoves == /\ RowInv' /\ SourcesStay /\ RowsStay
             /\ src' \in [Chunks -> SourceFile]
             /\ remote' \in [Chunks -> Row] /\ local' \in [Chunks -> Fact]

LEMMA OtherJobs ==
    ASSUME TypeOK, RemoteInv, OnlyTalk, SourcesStay, RowsStay,
           NEW j \in Jobs, NEW b \in Job, JobOK(b)', jobs' = [jobs EXCEPT ![j] = b]
    PROVE  JobsOK' /\ jobs' \in [Jobs -> Job]
<1>1. jobs \in [Jobs -> Job]
    BY DEF TypeOK
<1>2. /\ jobs' \in [Jobs -> Job] /\ jobs'[j] = b
      /\ \A i \in Jobs : i # j => jobs'[i] = jobs[i]
    BY <1>1
<1>3. ASSUME NEW i \in Jobs, i # j PROVE JobOK(jobs[i])'
    <2> DEFINE t == jobs[i].ses
    <2>1. JobOK(jobs[i]) /\ jobs[i] \in Job /\ jobs'[i] = jobs[i]
        BY <1>2, <1>3 DEF RemoteInv, JobsOK, TypeOK
    <2>2. CASE jobs[i].pc = "free"
        BY <2>1, <2>2 DEF JobOK
    <2>3. CASE jobs[i].pc # "free"
        <3>1. t \in Sessions /\ rec[t] = "durable" /\ ses[t].chunk \in Chunks /\ t # NoSession
            BY <2>1, <2>3, JobSession, NoneAssumption DEF RemoteInv
        <3>2. rec'[t] = "durable" /\ ses'[t].chunk = ses[t].chunk
            BY <3>1 DEF OnlyTalk, Moves, Keeps
        <3>3. remote[ses[t].chunk].ses = t => remote'[ses[t].chunk].ses = t
            BY <3>1 DEF RowsStay, NoRow
        <3>4. /\ src[ses[t].chunk] # "here" => src'[ses[t].chunk] # "here"
              /\ src[ses[t].chunk] = "gone" => src'[ses[t].chunk] = "gone"
            BY <3>1 DEF SourcesStay
        <3> QED
            BY <2>1, <3>2, <3>3, <3>4 DEF JobOK
    <2> QED
        BY <2>2, <2>3
<1>4. JobOK(jobs[j])'
    BY <1>2 DEF JobOK
<1> QED
    BY <1>2, <1>3, <1>4 DEF JobsOK

\* Sessions that only talk keep their chunk.
LEMMA TalkChunk ==
    ASSUME OnlyTalk
    PROVE  rec' = rec /\ \A t \in Sessions : ses'[t].chunk = ses[t].chunk
    BY DEF OnlyTalk, Moves, Keeps

\* Reads, and the fsync of data/sealed.
LEMMA SourcesKept ==
    ASSUME TypeOK, RemoteInv, OnlyTalk, UNCHANGED <<remote, local>>,
           UNCHANGED src \/ src' = SyncedSealed
    PROVE  HostMoves
<1>1. src \in [Chunks -> SourceFile] /\ remote \in [Chunks -> Row] /\ local \in [Chunks -> Fact]
    BY DEF TypeOK
<1>2. /\ src' \in [Chunks -> SourceFile]
      /\ \A c \in Chunks : /\ src'[c] # "here" <=> src[c] # "here"
                           /\ src[c] = "gone" => src'[c] = "gone"
    BY <1>1 DEF SyncedSealed, SourceFile
<1>3. SourcesStay /\ RowsStay
    BY <1>2 DEF SourcesStay, RowsStay
<1>4. RowHasReceipt'
    BY <1>1, TalkChunk DEF RemoteInv, RowInv, RowHasReceipt, Row
<1>5. DeletedHasRow' /\ TerminalIsAbsent' /\ OneOwner'
    BY <1>2 DEF RemoteInv, RowInv, DeletedHasRow, TerminalIsAbsent, OneOwner
<1> QED
    BY <1>1, <1>2, <1>3, <1>4, <1>5 DEF RowInv, HostMoves

\* os.unlink of a source that has a row.
LEMMA SourceUnlinked ==
    ASSUME TypeOK, RemoteInv, OnlyTalk, UNCHANGED <<remote, local>>, NEW c \in Chunks,
           src[c] = "here", src' = [src EXCEPT ![c] = "unlinked"], remote[c].ses # NoSession
    PROVE  HostMoves /\ src'[c] # "here"
<1>1. src \in [Chunks -> SourceFile] /\ remote \in [Chunks -> Row] /\ local \in [Chunks -> Fact]
    BY DEF TypeOK
<1>2. /\ src' \in [Chunks -> SourceFile] /\ src'[c] = "unlinked"
      /\ \A d \in Chunks : d # c => src'[d] = src[d]
    BY <1>1 DEF SourceFile
<1>3. SourcesStay /\ RowsStay
    BY <1>2 DEF SourcesStay, RowsStay
<1>4. RowHasReceipt'
    BY <1>1, TalkChunk DEF RemoteInv, RowInv, RowHasReceipt, Row
<1>5. DeletedHasRow' /\ TerminalIsAbsent' /\ OneOwner'
    BY <1>2 DEF RemoteInv, RowInv, DeletedHasRow, TerminalIsAbsent, OneOwner
<1> QED
    BY <1>1, <1>2, <1>3, <1>4, <1>5 DEF RowInv, HostMoves

\* A commit of the row of a durable receipt of c.
LEMMA RowCommitted ==
    ASSUME TypeOK, RemoteInv, OnlyTalk, UNCHANGED src, NEW c \in Chunks, NEW s \in Sessions,
           NEW st \in {"PENDING", "DELETED"}, CommitRow(c, [ses |-> s, st |-> st]),
           rec[s] = "durable", ses[s].chunk = c, local[c] = "none",
           remote[c] = NoRow \/ (remote[c].ses = s /\ remote[c].st # "DELETED"),
           st = "DELETED" => src[c] = "gone"
    PROVE  HostMoves /\ remote'[c].ses = s /\ remote'[c].st = st
<1> DEFINE row == [ses |-> s, st |-> st]
<1>1. src \in [Chunks -> SourceFile] /\ remote \in [Chunks -> Row] /\ local \in [Chunks -> Fact]
    BY DEF TypeOK
<1>2. row \in Row /\ row.ses = s /\ row.st = st /\ s # NoSession /\ st # "NONE"
    BY NoneAssumption DEF Row
<1>3. /\ remote' = [remote EXCEPT ![c] = row]
      /\ local' = [d \in Chunks |-> FsyncDirectory(local[d])]
    BY DEF CommitRow
<1> HIDE DEF row
<1>4. /\ remote' \in [Chunks -> Row] /\ remote'[c] = row
      /\ \A d \in Chunks : d # c => remote'[d] = remote[d]
    BY <1>1, <1>2, <1>3
<1>5. /\ local' \in [Chunks -> Fact]
      /\ \A d \in Chunks : local'[d] = "none" <=> local[d] = "none"
    BY <1>1, <1>3 DEF FsyncDirectory, Fact
<1>6. SourcesStay /\ RowsStay
    BY <1>2, <1>4 DEF SourcesStay, RowsStay
<1>7. RowHasReceipt'
    <2> SUFFICES ASSUME NEW d \in Chunks
                 PROVE  /\ remote'[d].st = "NONE" <=> remote'[d].ses = NoSession
                        /\ remote'[d].ses # NoSession =>
                              rec'[remote'[d].ses] = "durable" /\ ses'[remote'[d].ses].chunk = d
        BY DEF RowHasReceipt
    <2>1. CASE d = c
        BY <1>2, <1>4, <2>1, TalkChunk
    <2>2. CASE d # c
        <3>1. remote'[d] = remote[d] /\ remote[d].ses \in Sessions \cup {NoSession}
            BY <1>1, <1>4, <2>2 DEF Row
        <3> QED
            BY <3>1, TalkChunk DEF RemoteInv, RowInv, RowHasReceipt
    <2> QED
        BY <2>1, <2>2
<1>8. DeletedHasRow' /\ TerminalIsAbsent' /\ OneOwner'
    BY <1>2, <1>4, <1>5 DEF RemoteInv, RowInv, DeletedHasRow, TerminalIsAbsent, OneOwner
<1> QED
    BY <1>1, <1>2, <1>4, <1>5, <1>6, <1>7, <1>8 DEF RowInv, HostMoves

\* Reports stay true while rows stay and no session reports anew.
LEMMA ReportsKept ==
    ASSUME TypeOK, RemoteInv, OnlyTalk, RowsStay,
           \A t \in Sessions : ses'[t].pc = "done" /\ ses'[t].delete /\ ses[t].pc # "done"
                                  => RowOf(t)'.st = "DELETED"
    PROVE  ReportIsTrue'
<1> SUFFICES ASSUME NEW t \in Sessions, ses'[t].pc = "done", ses'[t].delete, ses[t].pc = "done"
             PROVE  RowOf(t)'.st = "DELETED"
    BY DEF ReportIsTrue
<1>1. ses'[t].chunk = ses[t].chunk /\ ses'[t].delete = ses[t].delete
    BY DEF OnlyTalk, Moves, Keeps
<1>2. RowOf(t).st = "DELETED"
    BY <1>1 DEF RemoteInv, ReportIsTrue
<1>3. ses[t].chunk # NoChunk /\ remote[ses[t].chunk].ses = t /\ remote[ses[t].chunk].st = "DELETED"
    BY <1>2 DEF RowOf, NoRow
<1>4. ses[t].chunk \in Chunks /\ remote[ses[t].chunk] # NoRow
    BY <1>3 DEF TypeOK, Session, NoRow
<1>5. remote'[ses[t].chunk].ses = t /\ remote'[ses[t].chunk].st = "DELETED"
    BY <1>3, <1>4 DEF RowsStay
<1> QED
    BY <1>1, <1>3, <1>5 DEF RowOf

\* The authority a process reads, and the row behind it.
LEMMA Authority ==
    ASSUME TypeOK, NEW s \in Sessions, ses[s].chunk \in Chunks
    PROVE  /\ LoadAuthority(s) \in {"NONE", "PENDING", "DELETED"}
           /\ RowOf(s).st \in {"NONE", "PENDING", "DELETED"}
           /\ RowOf(s).st # "NONE" => remote[ses[s].chunk].ses = s
           /\ LoadAuthority(s) # "NONE" =>
                 /\ local[ses[s].chunk] = "none" /\ remote[ses[s].chunk].ses = s
                 /\ remote[ses[s].chunk].st = LoadAuthority(s)
                 /\ RowOf(s).st = LoadAuthority(s)
<1>1. remote[ses[s].chunk] \in Row
    BY DEF TypeOK
<1> QED
    BY <1>1 DEF LoadAuthority, RowOf, NoRow, Row

LEMMA AnswerKeeps ==
    ASSUME TypeOK, RemoteInv, NEW j \in Jobs, NEW s \in Sessions, jobs[j].ses = s,
           NEW st, Answer(j, st),
           UNCHANGED <<med, rec>>, faults' \in 0..MaxFaults, HostMoves,
           st = "DELETED" => RowOf(s)'.st = "DELETED"
    PROVE  TypeOK' /\ RemoteInv' /\ RowsStay
<1>1. jobs[j].ses \in Sessions
    OBVIOUS
<1>2. OnlyTalk /\ jobs' = [jobs EXCEPT ![j] = Free]
    BY <1>1, AnswerTalks
<1>3. \A t \in Sessions : ses'[t].pc = "done" /\ ses'[t].delete /\ ses[t].pc # "done"
                            => RowOf(t)'.st = "DELETED"
    <2>1. \A t \in Sessions : ses'[t].pc = "done" /\ ses'[t].delete /\ ses[t].pc # "done"
                               => t = s /\ st = "DELETED"
        BY <1>1, AnswerTalks
    <2> QED
        BY <2>1
<1>4. Free \in Job /\ JobOK(Free)'
    BY DEF Free, Job, JobPc, JobOK
<1>5. SourcesStay /\ RowsStay /\ RowInv'
    BY DEF HostMoves
<1>6. JobsOK' /\ jobs' \in [Jobs -> Job]
    BY <1>2, <1>4, <1>5, OtherJobs
<1>7. MediumInv'
    BY <1>2, TalkMedium DEF RemoteInv
<1>8. ReportIsTrue'
    BY <1>2, <1>3, <1>5, ReportsKept
<1>9. TypeOK'
    BY <1>2, <1>6, TalkType DEF TypeOK, HostMoves
<1> QED
    BY <1>5, <1>6, <1>7, <1>8, <1>9 DEF RemoteInv

LEMMA StillTalks ==
    ASSUME TypeOK, UNCHANGED <<ses, med, rec>> PROVE OnlyTalk
    BY DEF TypeOK, OnlyTalk, Moves, Keeps

\* A process goes on to a step whose conditions hold.
LEMMA GoingOnKeeps ==
    ASSUME TypeOK, RemoteInv, NEW j \in Jobs, NEW s \in Sessions, jobs[j].ses = s, jobs[j].pc # "free",
           NEW pc \in JobPc, pc # "free", JobSteps(j, pc),
           UNCHANGED <<med, rec, faults>>, HostMoves,
           pc \notin {"select", "reserve", "load", "observe"} =>
                 remote'[ses[s].chunk].ses = s,
           pc = "sync" => src'[ses[s].chunk] # "here",
           pc \in {"terminal", "commit"} => src'[ses[s].chunk] = "gone"
    PROVE  TypeOK' /\ RemoteInv' /\ RowsStay
<1>1. jobs[j] \in Job /\ s # NoSession /\ rec[s] = "durable"
    BY JobSession, NoneAssumption DEF RemoteInv, JobsOK, TypeOK
<1>2. PICK b \in Job : b = [jobs[j] EXCEPT !.pc = pc] /\ b.pc = pc /\ b.ses = s
    <2>1. /\ [jobs[j] EXCEPT !.pc = pc] \in Job
          /\ [jobs[j] EXCEPT !.pc = pc].pc = pc /\ [jobs[j] EXCEPT !.pc = pc].ses = s
        BY <1>1 DEF Job
    <2> QED
        BY <2>1
<1>3. jobs' = [jobs EXCEPT ![j] = b] /\ ses' = ses
    BY <1>2 DEF JobSteps
<1>4. OnlyTalk
    BY <1>3, StillTalks
<1>5. JobOK(b)'
    BY <1>1, <1>2, <1>3 DEF JobOK
<1>6. SourcesStay /\ RowsStay /\ RowInv'
    BY DEF HostMoves
<1>7. JobsOK' /\ jobs' \in [Jobs -> Job]
    BY <1>2, <1>3, <1>4, <1>5, <1>6, OtherJobs
<1>8. MediumInv'
    BY <1>4, TalkMedium DEF RemoteInv
<1>9. ReportIsTrue'
    BY <1>3, <1>4, <1>6, ReportsKept
<1>10. TypeOK'
    BY <1>4, <1>7, TalkType DEF TypeOK, HostMoves
<1> QED
    BY <1>6, <1>7, <1>8, <1>9, <1>10 DEF RemoteInv

-----------------------------------------------------------------------------
(* The steps of a process. *)

\* Steps that only read rows and sources, or fsync data/sealed.
LEMMA ReadingKeeps ==
    ASSUME TypeOK, RemoteInv, NEW j \in Jobs, NEW s \in Sessions, jobs[j].ses = s,
           ses[s].chunk \in Chunks, UNCHANGED <<remote, local, med, rec, faults>>,
           UNCHANGED src \/ src' = SyncedSealed
    PROVE  /\ \A st : Answer(j, st) /\ (st = "DELETED" => RowOf(s).st = "DELETED")
                         => TypeOK' /\ RemoteInv' /\ RowsStay
           /\ UNCHANGED ses => HostMoves
<1>1. ASSUME NEW st, Answer(j, st), st = "DELETED" => RowOf(s).st = "DELETED"
      PROVE  TypeOK' /\ RemoteInv' /\ RowsStay
    <2>1. OnlyTalk
        BY <1>1, AnswerTalks
    <2>2. HostMoves
        BY <2>1, SourcesKept
    <2>3. RowOf(s)' = RowOf(s)
        BY <2>1, TalkChunk DEF RowOf
    <2>4. faults' \in 0..MaxFaults
        BY DEF TypeOK
    <2> QED
        BY <1>1, <2>2, <2>3, <2>4, AnswerKeeps
<1>2. ASSUME UNCHANGED ses PROVE HostMoves
    BY <1>2, StillTalks, SourcesKept
<1> QED
    BY <1>1, <1>2

LEMMA AuthorizeSelectKeeps ==
    ASSUME TypeOK, RemoteInv, NEW j \in Jobs, NEW s \in Sessions, jobs[j].ses = s,
           ses[s].chunk \in Chunks, rec[s] = "durable", JobOK(jobs[j]), AuthorizeSelect(j)
    PROVE  TypeOK' /\ RemoteInv' /\ RowsStay
<1>1. UNCHANGED <<src, remote, local, med, rec, faults>> /\ jobs[j].pc = "select"
    BY DEF AuthorizeSelect, At, host
<1>2. CASE JobSteps(j, "reserve")
    <2>1. HostMoves
        BY <1>1, <1>2, ReadingKeeps DEF JobSteps
    <2>2. "reserve" \in JobPc /\ "reserve" # "free" /\ jobs[j].pc # "free"
        BY <1>1 DEF JobPc
    <2> QED
        BY <1>1, <1>2, <2>1, <2>2, GoingOnKeeps
<1>3. CASE Answer(j, "NONE")
    BY <1>1, <1>3, ReadingKeeps
<1> QED
    BY <1>2, <1>3 DEF AuthorizeSelect

LEMMA ReserveRemoteKeeps ==
    ASSUME TypeOK, RemoteInv, NEW j \in Jobs, NEW s \in Sessions, jobs[j].ses = s,
           ses[s].chunk \in Chunks, rec[s] = "durable", JobOK(jobs[j]), ReserveRemote(j)
    PROVE  TypeOK' /\ RemoteInv' /\ RowsStay
<1> DEFINE c == ses[s].chunk
<1>1. UNCHANGED <<src, med, rec, faults>> /\ jobs[j].pc = "reserve"
    BY DEF ReserveRemote, At
<1>2. CASE Reservable(s, c) /\ CommitRow(c, [ses |-> s, st |-> "PENDING"]) /\ Answer(j, "PENDING")
    <2>1. OnlyTalk
        BY <1>1, <1>2, AnswerTalks
    <2>2. /\ local[c] = "none"
          /\ remote[c] = NoRow \/ (remote[c].ses = s /\ remote[c].st # "DELETED")
        BY <1>2 DEF Reservable
    <2>3. HostMoves
        BY <1>1, <1>2, <2>1, <2>2, RowCommitted
    <2>4. faults' \in 0..MaxFaults
        BY <1>1 DEF TypeOK
    <2> QED
        BY <1>1, <1>2, <2>3, <2>4, AnswerKeeps
<1>3. CASE Answer(j, "NONE") /\ UNCHANGED <<remote, local>>
    BY <1>1, <1>3, ReadingKeeps
<1> QED
    BY <1>2, <1>3 DEF ReserveRemote

LEMMA DeleteLoadKeeps ==
    ASSUME TypeOK, RemoteInv, NEW j \in Jobs, NEW s \in Sessions, jobs[j].ses = s,
           ses[s].chunk \in Chunks, rec[s] = "durable", JobOK(jobs[j]), DeleteLoad(j)
    PROVE  TypeOK' /\ RemoteInv' /\ RowsStay
<1>1. UNCHANGED <<src, remote, local, med, rec, faults>> /\ jobs[j].pc = "load"
    BY DEF DeleteLoad, At, host
<1>2. ASSUME Answer(j, "NONE") \/ (LoadAuthority(s) = "DELETED" /\ Answer(j, "DELETED"))
      PROVE  TypeOK' /\ RemoteInv' /\ RowsStay
    BY <1>1, <1>2, Authority, ReadingKeeps
<1>3. ASSUME NEW pc \in {"validate", "absent"}, LoadAuthority(s) = "PENDING", JobSteps(j, pc)
      PROVE  TypeOK' /\ RemoteInv' /\ RowsStay
    <2>1. HostMoves
        BY <1>1, <1>3, ReadingKeeps DEF JobSteps
    <2>2. pc \in JobPc /\ pc # "free" /\ jobs[j].pc # "free"
        BY <1>1 DEF JobPc
    <2>3. remote'[ses[s].chunk].ses = s
        BY <1>1, <1>3, Authority
    <2> QED
        BY <1>1, <1>3, <2>1, <2>2, <2>3, GoingOnKeeps
<1> QED
    BY <1>2, <1>3 DEF DeleteLoad

LEMMA DeleteValidateKeeps ==
    ASSUME TypeOK, RemoteInv, NEW j \in Jobs, NEW s \in Sessions, jobs[j].ses = s,
           ses[s].chunk \in Chunks, rec[s] = "durable", JobOK(jobs[j]), DeleteValidate(j)
    PROVE  TypeOK' /\ RemoteInv' /\ RowsStay
<1>1. UNCHANGED <<remote, local, med, rec, faults>> /\ jobs[j].pc = "validate"
      /\ src' = SyncedSealed
    BY DEF DeleteValidate, At
<1>2. CASE Answer(j, "NONE")
    BY <1>1, <1>2, ReadingKeeps
<1>3. CASE JobSteps(j, "unlink")
    <2>1. HostMoves
        BY <1>1, <1>3, ReadingKeeps DEF JobSteps
    <2>2. "unlink" \in JobPc /\ "unlink" # "free" /\ jobs[j].pc # "free"
        BY <1>1 DEF JobPc
    <2>3. remote'[ses[s].chunk].ses = s
        BY <1>1 DEF JobOK
    <2> QED
        BY <1>1, <1>3, <2>1, <2>2, <2>3, GoingOnKeeps
<1> QED
    BY <1>2, <1>3 DEF DeleteValidate

LEMMA DeleteUnlinkKeeps ==
    ASSUME TypeOK, RemoteInv, NEW j \in Jobs, NEW s \in Sessions, jobs[j].ses = s,
           ses[s].chunk \in Chunks, rec[s] = "durable", JobOK(jobs[j]), DeleteUnlink(j)
    PROVE  TypeOK' /\ RemoteInv' /\ RowsStay
<1> DEFINE c == ses[s].chunk
<1>1. UNCHANGED <<remote, local, med, rec, faults>> /\ jobs[j].pc = "unlink"
    BY DEF DeleteUnlink, At
<1>2. remote[c].ses = s /\ s # NoSession /\ remote'[c].ses = s
    BY <1>1, NoneAssumption DEF JobOK
<1>3. CASE src[c] = "here" /\ src' = [src EXCEPT ![c] = "unlinked"] /\ JobSteps(j, "sync")
    <2>1. OnlyTalk
        BY <1>1, <1>3, StillTalks DEF JobSteps
    <2>2. HostMoves /\ src'[c] # "here"
        BY <1>1, <1>2, <1>3, <2>1, SourceUnlinked
    <2>3. "sync" \in JobPc /\ "sync" # "free" /\ jobs[j].pc # "free"
        BY <1>1 DEF JobPc
    <2> QED
        BY <1>1, <1>2, <1>3, <2>2, <2>3, GoingOnKeeps
<1>4. CASE JobSteps(j, "absent") /\ UNCHANGED src
    <2>1. HostMoves
        BY <1>1, <1>4, ReadingKeeps DEF JobSteps
    <2>2. "absent" \in JobPc /\ "absent" # "free" /\ jobs[j].pc # "free"
        BY <1>1 DEF JobPc
    <2> QED
        BY <1>1, <1>2, <1>4, <2>1, <2>2, GoingOnKeeps
<1> QED
    BY <1>3, <1>4 DEF DeleteUnlink

LEMMA DeleteSyncKeeps ==
    ASSUME TypeOK, RemoteInv, NEW j \in Jobs, NEW s \in Sessions, jobs[j].ses = s,
           ses[s].chunk \in Chunks, rec[s] = "durable", JobOK(jobs[j]), DeleteSync(j)
    PROVE  TypeOK' /\ RemoteInv' /\ RowsStay
<1> DEFINE c == ses[s].chunk
<1>1. UNCHANGED <<remote, local, med, rec, faults>> /\ jobs[j].pc = "sync"
      /\ src' = SyncedSealed /\ JobSteps(j, "terminal")
    BY DEF DeleteSync, At
<1>2. remote'[c].ses = s /\ src[c] # "here"
    BY <1>1 DEF JobOK
<1>3. HostMoves
    BY <1>1, ReadingKeeps DEF JobSteps
<1>4. "terminal" \in JobPc /\ "terminal" # "free" /\ jobs[j].pc # "free"
    BY <1>1 DEF JobPc
<1>5. src'[c] = "gone"
    BY <1>1, <1>2 DEF TypeOK, SourceFile, SyncedSealed
<1> QED
    BY <1>1, <1>2, <1>3, <1>4, <1>5, GoingOnKeeps

LEMMA ReconcileAbsentKeeps ==
    ASSUME TypeOK, RemoteInv, NEW j \in Jobs, NEW s \in Sessions, jobs[j].ses = s,
           ses[s].chunk \in Chunks, rec[s] = "durable", JobOK(jobs[j]), ReconcileAbsent(j)
    PROVE  TypeOK' /\ RemoteInv' /\ RowsStay
<1> DEFINE c == ses[s].chunk
<1>1. UNCHANGED <<remote, local, med, rec, faults>> /\ jobs[j].pc = "absent"
    BY DEF ReconcileAbsent, At
<1>2. remote'[c].ses = s
    BY <1>1 DEF JobOK
<1>3. CASE Answer(j, "NONE") /\ UNCHANGED src
    BY <1>1, <1>3, ReadingKeeps
<1>4. CASE LoadAuthority(s) = "DELETED" /\ Answer(j, "DELETED") /\ UNCHANGED src
    BY <1>1, <1>4, Authority, ReadingKeeps
<1>5. CASE src[c] # "here" /\ src' = SyncedSealed /\ JobSteps(j, "terminal")
    <2>1. HostMoves
        BY <1>1, <1>5, ReadingKeeps DEF JobSteps
    <2>2. "terminal" \in JobPc /\ "terminal" # "free" /\ jobs[j].pc # "free"
        BY <1>1 DEF JobPc
    <2>3. src'[c] = "gone"
        BY <1>5 DEF TypeOK, SourceFile, SyncedSealed
    <2> QED
        BY <1>1, <1>2, <1>5, <2>1, <2>2, <2>3, GoingOnKeeps
<1> QED
    BY <1>3, <1>4, <1>5 DEF ReconcileAbsent

LEMMA TerminalizeKeeps ==
    ASSUME TypeOK, RemoteInv, NEW j \in Jobs, NEW s \in Sessions, jobs[j].ses = s,
           ses[s].chunk \in Chunks, rec[s] = "durable", JobOK(jobs[j]), Terminalize(j)
    PROVE  TypeOK' /\ RemoteInv' /\ RowsStay
<1> DEFINE c == ses[s].chunk
<1>1. UNCHANGED <<src, remote, local, med, rec, faults>> /\ jobs[j].pc = "terminal"
    BY DEF Terminalize, At, host
<1>2. remote'[c].ses = s /\ src'[c] = "gone"
    BY <1>1 DEF JobOK
<1>3. CASE Answer(j, "NONE")
    BY <1>1, <1>3, ReadingKeeps
<1>4. CASE LoadAuthority(s) = "DELETED" /\ Answer(j, "DELETED")
    BY <1>1, <1>4, Authority, ReadingKeeps
<1>5. CASE JobSteps(j, "commit")
    <2>1. HostMoves
        BY <1>1, <1>5, ReadingKeeps DEF JobSteps
    <2>2. "commit" \in JobPc /\ "commit" # "free" /\ jobs[j].pc # "free"
        BY <1>1 DEF JobPc
    <2> QED
        BY <1>1, <1>2, <1>5, <2>1, <2>2, GoingOnKeeps
<1> QED
    BY <1>3, <1>4, <1>5 DEF Terminalize

LEMMA CommitRemoteDeletedKeeps ==
    ASSUME TypeOK, RemoteInv, NEW j \in Jobs, NEW s \in Sessions, jobs[j].ses = s,
           ses[s].chunk \in Chunks, rec[s] = "durable", JobOK(jobs[j]), CommitRemoteDeleted(j)
    PROVE  TypeOK' /\ RemoteInv' /\ RowsStay
<1> DEFINE c == ses[s].chunk
<1>1. UNCHANGED <<src, med, rec, faults>> /\ jobs[j].pc = "commit"
    BY DEF CommitRemoteDeleted, At
<1>2. src[c] = "gone"
    BY <1>1 DEF JobOK
<1>3. CASE /\ LoadAuthority(s) = "PENDING" /\ Answer(j, "DELETED")
           /\ CommitRow(c, [ses |-> s, st |-> "DELETED"])
    <2>1. OnlyTalk
        BY <1>1, <1>3, AnswerTalks
    <2>2. local[c] = "none" /\ remote[c].ses = s /\ remote[c].st # "DELETED"
        BY <1>3, Authority
    <2>3. HostMoves /\ remote'[c].ses = s /\ remote'[c].st = "DELETED"
        BY <1>1, <1>2, <1>3, <2>1, <2>2, RowCommitted
    <2>4. RowOf(s)'.st = "DELETED"
        BY <2>1, <2>3, TalkChunk, NoneAssumption DEF RowOf
    <2>5. faults' \in 0..MaxFaults
        BY <1>1 DEF TypeOK
    <2> QED
        BY <1>1, <1>3, <2>3, <2>4, <2>5, AnswerKeeps
<1>4. CASE Answer(j, LoadAuthority(s)) /\ UNCHANGED <<remote, local>>
    <2>1. PICK st : st = LoadAuthority(s)
        OBVIOUS
    <2>2. Answer(j, st) /\ (st = "DELETED" => RowOf(s).st = "DELETED")
        BY <1>4, <2>1, Authority
    <2> QED
        BY <1>1, <1>4, <2>2, ReadingKeeps
<1> QED
    BY <1>3, <1>4 DEF CommitRemoteDeleted

LEMMA RecoverClassifyKeeps ==
    ASSUME TypeOK, RemoteInv, NEW j \in Jobs, NEW s \in Sessions, jobs[j].ses = s,
           ses[s].chunk \in Chunks, rec[s] = "durable", JobOK(jobs[j]), RecoverClassify(j)
    PROVE  TypeOK' /\ RemoteInv' /\ RowsStay
<1>1. UNCHANGED <<src, remote, local, med, rec, faults>> /\ jobs[j].pc = "observe"
    BY DEF RecoverClassify, At, host
<1>2. CASE Answer(j, "NONE")
    BY <1>1, <1>2, ReadingKeeps
<1>3. CASE RowOf(s).st = "PENDING" /\ JobSteps(j, "absent")
    <2>1. HostMoves
        BY <1>1, <1>3, ReadingKeeps DEF JobSteps
    <2>2. "absent" \in JobPc /\ "absent" # "free" /\ jobs[j].pc # "free"
        BY <1>1 DEF JobPc
    <2>3. remote'[ses[s].chunk].ses = s
        BY <1>1, <1>3, Authority
    <2> QED
        BY <1>1, <1>3, <2>1, <2>2, <2>3, GoingOnKeeps
<1> QED
    BY <1>2, <1>3 DEF RecoverClassify

LEMMA FaultType == ASSUME TypeOK, Fault PROVE faults' \in 0..MaxFaults
    BY FaultAssumption DEF TypeOK, Fault

\* Every step of a process, and its end by a kill.
LEMMA ProcessKeeps ==
    ASSUME TypeOK, RemoteInv, NEW j \in Jobs, JobStep(j) \/ KillJob(j)
    PROVE  TypeOK' /\ RemoteInv' /\ RowsStay
<1>1. jobs[j] \in Job /\ JobOK(jobs[j]) /\ jobs[j].pc # "free"
    BY DEF TypeOK, RemoteInv, JobsOK, JobStep, KillJob, AuthorizeSelect, ReserveRemote, DeleteLoad,
           DeleteValidate, DeleteUnlink, DeleteSync, ReconcileAbsent, Terminalize,
           CommitRemoteDeleted, RecoverClassify, At
<1>2. PICK s \in Sessions : jobs[j].ses = s /\ rec[s] = "durable" /\ ses[s].chunk \in Chunks
    BY <1>1, JobSession DEF RemoteInv
<1>3. CASE JobStep(j)
    BY <1>1, <1>2, <1>3, AuthorizeSelectKeeps, ReserveRemoteKeeps, DeleteLoadKeeps,
       DeleteValidateKeeps, DeleteUnlinkKeeps, DeleteSyncKeeps, ReconcileAbsentKeeps,
       TerminalizeKeeps, CommitRemoteDeletedKeeps, RecoverClassifyKeeps DEF JobStep
<1>4. CASE KillJob(j)
    <2>1. UNCHANGED <<src, remote, local, med, rec>> /\ faults' \in 0..MaxFaults
          /\ Answer(j, "NONE")
        BY <1>4, FaultType DEF KillJob
    <2>2. OnlyTalk
        BY <1>2, <2>1, AnswerTalks
    <2>3. HostMoves
        BY <2>1, <2>2, SourcesKept
    <2> QED
        BY <1>2, <2>1, <2>3, AnswerKeeps
<1> QED
    BY <1>3, <1>4

-----------------------------------------------------------------------------
(* The other steps. *)

\* A session alone moves, as it hears from the host or fails.
LEMMA HearingKeeps ==
    ASSUME TypeOK, RemoteInv, NEW s \in Sessions, NEW q, Moves(ses[s], q),
           ses' = [ses EXCEPT ![s] = q], HostStays, UNCHANGED <<med, rec>>,
           faults' \in 0..MaxFaults,
           q.pc = "done" /\ q.delete => RowOf(s).st = "DELETED"
    PROVE  TypeOK' /\ RemoteInv' /\ RowsStay
<1>1. /\ OnlyTalk
      /\ \A t \in Sessions : t # s => ses'[t] = ses[t]
      /\ ses'[s] = q \/ ses'[s] = ses[s]
    BY MoveOne
<1>2. UNCHANGED <<src, remote, local, jobs>>
    BY DEF HostStays
<1>3. ReceiptsStay
    BY <1>1, TalkChunk DEF ReceiptsStay
<1>4. RowInv' /\ JobsOK'
    BY <1>3, HostUndisturbed
<1>5. RowsStay
    BY <1>2 DEF RowsStay
<1>6. ASSUME NEW t \in Sessions, ses'[t].pc = "done", ses'[t].delete, ses[t].pc # "done"
      PROVE  RowOf(t)'.st = "DELETED"
    <2>1. t = s /\ RowOf(s).st = "DELETED"
        BY <1>1, <1>6
    <2>2. RowOf(s)' = RowOf(s)
        BY <1>1, <1>2, TalkChunk DEF RowOf
    <2> QED
        BY <2>1, <2>2
<1>7. ReportIsTrue'
    BY <1>1, <1>5, <1>6, ReportsKept
<1>8. MediumInv'
    BY <1>1, TalkMedium DEF RemoteInv
<1>9. TypeOK'
    BY <1>1, <1>2, TalkType DEF TypeOK
<1> QED
    BY <1>4, <1>5, <1>7, <1>8, <1>9 DEF RemoteInv

\* A process starts for a session with a durable receipt.
LEMMA StartingKeeps ==
    ASSUME TypeOK, RemoteInv, NEW s \in Sessions, NEW j \in Jobs, OnlyTalk, rec[s] = "durable",
           NEW pc \in {"select", "load", "observe"}, jobs' = [jobs EXCEPT ![j] = [pc |-> pc, ses |-> s]],
           UNCHANGED <<src, remote, local, faults>>,
           \A t \in Sessions : ses'[t].pc = "done" => ses[t].pc = "done"
    PROVE  TypeOK' /\ RemoteInv' /\ RowsStay
<1>1. HostMoves
    BY SourcesKept
<1>2. SourcesStay /\ RowsStay /\ RowInv'
    BY <1>1 DEF HostMoves
<1>3. PICK b \in Job : b = [pc |-> pc, ses |-> s]
    BY DEF Job, JobPc
<1>4. JobOK(b)'
    BY <1>3, TalkChunk, NoneAssumption DEF JobOK
<1>5. JobsOK' /\ jobs' \in [Jobs -> Job]
    BY <1>2, <1>3, <1>4, OtherJobs
<1>6. MediumInv'
    BY TalkMedium DEF RemoteInv
<1>7. ReportIsTrue'
    BY <1>2, ReportsKept
<1>8. TypeOK'
    BY <1>5, TalkType DEF TypeOK
<1> QED
    BY <1>2, <1>5, <1>6, <1>7, <1>8 DEF RemoteInv

LEMMA InspectKeeps ==
    ASSUME TypeOK, RemoteInv, NEW s \in Sessions, InspectAuthority(s)
    PROVE  TypeOK' /\ RemoteInv' /\ RowsStay
<1> DEFINE q == Inspected(ses[s], RowOf(s).st)
<1>1. ses[s].pc = "inspect" /\ ses[s] \in Session /\ ses[s].job = NoJob
    BY DEF InspectAuthority, TypeOK
<1>2. ses[s].chunk \in Chunks
    BY <1>1 DEF Session, RemoteInv, MediumInv, ChunkChosen
<1>3. /\ Keeps(ses[s], q) /\ q.pc \in {"call", "done", "failed"}
      /\ q.pc = "done" /\ ses[s].delete => RowOf(s).st = "DELETED"
    BY <1>1, <1>2, Authority, InspectedKeeps
<1>4. ses' = [ses EXCEPT ![s] = q] /\ UNCHANGED <<src, remote, local, med, rec, jobs, faults>>
    BY DEF InspectAuthority
<1> HIDE DEF q
<1>5. Moves(ses[s], q) /\ (q.pc = "done" /\ q.delete => RowOf(s).st = "DELETED")
    BY <1>1, <1>3 DEF Moves, Keeps, Talk
<1>6. HostStays /\ faults' \in 0..MaxFaults
    BY <1>4 DEF HostStays, TypeOK
<1> QED
    BY <1>4, <1>5, <1>6, HearingKeeps

LEMMA CallKeeps ==
    ASSUME TypeOK, RemoteInv, NEW s \in Sessions, NEW j \in Jobs, Call(s, j)
    PROVE  TypeOK' /\ RemoteInv' /\ RowsStay
<1> DEFINE q == [ses[s] EXCEPT !.pc = "wait", !.job = j]
<1>1. ses[s] \in Session /\ ses[s].pc = "call" /\ rec[s] = "durable"
    BY DEF Call, TypeOK, RemoteInv, MediumInv, ReceiptReached
<1>2. Keeps(ses[s], q) /\ q.pc = "wait"
    BY <1>1, NoneAssumption DEF Keeps, Session, SessionPc
<1>3. ses' = [ses EXCEPT ![s] = q] /\ UNCHANGED <<src, remote, local, med, rec, faults>>
    BY DEF Call
<1>4. PICK pc \in {"select", "load", "observe"} : jobs' = [jobs EXCEPT ![j] = [pc |-> pc, ses |-> s]]
    BY DEF Call, Starts
<1> HIDE DEF q
<1>5. Moves(ses[s], q)
    BY <1>1, <1>2 DEF Moves, Talk
<1>6. /\ OnlyTalk
      /\ \A t \in Sessions : t # s => ses'[t] = ses[t]
      /\ ses'[s] = q \/ ses'[s] = ses[s]
    BY <1>3, <1>5, MoveOne
<1>7. \A t \in Sessions : ses'[t].pc = "done" => ses[t].pc = "done"
    BY <1>2, <1>6
<1> QED
    BY <1>1, <1>3, <1>4, <1>6, <1>7, StartingKeeps

\* An operator's retry, and a start of the service, for a row that is pending.
LEMMA RestartingKeeps ==
    ASSUME TypeOK, RemoteInv, NEW s \in Sessions, NEW j \in Jobs, Retry(s, j) \/ Recover(s, j)
    PROVE  TypeOK' /\ RemoteInv' /\ RowsStay
<1>1. RowOf(s).st = "PENDING" /\ UNCHANGED <<src, remote, local, med, rec, ses, faults>>
    BY DEF Retry, Recover
<1>2. PICK pc \in {"select", "load", "observe"} : jobs' = [jobs EXCEPT ![j] = [pc |-> pc, ses |-> s]]
    BY DEF Retry, Recover, Starts
<1>3. ses[s].chunk \in Chunks /\ remote[ses[s].chunk].ses = s
    BY <1>1 DEF RowOf, NoRow, TypeOK, Session
<1>4. rec[s] = "durable"
    BY <1>3, NoneAssumption DEF RemoteInv, RowInv, RowHasReceipt
<1>5. OnlyTalk
    BY <1>1, StillTalks
<1> QED
    BY <1>1, <1>2, <1>4, <1>5, StartingKeeps

\* A session that times out or is killed.
LEMMA FailureKeeps ==
    ASSUME TypeOK, RemoteInv, NEW s \in Sessions, Timeout(s) \/ KillSession(s)
    PROVE  TypeOK' /\ RemoteInv' /\ RowsStay
<1>1. ses[s] \in Session
    BY DEF TypeOK
<1>2. HostStays /\ UNCHANGED <<med, rec>> /\ faults' \in 0..MaxFaults
    BY FaultType DEF Timeout, KillSession, HostStays
<1>3. CASE Timeout(s)
    <2>1. ses[s].pc = "wait" /\ ses' = [ses EXCEPT ![s] = Failed(ses[s])]
        BY <1>3 DEF Timeout, TimedOut
    <2>2. Keeps(ses[s], Failed(ses[s])) /\ Failed(ses[s]).pc = "inspect"
        BY <1>1, FailedKeeps
    <2>3. Moves(ses[s], Failed(ses[s])) /\ Failed(ses[s]).pc # "done"
        BY <2>1, <2>2 DEF Moves, Talk
    <2> QED
        BY <1>2, <2>1, <2>3, HearingKeeps
<1>4. CASE KillSession(s)
    <2>1. ses[s].pc # "idle" /\ ses' = [ses EXCEPT ![s] = Ends(ses[s], "failed")]
        BY <1>4 DEF KillSession
    <2>2. Keeps(ses[s], Ends(ses[s], "failed")) /\ Ends(ses[s], "failed").pc = "failed"
        BY <1>1, EndsKeeps
    <2>3. Moves(ses[s], Ends(ses[s], "failed")) /\ Ends(ses[s], "failed").pc # "done"
        BY <2>1, <2>2 DEF Moves
    <2> QED
        BY <1>2, <2>1, <2>3, HearingKeeps
<1> QED
    BY <1>3, <1>4

LEMMA ReserveArchiveKeeps ==
    ASSUME TypeOK, RemoteInv, NEW c \in Chunks, ReserveArchive(c)
    PROVE  TypeOK' /\ RemoteInv' /\ RowsStay
<1>1. /\ remote[c] = NoRow /\ local' = [local EXCEPT ![c] = "cached"]
      /\ UNCHANGED <<src, remote, med, rec, ses, jobs, faults>>
    BY DEF ReserveArchive
<1>2. local' \in [Chunks -> Fact] /\ \A d \in Chunks : d # c => local'[d] = local[d]
    BY <1>1 DEF TypeOK, Fact
<1>3. TypeOK'
    BY <1>1, <1>2 DEF TypeOK
<1>4. MediumInv'
    BY <1>1, StillTalks, TalkMedium DEF RemoteInv
<1>5. RowHasReceipt' /\ DeletedHasRow' /\ TerminalIsAbsent' /\ OneOwner'
    BY <1>1, <1>2 DEF RemoteInv, RowInv, RowHasReceipt, DeletedHasRow, TerminalIsAbsent, OneOwner
<1>6. JobsOK'
    BY <1>1 DEF RemoteInv, JobsOK, JobOK
<1>7. ReportIsTrue'
    BY <1>1 DEF RemoteInv, ReportIsTrue, RowOf
<1>8. RowsStay
    BY <1>1 DEF RowsStay
<1> QED
    BY <1>3, <1>4, <1>5, <1>6, <1>7, <1>8 DEF RemoteInv, RowInv

\* A power loss of the host ends its processes, may bring back an unlinked
\* source and may forget a same-host reservation that was not synced.
LEMMA HostLossKeeps ==
    ASSUME TypeOK, RemoteInv, HostPowerLoss
    PROVE  TypeOK' /\ RemoteInv' /\ RowsStay
<1>1. /\ src' \in [Chunks -> SourceFile] /\ local' \in [Chunks -> Fact]
      /\ \A c \in Chunks : /\ src'[c] # "here" => src[c] # "here"
                           /\ src[c] = "gone" => src'[c] = "gone"
                           /\ local'[c] # "none" => local[c] # "none"
    BY DEF HostPowerLoss, AfterLoss
<1>2. jobs' = [j \in Jobs |-> Free] /\ UNCHANGED <<remote, med, rec>> /\ faults' \in 0..MaxFaults
    BY FaultType DEF HostPowerLoss
<1>3. ses' = [s \in Sessions |-> IF ses[s].pc = "wait" THEN Failed(ses[s]) ELSE ses[s]]
    BY DEF HostPowerLoss
<1>4. ASSUME NEW s \in Sessions
      PROVE  /\ ses'[s] \in Session /\ Moves(ses[s], ses'[s])
             /\ ses'[s].pc = "done" => ses[s].pc = "done"
    <2>1. ses[s] \in Session /\ (ses[s].pc = "wait" <=> ses[s].job # NoJob)
        BY DEF TypeOK
    <2>2. CASE ses[s].pc = "wait"
        <3>1. ses'[s] = Failed(ses[s])
            BY <1>3, <2>2
        <3>2. Keeps(ses[s], Failed(ses[s])) /\ Failed(ses[s]).pc = "inspect"
            BY <2>1, FailedKeeps
        <3> QED
            BY <2>2, <3>1, <3>2 DEF Moves, Talk, Keeps
    <2>3. CASE ses[s].pc # "wait"
        BY <1>3, <2>1, <2>3 DEF Moves, Keeps
    <2> QED
        BY <2>2, <2>3
<1>5. OnlyTalk
    BY <1>2, <1>3, <1>4 DEF OnlyTalk
<1>6. RowsStay
    BY <1>2 DEF RowsStay
<1>7. Free \in Job /\ JobOK(Free)'
    BY DEF Free, Job, JobPc, JobOK
<1>8. jobs' \in [Jobs -> Job] /\ JobsOK'
    BY <1>2, <1>7 DEF JobsOK, JobOK
<1>9. TypeOK'
    BY <1>1, <1>2, <1>5, <1>8, TalkType DEF TypeOK
<1>10. MediumInv'
    BY <1>5, TalkMedium DEF RemoteInv
<1>11. RowHasReceipt'
    BY <1>2, <1>5, TalkChunk DEF RemoteInv, RowInv, RowHasReceipt, TypeOK, Row
<1>12. DeletedHasRow' /\ TerminalIsAbsent' /\ OneOwner'
    BY <1>1, <1>2 DEF RemoteInv, RowInv, DeletedHasRow, TerminalIsAbsent, OneOwner
<1>13. ReportIsTrue'
    BY <1>4, <1>5, <1>6, ReportsKept
<1> QED
    BY <1>6, <1>8, <1>9, <1>10, <1>11, <1>12, <1>13 DEF RemoteInv, RowInv

\* What the session does to its medium does not touch the rows.
LEMMA MediumKeeps ==
    ASSUME TypeOK, RemoteInv, TypeOK', MediumInv', HostStays, ReceiptsStay, NoReport
    PROVE  TypeOK' /\ RemoteInv' /\ RowsStay
    BY HostUndisturbed, ReportUndisturbed DEF RemoteInv, RowsStay, HostStays

LEMMA SelectSourceKeeps ==
    ASSUME TypeOK, RemoteInv, NEW s \in Sessions, SelectSource(s)
    PROVE  TypeOK' /\ RemoteInv' /\ RowsStay
<1>1. /\ TypeOK' /\ MediumInv'
      /\ \A t \in Sessions : t # s => ses'[t] = ses[t]
      /\ ses'[s].pc # "done" /\ rec[s] = "none"
    BY SelectKeeps DEF RemoteInv
<1>2. HostStays /\ rec' = rec
    BY DEF SelectSource, HostStays
<1>3. ReceiptsStay /\ NoReport
    BY <1>1, <1>2 DEF ReceiptsStay, NoReport
<1> QED
    BY <1>1, <1>2, <1>3, MediumKeeps

LEMMA NextKeeps ==
    ASSUME TypeOK, RemoteInv, [Next]_vars
    PROVE  TypeOK' /\ RemoteInv' /\ RowsStay
<1>1. ASSUME NEW s \in Sessions, SessionStep(s) PROVE TypeOK' /\ RemoteInv' /\ RowsStay
    <2>1. CASE \/ CommitRaw(s) \/ SyncRaw(s) \/ CommitArchiveManifest(s) \/ SyncManifest(s)
               \/ CommitEntry(s) \/ SyncEntries(s) \/ CommitReceipt(s) \/ RevalidateReceipt(s)
        BY <2>1, WritingKeeps, MediumKeeps DEF RemoteInv
    <2> QED
        BY <1>1, <2>1, SelectSourceKeeps, InspectKeeps, CallKeeps DEF SessionStep
<1>2. CASE ClientPowerLoss
    BY <1>2, ClientLossKeeps, MediumKeeps DEF RemoteInv
<1>3. CASE UNCHANGED vars
    <2>1. UNCHANGED <<src, remote, local, med, rec, ses, jobs, faults>>
        BY <1>3 DEF vars
    <2>2. TypeOK' /\ MediumInv'
        BY <2>1, StillTalks, TalkMedium DEF TypeOK, RemoteInv
    <2>3. HostStays /\ ReceiptsStay /\ NoReport
        BY <2>1 DEF HostStays, ReceiptsStay, NoReport
    <2> QED
        BY <2>2, <2>3, MediumKeeps
<1> QED
    BY <1>1, <1>2, <1>3, ReserveArchiveKeeps, FailureKeeps, RestartingKeeps, ProcessKeeps,
       HostLossKeeps DEF Next

LEMMA AlwaysKept == Spec => [](TypeOK /\ RemoteInv)
<1>1. TypeOK /\ RemoteInv /\ [Next]_vars => (TypeOK /\ RemoteInv)'
    BY NextKeeps
<1> QED
    BY InitOK, <1>1, PTL DEF Spec

\* Custody is handed over without a hole, whatever the timeouts, retries, kills
\* and power losses on either side (remote_receive, remote_authorization,
\* remote_delete): a receipt stands for its durable chain, a deleted source for a
\* durable receipt that authorised it, a terminal row for a durable unlink, and a
\* chunk has one owner.
THEOREM CustodyIsHandedOver == Spec => []HandoverIsSafe
<1>1. TypeOK /\ RemoteInv => HandoverIsSafe
    <2> SUFFICES ASSUME TypeOK, RemoteInv PROVE HandoverIsSafe
        OBVIOUS
    <2>1. DeletedIsArchived
        <3> SUFFICES ASSUME NEW c \in Chunks, src[c] # "here"
                     PROVE  /\ remote[c].ses # NoSession
                            /\ rec[remote[c].ses] = "durable" /\ ses[remote[c].ses].chunk = c
                            /\ Chain(med[c])
            BY DEF DeletedIsArchived
        <3>1. /\ remote[c].ses # NoSession
              /\ rec[remote[c].ses] = "durable" /\ ses[remote[c].ses].chunk = c
            BY DEF RemoteInv, RowInv, DeletedHasRow, RowHasReceipt
        <3>2. remote[c].ses \in Sessions
            BY <3>1 DEF TypeOK, Row
        <3> QED
            BY <3>1, <3>2 DEF RemoteInv, MediumInv, ReceiptHasChain
    <2> QED
        BY <2>1 DEF HandoverIsSafe, RemoteInv, RowInv, MediumInv
<1> QED
    BY AlwaysKept, <1>1, PTL

\* A session with delete=True reports success only when the Catalog of the host
\* holds the terminal row of its receipt, however its calls and answers were
\* lost or repeated (remote_session.run_one after inspect_authority).
THEOREM ReportsAreTrue == Spec => []ReportIsTrue
<1>1. RemoteInv => ReportIsTrue
    BY DEF RemoteInv
<1> QED
    BY AlwaysKept, <1>1, PTL

\* A row of the Catalog keeps the receipt it was reserved for, and a terminal row
\* stays terminal (reserve_remote_archive_transaction, commit_remote_deleted).
THEOREM BindingsAreForever == Spec => BindingIsForever
<1>1. TypeOK /\ RemoteInv /\ [Next]_vars =>
         [\A c \in Chunks : remote[c] # NoRow =>
              /\ remote'[c].ses = remote[c].ses
              /\ remote[c].st = "DELETED" => remote'[c].st = "DELETED"]_vars
    BY NextKeeps DEF RowsStay
<1> QED
    BY AlwaysKept, <1>1, PTL DEF Spec, BindingIsForever
=============================================================================
