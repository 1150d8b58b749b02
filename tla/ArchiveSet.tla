----------------------------- MODULE ArchiveSet -----------------------------
(***************************************************************************)
(* The identity and inventory that an archive set keeps on each medium,    *)
(* and the index rebuilt from attached media (archive/archive_set.py).     *)
(*                                                                         *)
(* Processes bind a medium to a set, or open it, and commit one entry per  *)
(* chunk.  Both files are written to a temporary name, synchronised,       *)
(* renamed without replacing anything and made durable by a synchronised   *)
(* directory; whoever finds the file there synchronises the directory too. *)
(* A medium may be torn off, and then keeps what was synchronised and any  *)
(* part of the rest.                                                       *)
(***************************************************************************)
EXTENDS Integers, FiniteSets

CONSTANTS Media, Sets, Binders,
          Shelf,          \* media that were filled before and are only read now
          SetChunks,      \* chunks to be entered
          Bodies,         \* contents of an entry (paths and digests)
          MaxSetFaults    \* bound: kills and torn media

Absent == "absent"

ASSUME ArchiveSetAssumption ==
    /\ Shelf \subseteq Media /\ Sets # {} /\ Bodies # {} /\ MaxSetFaults \in Nat
    /\ Absent \notin Sets /\ Absent \notin Media

VARIABLES med,      \* per medium: visible and durable state
          bnd,      \* per process: [pc, m, set, chunk, body]
          reb,      \* the rebuild: [pc, todo, rows, sets, owed]
          setIndex, \* the index: [rows, sets, owed]
          vowed,    \* history: identities and entries that a call has returned
          setFaults

setvars == <<med, bnd, reb, setIndex, vowed, setFaults>>

Unbound == [pc |-> "idle", m |-> Absent, set |-> Absent, chunk |-> Absent, body |-> Absent]
NoEntry == [set |-> Absent, body |-> Absent]
NoRebuild == [pc |-> "idle", todo |-> {}, rows |-> {}, sets |-> {}, owed |-> {}]

SetEntry(w) == [set |-> bnd[w].set, body |-> bnd[w].body]

\* A medium nobody has bound, and one that is bound and durably filled.
Blank == [id |-> Absent, idSafe |-> Absent, dirs |-> FALSE, dirsSafe |-> FALSE,
          ent |-> [c \in SetChunks |-> NoEntry],
          entSafe |-> [c \in SetChunks |-> NoEntry], junk |-> {}]

Filled(s) ==
    LET entries == [c \in SetChunks |-> [set |-> s, body |-> CHOOSE b \in Bodies : TRUE]]
    IN  [id |-> s, idSafe |-> s, dirs |-> TRUE, dirsSafe |-> TRUE,
         ent |-> entries, entSafe |-> entries, junk |-> {}]

ArchiveSetInit ==
    /\ \E s \in Sets : med = [m \in Media |-> IF m \in Shelf THEN Filled(s) ELSE Blank]
    /\ bnd = [w \in Binders |-> Unbound]
    /\ reb = NoRebuild
    /\ setIndex = [rows |-> {}, sets |-> {}, owed |-> {}]
    /\ vowed = {[m |-> m, id |-> med[m].id] : m \in Shelf}
                 \cup {[m |-> m, chunk |-> c, entry |-> med[m].ent[c]] :
                          m \in Shelf, c \in SetChunks}
    /\ setFaults = 0

BndAt(w, pc) == bnd[w].pc = pc
BndGo(w, pc) == bnd' = [bnd EXCEPT ![w].pc = pc]
Fails(w) == bnd' = [bnd EXCEPT ![w] = Unbound]

-----------------------------------------------------------------------------
(* Binding a medium.                                                         *)

\* bind, up to the temporary file when there is no identity yet.
BindMedium(w) ==
    /\ BndAt(w, "idle")
    /\ \E m \in Media \ Shelf, s \in Sets :
          bnd' = [bnd EXCEPT ![w] = [Unbound EXCEPT !.m = m, !.set = s,
                     !.pc = IF med[m].id = Absent THEN "rename id" ELSE "sync id"]]
    /\ UNCHANGED <<med, reb, setIndex, vowed, setFaults>>

\* _publish_no_clobber: an identity that is there stays.
PublishIdentity(w) ==
    /\ BndAt(w, "rename id") /\ BndGo(w, "sync id")
    /\ LET m == bnd[w].m IN
       med' = [med EXCEPT ![m].id = IF @ = Absent THEN bnd[w].set ELSE @]
    /\ UNCHANGED <<reb, setIndex, vowed, setFaults>>

\* The root directory is synchronised and the identity compared; one that was
\* there from the start is compared first.
SyncIdentity(w) ==
    /\ BndAt(w, "sync id")
    /\ LET m == bnd[w].m IN
       IF med[m].id = bnd[w].set
         THEN /\ med' = [med EXCEPT ![m].idSafe = med[m].id]
              /\ BndGo(w, "bind dirs")
         ELSE /\ med' = med /\ Fails(w)
    /\ UNCHANGED <<reb, setIndex, vowed, setFaults>>

\* ArchiveSetStore.open and read_archive_medium_identity: nothing is written.
OpenMedium(w) ==
    /\ BndAt(w, "idle")
    /\ \E m \in Media \ Shelf :
          /\ med[m].id # Absent
          /\ bnd' = [bnd EXCEPT ![w] = [Unbound EXCEPT !.m = m, !.set = med[m].id,
                                                       !.pc = "bound"]]
    /\ UNCHANGED <<med, reb, setIndex, vowed, setFaults>>

-----------------------------------------------------------------------------
(* The inventory.                                                            *)

\* _ensure_inventory_directories, called by bind and by commit_entry: made,
\* then synchronised from the inside out.
MakeDirectories(w) ==
    /\ bnd[w].pc \in {"bind dirs", "entry dirs"}
    /\ BndGo(w, IF BndAt(w, "bind dirs") THEN "bind fsync" ELSE "entry fsync")
    /\ med' = [med EXCEPT ![bnd[w].m].dirs = TRUE]
    /\ UNCHANGED <<reb, setIndex, vowed, setFaults>>

SyncDirectories(w) ==
    /\ bnd[w].pc \in {"bind fsync", "entry fsync"}
    /\ LET m == bnd[w].m IN
       /\ med' = [med EXCEPT ![m].dirsSafe = TRUE, ![m].idSafe = med[m].id,
                             ![m].entSafe = med[m].ent]
       /\ IF BndAt(w, "bind fsync")
            THEN /\ BndGo(w, "bound")
                 /\ vowed' = vowed \cup {[m |-> m, id |-> bnd[w].set]}
            ELSE BndGo(w, "entry") /\ UNCHANGED vowed
    /\ UNCHANGED <<reb, setIndex, setFaults>>

\* commit_entry begins: the identity on the medium must be the store's.
CommitSetEntry(w) ==
    /\ BndAt(w, "bound")
    /\ \E c \in SetChunks, b \in Bodies :
          IF med[bnd[w].m].id = bnd[w].set
            THEN bnd' = [bnd EXCEPT ![w].pc = "entry dirs", ![w].chunk = c, ![w].body = b]
            ELSE Fails(w)
    /\ UNCHANGED <<med, reb, setIndex, vowed, setFaults>>

\* An entry that is there is compared; otherwise a temporary file is written.
LookForEntry(w) ==
    /\ BndAt(w, "entry")
    /\ LET e == med[bnd[w].m].ent[bnd[w].chunk] IN
       IF e = NoEntry THEN BndGo(w, "rename entry")
       ELSE IF e = SetEntry(w) THEN BndGo(w, "sync entry") ELSE Fails(w)
    /\ UNCHANGED <<med, reb, setIndex, vowed, setFaults>>

\* _atomic_publish: the exclusive rename of the entry; the loser's temporary
\* file is there until it has synchronised the directory.
PublishEntry(w) ==
    /\ BndAt(w, "rename entry")
    /\ LET m == bnd[w].m  c == bnd[w].chunk IN
       IF med[m].ent[c] = NoEntry
         THEN /\ med' = [med EXCEPT ![m].ent[c] = SetEntry(w)]
              /\ BndGo(w, "sync entry")
         ELSE med' = med /\ BndGo(w, "lost entry")
    /\ UNCHANGED <<reb, setIndex, vowed, setFaults>>

\* As a bug would have it: an entry that another process has just renamed is
\* taken for durable.
ReturnWithoutSync(w) ==
    /\ bnd[w].pc \in {"sync entry", "lost entry"}
    /\ LET m == bnd[w].m  c == bnd[w].chunk IN
       /\ vowed' = IF med[m].ent[c] = SetEntry(w)
                     THEN vowed \cup {[m |-> m, chunk |-> c, entry |-> SetEntry(w)]}
                     ELSE vowed
       /\ BndGo(w, "bound")
    /\ UNCHANGED <<med, reb, setIndex, setFaults>>

\* The entries directory is synchronised, and commit_entry returns the entry
\* or reports a conflict.
SyncSetEntry(w) ==
    /\ bnd[w].pc \in {"sync entry", "lost entry"}
    /\ LET m == bnd[w].m  c == bnd[w].chunk IN
       /\ med' = [med EXCEPT ![m].entSafe = med[m].ent]
       /\ vowed' = IF med[m].ent[c] = SetEntry(w)
                     THEN vowed \cup {[m |-> m, chunk |-> c, entry |-> SetEntry(w)]}
                     ELSE vowed
       /\ BndGo(w, "bound")
    /\ UNCHANGED <<reb, setIndex, setFaults>>

CloseStore(w) ==
    /\ BndAt(w, "bound") /\ Fails(w)
    /\ UNCHANGED <<med, reb, setIndex, vowed, setFaults>>

-----------------------------------------------------------------------------
(* Rebuilding the index.                                                     *)

EntryVows == {v \in vowed : "entry" \in DOMAIN v}
RowOf(m, c, e) == [set |-> e.set, chunk |-> c, m |-> m, body |-> e.body]

\* One rebuild is followed to its end.
StartRebuild ==
    /\ reb.pc = "idle" /\ setIndex.sets = {}
    /\ reb' = [pc |-> "scan", todo |-> Media, rows |-> {}, sets |-> {},
               owed |-> {RowOf(v.m, v.chunk, v.entry) : v \in EntryVows}]
    /\ UNCHANGED <<med, bnd, setIndex, vowed, setFaults>>

\* Temporary names in the inventory: a process at work, or one that was killed.
Unsafe(m) ==
    \/ med[m].junk # {}
    \/ \E w \in Binders : bnd[w].m = m /\ bnd[w].pc \in {"rename entry", "lost entry"}

\* scan_archive_medium: identity, every entry bound to it, nothing else there.
ScanMedium(m) ==
    /\ reb.pc = "scan" /\ m \in reb.todo
    /\ LET found == {c \in SetChunks : med[m].ent[c] # NoEntry} IN
       IF \/ med[m].id = Absent \/ Unsafe(m)
          \/ \E c \in found : med[m].ent[c].set # med[m].id
         THEN reb' = NoRebuild
         ELSE reb' = [reb EXCEPT !.todo = @ \ {m},
                        !.sets = @ \cup {[m |-> m, set |-> med[m].id]},
                        !.rows = @ \cup {RowOf(m, c, med[m].ent[c]) : c \in found}]
    /\ UNCHANGED <<med, bnd, setIndex, vowed, setFaults>>

\* One chunk of a set on two media is refused; the index is replaced by one
\* transaction.
CommitIndex ==
    /\ reb.pc = "scan" /\ reb.todo = {} /\ reb' = NoRebuild
    /\ IF \E r, q \in reb.rows : r # q /\ r.set = q.set /\ r.chunk = q.chunk
         THEN UNCHANGED setIndex
         ELSE setIndex' = [rows |-> reb.rows, sets |-> reb.sets, owed |-> reb.owed]
    /\ UNCHANGED <<med, bnd, vowed, setFaults>>

-----------------------------------------------------------------------------
(* Faults.                                                                   *)

\* A process is killed and leaves its temporary file.
KillBinder(w) ==
    /\ setFaults < MaxSetFaults /\ setFaults' = setFaults + 1
    /\ bnd[w].pc # "idle" /\ Fails(w)
    /\ med' = IF bnd[w].pc \in {"rename entry", "lost entry"}
                THEN [med EXCEPT ![bnd[w].m].junk = {"partial"}] ELSE med
    /\ UNCHANGED <<reb, setIndex, vowed>>

\* The medium is torn off: what was not synchronised may be lost.
TearOff(m) ==
    /\ setFaults < MaxSetFaults /\ setFaults' = setFaults + 1
    /\ \E id \in {med[m].id, med[m].idSafe}, d \in {med[m].dirs, med[m].dirsSafe} :
       \E lost \in SUBSET SetChunks :
       LET kept == [c \in SetChunks |-> IF ~d THEN NoEntry
                                       ELSE IF c \in lost THEN med[m].entSafe[c]
                                       ELSE med[m].ent[c]] IN
       med' = [med EXCEPT ![m] = [id |-> id, idSafe |-> id, dirs |-> d, dirsSafe |-> d,
                                  ent |-> kept, entSafe |-> kept, junk |-> @.junk]]
    /\ bnd' = [w \in Binders |-> IF bnd[w].m = m THEN Unbound ELSE bnd[w]]
    /\ UNCHANGED <<reb, setIndex, vowed>>

ArchiveSetNext ==
    \/ \E w \in Binders :
          \/ BindMedium(w) \/ PublishIdentity(w) \/ SyncIdentity(w) \/ OpenMedium(w)
          \/ MakeDirectories(w) \/ SyncDirectories(w) \/ CommitSetEntry(w)
          \/ LookForEntry(w) \/ PublishEntry(w) \/ SyncSetEntry(w)
          \/ CloseStore(w) \/ KillBinder(w)
    \/ \E m \in Media : ScanMedium(m)
    \/ \E m \in Media \ Shelf : TearOff(m)
    \/ StartRebuild \/ CommitIndex

ArchiveSetSpec == ArchiveSetInit /\ [][ArchiveSetNext]_setvars

-----------------------------------------------------------------------------
(* Properties.                                                               *)

\* What bind and commit_entry have returned stays on the medium whatever is
\* torn off or killed afterwards, so no medium is bound to two sets and no chunk
\* has two entries.
PromisesAreKept ==
    \A v \in vowed :
        IF "entry" \in DOMAIN v THEN med[v.m].ent[v.chunk] = v.entry
        ELSE med[v.m].id = v.id

\* A durable entry belongs to the durable identity of its medium, also when the
\* process that wrote it only opened a medium that another one was binding.
EntriesHaveIdentity ==
    \A m \in Media, c \in SetChunks :
        med[m].entSafe[c] # NoEntry => med[m].entSafe[c].set = med[m].idSafe

\* A rebuilt index lists every entry that had been returned when the rebuild
\* began, under the set of its medium and no chunk of a set twice.
IndexIsWhole ==
    /\ setIndex.owed \subseteq setIndex.rows
    /\ \A r \in setIndex.rows : [m |-> r.m, set |-> r.set] \in setIndex.sets
    /\ \A r, q \in setIndex.rows : r.set = q.set /\ r.chunk = q.chunk => r = q

\* The archive set keeps what it has promised (commit_entry, bind, rebuild).
ArchiveSetIsKept == PromisesAreKept /\ EntriesHaveIdentity /\ IndexIsWhole
=============================================================================
