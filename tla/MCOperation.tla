---------------------------- MODULE MCOperation -----------------------------
(* What is done with sealed chunks and history, in one model for TLC: one  *)
(* component, chosen at the start, moves, and the others stay as they are. *)
EXTENDS Drain, Normalise, Reconstructor, Backfill, ArchiveSet

VARIABLE focus     \* the component that moves

MCInit ==
    /\ focus \in {"drain", "normalise", "book", "backfill", "set"}
    /\ DrainInit /\ NormInit /\ RcInit /\ BfInit /\ ArchiveSetInit
    /\ focus # "set" => \A m \in Shelf : med[m] = Filled(CHOOSE s \in Sets : TRUE)
    /\ focus # "book" => market = "spot"
    /\ focus # "backfill" =>
          /\ request = [start |-> 1, end |-> 1, data |-> "klines"]
          /\ malformed = {} /\ \A u \in DOMAIN server : server[u].zip = 1

MCNext ==
    /\ UNCHANGED focus
    /\ \/ /\ focus = "drain" /\ DrainNext
          /\ UNCHANGED <<normvars, rcvars, bfvars, setvars>>
       \/ /\ focus = "normalise" /\ NormNext
          /\ UNCHANGED <<drainVars, rcvars, bfvars, setvars>>
       \/ /\ focus = "book" /\ RcNext
          /\ UNCHANGED <<drainVars, normvars, bfvars, setvars>>
       \/ /\ focus = "backfill" /\ BfNext
          /\ UNCHANGED <<drainVars, normvars, rcvars, setvars>>
       \/ /\ focus = "set" /\ ArchiveSetNext
          /\ UNCHANGED <<drainVars, normvars, rcvars, bfvars>>
=============================================================================
