----------------------------- MODULE MCService ------------------------------
(* The service, its storage policy and the verification of raw chunks, in  *)
(* one model for TLC: one of them, chosen at the start, moves, and the     *)
(* others stay as they are.                                                *)
EXTENDS Service, Capacity, Verification

VARIABLE focus     \* the component that moves

\* A disk that stays, fills or is grown.
MCDisks == {<<40, 20>>, <<40, 5>>, <<60, 13>>}
MCEtaSteps == <<1, 3, 6>>

\* A small chunk, and one that takes the whole budget of a batch.
MCChunkBytes == <<1, 3>>

MCInit ==
    /\ focus \in {"service", "capacity", "verification"}
    /\ ServiceInit /\ CapInit /\ VerInit
    /\ focus # "capacity" => profile = "vps" /\ disk = <<40, 20>>

MCNext ==
    /\ UNCHANGED focus
    /\ \/ focus = "service" /\ ServiceNext /\ UNCHANGED <<capvars, vervars>>
       \/ focus = "capacity" /\ CapNext /\ UNCHANGED <<svvars, vervars>>
       \/ focus = "verification" /\ VerNext /\ UNCHANGED <<svvars, capvars>>
=============================================================================
