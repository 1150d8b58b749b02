------------------------------ MODULE Custody ------------------------------
(***************************************************************************)
(* What archiving promises for a sealed Raw chunk, whoever moves it and    *)
(* whatever fails meanwhile: a durable, verified copy exists at every      *)
(* moment.  The chunk is held locally, then locally and externally, then   *)
(* externally only; an external copy may be lost while the local one is    *)
(* kept, and the hand-over is never undone.                                *)
(***************************************************************************)
CONSTANT Chunks

VARIABLE holder

Holders == {"local", "both", "external"}

MayBecome == [local |-> {"local", "both"}, both |-> Holders, external |-> {"external"}]

Init == holder = [c \in Chunks |-> "local"]

\* One event, a power loss for instance, may move several chunks.
Next == /\ holder' \in [Chunks -> Holders]
        /\ \A c \in Chunks : holder'[c] \in MayBecome[holder[c]]

Spec == Init /\ [][Next]_holder
=============================================================================
