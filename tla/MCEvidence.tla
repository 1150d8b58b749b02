----------------------------- MODULE MCEvidence -----------------------------
(* The boundary audit, the fifth generation of acceptance evidence and the *)
(* Catalog snapshots, in one model for TLC: one component, chosen at the   *)
(* start, moves, and the others stay as they are.                          *)
EXTENDS BoundaryAudit, V5Acceptance, CatalogSnapshot

VARIABLE focus     \* the component that moves

\* A stage whose baseline audit met chunk 1 before its seal and that begins when it
\* has been verified on the archive, and one that begins with nothing.
LateStageAndEmptyOne == {<<2, 6>>, <<0, 0>>}

MCInit ==
    /\ focus \in {"audit", "fifth generation", "snapshot"}
    /\ BaInit /\ V5Init /\ CsInit
    /\ focus # "fifth generation" => vw.log["chunk"] = <<>>

MCNext ==
    /\ UNCHANGED focus
    /\ \/ focus = "audit" /\ BaNext /\ UNCHANGED <<v5vars, csvars>>
       \/ focus = "fifth generation" /\ V5Next /\ UNCHANGED <<baVars, csvars>>
       \/ focus = "snapshot" /\ CsNext /\ UNCHANGED <<baVars, v5vars>>
=============================================================================
