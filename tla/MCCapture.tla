----------------------------- MODULE MCCapture ------------------------------
(* The components of capture that share no state, in one model for TLC:    *)
(* one of them, chosen at the start, moves, and the others stay as they    *)
(* are.                                                                    *)
EXTENDS Availability, Wire, SideData, Depth, Handover

VARIABLE focus     \* the component that moves

MCInit ==
    /\ focus \in {"availability", "wire", "side data", "depth", "handover"}
    /\ AvInit /\ WireInit /\ SideInit /\ Init /\ HandoverInit
    /\ focus # "wire" => venue = "spot"
    /\ focus # "side data" => owner = "poller" /\ kind = "dense"
    /\ focus # "depth" => market = "spot"

MCNext ==
    /\ UNCHANGED focus
    /\ \/ focus = "availability" /\ AvNext /\ UNCHANGED <<wirevars, sdvars, vars, hvars>>
       \/ focus = "wire" /\ WireNext /\ UNCHANGED <<avVars, sdvars, vars, hvars>>
       \/ focus = "side data" /\ SideNext /\ UNCHANGED <<avVars, wirevars, vars, hvars>>
       \/ focus = "depth" /\ Next /\ UNCHANGED <<avVars, wirevars, sdvars, hvars>>
       \/ focus = "handover" /\ HandoverNext /\ UNCHANGED <<avVars, wirevars, sdvars, vars>>
=============================================================================
