-------------------------------- MODULE Wire --------------------------------
(***************************************************************************)
(* Who may send a public REST request, and when: the Spot limiter          *)
(* (binance/spot/rate_limit.py), the USD-M cooldown (UsdMRestCooldown in   *)
(* collector/usdm_side_data.py), the rolling request budget                *)
(* (binance/request_budget.py) and their callers, the depth-snapshot       *)
(* requesters and the side-data pollers of one process.                    *)
(*                                                                         *)
(* A request passes three points: it is let through by weight or cooldown, *)
(* it takes the one wire slot of its market, and it is sent after a last   *)
(* look at the block and the budget.  A worker thread on the wire cannot   *)
(* be cancelled, so the answer of a request that nobody wants any more     *)
(* still arrives, and still counts.  Time is in ticks; a 418 or 429 answer *)
(* names the end of the block or leaves it out.                            *)
(***************************************************************************)
EXTENDS Integers, Sequences, FiniteSets, FiniteSetsExt

CONSTANTS Snapshots,     \* callers that ask for depth snapshots
          Pollers,       \* callers that poll side data
          WindowCap,     \* capacity of the market's request window
          WindowTicks,   \* its length
          MaxBlock,      \* bound: longest block the exchange names
          MaxWireTime    \* bound: ticks

ASSUME WireAssumption == /\ WindowCap \in Nat \ {0, 1} /\ WindowTicks \in Nat \ {0}
                         /\ MaxBlock \in Nat /\ MaxWireTime \in Nat

VARIABLES venue,    \* the market: "spot" or "usdm"
          wtime,    \* the monotonic clock
          gate,     \* limiter or cooldown: [until, next, strikes]
          window,   \* RequestBudget: [events, block]
          wslot,    \* holder of the request lock, or Nobody
          caller,   \* per caller [pc, wanted]
          told,     \* history: latest end of a block that the exchange has named
          sends,    \* history: every request sent, [at, cost]
          early     \* history: a request was sent before told

wirevars == <<venue, wtime, gate, window, wslot, caller, told, sends, early>>

WireCallers == Snapshots \cup Pollers
Nobody == "nobody"

\* depth_request_weight and usdm_request_charges, to scale.
Cost(c) == IF c \in Snapshots THEN 2 ELSE 1

\* 60 * weight / weight_budget_per_minute, in ticks.
Pace(c) == Cost(c) \div 2

LaterOf(a, b) == Max({a, b})

-----------------------------------------------------------------------------
(* How long a rejection blocks.                                              *)

Fallback429 == 1
Fallback418 == 1
Longest418 == 3
Unnamed == 0

\* _retry_at_utc_ns: a named end, or the fallback of the status.
SpotRetryAt(status, named) ==
    wtime + (IF named # Unnamed THEN named
             ELSE IF status = 429 THEN Fallback429 ELSE Longest418)

\* 2 ** min(strikes - 1, 2).
Doubled == <<1, 2, 4>>

\* The strikes of UsdMRestCooldown.install double the fallback of a 418.
UsdmDuration(strikes, status, named) ==
    IF named # Unnamed THEN named
    ELSE IF status = 429 THEN Fallback429
    ELSE Min({Longest418, Fallback418 * Doubled[Min({strikes, 3})]})

\* observe_rejection and observe_weight_rejection.
SpotRejected(status, named) ==
    [gate EXCEPT !.until = LaterOf(@, SpotRetryAt(status, named))]

\* UsdMRestCooldown.install.
UsdmRejected(status, named) ==
    LET strikes == IF status = 418 THEN Min({3, gate.strikes + 1}) ELSE 0
    IN  [gate EXCEPT !.strikes = strikes,
                     !.until = LaterOf(@, wtime + UsdmDuration(strikes, status, named))]

Rejected(status, named) ==
    IF venue = "spot" THEN SpotRejected(status, named) ELSE UsdmRejected(status, named)

\* observe_success never opens the gate: only its strikes are forgotten.
Succeeded ==
    IF venue = "usdm" /\ wtime >= gate.until THEN [gate EXCEPT !.strikes = 0] ELSE gate

-----------------------------------------------------------------------------
(* The rolling budget.                                                       *)

CostOf(events) ==
    LET sum[i \in 0..Len(events)] == IF i = 0 THEN 0 ELSE sum[i - 1] + events[i].cost
    IN  sum[Len(events)]

\* RequestBudget.delay drops from the left what has left the window.
Live(events) ==
    LET gone == {k \in 0..Len(events) : \A i \in 1..k : events[i].at + WindowTicks <= wtime}
    IN  SubSeq(events, Max(gone) + 1, Len(events))

\* delay(charges) <= 0.
Fits(c) == window.block <= wtime /\ CostOf(Live(window.events)) + Cost(c) <= WindowCap

\* take.
Charged(c) ==
    [window EXCEPT !.events = Append(Live(@), [at |-> wtime, cost |-> Cost(c)])]

-----------------------------------------------------------------------------
WireInit ==
    /\ venue \in {"spot", "usdm"}
    /\ wtime = 0
    /\ gate = [until |-> 0, next |-> 0, strikes |-> 0]
    /\ window = [events |-> <<>>, block |-> 0]
    /\ wslot = Nobody
    /\ caller = [c \in WireCallers |-> [pc |-> "idle", wanted |-> TRUE]]
    /\ told = 0 /\ sends = <<>> /\ early = FALSE

At(c, pc) == caller[c].pc = pc
Goes(c, pc) == caller' = [caller EXCEPT ![c].pc = pc]

\* A capture session asks for a snapshot; a request in flight is shared.
SnapshotAsks(c) ==
    /\ c \in Snapshots /\ At(c, "idle") /\ caller[c].wanted /\ Goes(c, "waiting")
    /\ UNCHANGED <<venue, wtime, gate, window, wslot, told, sends, early>>

\* A poller's interval has passed, whatever its last answer was.
PollerAsks(c) ==
    /\ c \in Pollers /\ At(c, "idle") /\ caller[c].wanted /\ Goes(c, "waiting")
    /\ UNCHANGED <<venue, wtime, gate, window, wslot, told, sends, early>>

\* SpotIpRateLimiter.acquire_weight: paced by weight and held by a block.
AcquireWeight(c) ==
    /\ venue = "spot" /\ At(c, "waiting")
    /\ gate.next <= wtime /\ gate.until <= wtime
    /\ gate' = [gate EXCEPT !.next = wtime + Pace(c)]
    /\ Goes(c, "admitted")
    /\ UNCHANGED <<venue, wtime, window, wslot, told, sends, early>>

\* UsdMRestCooldown.request_slot before the lock: budget, then cooldown.
WaitReady(c) ==
    /\ venue = "usdm" /\ At(c, "waiting")
    /\ Fits(c) /\ gate.until <= wtime
    /\ Goes(c, "admitted")
    /\ UNCHANGED <<venue, wtime, gate, window, wslot, told, sends, early>>

TakesSlot(c) ==
    /\ At(c, "admitted") /\ wslot = Nobody
    /\ wslot' = c /\ Goes(c, "slot")
    /\ UNCHANGED <<venue, wtime, gate, window, told, sends, early>>

\* The mutant trusts the check made before the lock.
SlotWithoutRecheck == TRUE

\* The block is looked at again by the holder of the slot.
SlotOpen == gate.until <= wtime

\* The request goes out; a Spot holder waits for the budget in the slot, a
\* USD-M holder gives the slot back and starts again.
Sends(c) ==
    /\ At(c, "slot") /\ SlotOpen
    /\ \/ /\ Fits(c)
          /\ Goes(c, "wire") /\ window' = Charged(c)
          /\ sends' = Append(sends, [at |-> wtime, cost |-> Cost(c)])
          /\ early' = (early \/ wtime < told)
          /\ UNCHANGED wslot
       \/ /\ ~Fits(c) /\ venue = "usdm"
          /\ Goes(c, "waiting") /\ wslot' = Nobody
          /\ UNCHANGED <<window, sends, early>>
    /\ UNCHANGED <<venue, wtime, gate, told>>

\* A caller that is stopped or cancelled: before the wire it withdraws, on the
\* wire its worker is left to finish (wait_for_idle, run_owned_blocking_call,
\* _await_snapshot_worker_outcome).
Abandoned(c) ==
    /\ caller[c].wanted
    /\ IF At(c, "wire")
       THEN caller' = [caller EXCEPT ![c].wanted = FALSE] /\ UNCHANGED wslot
       ELSE /\ caller' = [caller EXCEPT ![c] = [pc |-> "idle", wanted |-> FALSE]]
            /\ wslot' = IF wslot = c THEN Nobody ELSE wslot
    /\ UNCHANGED <<venue, wtime, gate, window, told, sends, early>>

\* The answer, observed before the slot is given back, wanted or not.
Answered(c) ==
    /\ At(c, "wire")
    /\ Goes(c, "idle") /\ wslot' = Nobody
    /\ \/ gate' = Succeeded /\ UNCHANGED told
       \/ UNCHANGED <<gate, told>>
       \/ \E status \in {418, 429}, named \in {Unnamed} \cup 1..MaxBlock :
            /\ gate' = Rejected(status, named)
            /\ told' = IF named = Unnamed THEN told ELSE LaterOf(told, wtime + named)
    /\ UNCHANGED <<venue, wtime, window, sends, early>>

\* observe_websocket_rejection: a refused WebSocket handshake blocks every
\* request of its market (RequestBudget.block).
SocketRejected ==
    /\ \E named \in 1..MaxBlock :
         /\ window' = [window EXCEPT !.block = LaterOf(@, wtime + named)]
         /\ told' = LaterOf(told, wtime + named)
    /\ UNCHANGED <<venue, wtime, gate, wslot, caller, sends, early>>

WireTick ==
    /\ wtime < MaxWireTime /\ wtime' = wtime + 1
    /\ UNCHANGED <<venue, gate, window, wslot, caller, told, sends, early>>

WireNext ==
    \/ \E c \in WireCallers :
          SnapshotAsks(c) \/ PollerAsks(c) \/ AcquireWeight(c) \/ WaitReady(c) \/ TakesSlot(c) \/ Sends(c)
            \/ Abandoned(c) \/ Answered(c)
    \/ SocketRejected \/ WireTick

WireSpec == WireInit /\ [][WireNext]_wirevars

-----------------------------------------------------------------------------
(* Properties.                                                               *)

\* Once the exchange has named the end of a block, to any caller, to one that
\* had been cancelled meanwhile, or to a WebSocket handshake, nobody sends a
\* request of that market before that end, however long ago it was let
\* through (SpotIpRateLimiter.request_slot, UsdMRestCooldown.request_slot).
NoRequestInsideBlock == ~early

\* Requests sent in a stretch of less than WindowTicks ticks cost no more than the
\* window allows, though several callers check the budget before they hold the slot
\* (RequestBudget.take).
BudgetHolds ==
    \A i, j \in DOMAIN sends :
        sends[j].at < sends[i].at + WindowTicks => CostOf(SubSeq(sends, i, j)) <= WindowCap

\* Whatever requests wait, are cancelled or answer late, what goes out is inside the
\* budget and outside every block that was named (rate_limit, request_budget).
RequestsAreAllowed == NoRequestInsideBlock /\ BudgetHolds

=============================================================================
