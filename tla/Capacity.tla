------------------------------ MODULE Capacity ------------------------------
(***************************************************************************)
(* Free space of the internal disk: the samples that three observers write *)
(* to the Catalog (storage/catalog/reports.py), the forecast made of them  *)
(* (storage/forecast.py), the named policy (storage/capacity.py) and the   *)
(* emergency coordinator (storage/emergency.py).                           *)
(*                                                                         *)
(* The service's monitor, the metrics recorder of the writer and the       *)
(* command `storage forecast` read the clock and the disk in separate      *)
(* steps and record later, in any order; recorder and command round the    *)
(* time down to a bucket.  A sample is identified by its time, so the      *)
(* first one of a time stays.  Bytes are counted in GiB, time in ticks,    *)
(* rates in GiB per Scale ticks.                                           *)
(***************************************************************************)
EXTENDS Integers, Sequences, FiniteSets, FiniteSetsExt, SequencesExt

CONSTANTS Disks,        \* pairs <<total, free>> that the disk may show
          Profiles,     \* subset of {"none", "vps"}: configured policies
          Rotation,     \* rotation_bytes
          Windows,      \* WINDOWS_SECONDS: lengths of the rate windows
          EtaSteps,     \* remaining time for EMERGENCY, CRITICAL, WARNING
          Bucket,       \* CAPACITY_SAMPLE_BUCKET_NS
          Scale,        \* precision of a rate
          MaxInstant,   \* bound: ticks
          MaxMoves,     \* bound: changes of the disk
          MaxReadings,  \* bound: samples begun
          MaxOpen,      \* bound: observers at work at a time
          MaxDeaths     \* bound: kills of the service

ASSUME CapacityAssumption ==
    /\ \A d \in Disks : d[1] \in Nat \ {0} /\ d[2] \in 0..d[1]
    /\ Profiles \subseteq {"none", "vps"} /\ Rotation \in Nat \ {0}
    /\ Windows \subseteq Nat \ {0} /\ \E w \in Windows : \A v \in Windows : v <= w
    /\ Bucket \in Nat \ {0}
    /\ \A e \in 1..MaxInstant : Scale % (2 * e) = 0

VARIABLES profile,    \* the policy of this installation
          instant,    \* the clock
          disk,       \* <<total, free>>
          samples,    \* storage_space_samples: time -> <<total, free>>
          alert,      \* [state, events]: storage_alert_state and storage_alert_events
          obs,        \* per observer [pc, at, disk]
          coord,      \* DiskEmergencyCoordinator.apply: [pc, known, decision]
          capture,    \* [sealed, running]: what the callbacks of the coordinator act on
          emergency,  \* [stops, gaps]: DISK_EMERGENCY_STOP events, gaps opened
          deaths,     \* kills so far
          moves,      \* changes of the disk so far
          latest,     \* history: the sample recorded last
          reached     \* history: the disk has been as low as the reserve

capvars == <<profile, instant, disk, samples, alert, obs, coord, capture,
             emergency, deaths, moves, latest, reached>>

Observers == {"monitor", "recorder", "command"}
None == "none"
Resting == [pc |-> "idle", at |-> 0, disk |-> <<0, 0>>]
LargerOf(a, b) == IF a > b THEN a ELSE b

-----------------------------------------------------------------------------
(* Thresholds.                                                               *)

EmergencyLevel(total) == LargerOf(10, (total * 5) \div 100)

SpaceSeverity(d) ==
    IF d[2] <= EmergencyLevel(d[1]) THEN "EMERGENCY"
    ELSE IF d[2] * 100 <= d[1] * 15 THEN "CRITICAL"
    ELSE IF d[2] * 100 <= d[1] * 40 THEN "WARNING" ELSE "OK"

HardReserve(total) == Max({5, (total * 2) \div 100, Rotation * 2})

\* VPS_PRODUCTION_V1: absolute levels, whatever the size of the disk.
Level == [HARD_RESERVE |-> 10, EMERGENCY |-> 12, CRITICAL |-> 14, WARNING |-> 18]

Severity == [NORMAL |-> 0, WARNING |-> 1, CRITICAL |-> 2, EMERGENCY |-> 3,
             HARD_RESERVE |-> 4]

Worse(a, b) == IF Severity[a] >= Severity[b] THEN a ELSE b

ClassifyAbsolute(free) ==
    IF \E s \in DOMAIN Level : free <= Level[s]
      THEN CHOOSE s \in DOMAIN Level :
             /\ free <= Level[s]
             /\ \A t \in DOMAIN Level : free <= Level[t] => Level[s] <= Level[t]
      ELSE "NORMAL"

\* What the selected policy stops at.
Reserve(total) == IF profile = "vps" THEN Level["HARD_RESERVE"] ELSE HardReserve(total)

-----------------------------------------------------------------------------
(* The forecast, from the samples of a set of times.                         *)

\* As a bug would have it: the last sample before the window is not read.
ReadSetWithoutPredecessor(now) ==
    {t \in DOMAIN samples : now - Max(Windows) < t /\ t <= now}

\* space_forecast_read_set: one snapshot with the samples of the longest
\* window and the last one before it.
ReadSet(now) ==
    LET cutoff == now - Max(Windows)
        before == {t \in DOMAIN samples : t <= cutoff}
    IN  {t \in DOMAIN samples : cutoff < t /\ t <= now}
          \cup (IF before = {} THEN {} ELSE {Max(before)})

\* _window_samples: what lies in the window, and an anchor close before it.
WindowSamples(times, now, w) ==
    LET cutoff == now - w
        before == {t \in times : t <= cutoff}
    IN  {t \in times : cutoff < t /\ t <= now}
          \cup {t \in before : t = Max(before) /\ (cutoff - t) * 5 <= w}

\* The samples in the order of their times.
InOrder(times) ==
    LET order == SetToSortSeq(times, <)
    IN  [i \in 1..Len(order) |->
            [at |-> order[i], total |-> samples[order[i]][1], free |-> samples[order[i]][2]]]

\* The slopes between neighbours on a disk of one size.
Slopes(list) ==
    LET pair(i) == <<list[i], list[i + 1]>>
        slope(p) == (p[1].free - p[2].free) * (Scale \div (p[2].at - p[1].at))
        pairs == SelectSeq([i \in 1..(Len(list) - 1) |-> pair(i)],
                           LAMBDA p : p[1].total = p[2].total /\ p[1].at < p[2].at)
    IN  [i \in 1..Len(pairs) |-> slope(pairs[i])]

Median(rates) ==
    LET s == SortSeq(rates, <)
        n == Len(s)
    IN  IF n % 2 = 1 THEN s[(n + 1) \div 2] ELSE (s[n \div 2] + s[n \div 2 + 1]) \div 2

\* _window_rate: nothing, or the one rate of the window.
WindowRate(times, now, w) ==
    LET sel == InOrder(WindowSamples(times, now, w))
        rates == Slopes(sel)
    IN  IF \/ Len(sel) < 2
           \/ (Last(sel).at - Head(sel).at) * 5 < w * 4
           \/ (now - Last(sel).at) * 5 > w
           \/ rates = <<>>
          THEN {} ELSE {Median(rates)}

RateOf(times, now) == UNION {WindowRate(times, now, w) : w \in Windows}

\* _eta: the fastest window decides.
Eta(now, free, threshold, rates) ==
    IF free <= threshold THEN [status |-> "REACHED", at |-> now]
    ELSE IF rates = {} THEN [status |-> "INSUFFICIENT_DATA", at |-> now]
    ELSE IF Max(rates) <= 0 THEN [status |-> "NOT_APPROACHING", at |-> now]
    ELSE [status |-> "FORECAST", at |-> now + ((free - threshold) * Scale) \div Max(rates)]

ClassifyEta(eta, now) ==
    CASE eta.status = "REACHED" -> "HARD_RESERVE"
      [] eta.status = "INSUFFICIENT_DATA" -> "WARNING"
      [] eta.status = "NOT_APPROACHING" -> "NORMAL"
      [] eta.status = "FORECAST" ->
           IF eta.at - now <= EtaSteps[1] THEN "EMERGENCY"
           ELSE IF eta.at - now <= EtaSteps[2] THEN "CRITICAL"
           ELSE IF eta.at - now <= EtaSteps[3] THEN "WARNING" ELSE "NORMAL"

\* StorageForecaster.forecast with evaluate_capacity: rates from the samples
\* at times, the current state from the last sample there is.
Decide(times, now) ==
    LET current == samples[Max({t \in DOMAIN samples : t <= now})]
        eta == Eta(now, current[2], Level["HARD_RESERVE"], RateOf(times, now))
    IN  [total |-> current[1], free |-> current[2], at |-> now, eta |-> eta,
         state |-> IF profile = "vps"
                     THEN Worse(ClassifyAbsolute(current[2]), ClassifyEta(eta, now))
                     ELSE SpaceSeverity(current)]

-----------------------------------------------------------------------------
CapInit ==
    /\ profile \in Profiles /\ instant = 1 /\ disk \in Disks
    /\ samples = <<>> /\ alert = [state |-> None, events |-> <<>>]
    /\ obs = [o \in Observers |-> Resting]
    /\ coord = [pc |-> "idle", known |-> FALSE, decision |-> None]
    /\ capture = [sealed |-> FALSE, running |-> TRUE]
    /\ emergency = [stops |-> {}, gaps |-> {}]
    /\ deaths = 0 /\ moves = 0 /\ latest = disk
    /\ reached = (disk[2] <= Reserve(disk[1]))

\* Once it has its decision the coordinator reads nothing that time, disk or
\* observers change, and they read nothing of it: its steps are interleaved
\* with kills only.
Quiet == coord.pc \in {"idle", "done"}

\* Time passes, and whatever writes to the disk or frees it goes on.
DiskMoves ==
    /\ Quiet /\ instant < MaxInstant /\ instant' = instant + 1
    /\ \/ disk' = disk /\ moves' = moves
       \/ /\ disk' \in Disks \ {disk}
          /\ moves < MaxMoves /\ moves' = moves + 1
    /\ reached' = (reached \/ disk'[2] <= Reserve(disk'[1]))
    /\ UNCHANGED <<profile, samples, alert, obs, coord, capture, emergency, deaths, latest>>

-----------------------------------------------------------------------------
(* Observing.                                                                *)

Bucketed(t) == t - (t % Bucket)

Reading == {o \in Observers : obs[o].pc # "idle"}
Readings == Cardinality(DOMAIN samples) + Cardinality(Reading)

ObsGo(o, next) == obs' = [obs EXCEPT ![o] = next]

\* The monitor and the command read the clock first, the recorder the disk.
BeginObservation(o) ==
    /\ Quiet /\ obs[o].pc = "idle" /\ Readings < MaxReadings
    /\ Cardinality(Reading) < MaxOpen
    /\ o # "command" => capture.running
    /\ o = "monitor" => coord.pc = "idle"
    /\ ObsGo(o, [pc |-> "reading", disk |-> disk,
                 at |-> IF o = "command" THEN Bucketed(instant) ELSE instant])
    /\ UNCHANGED <<profile, instant, disk, moves, samples, alert, coord, capture,
                   emergency, deaths, latest, reached>>

EndObservation(o) ==
    /\ Quiet /\ obs[o].pc = "reading"
    /\ ObsGo(o, IF o = "recorder"
                  THEN [obs[o] EXCEPT !.pc = "read", !.at = Bucketed(instant)]
                  ELSE [obs[o] EXCEPT !.pc = "read", !.disk = disk])
    /\ UNCHANGED <<profile, instant, disk, moves, samples, alert, coord, capture,
                   emergency, deaths, latest, reached>>

Alerted(o) ==
    LET severity == SpaceSeverity(obs[o].disk)
    IN  IF severity = alert.state THEN alert
        ELSE [state |-> severity,
              events |-> Append(alert.events, [from |-> alert.state, to |-> severity])]

\* record_space_sample: one transaction; a time that is taken changes nothing.
RecordSample(o) ==
    /\ Quiet /\ obs[o].pc = "read"
    /\ IF obs[o].at \in DOMAIN samples
         THEN UNCHANGED <<samples, alert, latest>>
         ELSE /\ samples' = [t \in DOMAIN samples \cup {obs[o].at} |->
                               IF t = obs[o].at THEN obs[o].disk ELSE samples[t]]
              /\ alert' = Alerted(o) /\ latest' = obs[o].disk
    /\ ObsGo(o, IF o = "monitor" THEN [obs[o] EXCEPT !.pc = "recorded"] ELSE Resting)
    /\ UNCHANGED <<profile, instant, disk, moves, coord, capture, emergency, deaths, reached>>

-----------------------------------------------------------------------------
(* DiskEmergencyCoordinator.apply, one callback or transaction a step.       *)

EmergencyState(d) ==
    IF profile = "vps" THEN d.state \in {"EMERGENCY", "HARD_RESERVE"}
    ELSE d.state = "EMERGENCY"

HardStopEligible(d) == d.free <= Reserve(d.total)

\* The monitor's forecast, handed to the coordinator.
Apply ==
    /\ obs["monitor"].pc = "recorded" /\ coord.pc = "idle"
    /\ LET d == Decide(ReadSet(obs["monitor"].at), obs["monitor"].at)
       IN  coord' = [coord EXCEPT !.decision = d,
                        !.pc = IF EmergencyState(d) THEN "suspend" ELSE "done"]
    /\ ObsGo("monitor", Resting)
    /\ UNCHANGED <<profile, instant, disk, moves, samples, alert, capture, emergency,
                   deaths, latest, reached>>

CoordGoes(pc) == coord' = [coord EXCEPT !.pc = pc]

\* Non-core work is suspended and verified archives come first; no Raw goes.
SuspendNonCore ==
    /\ coord.pc = "suspend"
    /\ CoordGoes(IF HardStopEligible(coord.decision) THEN "look" ELSE "done")
    /\ UNCHANGED <<profile, instant, disk, moves, samples, alert, obs, capture, emergency,
                   deaths, latest, reached>>

LookForStop ==
    /\ coord.pc = "look"
    /\ coord' = [coord EXCEPT !.pc = "seal", !.known = emergency.stops # {}]
    /\ UNCHANGED <<profile, instant, disk, moves, samples, alert, obs, capture, emergency,
                   deaths, latest, reached>>

SealActive ==
    /\ coord.pc = "seal" /\ CoordGoes("stop")
    /\ capture' = [capture EXCEPT !.sealed = TRUE]
    /\ UNCHANGED <<profile, instant, disk, moves, samples, alert, obs, emergency, deaths,
                   latest, reached>>

StopCollectors ==
    /\ coord.pc = "stop" /\ CoordGoes(IF coord.known THEN "done" ELSE "record")
    /\ capture' = [capture EXCEPT !.running = FALSE]
    /\ UNCHANGED <<profile, instant, disk, moves, samples, alert, obs, emergency, deaths,
                   latest, reached>>

RecordStop ==
    /\ coord.pc = "record" /\ CoordGoes("gap")
    /\ emergency' = [emergency EXCEPT !.stops = @ \cup {coord.decision.at}]
    /\ UNCHANGED <<profile, instant, disk, moves, samples, alert, obs, capture, deaths,
                   latest, reached>>

OpenGap ==
    /\ coord.pc = "gap" /\ CoordGoes("done")
    /\ emergency' = [emergency EXCEPT !.gaps = @ \cup {coord.decision.at}]
    /\ UNCHANGED <<profile, instant, disk, moves, samples, alert, obs, capture, deaths,
                   latest, reached>>

\* The monitor waits for its next round; while capture runs it writes on.
NextRound ==
    /\ coord.pc = "done" /\ capture.running
    /\ coord' = [pc |-> "idle", known |-> FALSE, decision |-> None]
    /\ capture' = [capture EXCEPT !.sealed = FALSE]
    /\ UNCHANGED <<profile, instant, disk, moves, samples, alert, obs, emergency, deaths,
                   latest, reached>>

\* The service is killed, or stopped by the coordinator, and started again.
\* (Killed while the coordinator rests, it only abandons readings.)
RestartCapture ==
    /\ coord.pc # "idle" /\ deaths < MaxDeaths /\ deaths' = deaths + 1
    /\ obs' = [o \in Observers |->
                 IF o = "command" THEN obs[o] ELSE Resting]
    /\ coord' = [pc |-> "idle", known |-> FALSE, decision |-> None]
    /\ capture' = [sealed |-> FALSE, running |-> TRUE]
    /\ UNCHANGED <<profile, instant, disk, moves, samples, alert, emergency, latest, reached>>

CapNext ==
    \/ DiskMoves
    \/ \E o \in Observers : BeginObservation(o) \/ EndObservation(o) \/ RecordSample(o)
    \/ Apply \/ SuspendNonCore \/ LookForStop \/ SealActive \/ StopCollectors
    \/ RecordStop \/ OpenGap \/ NextRound \/ RestartCapture

CapSpec == CapInit /\ [][CapNext]_capvars

-----------------------------------------------------------------------------
(* Properties.                                                               *)

\* A forecast reads a bounded part of the history and decides as the whole
\* history would, at every moment of it and in whatever order it was written.
ForecastIsExact ==
    \A now \in 1..MaxInstant :
        (\E t \in DOMAIN samples : t <= now) =>
            Decide(ReadSet(now), now) = Decide(DOMAIN samples, now)

\* The alert events lead to the alert state, which is that of the sample
\* recorded last.
AlertsFollow ==
    /\ samples = <<>> <=> alert.events = <<>>
    /\ samples # <<>> => alert.state = SpaceSeverity(latest)
                         /\ Last(alert.events).to = alert.state
    /\ \A i \in 1..(Len(alert.events) - 1) :
          /\ alert.events[i].to = alert.events[i + 1].from
          /\ alert.events[i].to # alert.events[i].from

\* A stop is never taken for a forecast: the disk has really been as low as
\* the reserve.  An observation as low as that ends, when the coordinator is
\* done, with everything sealed, the collectors stopped and one event on record.
StopIsEarnedAndComplete ==
    /\ (~capture.running \/ emergency.stops # {}) => reached
    /\ Cardinality(emergency.stops) <= 1
    /\ emergency.gaps \subseteq emergency.stops
    /\ coord.pc = "done"
         /\ coord.decision.free <= Min({Reserve(coord.decision.total),
                                        EmergencyLevel(coord.decision.total)})
         => capture.sealed /\ ~capture.running /\ emergency.stops # {}

\* Storage capacity is judged as the samples say: forecasts equal those of the
\* whole history, alerts follow the samples, and capture is stopped for space
\* exactly when it was really short, with the record complete.
CapacityIsSound == ForecastIsExact /\ AlertsFollow /\ StopIsEarnedAndComplete
=============================================================================
