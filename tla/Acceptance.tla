----------------------------- MODULE Acceptance -----------------------------
(***************************************************************************)
(* The acceptance evidence of a deployment (service/acceptance.py): a      *)
(* read-only observer publishes immutable, hash-chained documents - a      *)
(* stage start, samples, a final - about a running recorder, may be killed *)
(* and resumed from what it published, and a verifier replays the chain    *)
(* before the next stage is allowed.                                       *)
(*                                                                         *)
(* A document is a record at its place in the chain; a digest of a value   *)
(* is the value.  One manifest stands for a sealed chunk, whose reconnect  *)
(* boundary is the one before its first frame.                             *)
(***************************************************************************)
EXTENDS Integers, Sequences, FiniteSets, SequencesExt, FiniteSetsExt

CONSTANTS
    Paths,           \* manifest paths, sealed in any order
    Gaps,            \* identities of stream discontinuities
    Generations,     \* evidence schemas: v3, v4
    StageDuration,   \* STAGE_DURATION_NS
    SampleInterval,  \* SAMPLE_INTERVAL_NS
    MaxEvidenceGap,  \* MAX_EVIDENCE_GAP_NS
    RecoveryDeadline,\* V4_DEADLINE_NS
    MaxBoottime,     \* bound on BOOTTIME
    MaxWorldEvents,  \* bound on what happens to the recorder
    MaxSamples,      \* bound on samples
    MaxObserverKills,\* bound on kills of the observer
    None             \* no time

VARIABLES
    gen,     \* schema of this run
    w,       \* the recorder and its host
    ob,      \* the observer's memory, or None
    chain,   \* published documents of the stage
    ladder,  \* verified evidence: identity, readiness, stages
    truth    \* history: world at T0 and at the final, events, kills

acVars == <<gen, w, ob, chain, ladder, truth>>

NoFunction == [x \in {} |-> None]

Without(f, S) == [x \in DOMAIN f \ S |-> f[x]]

\* _empty_v4_episode.
EmptyEpisode == [state |-> "NONE", start |-> None, close |-> None]

AcInit ==
    /\ gen \in Generations
    /\ w = [utc |-> 2, bt |-> 0, instance |-> 1, boot |-> 1, ready |-> "READY", fault |-> "none",
            manifests |-> NoFunction, rows |-> {}, unmarked |-> {}, absent |-> NoFunction,
            gaps |-> NoFunction, terminal |-> {}, catalog |-> TRUE]
    /\ ob = None /\ chain = << >> /\ ladder = << >>
    /\ truth = [t0 |-> None, final |-> None, events |-> 0, kills |-> 0]

-----------------------------------------------------------------------------
(* The world: what the recorder, its archive, its host and its operator do. *)

\* What happens after the final of the stage is not followed.
StageEnded == chain # << >> /\ Last(chain).kind = "final"

Happens(v) == /\ ~StageEnded /\ truth.events < MaxWorldEvents /\ w' = v
              /\ truth' = [truth EXCEPT !.events = @ + 1]
              /\ UNCHANGED <<gen, ob, chain, ladder>>

\* Time passes; an observation gap is a longer time without a sample.
AcTick == /\ ~StageEnded /\ w.bt < MaxBoottime
          /\ w' = [w EXCEPT !.bt = @ + 1, !.utc = @ + 1]
          /\ UNCHANGED <<gen, ob, chain, ladder, truth>>

WallClockBack == w.utc > 1 /\ Happens([w EXCEPT !.utc = @ - 1])

ServiceRestarts == Happens([w EXCEPT !.instance = @ + 1])

\* A reboot starts BOOTTIME again and ends the service.
HostReboots == Happens([w EXCEPT !.boot = @ + 1, !.instance = @ + 1, !.bt = 0])

\* The instant that an event names may be past when the event commits.
Instants == {w.utc, w.utc - 1}

\* Readiness, an artifact, a runtime identity or the disk's hard reserve changes;
\* a terminal event is recorded, which counts by the instant that it names.
ConditionChanges ==
    \/ \E r \in {"READY", "RECOVERABLE", "NOT_READY", "FAILED"} \ {w.ready} :
          Happens([w EXCEPT !.ready = r])
    \/ \E f \in {"none", "artifact_identity_changed", "hard_reserve_violation"} \ {w.fault} :
          Happens([w EXCEPT !.fault = f])
    \/ Happens([w EXCEPT !.catalog = ~@])
    \/ \E t \in Instants \ w.terminal : Happens([w EXCEPT !.terminal = @ \cup {t}])

\* A chunk is sealed; its row may follow the manifest after an observation.
Seals == \E p \in Paths \ DOMAIN w.manifests : \E cataloged, marked \in BOOLEAN :
    Happens([w EXCEPT !.manifests = @ @@ (p :> 1),
                      !.rows = IF cataloged THEN @ \cup {p} ELSE @,
                      !.unmarked = IF marked THEN @ ELSE @ \cup {p}])

RowCommits == \E p \in DOMAIN w.manifests \ w.rows : Happens([w EXCEPT !.rows = @ \cup {p}])

\* A manifest is lost or changed, or the Raw of one goes, with authority or not.
Damage == \E p \in DOMAIN w.manifests :
    \/ Happens([w EXCEPT !.manifests = Without(@, {p})])
    \/ w.manifests[p] = 1 /\ Happens([w EXCEPT !.manifests[p] = 2])
    \/ p \notin DOMAIN w.absent
       /\ \E c \in {"AUTHORIZED", "UNEXPLAINED"} : Happens([w EXCEPT !.absent = @ @@ (p :> c)])

\* A stream discontinuity is recorded.
GapStarts == \E g \in Gaps \ DOMAIN w.gaps : \E t \in Instants :
    Happens([w EXCEPT !.gaps = @ @@ (g :> [start |-> t, end |-> None])])

GapEnds == \E g \in DOMAIN w.gaps : \E t \in Instants :
    w.gaps[g].end = None /\ Happens([w EXCEPT !.gaps[g].end = t])

-----------------------------------------------------------------------------
(* Evidence of one observation. *)

\* discontinuity_authority_snapshot: the events that name an instant up to t.
Visible(t) == {g \in DOMAIN w.gaps : w.gaps[g].start <= t}
Closed(t) == {g \in Visible(t) : w.gaps[g].end # None /\ w.gaps[g].end <= t}

\* _catalog_evidence: open and closed intervals, placed relative to t0.
OpenIntervals(t0, t) ==
    [g \in Visible(t) \ Closed(t) |->
        [start |-> w.gaps[g].start,
         timing |-> IF w.gaps[g].start <= t0 THEN "OPEN_AT_T0" ELSE "OPENED_IN_STAGE"]]

CurrentIntervals(t0, t) ==
    [g \in {x \in Closed(t) : w.gaps[x].end >= t0} |->
        [start |-> w.gaps[g].start, end |-> w.gaps[g].end,
         timing |-> IF w.gaps[g].start < t0 THEN "CROSSES_T0" ELSE "CURRENT_STAGE"]]

BaselineHistory(t0, t) == {g \in Closed(t) : w.gaps[g].end < t0}

\* A terminal event counts from the instant of T0 on.
Terminal(t0, t) == \E x \in w.terminal : t0 <= x /\ x <= t

CatalogFindings(t0, t) ==
    (IF Terminal(t0, t) THEN {"terminal_failure"} ELSE {})
    \cup IF \E g \in Closed(t) : w.gaps[g].end >= t0 /\ w.gaps[g].end <= w.gaps[g].start
         THEN {"wall_clock_backward"} ELSE {}

\* _manifest_transition: from the published records to the current ones.
ManifestTransition(previous, current, members) ==
    LET anomalies == {p \in DOMAIN previous : p \notin DOMAIN current \/ current[p] # previous[p]} IN
    [state |-> IF anomalies = {} THEN "NORMAL" ELSE "ANOMALY", previous |-> previous,
     current |-> current,
     added |-> IF anomalies = {} THEN Without(current, DOMAIN previous) ELSE NoFunction,
     deferred |-> IF anomalies = {} THEN DOMAIN current \ members ELSE {}]

\* The manifests to audit: a deferred one stays owed until its row commits.
Fresh(o, members) == DOMAIN members \ DOMAIN o.audited

\* _raw_evidence: the incremental audit, and what it does to the memory.
RawEvidence(o) ==
    LET members == [p \in DOMAIN w.manifests \cap w.rows |-> w.manifests[p]]
        fresh == Fresh(o, members)
        baseline == {p \in fresh : p \in DOMAIN o.t0man /\ o.t0man[p] = members[p]}
        broken == {p \in DOMAIN o.audited : p \notin DOMAIN members \/ members[p] # o.audited[p]}
        step == ManifestTransition(o.man, w.manifests, DOMAIN members)
        absent == [p \in DOMAIN w.absent \cap w.rows |-> w.absent[p]]
        keys == o.keys \cup (fresh \ baseline)
    IN  [mem |-> [o EXCEPT !.audited = members, !.man = w.manifests,
                           !.deferred = DOMAIN w.manifests \ DOMAIN members,
                           !.keys = keys, !.absent = absent],
         doc |-> [manifest |-> step,
                  absence |-> [previous |-> o.absent, current |-> absent],
                  reconnect |-> [added |-> keys \ o.keys, all |-> keys]],
         findings |->
            (IF (fresh \ baseline) \cap w.unmarked # {} THEN {"UNMARKED_RECONNECT"} ELSE {})
            \cup (IF broken # {} \/ step.state = "ANOMALY" THEN {"manifest_loss"} ELSE {})
            \cup (IF "UNEXPLAINED" \in Range(absent) THEN {"raw_absence"} ELSE {})]

\* _fallback_raw_projection: a failed observation repeats what was published.
FallbackRawProjection(o) ==
    [manifest |-> ManifestTransition(o.man, o.man, DOMAIN o.man \ o.deferred),
     absence |-> [previous |-> o.absent, current |-> o.absent],
     reconnect |-> [added |-> {}, all |-> o.keys]]

\* _catalog_projection: the transition, its memory, and whether it is refused.
CatalogProjection(o, t) ==
    LET open == OpenIntervals(o.t0utc, t)
        closed == CurrentIntervals(o.t0utc, t)
        terminal == Terminal(o.t0utc, t)
        completed == {g \in DOMAIN closed \ o.intervals :
                         \/ closed[g].timing = "CURRENT_STAGE"
                         \/ g \in DOMAIN o.open}
    IN  [fails |-> ~(DOMAIN o.open \ DOMAIN open \subseteq completed),
         mem |-> [o EXCEPT !.open = open, !.intervals = @ \cup DOMAIN closed,
                           !.terminal = @ \/ terminal],
         doc |-> [started |-> {g \in DOMAIN open \ DOMAIN o.open :
                                  open[g].timing = "OPENED_IN_STAGE"},
                  completed |-> [g \in completed |-> closed[g]],
                  open |-> open, count |-> Cardinality(DOMAIN closed),
                  terminal |-> terminal /\ ~o.terminal]]

FallbackCatalog(o) ==
    [started |-> {}, completed |-> NoFunction, open |-> o.open,
     count |-> Cardinality(o.intervals), terminal |-> FALSE]

\* _v4_episode_observe: the episode and its findings.
Late(e, bt) == bt - e.start > RecoveryDeadline
Exceeded(e) == [e |-> [e EXCEPT !.state = "DEADLINE_EXCEEDED"], f |-> {"recovery_deadline_exceeded"}]

\* Mutant: a recovery that is seen late is a recovery.
RecoveredWhenever(e, bt) == [e |-> [e EXCEPT !.state = "RECOVERED", !.close = bt], f |-> {}]

\* An active episode ends when the recorder is seen ready.
EpisodeEnds(e, bt) ==
    IF Late(e, bt) THEN Exceeded(e)
    ELSE [e |-> [e EXCEPT !.state = "RECOVERED", !.close = bt], f |-> {}]

V4EpisodeObserve(e, ready, bt, allowStart) ==
    LET keeps(f) == [e |-> e, f |-> f] IN
    IF ready = "READY" THEN IF e.state = "ACTIVE" THEN EpisodeEnds(e, bt) ELSE keeps({})
    ELSE IF ready = "FAILED" THEN keeps({"readiness_failed"})
    ELSE IF ready = "NOT_READY" THEN keeps({"readiness_not_ready"})
    ELSE IF e.state = "DEADLINE_EXCEEDED" THEN Exceeded(e)
    ELSE IF e.state = "ACTIVE" THEN IF Late(e, bt) THEN Exceeded(e) ELSE keeps({})
    ELSE IF ~allowStart THEN keeps({"readiness_not_ready"})
    ELSE [e |-> [state |-> "ACTIVE", start |-> bt, close |-> None], f |-> {}]

\* _readiness_findings of the generation.
ReadinessFindings(o, start) ==
    IF gen = "v4" THEN V4EpisodeObserve(o.episode, w.ready, w.bt, ~start)
    ELSE [e |-> o.episode,
          f |-> IF w.ready = "FAILED" THEN {"readiness_failed"}
                ELSE IF w.ready # "READY" THEN {"readiness_not_ready"} ELSE {}]

SoftFindings == {"observation_gap", "wall_clock_backward"}
                \cup IF gen = "v4" THEN {} ELSE {"readiness_not_ready"}

ResultOf(findings) ==
    IF ~(findings \subseteq SoftFindings) THEN "FAIL"
    ELSE IF findings = {} THEN "PASS_CANDIDATE"
    ELSE IF findings = {"readiness_not_ready"} THEN "REVIEW_REQUIRED" ELSE "INCOMPLETE"

\* Findings about clocks, process and artifacts.
HostFindings(o) ==
    LET floorUtc == IF o.lastUtc = None THEN o.t0utc ELSE o.lastUtc
        floorBt == IF o.lastBt = None THEN o.t0bt ELSE o.lastBt
    IN  (IF w.boot # o.boot THEN {"boot_id_changed"} ELSE {})
        \cup (IF w.utc < floorUtc THEN {"wall_clock_backward"} ELSE {})
        \cup (IF w.bt - floorBt > MaxEvidenceGap THEN {"observation_gap"} ELSE {})
        \cup (IF w.bt < floorBt THEN {"boottime_non_monotonic"} ELSE {})
        \cup (IF w.instance # o.instance THEN {"process_incarnation_changed"} ELSE {})
        \cup (IF w.fault # "none" THEN {w.fault} ELSE {})

\* ever_blocking_findings.
EverBlocking(o, findings) == o.findings \cup findings

\* _observation: the document and the memory after it.  The Raw evidence has
\* changed the memory when the Catalog projection refuses.
Observation(o, start) ==
    LET readiness == ReadinessFindings(o, start)
        raw == RawEvidence(o)
        cat == CatalogProjection(raw.mem, w.utc)
        fails == ~w.catalog \/ cat.fails
        after == IF ~w.catalog THEN o ELSE IF cat.fails THEN raw.mem ELSE cat.mem
        found == HostFindings(o) \cup readiness.f
                 \cup IF fails THEN {"evidence_error"}
                      ELSE CatalogFindings(o.t0utc, w.utc) \cup raw.findings
        findings == EverBlocking(o, found)
        mem == [after EXCEPT !.episode = readiness.e, !.findings = findings]
    IN  [mem |-> mem,
         doc |-> [utc |-> w.utc, bt |-> w.bt, boot |-> w.boot, instance |-> w.instance,
                  ready |-> w.ready, findings |-> findings, result |-> ResultOf(findings),
                  episode |-> readiness.e,
                  raw |-> IF fails THEN FallbackRawProjection(after) ELSE raw.doc,
                  catalog |-> IF fails THEN FallbackCatalog(after) ELSE cat.doc]]

-----------------------------------------------------------------------------
(* The verifier: a fold over the chain.  A state with ok = FALSE is an      *)
(* AcceptanceError.                                                         *)

\* _apply_manifest_transition.
ApplyManifestTransition(s, step, findings) ==
    IF s.invalid THEN [s EXCEPT !.ok = @ /\ (step.state = "ANOMALY" => "manifest_loss" \in findings)]
    ELSE IF step.previous # s.man THEN [s EXCEPT !.ok = FALSE]
    ELSE IF step.state = "ANOMALY"
    THEN [s EXCEPT !.ok = @ /\ "manifest_loss" \in findings, !.invalid = TRUE, !.deferred = {}]
    ELSE LET result == s.man @@ step.added IN
         [s EXCEPT !.man = result, !.deferred = step.deferred,
                   !.ok = /\ @ /\ DOMAIN step.added \cap DOMAIN s.man = {}
                          /\ step.deferred \subseteq DOMAIN result /\ step.current = result]

\* _apply_raw_absence_transition and _apply_reconnect_transition.
ApplyRawAbsenceTransition(s, step) ==
    [s EXCEPT !.ok = @ /\ step.previous = s.absent, !.absent = step.current]

ApplyReconnectTransition(s, step) ==
    [s EXCEPT !.ok = @ /\ step.added \cap s.keys = {} /\ step.all = s.keys \cup step.added,
              !.keys = @ \cup step.added]

\* One completed discontinuity of a Catalog transition.
CompletionAccepted(s, step, findings, utc, g) ==
    LET c == step.completed[g] IN
    /\ g \notin DOMAIN step.open /\ g \notin s.intervals
    /\ c.end <= c.start => "wall_clock_backward" \in findings
    /\ c.end <= utc
    /\ IF g \notin DOMAIN s.open
       THEN /\ c.timing = "CURRENT_STAGE"
            /\ IF c.end > c.start THEN c.start >= s.observed ELSE c.start <= utc
       ELSE /\ c.start = s.open[g].start
            /\ IF s.open[g].timing = "OPENED_IN_STAGE" THEN c.timing = "CURRENT_STAGE"
               ELSE s.open[g].start < s.t0utc => c.timing = "CROSSES_T0"

\* _apply_catalog_transition.
ApplyCatalogTransition(s, step, findings, utc) ==
    LET counted == s.current \cup DOMAIN step.completed IN
    [s EXCEPT
        !.ok = /\ @
               /\ \A g \in DOMAIN step.open :
                     (step.open[g].timing = "OPEN_AT_T0") <=> (step.open[g].start <= s.t0utc)
               /\ step.started = DOMAIN step.open \ DOMAIN s.open
               /\ \A g \in DOMAIN step.open \cap DOMAIN s.open : step.open[g] = s.open[g]
               /\ \A g \in DOMAIN step.completed : CompletionAccepted(s, step, findings, utc, g)
               /\ DOMAIN s.open \ DOMAIN step.open \subseteq DOMAIN step.completed
               /\ ~(step.terminal /\ s.terminal)
               /\ step.count = Cardinality(counted)
               /\ (s.terminal \/ step.terminal) => "terminal_failure" \in findings,
        !.open = step.open, !.intervals = @ \cup DOMAIN step.completed, !.current = counted,
        !.terminal = @ \/ step.terminal, !.observed = utc]

\* _catalog_baseline_state, _v3_chain_state_from_start: T0.  The start's own
\* transitions are applied to its baselines.
ChainStateFromStart(d) ==
    LET crossing == {g \in DOMAIN d.base.current : d.base.current[g].timing = "CROSSES_T0"}
        atT0 == {g \in DOMAIN d.base.open : d.base.open[g].timing = "OPEN_AT_T0"}
        s == [ok |-> /\ crossing \cap d.base.closed = {}
                     /\ \A g \in crossing : d.base.current[g].end <= d.base.current[g].start
                                               => "wall_clock_backward" \in d.findings,
              invalid |-> FALSE, t0utc |-> d.utc, man |-> d.base.man, deferred |-> {},
              absent |-> d.raw.absence.current, keys |-> {},
              open |-> [g \in atT0 |-> d.base.open[g]],
              intervals |-> crossing \cup d.base.closed, current |-> crossing,
              terminal |-> FALSE, observed |-> d.utc, findings |-> d.findings,
              episode |-> EmptyEpisode, lastUtc |-> None, lastBt |-> None, bt |-> d.bt,
              count |-> 0]
    IN  ApplyCatalogTransition(
            ApplyReconnectTransition(
                ApplyManifestTransition(s, d.raw.manifest, d.findings), d.raw.reconnect),
            d.catalog, d.findings, d.utc)

\* _v4_chain_state_from_start: T0 cannot begin an episode.
StartAccepted(d) ==
    gen = "v4" => V4EpisodeObserve(EmptyEpisode, d.ready, d.bt, FALSE).f = {}
                  /\ d.episode = EmptyEpisode

V4Blockers == {"readiness_failed", "readiness_not_ready", "recovery_deadline_exceeded"}

\* The V4 checks of one sample: the episode, its blockers and the result.
V4SampleAccepted(s, d) ==
    LET e == V4EpisodeObserve(s.episode, d.ready, d.bt, TRUE) IN
    gen = "v4" => /\ d.episode = e.e
                  /\ d.findings \cap V4Blockers = (s.findings \cap V4Blockers) \cup e.f
                  /\ d.result = ResultOf(d.findings)

SpacingAccepted(s, d) == d.bt >= s.bt /\ d.bt - s.bt <= MaxEvidenceGap

\* _sample_chain_v3, for one sample after the start document.
ChainSample(start, s, d) ==
    LET r == ApplyCatalogTransition(
                 ApplyReconnectTransition(
                     ApplyRawAbsenceTransition(
                         ApplyManifestTransition(s, d.raw.manifest, d.findings), d.raw.absence),
                     d.raw.reconnect),
                 d.catalog, d.findings, d.utc)
    IN  [r EXCEPT
            !.ok = /\ @ /\ d.boot = start.boot /\ d.instance = start.instance
                   /\ SpacingAccepted(s, d) /\ V4SampleAccepted(s, d)
                   /\ s.findings \subseteq d.findings,
            !.episode = IF gen = "v4" THEN V4EpisodeObserve(s.episode, d.ready, d.bt, TRUE).e ELSE @,
            !.findings = d.findings, !.lastUtc = d.utc, !.lastBt = d.bt, !.bt = d.bt,
            !.count = @ + 1]

Samples == SelectSeq(Tail(chain), LAMBDA d : d.kind = "sample")

SampleChain ==
    LET start == Head(chain) IN
    FoldLeft(LAMBDA s, d : IF s.ok THEN ChainSample(start, s, d) ELSE s,
             [ChainStateFromStart(start) EXCEPT !.ok = @ /\ StartAccepted(start)], Samples)

\* _verify_completed_stage_v3 and _v4.
VerifyCompletedStage ==
    LET start == Head(chain)  final == Last(chain)  s == SampleChain IN
    /\ Len(chain) > 2 /\ final.kind = "final"
    /\ start.result = "PASS_CANDIDATE" /\ start.findings = {}
    /\ s.ok /\ ~s.invalid /\ s.findings = {}
    /\ DOMAIN s.open = {} /\ (gen = "v4" => final.ready = "READY")
    /\ final.elapsed = s.bt - start.bt /\ final.elapsed >= StageDuration
    /\ final.findings = {} /\ final.result = "PASS_CANDIDATE" /\ final.eligible

-----------------------------------------------------------------------------
(* The observer. *)

\* create_identity_evidence and create_readiness_evidence.
CreateIdentityEvidence ==
    /\ ladder = << >> /\ w.fault # "artifact_identity_changed"
    /\ ladder' = <<"identity">> /\ UNCHANGED <<gen, w, ob, chain, truth>>

CreateReadinessEvidence ==
    /\ ladder = <<"identity">> /\ w.ready = "READY"
    /\ ladder' = Append(ladder, "readiness") /\ UNCHANGED <<gen, w, ob, chain, truth>>

\* AcceptanceObserver.start, after verify_prior_stage.
Start ==
    /\ Len(ladder) > 1 /\ chain = << >>
    /\ LET o == [t0utc |-> w.utc, t0bt |-> w.bt, boot |-> w.boot, instance |-> w.instance,
                 t0man |-> w.manifests, man |-> w.manifests, deferred |-> {},
                 audited |-> NoFunction, keys |-> {}, absent |-> NoFunction, open |-> NoFunction,
                 intervals |-> {}, terminal |-> FALSE, findings |-> {}, episode |-> EmptyEpisode,
                 lastUtc |-> None, lastBt |-> None, count |-> 0]
           x == Observation(o, TRUE)
           known == w.catalog
           base == [man |-> w.manifests,
                    open |-> IF known THEN OpenIntervals(w.utc, w.utc) ELSE NoFunction,
                    current |-> IF known THEN CurrentIntervals(w.utc, w.utc) ELSE NoFunction,
                    closed |-> IF known THEN BaselineHistory(w.utc, w.utc) ELSE {}]
       IN  /\ ob' = x.mem
           /\ chain' = <<x.doc @@ [kind |-> "start", base |-> base]>>
    /\ truth' = [truth EXCEPT !.t0 = w]
    /\ UNCHANGED <<gen, w, ladder>>

\* The sample after Observation x, as document and as memory.
Sampled(x) == x.doc @@ [kind |-> "sample"]
Kept(x) == [x.mem EXCEPT !.lastUtc = w.utc, !.lastBt = w.bt, !.count = @ + 1]

\* _run_acceptance_stage: samples until one is of the end of the stage; the first is due
\* at once, the next an interval after the last, or when the stage is over.
Unfinished == ob.lastBt # None => ob.lastBt - ob.t0bt < StageDuration
Due == ob.lastBt # None => \/ ob.lastBt + SampleInterval <= w.bt
                           \/ w.bt - ob.t0bt >= StageDuration

\* AcceptanceObserver.sample.
Sample ==
    /\ ob # None /\ Len(Samples) < MaxSamples /\ ~StageEnded
    /\ Unfinished /\ Due
    /\ LET x == Observation(ob, FALSE) IN
       ob' = Kept(x) /\ chain' = Append(chain, Sampled(x))
    /\ UNCHANGED <<gen, w, ladder, truth>>

\* _final_result.
FinalResult(d, elapsed, open) ==
    IF gen = "v4" /\ d.ready # "READY" THEN "FAIL"
    ELSE IF d.boot # truth.t0.boot \/ elapsed < StageDuration THEN "INCOMPLETE"
    ELSE IF open # {} THEN "FAIL" ELSE d.result

\* AcceptanceObserver.finalize: one more sample and the final.
Finalize ==
    /\ ob # None /\ Len(Samples) < MaxSamples /\ ~StageEnded
    /\ ~Unfinished
    /\ LET x == Observation(ob, FALSE)  d == Sampled(x)  o == Kept(x)
           elapsed == d.bt - o.t0bt
           findings == o.findings
               \cup (IF DOMAIN o.open # {} THEN {"unresolved_discontinuity"} ELSE {})
               \cup (IF gen = "v4" /\ d.ready # "READY" THEN {"readiness_not_ready"} ELSE {})
           result == FinalResult(d, elapsed, DOMAIN o.open)
       IN  /\ ob' = o
           /\ chain' = chain \o <<d, [kind |-> "final", ready |-> d.ready, elapsed |-> elapsed,
                                      findings |-> findings, result |-> result,
                                      eligible |-> result = "PASS_CANDIDATE" /\ findings = {}]>>
    /\ truth' = [truth EXCEPT !.final = w]
    /\ UNCHANGED <<gen, w, ladder>>

\* The observer is killed; what it had not published is gone.
Killed ==
    /\ ob # None /\ truth.kills < MaxObserverKills /\ ~StageEnded
    /\ ob' = None /\ truth' = [truth EXCEPT !.kills = @ + 1]
    /\ UNCHANGED <<gen, w, chain, ladder>>

\* Mutant: resume forgets the findings of the chain.
ResumeForgets(start, s) ==
    [t0utc |-> start.utc, t0bt |-> start.bt, boot |-> start.boot, instance |-> start.instance,
     t0man |-> start.base.man, man |-> s.man, deferred |-> s.deferred,
     audited |-> Without(s.man, s.deferred), keys |-> s.keys, absent |-> s.absent,
     open |-> s.open, intervals |-> s.intervals, terminal |-> s.terminal,
     findings |-> {}, episode |-> s.episode,
     lastUtc |-> s.lastUtc, lastBt |-> s.lastBt, count |-> s.count]

\* The observer resume_observer builds from the replayed chain.
Resumed(start, s) ==
    [t0utc |-> start.utc, t0bt |-> start.bt, boot |-> start.boot, instance |-> start.instance,
     t0man |-> start.base.man, man |-> s.man, deferred |-> s.deferred,
     audited |-> Without(s.man, s.deferred), keys |-> s.keys, absent |-> s.absent,
     open |-> s.open, intervals |-> s.intervals, terminal |-> s.terminal,
     findings |-> s.findings, episode |-> s.episode,
     lastUtc |-> s.lastUtc, lastBt |-> s.lastBt, count |-> s.count]

\* A start with a finding is resumed for a backward wall clock alone.
Resumable(start) == \/ start.findings = {}
                    \/ start.findings = {"wall_clock_backward"} /\ start.result = "INCOMPLETE"

\* resume_observer.
ResumeObserver ==
    /\ ob = None /\ chain # << >> /\ ~StageEnded
    /\ LET start == Head(chain)  s == SampleChain IN
       /\ s.ok /\ ~s.invalid /\ Resumable(start)
       /\ w.boot = start.boot /\ w.bt >= start.bt /\ w.instance = start.instance
       /\ ob' = Resumed(start, s)
    /\ UNCHANGED <<gen, w, chain, ladder, truth>>

\* verify_prior_stage: the verified final opens the next stage.
NextStageAuthorized ==
    /\ StageEnded /\ Len(ladder) < 3 /\ VerifyCompletedStage
    /\ ladder' = Append(ladder, "stage") /\ UNCHANGED <<gen, w, ob, chain, truth>>

AcNext ==
    \/ AcTick \/ WallClockBack \/ ServiceRestarts \/ HostReboots \/ ConditionChanges
    \/ Seals \/ RowCommits \/ Damage \/ GapStarts \/ GapEnds
    \/ CreateIdentityEvidence \/ CreateReadinessEvidence
    \/ Start \/ Sample \/ Finalize \/ Killed \/ ResumeObserver \/ NextStageAuthorized

AcSpec == AcInit /\ [][AcNext]_acVars

-----------------------------------------------------------------------------
(* Properties. *)

Documents == SelectSeq(chain, LAMBDA d : d.kind # "final")

\* From document i until document j the recorder was never seen ready.
Unready(i, j) == i < j /\ \A k \in i..(j - 1) : Documents[k].ready # "READY"

\* A stage that is accepted happened: the recorder ran unrestarted on one boot for
\* the duration, was looked at often enough, kept every manifest it had at T0,
\* reconnected nowhere without a mark, recorded no terminal event that names an
\* instant since T0, has no open discontinuity, is ready at the end and was seen
\* ready again within the deadline whenever it was not, whatever observer was
\* killed and resumed in between (verify_completed_stage).
EligibleIsHonest ==
    (StageEnded /\ VerifyCompletedStage) =>
        LET a == truth.t0  b == truth.final  ds == Documents IN
        /\ a.boot = b.boot /\ a.instance = b.instance
        /\ \A x \in b.terminal : x < a.utc \/ x > b.utc
        /\ b.bt - a.bt >= StageDuration
        /\ \A k \in 2..Len(ds) : ds[k].bt - ds[k - 1].bt <= MaxEvidenceGap
        /\ \A p \in DOMAIN a.manifests : p \in DOMAIN b.manifests /\ b.manifests[p] = a.manifests[p]
        /\ ((DOMAIN b.manifests \cap b.rows) \ DOMAIN a.manifests) \cap b.unmarked = {}
        /\ \A g \in DOMAIN b.gaps : b.gaps[g].end = None => b.gaps[g].start > b.utc
        /\ b.ready = "READY" /\ b.fault = "none"
        /\ \A i, j \in 1..Len(ds) :
              Unready(i, j) => gen = "v4" /\ ds[j].bt - ds[i].bt <= RecoveryDeadline

\* An observer resumed from the chain is the observer that published it: what a
\* resumable chain replays to is what the running observer remembers, so that a
\* kill changes nothing of what later samples find (resume_observer).
ResumeIsExact ==
    (ob # None /\ chain # << >>) =>
        LET s == SampleChain  r == Resumed(Head(chain), s) IN
        (s.ok /\ ~s.invalid /\ Resumable(Head(chain))) =>
            /\ Without(r, {"intervals"} ) = Without(ob, {"intervals"})
            /\ r.intervals \ Head(chain).base.closed = ob.intervals \ Head(chain).base.closed

=============================================================================
