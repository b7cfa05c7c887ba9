-------------------------------- MODULE Peak --------------------------------
(***************************************************************************)
(* Stage 2, pipeline/stages/peak.py: how long an anomaly has lasted and    *)
(* whether the traffic is at its peak.  Both are functions of what the     *)
(* stage is given; the loop that keeps the streaks is in Intake.           *)
(***************************************************************************)
EXTENDS Registry

CONSTANTS
    Needs,               \* anomaly family -> the metrics its evidence requires
    RequiredBuckets,     \* sustained_intervals_required
    EvaluationInterval,  \* evaluation_interval_minutes, in ticks of the clock
    PeakPercentile,      \* lower bound of the near-peak zone
    NearPeakPercentile,  \* lower bound of the peak zone (sic, see _build_peak_profile)
    RoundsUp,            \* <<percentile, length>> whose product floating point makes too large
    Volumes, Histories   \* traffic of a scope, and the windows of it kept for the profile

Families == DOMAIN Needs
Metrics == UNION {Needs[f] : f \in Families}
Highest(a, b) == IF a < b THEN b ELSE a

ASSUME PeakAssumption ==
    /\ RequiredBuckets \in Nat \ {0}
    /\ EvaluationInterval \in Nat \ {0}
    /\ PeakPercentile \in 0..NearPeakPercentile
    /\ NearPeakPercentile \in 0..100
    /\ RoundsUp \subseteq {x \in (1..99) \X (Nat \ {0}) : (x[1] * x[2]) % 100 = 0}
    /\ Volumes \subseteq Int /\ None \notin Volumes
    /\ Histories \subseteq Seq(Volumes)

-----------------------------------------------------------------------------
(* Sustained status. *)

Bucket(t) == t \div EvaluationInterval

\* _to_sustained_identity_key: a consumer group's key forgets the topic.
KeyOf(scope, family) ==
    [place |-> scope.place, family |-> family,
     subject |-> IF scope.group = None THEN <<"topic", scope.topic>> ELSE <<"group", scope.group>>]

\* The scopes with rows, and the metrics present at one (build_evidence_status_map_by_scope).
ScopesOf(rows) == {r.scope : r \in rows}
Present(rows, s) == {r.metric : r \in {x \in rows : x.scope = s}}

\* _has_insufficient_evidence_for_sustained_key
Insufficient(k, rows) ==
    \A s \in ScopesOf(rows) : KeyOf(s, k.family) = k => ~(Needs[k.family] \subseteq Present(rows, s))

\* _is_consecutive_interval
Consecutive(before, now) == Bucket(now) - Bucket(before) = 1

\* Mutant: any later interval continues the streak.
NextStreakAcrossGaps(state, anomalous, insufficient, now) ==
    IF insufficient THEN (IF state = None THEN 0 ELSE state.streak)
    ELSE IF ~anomalous THEN 0
    ELSE IF state = None THEN 1 ELSE state.streak + 1

\* _next_streak_count; state is the key's SustainedWindowState, or None.
NextStreak(state, anomalous, insufficient, now) ==
    LET held == IF state # None /\ Consecutive(state.at, now) THEN state.streak ELSE 0
    IN  IF insufficient THEN held
        ELSE IF anomalous THEN held + 1
        ELSE 0

\* compute_sustained_status_by_key followed by build_sustained_window_state_by_key: keys,
\* once seen, stay.
Sustain(prior, hot, rows, now) ==
    [k \in DOMAIN prior \cup hot |->
        LET state == IF k \in DOMAIN prior THEN prior[k] ELSE None
            insufficient == Insufficient(k, rows)
            streak == NextStreak(state, k \in hot, insufficient, now)
        IN  [streak |-> streak, at |-> now,
             sustained |-> streak >= RequiredBuckets /\ ~insufficient]]

-----------------------------------------------------------------------------
(* Peak classification. *)

\* sorted(): the elements in an order in which none is followed by a lower one.
Arrangements(h) == {p \in [DOMAIN h -> DOMAIN h] : \A i, j \in DOMAIN h : p[i] = p[j] => i = j}
Sorted(h) ==
    CHOOSE s \in {[i \in DOMAIN h |-> h[p[i]]] : p \in Arrangements(h)} :
        \A i, j \in DOMAIN h : i <= j => s[i] <= s[j]

\* _nearest_rank_percentile.  Where the exact product is a whole number the code's product
\* may come out above it, and its ceiling one too high: for 55 percent of 100, say.
Excess(percentile, n) == IF <<percentile, n>> \in RoundsUp THEN 1 ELSE 0
NearestRank(sorted, percentile) ==
    LET n == Len(sorted)
    IN  sorted[Highest(1, (percentile * n + 99) \div 100 + Excess(percentile, n))]

\* _build_peak_profile: the near-peak percentile is where the peak zone begins.
Profile(history) ==
    LET sorted == Sorted(history)
    IN  [peak |-> NearestRank(sorted, NearPeakPercentile),
         near |-> NearestRank(sorted, PeakPercentile)]

\* Mutant: a threshold must be exceeded.
ClassifyAbove(value, history) ==
    IF value = None \/ history = <<>> THEN "UNKNOWN"
    ELSE IF value > Profile(history).peak THEN "PEAK"
    ELSE IF value > Profile(history).near THEN "NEAR_PEAK"
    ELSE "OFF_PEAK"

\* _classify_scope
Classify(value, history) ==
    IF value = None \/ history = <<>> THEN "UNKNOWN"
    ELSE IF value >= Profile(history).peak THEN "PEAK"
    ELSE IF value >= Profile(history).near THEN "NEAR_PEAK"
    ELSE "OFF_PEAK"

\* How the class of a value is told from how much of the history the value reaches.
Ranked(v, h, class) ==
    LET reached == 100 * Cardinality({i \in DOMAIN h : h[i] <= v})
        reaches(percentile) ==
            reached > 0 /\ reached >= percentile * Len(h) + Excess(percentile, Len(h))
    IN  /\ class = "UNKNOWN" <=> h = <<>>
        /\ class = "PEAK" <=> reaches(NearPeakPercentile)
        /\ class = "NEAR_PEAK" => reaches(PeakPercentile) /\ ~reaches(NearPeakPercentile)
        /\ class = "OFF_PEAK" => ~reaches(PeakPercentile)
=============================================================================
