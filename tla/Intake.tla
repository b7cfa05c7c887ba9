------------------------------- MODULE Intake -------------------------------
(***************************************************************************)
(* The first half of a hot-path cycle, up to the gate inputs: tick, reload *)
(* of the topology registry, evidence from Prometheus, sustained streaks,  *)
(* topology.  HotPath goes on from the gate inputs.                        *)
(*                                                                         *)
(* The registry file belongs to other processes, which may rewrite or      *)
(* remove it between any two system calls of a reload.  From the last      *)
(* query on, a cycle runs without a suspension: one action.                *)
(***************************************************************************)
EXTENDS Peak

CONSTANTS
    Contents,        \* the contents the registry file may have, by name
    Garbled,         \* contents that raise something else than a validation error
    Reports,         \* sets of [metric, scope] rows a round of queries may return
    ForeignPlaces,   \* places whose env is not a member of Environment
    CycleInterval,   \* HOT_PATH_SCHEDULER_INTERVAL_SECONDS, in ticks
    CacheInterval,   \* interval_seconds of the findings cache, 300 s whatever the policy
    Activation,      \* activation_cycles of the Prometheus alert
    Horizon, MaxEdits, MaxCrashes, MaxFaults

Texts == DOMAIN Contents
Gone == None          \* there is no registry file
OnDisk == Texts \cup Garbled \cup {Gone}
Observed == {x.scope : x \in UNION Reports}
SustainedKeys == {KeyOf(s, f) : s \in Observed, f \in Families}
\* torn, a history: the file has another text under the mtime of the snapshot.
Snapshot == [text: Texts, mtime: 0..MaxEdits, torn: BOOLEAN]
Load == [text: Texts, torn: BOOLEAN]   \* a load between its read and its stat
WindowState == [streak: Nat, at: 0..Horizon, sustained: BOOLEAN]

\* What loading and resolving make of each content.
Accepted == {t \in Texts : Valid(Contents[t])}
Loaded == [t \in Texts |-> Canonical(Contents[t])]
Resolution == [t \in Accepted |-> [s \in Scope |-> Resolve(Loaded[t], s)]]

ASSUME IntakeAssumption ==
    /\ Garbled \cap Texts = {}
    /\ None \notin Texts \cup Garbled \cup Snapshot \cup Load \cup WindowState \cup (0..Horizon)
    /\ \A t \in Texts : Contents[t] \in RegistryText
    /\ {} \in Reports
    /\ Reports \subseteq SUBSET [metric: Metrics, scope: Scope]
    /\ ForeignPlaces \subseteq Places
    /\ CycleInterval \in Nat \ {0}
    /\ CacheInterval \in Nat \ {0}
    /\ Activation \in Nat \ {0}
    /\ {Horizon, MaxEdits, MaxCrashes, MaxFaults} \subseteq Nat

VARIABLES
    now, disk,           \* the clock; the registry file's text and mtime
    cache,               \* Redis: findings of the newest interval, by scope
    pc, started,         \* the next step of the process; evaluation_time of its cycle
    boundary, missed,    \* previous_boundary; the sum of missed_intervals
    snapshot, reading,   \* the loader's snapshot; a load under way
    prior,               \* prior_sustained_window_state_by_key
    prometheus, outages, \* health entry; _prometheus_outage_streak
    alerts, events,      \* alerts raised and telemetry events emitted by this process
    inputs,              \* gate inputs of the last cycle
    outcomes,            \* history: what became of the queries of each cycle
    history,             \* history: the evaluations of this process
    cycles,              \* history: the boundaries at which it began a cycle
    edited,              \* history: the file changed since the cycle's first stat
    edits, crashes, faults

memory == <<boundary, missed, snapshot, reading, prior, prometheus, outages, alerts, events,
            inputs, outcomes, history, cycles>>
vars == <<now, disk, cache, pc, started, memory, edited, edits, crashes, faults>>

(* The one type invariant. *)
TypeOK ==
    /\ now \in 0..Horizon
    /\ disk \in [text: OnDisk, mtime: 0..MaxEdits]
    /\ cache.at \in 0..Horizon /\ DOMAIN cache.found \subseteq Observed
    /\ \A s \in DOMAIN cache.found : cache.found[s] \subseteq Families
    /\ pc \in {"down", "asleep", "read", "stat", "evidence"}
    /\ started \in 0..Horizon \cup {None}
    /\ boundary \in 0..Horizon \cup {None}
    /\ missed \in 0..Horizon
    /\ snapshot \in Snapshot \cup {None}
    /\ reading \in Load \cup {None}
    /\ (pc = "stat") <=> (reading # None)
    /\ pc \in {"asleep", "evidence"} => snapshot # None
    /\ DOMAIN prior \subseteq SustainedKeys
    /\ \A k \in DOMAIN prior : /\ prior[k].streak \in 0..Len(history)
                               /\ prior[k].at <= now
    /\ prometheus \in {"unreported", "HEALTHY", "UNAVAILABLE"}
    /\ outages \in 0..Len(outcomes)
    /\ inputs \subseteq [scope: Observed, family: Families, sustained: BOOLEAN,
                         owner: Keys \cup {None}]
    /\ edits \in 0..MaxEdits /\ crashes \in 0..MaxCrashes /\ faults \in 0..MaxFaults

Empty == [x \in {} |-> None]

\* A process that has loaded nothing yet.
Fresh ==
    /\ boundary' = None /\ missed' = 0 /\ snapshot' = None /\ reading' = None
    /\ prior' = Empty /\ prometheus' = "unreported" /\ outages' = 0 /\ alerts' = 0 /\ events' = 0
    /\ inputs' = {} /\ outcomes' = <<>> /\ history' = <<>> /\ cycles' = {}

Init ==
    /\ now = 0
    /\ disk \in [text: Texts \cup Garbled, mtime: {0}]
    /\ cache = [at |-> 0, found |-> Empty]
    /\ pc = "down" /\ started = None
    /\ boundary = None /\ missed = 0 /\ snapshot = None /\ reading = None
    /\ prior = Empty /\ prometheus = "unreported" /\ outages = 0 /\ alerts = 0 /\ events = 0
    /\ inputs = {} /\ outcomes = <<>> /\ history = <<>> /\ cycles = {}
    /\ edited = FALSE /\ edits = 0 /\ crashes = 0 /\ faults = 0

-----------------------------------------------------------------------------
(* The clock and the cadence. *)

Floor(t) == (t \div CycleInterval) * CycleInterval
NextBoundary(t) == Floor(t) + CycleInterval

Tick ==
    /\ now < Horizon
    /\ now' = now + 1
    /\ UNCHANGED <<disk, cache, pc, started, memory, edited, edits, crashes, faults>>

\* Mutant: an interval that began late counts as missed, too.
MissedIntervalsLate(previous, current) ==
    IF previous = None THEN 0 ELSE Highest((current - previous) \div CycleInterval, 0)

\* evaluate_scheduler_tick
MissedIntervals(previous, current) ==
    IF previous = None THEN 0 ELSE Highest((current - previous) \div CycleInterval - 1, 0)

-----------------------------------------------------------------------------
(* The registry file and its loader. *)

\* The time stamp of a change may be one the file had before: file systems tell it in
\* steps, and a restored file brings its own.
Edit ==
    /\ edits < MaxEdits
    /\ edits' = edits + 1
    /\ disk' \in [text: OnDisk \ {disk.text}, mtime: 0..MaxEdits]
    /\ edited' = TRUE
    /\ reading' = IF reading = None THEN None ELSE [reading EXCEPT !.torn = TRUE]
    /\ snapshot' = IF snapshot # None /\ disk'.mtime = snapshot.mtime
                   THEN [snapshot EXCEPT !.torn = TRUE] ELSE snapshot
    /\ UNCHANGED <<now, cache, pc, started, boundary, missed, prior, prometheus, outages,
                   alerts, events, inputs, outcomes, history, cycles, crashes, faults>>

\* _run_hot_path: load() before the loop starts.  Nothing is left of an earlier process.
Start ==
    /\ pc = "down"
    /\ disk.text # Gone
    /\ pc' = "read"
    /\ Fresh
    /\ edited' = FALSE
    /\ UNCHANGED <<now, disk, cache, started, edits, crashes, faults>>

\* A cycle's exception handler, and a load that fails at startup.
Abandon ==
    /\ pc' = IF snapshot = None THEN "down" ELSE "asleep"
    /\ inputs' = {}
    /\ reading' = None

\* The loop wakes: tick, then the stat of reload_if_changed.
Begin ==
    /\ pc = "asleep"
    /\ started # None => now >= NextBoundary(started)
    /\ started' = now
    /\ missed' = missed + MissedIntervals(boundary, Floor(now))
    /\ boundary' = Floor(now)
    /\ cycles' = cycles \cup {Floor(now)}
    /\ edited' = FALSE
    /\ \/ disk.text = Gone /\ Abandon
       \/ /\ disk.text # Gone
          /\ pc' = IF disk.mtime = snapshot.mtime THEN "evidence" ELSE "read"
          /\ UNCHANGED <<inputs, reading>>
    /\ UNCHANGED <<now, disk, cache, snapshot, prior, prometheus, outages, alerts, events, outcomes,
                   history, edits, crashes, faults>>

\* Mutant: the text is taken as it is, the checks come later.
ReadTextUnchecked ==
    /\ pc = "read"
    /\ disk.text \in Texts
    /\ reading' = [text |-> disk.text, torn |-> FALSE]
    /\ pc' = "stat"
    /\ UNCHANGED <<now, disk, cache, started, boundary, missed, snapshot, prior, prometheus, outages,
                   alerts, events, inputs, outcomes, history, cycles, edited, edits, crashes,
                   faults>>

\* load_topology_registry up to its stat: the text is read and validated.  A text that is
\* not valid leaves the snapshot alone and the cycle goes on with it; one that is not UTF-8,
\* or has a mapping key that cannot be hashed, ends the cycle like a file that is gone.
ReadText ==
    /\ pc = "read"
    /\ \/ disk.text \in Garbled \cup {Gone} /\ Abandon
       \/ /\ disk.text \in Accepted
          /\ reading' = [text |-> disk.text, torn |-> FALSE]
          /\ pc' = "stat"
          /\ UNCHANGED inputs
       \/ /\ disk.text \in Texts \ Accepted
          /\ pc' = IF snapshot = None THEN "down" ELSE "evidence"
          /\ UNCHANGED <<inputs, reading>>
    /\ UNCHANGED <<now, disk, cache, started, boundary, missed, snapshot, prior, prometheus, outages,
                   alerts, events, outcomes, history, cycles, edited, edits, crashes, faults>>

\* The stat that dates the snapshot, and the swap.
StatText ==
    /\ pc = "stat"
    /\ \/ disk.text = Gone /\ Abandon /\ UNCHANGED <<snapshot, started>>
       \/ /\ disk.text # Gone
          /\ snapshot' = [text |-> reading.text, mtime |-> disk.mtime, torn |-> reading.torn]
          /\ reading' = None
          /\ pc' = IF snapshot = None THEN "asleep" ELSE "evidence"
          /\ started' = IF snapshot = None THEN None ELSE started
          /\ UNCHANGED inputs
    /\ UNCHANGED <<now, disk, cache, boundary, missed, prior, prometheus, outages, alerts, events,
                   outcomes, history, cycles, edited, edits, crashes, faults>>

-----------------------------------------------------------------------------
(* Evidence, streaks, topology, gate inputs. *)

\* Scopes whose rows allow a detector to fire; whether it does depends on the values.
Detectable(rows) ==
    {x \in ScopesOf(rows) \X Families : Needs[x[2]] \subseteq Present(rows, x[1])}

\* get_or_compute_interval_findings, for every scope with rows.
CacheBucket == started \div CacheInterval
Cached(s, reads) == reads /\ cache.at = CacheBucket /\ s \in DOMAIN cache.found
FindingsOf(s, detected, reads) ==
    IF Cached(s, reads) THEN cache.found[s] ELSE {f \in Families : <<s, f>> \in detected}
Remember(rows, detected, reads) ==
    LET kept == IF cache.at = CacheBucket THEN cache.found ELSE Empty
    IN  [at |-> CacheBucket,
         found |-> [s \in DOMAIN kept \cup ScopesOf(rows) |->
                        IF s \in ScopesOf(rows) THEN FindingsOf(s, detected, reads) ELSE kept[s]]]

\* Mutant: the alert is raised in every cycle from the activation on.
AlertedRepeatedly(streak) == streak >= Activation

\* record_prometheus_unavailability: in one cycle of an outage
Alerted(streak) == streak = Activation

\* run_evidence_stage_cycle: a total outage and its end are reported once each.
Telemetry(outage) ==
    /\ outages' = IF outage THEN outages + 1 ELSE 0
    /\ alerts' = IF outage /\ Alerted(outages + 1) THEN alerts + 1 ELSE alerts
    /\ prometheus' = IF outage THEN "UNAVAILABLE"
                     ELSE IF prometheus = "UNAVAILABLE" THEN "HEALTHY" ELSE prometheus
    /\ events' = IF outage = (prometheus = "UNAVAILABLE") THEN events ELSE events + 1
    /\ outcomes' = Append(outcomes, IF outage THEN "outage" ELSE "answered")

\* build_topology_stage_output: the scopes that get a context
ContextOf(scopes) == {s \in scopes : Resolution[snapshot.text][s].status = "resolved"}

\* _resolve_context_for_scope: a group's scope may use its topic's context.
HasContext(s, contexts) == s \in contexts \/ [s EXCEPT !.group = None] \in contexts

\* collect_gate_inputs_by_scope, for the scopes that run_gate_input_stage_cycle leaves.  An
\* env that Environment does not know raises and takes all inputs of the cycle along.
GateInputs(found, status) ==
    LET contexts == ContextOf({x[1] : x \in found})
        kept == {x \in found : HasContext(x[1], contexts)}
    IN  IF \E x \in kept : x[1].place \in ForeignPlaces THEN {}
        ELSE {[scope |-> x[1], family |-> x[2],
               sustained |-> status[KeyOf(x[1], x[2])].sustained,
               owner |-> IF x[1] \in contexts THEN Resolution[snapshot.text][x[1]].owner ELSE None]
                : x \in kept}

\* The stages from the findings to the gate inputs; an exception in the last ones comes
\* when the streaks are already stored.
Evaluate(rows, detected, reads, writes, raises) ==
    LET found == {x \in ScopesOf(rows) \X Families : x[2] \in FindingsOf(x[1], detected, reads)}
        hot == {KeyOf(x[1], x[2]) : x \in found}
        status == Sustain(prior, hot, rows, started)
    IN  /\ cache' = IF writes THEN Remember(rows, detected, reads) ELSE cache
        /\ prior' = status
        /\ inputs' = IF raises THEN {} ELSE GateInputs(found, status)
        /\ history' = Append(history,
                [at |-> Bucket(started), hot |-> hot,
                 blind |-> {k \in DOMAIN status : Insufficient(k, rows)}])

\* The queries return; the cycle runs to its end.  Of a query that failed or was rejected
\* only the missing rows are seen, unless all failed.
EvaluateStep ==
    /\ pc = "evidence"
    /\ pc' = "asleep"
    /\ \E outage \in BOOLEAN, rows \in Reports, reads, writes, raises \in BOOLEAN :
        /\ outage => rows = {}
        /\ Telemetry(outage)
        /\ faults' = faults + (IF reads /\ writes /\ ~raises THEN 0 ELSE 1)
        /\ faults' <= MaxFaults
        /\ \E detected \in SUBSET Detectable(rows) : Evaluate(rows, detected, reads, writes, raises)
    /\ UNCHANGED <<now, disk, started, boundary, missed, snapshot, reading, cycles, edited, edits,
                   crashes>>

\* An exception that no stage expects ends the cycle before the streaks are stored: in a
\* query, or later, when the outage has been reported and findings of some scopes cached.
FailStep ==
    /\ pc = "evidence"
    /\ faults < MaxFaults
    /\ faults' = faults + 1
    /\ Abandon
    /\ \/ UNCHANGED <<cache, prometheus, outages, alerts, events, outcomes>>
       \/ \E outage \in BOOLEAN, rows \in Reports :
            /\ outage => rows = {}
            /\ Telemetry(outage)
            /\ \E done \in SUBSET ScopesOf(rows), detected \in SUBSET Detectable(rows) :
                    cache' = Remember({x \in rows : x.scope \in done}, detected, TRUE)
    /\ UNCHANGED <<now, disk, started, boundary, missed, snapshot, prior, history, cycles, edited,
                   edits, crashes>>

\* The process dies; Redis and the file stay.
Crash ==
    /\ pc # "down"
    /\ crashes < MaxCrashes
    /\ crashes' = crashes + 1
    /\ pc' = "down"
    /\ started' = None
    /\ Fresh
    /\ UNCHANGED <<now, disk, cache, edited, edits, faults>>

Next ==
    \/ Tick \/ Edit \/ Start \/ Begin \/ ReadText \/ StatText \/ EvaluateStep \/ FailStep
    \/ Crash

Spec == Init /\ [][Next]_vars

-----------------------------------------------------------------------------
(* Properties. *)

(* A gate input is called sustained exactly when the evaluations of this process, ending *)
(* with this one, saw the anomaly in RequiredBuckets intervals, one interval following   *)
(* the other and none of them, as far as its evidence was complete, without the anomaly: *)
(* whatever cycles were late, failed or lost to a restart.  A second evaluation of one   *)
(* interval does not follow the first: it begins the count anew, so cycles shorter than  *)
(* the interval keep a count from growing (compute_sustained_status_by_key).             *)
SustainedAsObserved ==
    \A x \in inputs :
        LET k == KeyOf(x.scope, x.family)
            n == Len(history)
            saw(i) == k \in history[i].hot \ history[i].blind
        IN  x.sustained <=>
              /\ saw(n)
              /\ \E s \in 1..n :
                    /\ \A i \in s..n : saw(i) \/ k \in history[i].blind
                    /\ \A i \in (s + 1)..n : history[i].at = history[i - 1].at + 1
                    /\ Cardinality({i \in s..n : saw(i)}) >= RequiredBuckets

(* Every gate input goes to the owner that the loaded file names most specifically for   *)
(* its scope, a listed routing key; a scope is resolved exactly when the file lists its  *)
(* topic there and names some owner (load_topology_registry with resolve_anomaly_scope). *)
RoutedAsWritten ==
    /\ pc = "asleep" => \A x \in inputs : x.owner \in Elements(Contents[snapshot.text].directory)
    /\ pc = "evidence" =>
        \A scope \in Scope :
            AsWritten(Contents[snapshot.text], scope, Resolution[snapshot.text][scope])

(* A cycle works with a valid registry, the last known good one when the file is not     *)
(* valid, and with the file's own text when it is and has not changed since the cycle    *)
(* began.  The exception is a write that the mtime does not tell: one that fell between  *)
(* the read and the stat of an earlier load, or that left the file the mtime it had when *)
(* it was loaded (reload_if_changed).                                                    *)
RegistryFollowsFile ==
    /\ snapshot # None => snapshot.text \in Accepted
    /\ (pc = "evidence" /\ ~edited /\ ~snapshot.torn /\ disk.text \in Accepted) =>
            snapshot.text = disk.text

(* The compatibility view of a place is a valid v0 registry: loaded with that place as   *)
(* its default it gives every topic the stream, role and source system it has in the     *)
(* snapshot (build_v0_compat_view).                                                      *)
CompatViewLoads ==
    reading # None =>
        \A p \in Places :
            At(Loaded[reading.text].streams, p) # {} => CompatLoads(Loaded[reading.text], p)

(* However outages, recoveries and cycles that fail later on follow each other in one    *)
(* life of the process: one telemetry event for each change, one alert for each outage   *)
(* that lasts Activation cycles, and the health entry tells of the last queries          *)
(* (run_evidence_stage_cycle).  A restart forgets them all: what it reports is reported  *)
(* anew.                                                                                 *)
OutageReportedOnce ==
    LET out(i) == i \in DOMAIN outcomes /\ outcomes[i] = "outage"
    IN  /\ events = Cardinality({i \in DOMAIN outcomes : out(i) # out(i - 1)})
        /\ alerts = Cardinality({i \in DOMAIN outcomes :
                        /\ \A j \in (i - Activation + 1)..i : out(j)
                        /\ ~out(i - Activation)})
        /\ (prometheus = "UNAVAILABLE") = out(Len(outcomes))

(* The missed intervals the ticks report are the boundaries, since the process started,  *)
(* at which no cycle began (evaluate_scheduler_tick).                                    *)
MissedIntervalsCounted ==
    missed = Cardinality({b \in 0..Horizon :
        /\ b % CycleInterval = 0
        /\ \E first, last \in cycles : first < b /\ b < last
        /\ b \notin cycles})

(* The class of a value depends on how much of the history it reaches, as the            *)
(* percentiles say, and on nothing else (_build_peak_profile, _classify_scope).  It has  *)
(* no state: it is compared in the initial states.                                       *)
PeakAsRanked ==
    pc = "down" /\ now + edits + crashes = 0 =>
        \A h \in Histories, v \in Volumes : Ranked(v, h, Classify(v, h))
=============================================================================
