------------------------------- MODULE Gates -------------------------------
(***************************************************************************)
(* Stage 6, pipeline/stages/gating.py: the gates AG0 to AG6 reduce the     *)
(* proposed action of one gate input.  Each gate is an operator from       *)
(* evaluation state to evaluation state, applied in the rulebook's order.  *)
(* The rulebook (config/policies/rulebook-v1.yaml) is data: its caps and   *)
(* effects are constants.  The reason codes a decision collects are left   *)
(* out: they are the rulebook's text (an effect may set none) and decide   *)
(* nothing; so are the logs and the latency guardrail.                     *)
(***************************************************************************)
EXTENDS Integers, FiniteSets

CONSTANTS
    Evidence,       \* names of evidence primitives
    EnvCap,         \* caps.max_action_by_env, aliases resolved
    TierCap,        \* caps.max_action_by_tier_in_prod
    DeniedRoles,    \* caps.paging_denied_topic_roles
    MinConfidence,  \* min of AG4's diagnosis_confidence check, in percent
    CapTo,          \* effect.cap_action_to of the gates that have one
    Surveyed        \* the gate inputs over which the gates are compared with the policy

Action == {"OBSERVE", "NOTIFY", "TICKET", "PAGE"}
Priority == [OBSERVE |-> 0, NOTIFY |-> 1, TICKET |-> 2, PAGE |-> 3]
Environment == {"local", "harness", "dev", "uat", "prod"}
CriticalityTier == {"TIER_0", "TIER_1", "TIER_2", "UNKNOWN"}
TopicRole == {"SOURCE_TOPIC", "SHARED_TOPIC", "SINK_TOPIC"}
EvidenceStatus == {"PRESENT", "UNKNOWN", "ABSENT", "STALE"}
Effects == {"AG0", "AG2", "AG3", "AG4", "duplicate", "store_error"}
\* What AG5 learns from the dedupe store.
Lookup == {"new", "duplicate", "error"}

Finding ==
    [anomalous: BOOLEAN, primary: BOOLEAN, required: SUBSET Evidence,
     allowed: [Evidence -> SUBSET (EvidenceStatus \ {"PRESENT"})]]

GateInput ==
    [fingerprinted: BOOLEAN, env: Environment, tier: CriticalityTier, role: TopicRole,
     proposed: Action, confidence: 0..100, sustained: BOOLEAN,
     peak: {"yes", "no", "unknown"}, findings: SUBSET Finding,
     evidence: [Evidence -> EvidenceStatus]]

\* _EvaluationState
Evaluation ==
    [action: Action, valid: BOOLEAN, env_cap_applied: BOOLEAN, postmortem: BOOLEAN]

ASSUME RulebookAssumption ==
    /\ EnvCap \in [Environment -> Action]
    /\ TierCap \in [CriticalityTier -> Action]
    /\ DeniedRoles \subseteq TopicRole
    /\ MinConfidence \in 0..100
    /\ CapTo \in [Effects -> Action]
    /\ Surveyed \subseteq GateInput

\* What the rulebook must say for its own intent to hold: only PROD and TIER_0 may page,
\* and no failing gate's effect leaves a page in place.
ASSUME PagingPolicy ==
    /\ \A e \in Environment : EnvCap[e] = "PAGE" => e = "prod"
    /\ \A t \in CriticalityTier : TierCap[t] = "PAGE" => t = "TIER_0"
    /\ \A g \in Effects : CapTo[g] # "PAGE"

-----------------------------------------------------------------------------
\* _reduce_action, and _cap_action_to_max_safe when max_safe_action is set
Reduce(action, cap) == IF Priority[action] <= Priority[cap] THEN action ELSE cap

\* _apply_gate_effect of an effect with a cap
ApplyEffect(s, effect) == [s EXCEPT !.action = Reduce(s.action, CapTo[effect])]

\* _ag0_is_valid
ValidInput(x) == x.fingerprinted /\ x.findings # {}

AG0(x, s) ==
    IF ValidInput(x) THEN s
    ELSE [ApplyEffect(s, "AG0") EXCEPT !.valid = FALSE]

\* _evaluate_ag1
AG1(x, s) ==
    LET env    == Reduce(s.action, EnvCap[x.env])
        capped == IF x.env = "prod" THEN Reduce(env, TierCap[x.tier]) ELSE env
    IN  IF capped = s.action THEN s
        ELSE [s EXCEPT !.action = capped, !.env_cap_applied = env # s.action]

\* The findings AG2 looks at: the anomalous primary ones, else all anomalous ones.
FindingsToCheck(x) ==
    LET anomalous == {f \in x.findings : f.anomalous}
        primary   == {f \in anomalous : f.primary}
    IN  IF primary = {} THEN anomalous ELSE primary

\* _ag2_has_insufficient_evidence
InsufficientEvidence(x) ==
    \E f \in FindingsToCheck(x) : \E e \in f.required :
        x.evidence[e] # "PRESENT" /\ x.evidence[e] \notin f.allowed[e]

AG2(x, s) ==
    IF InsufficientEvidence(x) THEN ApplyEffect(s, "AG2") ELSE s

\* Mutant: the source-topic rule compares with the wrong action.
AG3OnTicket(x, s) ==
    IF x.role \in DeniedRoles /\ s.action = "TICKET"
    THEN ApplyEffect(s, "AG3")
    ELSE s

AG3(x, s) ==
    IF x.role \in DeniedRoles /\ s.action = "PAGE"
    THEN ApplyEffect(s, "AG3")
    ELSE s

\* _ag4_failure_reason_codes finds a failing check.
AG4Fails(x) == x.confidence < MinConfidence \/ ~x.sustained

AG4(x, s) ==
    IF Priority[s.action] >= Priority["TICKET"] /\ AG4Fails(x)
    THEN ApplyEffect(s, "AG4")
    ELSE s

\* AG5 asks the store only for an action above OBSERVE.
ConsultsStore(s) == Priority[s.action] > Priority["OBSERVE"]

AG5(s, lookup) ==
    IF ~ConsultsStore(s) \/ lookup = "new" THEN s
    ELSE IF lookup = "duplicate"
         THEN ApplyEffect(s, "duplicate")
         ELSE ApplyEffect(s, "store_error")

AG6(x, s) ==
    IF s.valid /\ x.env = "prod" /\ x.tier = "TIER_0"
    THEN [s EXCEPT !.postmortem = (x.peak = "yes" /\ x.sustained)]
    ELSE s

-----------------------------------------------------------------------------
(* evaluate_rulebook_gates *)

Start(x) ==
    [action |-> x.proposed, valid |-> TRUE, env_cap_applied |-> FALSE, postmortem |-> FALSE]

\* Mutant: AG1 is skipped.
BeforeDedupeUncapped(x) == AG4(x, AG3(x, AG2(x, AG0(x, Start(x)))))

\* The evaluation when AG5 is reached.
BeforeDedupe(x) == AG4(x, AG3(x, AG2(x, AG1(x, AG0(x, Start(x))))))

Decide(x, lookup) == AG6(x, AG5(BeforeDedupe(x), lookup))

-----------------------------------------------------------------------------
(* The rulebook's promises, over every input and every answer of the store. *)

Justified(x, lookup) ==
    /\ ValidInput(x)
    /\ x.proposed = "PAGE"
    /\ x.env = "prod" /\ x.tier = "TIER_0"
    /\ x.role \notin DeniedRoles
    /\ ~InsufficientEvidence(x)
    /\ x.confidence >= MinConfidence
    /\ x.sustained
    /\ lookup = "new"

\* The highest action that every unconditional cap allows.
Ceiling(x) ==
    LET caps == {EnvCap[x.env]}
                \cup {TierCap[t] : t \in {u \in {x.tier} : x.env = "prod"}}
                \cup {CapTo[g] : g \in {h \in {"AG0"} : ~ValidInput(x)}}
                \cup {CapTo[g] : g \in {h \in {"AG2"} : InsufficientEvidence(x)}}
                \cup {CapTo[g] : g \in {h \in {"AG3"} : x.role \in DeniedRoles}}
    IN  CHOOSE a \in Action : /\ a \in caps \cup {x.proposed}
                              /\ \A b \in caps \cup {x.proposed} : Priority[a] <= Priority[b]

\* What the action must be, stated without the order of the gates.
ReferenceAction(x, lookup) ==
    LET urgent == Priority[Ceiling(x)] >= 2
        weak   == x.confidence < MinConfidence \/ ~x.sustained
        before == IF urgent /\ weak THEN Reduce(Ceiling(x), CapTo["AG4"]) ELSE Ceiling(x)
    IN  IF before = "OBSERVE" \/ lookup = "new" THEN before
        ELSE IF lookup = "duplicate" THEN Reduce(before, CapTo["duplicate"])
        ELSE Reduce(before, CapTo["store_error"])

\* The surveyed inputs, with an answer of the store, for which the gates deviate.
Deviations ==
    {d \in Surveyed \X Lookup : Decide(d[1], d[2]).action # ReferenceAction(d[1], d[2])}
\* The answers for which they deviate on some input.
DeviatingAnswers == {d[2] : d \in Deviations}

=============================================================================
