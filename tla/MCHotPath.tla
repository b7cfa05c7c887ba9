----------------------------- MODULE MCHotPath -----------------------------
(* Model-checking instances of HotPath: rulebook v1 and a few gate inputs. *)
EXTENDS HotPath, TLC

V1EnvCap == [local |-> "OBSERVE", harness |-> "OBSERVE", dev |-> "NOTIFY", uat |-> "TICKET",
             prod |-> "PAGE"]
V1TierCap == [TIER_0 |-> "PAGE", TIER_1 |-> "TICKET", TIER_2 |-> "NOTIFY", UNKNOWN |-> "NOTIFY"]
V1CapTo == [AG0 |-> "OBSERVE", AG2 |-> "NOTIFY", AG3 |-> "TICKET", AG4 |-> "OBSERVE",
            duplicate |-> "OBSERVE", store_error |-> "NOTIFY"]

Lagging ==
    [anomalous |-> TRUE, primary |-> TRUE, required |-> Evidence,
     allowed |-> [e \in Evidence |-> {}]]

\* Everything speaks for a page and a postmortem.
Urgent ==
    [fingerprinted |-> TRUE, env |-> "prod", tier |-> "TIER_0", role |-> "SINK_TOPIC",
     proposed |-> "PAGE", confidence |-> 90, sustained |-> TRUE, peak |-> "yes",
     findings |-> {Lagging}, evidence |-> [e \in Evidence |-> "PRESENT"]]
\* The anomaly has not lasted long enough yet.
Early == [Urgent EXCEPT !.sustained = FALSE]
\* The same, on a source topic.
Upstream == [Urgent EXCEPT !.role = "SOURCE_TOPIC"]

\* What the loop makes of it: the topology stage sets neither proposed action nor
\* confidence, and the peak stage is given no history.
Wired == [Urgent EXCEPT !.proposed = "OBSERVE", !.confidence = 0, !.peak = "unknown"]

EarlyOrUrgent == {Early, Urgent}
AllInputs == {Early, Urgent, Upstream, Wired}

-----------------------------------------------------------------------------
(* The inputs over which the gates are compared with the policy. *)

Needs(required, primary, allowed) ==
    [anomalous |-> TRUE, primary |-> primary, required |-> required, allowed |-> allowed]
NothingAllowed == [e \in Evidence |-> {}]
Tolerant == [NothingAllowed EXCEPT !["lag"] = {"UNKNOWN"}]
Quiet == [Needs({"lag"}, TRUE, NothingAllowed) EXCEPT !.anomalous = FALSE]

FindingSets ==
    {{}, {Quiet},
     {Needs({"lag"}, TRUE, NothingAllowed)},
     {Needs({"lag"}, FALSE, NothingAllowed)},
     {Needs({"lag"}, TRUE, Tolerant), Needs({"lag", "offset"}, FALSE, NothingAllowed)},
     {Needs({"lag", "offset"}, FALSE, Tolerant)}}

BoundedInputs ==
    {x \in [fingerprinted: BOOLEAN, env: Environment, tier: CriticalityTier,
            role: {"SOURCE_TOPIC", "SINK_TOPIC"}, proposed: Action,
            confidence: {MinConfidence - 1, MinConfidence}, sustained: BOOLEAN,
            peak: {"unknown"}, findings: FindingSets,
            evidence: {[lag |-> l, offset |-> o] : l \in {"PRESENT", "UNKNOWN", "STALE"},
                                                    o \in {"PRESENT", "ABSENT"}}] :
        x.fingerprinted \/ x.env \in {"prod", "uat"}}

-----------------------------------------------------------------------------
Windows == [OBSERVE |-> 1, NOTIFY |-> 1, TICKET |-> 1, PAGE |-> 2]

Symmetric == Permutations(Instances) \cup Permutations(Fingerprints)
=============================================================================
