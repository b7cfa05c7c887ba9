---------------------------- MODULE GatesProofs ----------------------------
(* What the gates guarantee for every rulebook that satisfies PagingPolicy.  *)
EXTENDS Gates, TLAPS

(* The lower of two actions is one of them, and at most each. *)
LEMMA ReduceLowers ==
    ASSUME NEW a \in Action, NEW c \in Action
    PROVE  /\ Reduce(a, c) \in Action
           /\ Reduce(a, c) \in {a, c}
           /\ Priority[Reduce(a, c)] <= Priority[a]
           /\ Priority[Reduce(a, c)] <= Priority[c]
  BY DEF Reduce, Action, Priority

(* PAGE survives a cap only if the cap is PAGE. *)
LEMMA ReduceKeepsPage ==
    ASSUME NEW a \in Action, NEW c \in Action, Reduce(a, c) = "PAGE"
    PROVE  a = "PAGE" /\ c = "PAGE"
  BY DEF Reduce, Action, Priority

(* An effect keeps the type, never raises the action and never leaves a page. *)
LEMMA EffectLowers ==
    ASSUME NEW s \in Evaluation, NEW g \in Effects
    PROVE  /\ ApplyEffect(s, g) \in Evaluation
           /\ Priority[ApplyEffect(s, g).action] <= Priority[s.action]
           /\ ApplyEffect(s, g).action # "PAGE"
           /\ ApplyEffect(s, g).valid = s.valid
<1>1. CapTo[g] \in Action /\ CapTo[g] # "PAGE"
  BY RulebookAssumption, PagingPolicy
<1>2. s.action \in Action
  BY DEF Evaluation
<1>3. ApplyEffect(s, g).action = Reduce(s.action, CapTo[g])
  BY DEF ApplyEffect, Evaluation
<1>4. Reduce(s.action, CapTo[g]) # "PAGE"
  BY <1>1, <1>2, ReduceKeepsPage
<1>5. ApplyEffect(s, g) \in Evaluation
  BY <1>1, <1>2, ReduceLowers DEF ApplyEffect, Evaluation
<1> QED
  BY <1>1, <1>2, <1>3, <1>4, <1>5, ReduceLowers DEF ApplyEffect, Evaluation

\* One gate keeps the type and never raises the action.
Lowers(t, s) == t \in Evaluation /\ Priority[t.action] <= Priority[s.action]

(* AG0 lets a page through only on a valid input. *)
LEMMA AG0Lowers ==
    ASSUME NEW x \in GateInput, NEW s \in Evaluation
    PROVE  /\ Lowers(AG0(x, s), s)
           /\ AG0(x, s).action = "PAGE" => ValidInput(x) /\ s.action = "PAGE"
<1>1. CASE ValidInput(x)
  <2>1. AG0(x, s) = s
    BY <1>1 DEF AG0
  <2>2. Priority[s.action] <= Priority[s.action]
    BY DEF Evaluation, Priority, Action
  <2> QED
    BY <1>1, <2>1, <2>2 DEF Lowers
<1>2. CASE ~ValidInput(x)
  <2> DEFINE t == ApplyEffect(s, "AG0")
  <2>1. /\ t \in Evaluation
        /\ Priority[t.action] <= Priority[s.action]
        /\ t.action # "PAGE"
    BY EffectLowers DEF Effects
  <2>2. AG0(x, s) = [t EXCEPT !.valid = FALSE]
    BY <1>2 DEF AG0
  <2> QED
    BY <2>1, <2>2 DEF Lowers, Evaluation
<1> QED
  BY <1>1, <1>2

(* AG1 lets a page through only in PROD and for TIER_0. *)
LEMMA AG1Lowers ==
    ASSUME NEW x \in GateInput, NEW s \in Evaluation
    PROVE  /\ Lowers(AG1(x, s), s)
           /\ AG1(x, s).action = "PAGE" =>
                s.action = "PAGE" /\ x.env = "prod" /\ x.tier = "TIER_0"
<1> DEFINE env == Reduce(s.action, EnvCap[x.env])
           capped == IF x.env = "prod" THEN Reduce(env, TierCap[x.tier]) ELSE env
<1>1. x.env \in Environment /\ x.tier \in CriticalityTier /\ s.action \in Action
  BY DEF GateInput, Evaluation
<1>2. EnvCap[x.env] \in Action /\ TierCap[x.tier] \in Action
  BY <1>1, RulebookAssumption
<1>3. env \in Action /\ Priority[env] <= Priority[s.action]
  BY <1>1, <1>2, ReduceLowers
<1>4. capped \in Action /\ Priority[capped] <= Priority[s.action]
  <2>1. CASE x.env = "prod"
    <3>1. Reduce(env, TierCap[x.tier]) \in Action
          /\ Priority[Reduce(env, TierCap[x.tier])] <= Priority[env]
      BY <1>2, <1>3, ReduceLowers
    <3>2. \A a \in Action : Priority[a] \in Nat
      BY DEF Action, Priority
    <3> QED
      BY <1>1, <1>3, <2>1, <3>1, <3>2
  <2>2. CASE x.env # "prod"
    BY <1>3, <2>2
  <2> QED
    BY <2>1, <2>2
<1>5. capped = "PAGE" => s.action = "PAGE" /\ x.env = "prod" /\ x.tier = "TIER_0"
  <2> SUFFICES ASSUME capped = "PAGE"
               PROVE  s.action = "PAGE" /\ x.env = "prod" /\ x.tier = "TIER_0"
    OBVIOUS
  <2>1. env = "PAGE"
    BY <1>2, <1>3, ReduceKeepsPage
  <2>2. s.action = "PAGE" /\ EnvCap[x.env] = "PAGE"
    BY <1>1, <1>2, <2>1, ReduceKeepsPage
  <2>3. x.env = "prod"
    BY <1>1, <2>2, PagingPolicy
  <2>4. TierCap[x.tier] = "PAGE"
    BY <1>2, <1>3, <2>3, ReduceKeepsPage
  <2> QED
    BY <1>1, <2>2, <2>3, <2>4, PagingPolicy
<1>6. AG1(x, s) = IF capped = s.action THEN s
                  ELSE [s EXCEPT !.action = capped, !.env_cap_applied = env # s.action]
  BY DEF AG1
<1> HIDE DEF env, capped
<1>7. AG1(x, s).action = capped
  BY <1>6 DEF Evaluation
<1>8. AG1(x, s) \in Evaluation
  <2>1. (env # s.action) \in BOOLEAN
    OBVIOUS
  <2>2. \A b \in BOOLEAN :
          [s EXCEPT !.action = capped, !.env_cap_applied = b] \in Evaluation
    BY <1>4 DEF Evaluation
  <2>3. CASE capped = s.action
    BY <1>6, <2>3
  <2>4. CASE capped # s.action
    <3>1. AG1(x, s) = [s EXCEPT !.action = capped, !.env_cap_applied = env # s.action]
      BY <1>6, <2>4
    <3> QED
      BY <2>1, <2>2, <3>1, Zenon
  <2> QED
    BY <2>3, <2>4
<1> QED
  BY <1>4, <1>5, <1>7, <1>8 DEF Lowers

(* AG2 lets a page through only with sufficient evidence. *)
LEMMA AG2Lowers ==
    ASSUME NEW x \in GateInput, NEW s \in Evaluation
    PROVE  /\ Lowers(AG2(x, s), s)
           /\ AG2(x, s).action = "PAGE" => ~InsufficientEvidence(x) /\ s.action = "PAGE"
<1>1. CASE InsufficientEvidence(x)
  BY <1>1, EffectLowers DEF AG2, Lowers, Effects
<1>2. CASE ~InsufficientEvidence(x)
  BY <1>2 DEF AG2, Lowers, Evaluation, Action, Priority
<1> QED
  BY <1>1, <1>2

(* AG3 lets a page through only for a role that is not denied. *)
LEMMA AG3Lowers ==
    ASSUME NEW x \in GateInput, NEW s \in Evaluation
    PROVE  /\ Lowers(AG3(x, s), s)
           /\ AG3(x, s).action = "PAGE" => x.role \notin DeniedRoles /\ s.action = "PAGE"
<1>1. CASE x.role \in DeniedRoles /\ s.action = "PAGE"
  BY <1>1, EffectLowers DEF AG3, Lowers, Effects
<1>2. CASE ~(x.role \in DeniedRoles /\ s.action = "PAGE")
  BY <1>2 DEF AG3, Lowers, Evaluation, Action, Priority
<1> QED
  BY <1>1, <1>2

(* AG4 lets a page through only when confident and sustained. *)
LEMMA AG4Lowers ==
    ASSUME NEW x \in GateInput, NEW s \in Evaluation
    PROVE  /\ Lowers(AG4(x, s), s)
           /\ AG4(x, s).action = "PAGE" =>
                x.confidence >= MinConfidence /\ x.sustained /\ s.action = "PAGE"
<1>1. x.confidence \in Int /\ MinConfidence \in Int /\ x.sustained \in BOOLEAN
  BY RulebookAssumption DEF GateInput
<1>2. ~AG4Fails(x) => x.confidence >= MinConfidence /\ x.sustained
  BY <1>1 DEF AG4Fails
<1>3. CASE Priority[s.action] >= Priority["TICKET"] /\ AG4Fails(x)
  BY <1>3, EffectLowers DEF AG4, Lowers, Effects
<1>4. CASE ~(Priority[s.action] >= Priority["TICKET"] /\ AG4Fails(x))
  BY <1>2, <1>4 DEF AG4, Lowers, Evaluation, Action, Priority
<1> QED
  BY <1>3, <1>4

(* AG5 lets a page through only when the store answered that the fingerprint is new. *)
LEMMA AG5Lowers ==
    ASSUME NEW s \in Evaluation, NEW lookup
    PROVE  /\ Lowers(AG5(s, lookup), s)
           /\ AG5(s, lookup).action = "PAGE" => lookup = "new" /\ s.action = "PAGE"
<1>1. CASE ~ConsultsStore(s)
  <2>1. AG5(s, lookup) = s
    BY <1>1 DEF AG5
  <2>2. s.action # "PAGE"
    BY <1>1 DEF ConsultsStore, Priority
  <2> QED
    BY <2>1, <2>2 DEF Lowers, Evaluation, Action, Priority
<1>2. CASE ConsultsStore(s) /\ lookup = "new"
  BY <1>2 DEF AG5, Lowers, Evaluation, Action, Priority
<1>3. CASE ConsultsStore(s) /\ lookup # "new"
  <2>1. \/ AG5(s, lookup) = ApplyEffect(s, "duplicate")
        \/ AG5(s, lookup) = ApplyEffect(s, "store_error")
    BY <1>3 DEF AG5
  <2>2. "duplicate" \in Effects /\ "store_error" \in Effects
    BY DEF Effects
  <2> QED
    BY <2>1, <2>2, EffectLowers DEF Lowers
<1> QED
  BY <1>1, <1>2, <1>3

(* AG6 leaves the action alone. *)
LEMMA AG6Keeps ==
    ASSUME NEW x \in GateInput, NEW s \in Evaluation
    PROVE  AG6(x, s) \in Evaluation /\ AG6(x, s).action = s.action
  BY DEF AG6, Evaluation

(* The evaluation that reaches AG5 is well-typed. *)
LEMMA BeforeDedupeTyped ==
    ASSUME NEW x \in GateInput
    PROVE  BeforeDedupe(x) \in Evaluation
<1>1. Start(x) \in Evaluation
  BY DEF Start, Evaluation, GateInput
<1>2. AG0(x, Start(x)) \in Evaluation
  BY <1>1, AG0Lowers DEF Lowers
<1>3. AG1(x, AG0(x, Start(x))) \in Evaluation
  BY <1>2, AG1Lowers DEF Lowers
<1>4. AG2(x, AG1(x, AG0(x, Start(x)))) \in Evaluation
  BY <1>3, AG2Lowers DEF Lowers
<1>5. AG3(x, AG2(x, AG1(x, AG0(x, Start(x))))) \in Evaluation
  BY <1>4, AG3Lowers DEF Lowers
<1> QED
  BY <1>5, AG4Lowers DEF Lowers, BeforeDedupe

(* For every rulebook whose caps confine paging, every gate input and every answer of the *)
(* dedupe store: the gates never raise an action, and a page comes out only when every     *)
(* condition of the rulebook holds at once.                                                *)
THEOREM GatesConfinePaging ==
    \A x \in GateInput : \A lookup :
        /\ Decide(x, lookup) \in Evaluation
        /\ Priority[Decide(x, lookup).action] <= Priority[x.proposed]
        /\ Decide(x, lookup).action = "PAGE" => Justified(x, lookup)
<1> SUFFICES ASSUME NEW x \in GateInput, NEW lookup
             PROVE  /\ Decide(x, lookup) \in Evaluation
                    /\ Priority[Decide(x, lookup).action] <= Priority[x.proposed]
                    /\ Decide(x, lookup).action = "PAGE" => Justified(x, lookup)
  OBVIOUS
<1> DEFINE s0 == Start(x)
           s1 == AG0(x, s0)
           s2 == AG1(x, s1)
           s3 == AG2(x, s2)
           s4 == AG3(x, s3)
           s5 == AG4(x, s4)
           s6 == AG5(s5, lookup)
<1>0. s0 \in Evaluation /\ s0.action = x.proposed
  BY DEF Start, Evaluation, GateInput
<1>1. Lowers(s1, s0) /\ (s1.action = "PAGE" => ValidInput(x) /\ s0.action = "PAGE")
  BY <1>0, AG0Lowers
<1>2. Lowers(s2, s1) /\ (s2.action = "PAGE" =>
                           s1.action = "PAGE" /\ x.env = "prod" /\ x.tier = "TIER_0")
  BY <1>1, AG1Lowers DEF Lowers
<1>3. Lowers(s3, s2) /\ (s3.action = "PAGE" => ~InsufficientEvidence(x) /\ s2.action = "PAGE")
  BY <1>2, AG2Lowers DEF Lowers
<1>4. Lowers(s4, s3) /\ (s4.action = "PAGE" => x.role \notin DeniedRoles /\ s3.action = "PAGE")
  BY <1>3, AG3Lowers DEF Lowers
<1>5. Lowers(s5, s4) /\ (s5.action = "PAGE" =>
                           x.confidence >= MinConfidence /\ x.sustained /\ s4.action = "PAGE")
  BY <1>4, AG4Lowers DEF Lowers
<1>6. Lowers(s6, s5) /\ (s6.action = "PAGE" => lookup = "new" /\ s5.action = "PAGE")
  BY <1>5, AG5Lowers DEF Lowers
<1>7. Decide(x, lookup) = AG6(x, s6)
  BY DEF Decide, BeforeDedupe
<1> HIDE DEF s0, s1, s2, s3, s4, s5, s6
<1>8. Decide(x, lookup) \in Evaluation /\ Decide(x, lookup).action = s6.action
  BY <1>6, <1>7, AG6Keeps DEF Lowers
<1>9. \A a \in Action : Priority[a] \in Nat
  BY DEF Action, Priority
<1>10. Priority[s6.action] <= Priority[s0.action]
  <2>1. /\ s0.action \in Action /\ s1.action \in Action /\ s2.action \in Action
        /\ s3.action \in Action /\ s4.action \in Action /\ s5.action \in Action
        /\ s6.action \in Action
    BY <1>0, <1>1, <1>2, <1>3, <1>4, <1>5, <1>6 DEF Lowers, Evaluation
  <2> QED
    BY <1>1, <1>2, <1>3, <1>4, <1>5, <1>6, <1>9, <2>1 DEF Lowers
<1> QED
  BY <1>0, <1>1, <1>2, <1>3, <1>4, <1>5, <1>6, <1>8, <1>10 DEF Justified

-----------------------------------------------------------------------------
(* What each gate does to the action. *)

LEMMA EffectActs ==
    ASSUME NEW s \in Evaluation, NEW g \in Effects
    PROVE  ApplyEffect(s, g).action = Reduce(s.action, CapTo[g])
  BY DEF ApplyEffect, Evaluation

LEMMA AG0Acts ==
    ASSUME NEW x \in GateInput, NEW s \in Evaluation
    PROVE  AG0(x, s).action = IF ValidInput(x) THEN s.action ELSE Reduce(s.action, CapTo["AG0"])
<1>1. CASE ValidInput(x)
  BY <1>1 DEF AG0
<1>2. CASE ~ValidInput(x)
  <2> DEFINE t == ApplyEffect(s, "AG0")
  <2>1. t.action = Reduce(s.action, CapTo["AG0"]) /\ t \in Evaluation
    BY EffectActs, EffectLowers DEF Effects
  <2>2. AG0(x, s) = [t EXCEPT !.valid = FALSE]
    BY <1>2 DEF AG0
  <2> HIDE DEF t
  <2> QED
    BY <1>2, <2>1, <2>2 DEF Evaluation
<1> QED
  BY <1>1, <1>2

LEMMA AG1Acts ==
    ASSUME NEW x \in GateInput, NEW s \in Evaluation
    PROVE  AG1(x, s).action = IF x.env = "prod"
                              THEN Reduce(Reduce(s.action, EnvCap[x.env]), TierCap[x.tier])
                              ELSE Reduce(s.action, EnvCap[x.env])
  BY DEF AG1, Evaluation

LEMMA AG2Acts ==
    ASSUME NEW x \in GateInput, NEW s \in Evaluation
    PROVE  AG2(x, s).action = IF InsufficientEvidence(x) THEN Reduce(s.action, CapTo["AG2"])
                              ELSE s.action
  BY EffectActs DEF AG2, Effects

LEMMA AG3Acts ==
    ASSUME NEW x \in GateInput, NEW s \in Evaluation
    PROVE  AG3(x, s).action = IF x.role \in DeniedRoles /\ s.action = "PAGE"
                              THEN Reduce(s.action, CapTo["AG3"]) ELSE s.action
  BY EffectActs DEF AG3, Effects

LEMMA AG4Acts ==
    ASSUME NEW x \in GateInput, NEW s \in Evaluation
    PROVE  AG4(x, s).action =
              IF Priority[s.action] >= 2 /\ (x.confidence < MinConfidence \/ ~x.sustained)
              THEN Reduce(s.action, CapTo["AG4"]) ELSE s.action
<1>1. Priority["TICKET"] = 2
  BY DEF Priority
<1> QED
  BY <1>1, EffectActs DEF AG4, AG4Fails, Effects

LEMMA AG5Acts ==
    ASSUME NEW s \in Evaluation, NEW answer
    PROVE  AG5(s, answer).action =
              IF s.action = "OBSERVE" \/ answer = "new" THEN s.action
              ELSE IF answer = "duplicate" THEN Reduce(s.action, CapTo["duplicate"])
              ELSE Reduce(s.action, CapTo["store_error"])
<1>1. ConsultsStore(s) <=> s.action # "OBSERVE"
  BY DEF ConsultsStore, Evaluation, Action, Priority
<1> QED
  BY <1>1, EffectActs DEF AG5, Effects

-----------------------------------------------------------------------------
(* The lowest of a set of actions. *)

IsLowest(a, S) == a \in S /\ S \subseteq Action /\ \A b \in S : Priority[a] <= Priority[b]

(* A cap more: the running action is the lowest of one action more. *)
LEMMA LowestReduced ==
    ASSUME NEW S, NEW a, IsLowest(a, S), NEW c \in Action
    PROVE  IsLowest(Reduce(a, c), S \cup {c})
<1>1. a \in Action /\ \A b \in Action : Priority[b] \in Nat
  BY DEF IsLowest, Action, Priority
<1>2. /\ Reduce(a, c) \in {a, c} /\ Reduce(a, c) \in Action
      /\ Priority[Reduce(a, c)] <= Priority[a] /\ Priority[Reduce(a, c)] <= Priority[c]
  BY <1>1, ReduceLowers
<1>3. ASSUME NEW b \in S PROVE Priority[Reduce(a, c)] <= Priority[b]
  <2>1. b \in Action /\ Priority[a] <= Priority[b]
    BY DEF IsLowest
  <2> QED
    BY <1>1, <1>2, <2>1
<1> QED
  BY <1>2, <1>3 DEF IsLowest

LEMMA LowestUnique ==
    ASSUME NEW S, NEW a, NEW b, IsLowest(a, S), IsLowest(b, S)
    PROVE  a = b
<1>1. a \in Action /\ b \in Action /\ Priority[a] <= Priority[b] /\ Priority[b] <= Priority[a]
  BY DEF IsLowest
<1> QED
  BY <1>1 DEF Action, Priority

\* The caps that Ceiling takes the lowest of, the proposed action included.
Caps(x) ==
    {EnvCap[x.env]}
        \cup {TierCap[t] : t \in {u \in {x.tier} : x.env = "prod"}}
        \cup {CapTo[g] : g \in {h \in {"AG0"} : ~ValidInput(x)}}
        \cup {CapTo[g] : g \in {h \in {"AG2"} : InsufficientEvidence(x)}}
        \cup {CapTo[g] : g \in {h \in {"AG3"} : x.role \in DeniedRoles}}
        \cup {x.proposed}

LEMMA CeilingLowest ==
    ASSUME NEW x \in GateInput, NEW a, IsLowest(a, Caps(x))
    PROVE  Ceiling(x) = a
<1> DEFINE L(b) == b \in Caps(x) /\ \A c \in Caps(x) : Priority[b] <= Priority[c]
<1>1. Ceiling(x) = CHOOSE b \in Action : L(b)
  BY Zenon DEF Ceiling, Caps
<1>2. a \in Action /\ L(a) /\ Caps(x) \subseteq Action
  BY DEF IsLowest
<1>3. Ceiling(x) \in Action /\ L(Ceiling(x))
  <2> HIDE DEF L
  <2> QED
    BY <1>1, <1>2
<1>4. IsLowest(Ceiling(x), Caps(x))
  BY <1>2, <1>3 DEF IsLowest
<1> QED
  BY <1>4, LowestUnique

(* The action that reaches AG4 is the lowest of all caps, whatever the gates' order. *)
LEMMA CapsApplied ==
    ASSUME CapTo["AG3"] = "TICKET", NEW x \in GateInput
    PROVE  AG3(x, AG2(x, AG1(x, AG0(x, Start(x))))).action = Ceiling(x)
<1> DEFINE s0 == Start(x)
           s1 == AG0(x, s0)
           s2 == AG1(x, s1)
           s3 == AG2(x, s2)
           s4 == AG3(x, s3)
           c0 == {x.proposed}
           c1 == IF ValidInput(x) THEN c0 ELSE c0 \cup {CapTo["AG0"]}
           c2 == c1 \cup {EnvCap[x.env]}
           c3 == IF x.env = "prod" THEN c2 \cup {TierCap[x.tier]} ELSE c2
           c4 == IF InsufficientEvidence(x) THEN c3 \cup {CapTo["AG2"]} ELSE c3
           c5 == IF x.role \in DeniedRoles THEN c4 \cup {CapTo["AG3"]} ELSE c4
<1>1. /\ x.proposed \in Action /\ EnvCap[x.env] \in Action /\ TierCap[x.tier] \in Action
      /\ CapTo["AG0"] \in Action /\ CapTo["AG2"] \in Action /\ CapTo["AG3"] \in Action
  BY RulebookAssumption DEF GateInput, Effects
<1>2. s0 \in Evaluation /\ s0.action = x.proposed
  BY DEF Start, Evaluation, GateInput
<1>3. s1 \in Evaluation
  BY <1>2, AG0Lowers DEF Lowers
<1>4. s2 \in Evaluation
  BY <1>3, AG1Lowers DEF Lowers
<1>5. s3 \in Evaluation
  BY <1>4, AG2Lowers DEF Lowers
<1>6. IsLowest(s0.action, c0)
  BY <1>1, <1>2 DEF IsLowest, Action, Priority
<1>7. s1.action = IF ValidInput(x) THEN s0.action ELSE Reduce(s0.action, CapTo["AG0"])
  BY <1>2, AG0Acts
<1>8. s2.action = IF x.env = "prod"
                  THEN Reduce(Reduce(s1.action, EnvCap[x.env]), TierCap[x.tier])
                  ELSE Reduce(s1.action, EnvCap[x.env])
  BY <1>3, AG1Acts
<1>9. s3.action = IF InsufficientEvidence(x) THEN Reduce(s2.action, CapTo["AG2"]) ELSE s2.action
  BY <1>4, AG2Acts
<1>10. s4.action = IF x.role \in DeniedRoles /\ s3.action = "PAGE"
                   THEN Reduce(s3.action, CapTo["AG3"]) ELSE s3.action
  BY <1>5, AG3Acts
<1>11. s3.action \in Action
  BY <1>5 DEF Evaluation
<1> HIDE DEF s0, s1, s2, s3, s4
<1>12. IsLowest(s1.action, c1)
  BY <1>1, <1>6, <1>7, LowestReduced
<1>13. IsLowest(Reduce(s1.action, EnvCap[x.env]), c2)
  <2> HIDE DEF c1
  <2> QED
    BY <1>1, <1>12, LowestReduced
<1>14. IsLowest(s2.action, c3)
  <2> HIDE DEF c2
  <2> QED
    BY <1>1, <1>8, <1>13, LowestReduced
<1>15. IsLowest(s3.action, c4)
  <2> HIDE DEF c3
  <2> QED
    BY <1>1, <1>9, <1>14, LowestReduced
<1>16. s4.action = IF x.role \in DeniedRoles THEN Reduce(s3.action, CapTo["AG3"]) ELSE s3.action
  BY <1>10, <1>11 DEF Reduce, Action, Priority
<1>17. IsLowest(s4.action, c5)
  <2> HIDE DEF c4
  <2> QED
    BY <1>1, <1>15, <1>16, LowestReduced
<1>18. c5 = Caps(x)
  BY DEF Caps
<1>19. Ceiling(x) = s4.action
  <2> HIDE DEF c5
  <2> QED
    BY <1>17, <1>18, CeilingLowest
<1> QED
  BY <1>19 DEF s0, s1, s2, s3, s4

(* The gates decide what the policy says. *)
LEMMA DecideMatches ==
    ASSUME CapTo["AG3"] = "TICKET", NEW x \in GateInput, NEW answer
    PROVE  Decide(x, answer).action = ReferenceAction(x, answer)
<1> DEFINE s4 == AG3(x, AG2(x, AG1(x, AG0(x, Start(x)))))
           s5 == BeforeDedupe(x)
           s6 == AG5(s5, answer)
<1>1. s4.action = Ceiling(x)
  BY CapsApplied
<1>2. s4 \in Evaluation
  <2>1. Start(x) \in Evaluation
    BY DEF Start, Evaluation, GateInput
  <2> QED
    BY <2>1, AG0Lowers, AG1Lowers, AG2Lowers, AG3Lowers DEF Lowers
<1>3. s5 = AG4(x, s4)
  BY DEF BeforeDedupe
<1>4. s5 \in Evaluation
  BY BeforeDedupeTyped
<1>5. s6 \in Evaluation
  BY <1>4, AG5Lowers DEF Lowers
<1>6. Decide(x, answer).action = s6.action
  BY <1>5, AG6Keeps DEF Decide
<1>7. s6.action = IF s5.action = "OBSERVE" \/ answer = "new" THEN s5.action
                  ELSE IF answer = "duplicate" THEN Reduce(s5.action, CapTo["duplicate"])
                  ELSE Reduce(s5.action, CapTo["store_error"])
  BY <1>4, AG5Acts
<1> HIDE DEF s4, s5, s6
<1>8. s5.action = IF Priority[s4.action] >= 2 /\ (x.confidence < MinConfidence \/ ~x.sustained)
                  THEN Reduce(s4.action, CapTo["AG4"]) ELSE s4.action
  BY <1>2, <1>3, AG4Acts
<1> QED
  BY <1>1, <1>6, <1>7, <1>8 DEF ReferenceAction

(* No surveyed input makes the gates deviate. *)
LEMMA NoDeviations == CapTo["AG3"] = "TICKET" => Deviations = {}
  BY DecideMatches, RulebookAssumption DEF Deviations
=============================================================================
