--------------------------- MODULE HotPathProofs ---------------------------
(***************************************************************************)
(* The safety theorems of the hot path, for any number of instances and    *)
(* fingerprints, any gate inputs and any rulebook that confines paging.    *)
(* IInv is shown inductive, one lemma per action.                          *)
(***************************************************************************)
EXTENDS HotPath, GatesProofs

(* IInv holds initially. *)
LEMMA InitKept == Init => IInv
<1> SUFFICES ASSUME Init PROVE IInv
  OBVIOUS
<1>1. TypeOK
  BY HotPathAssumption DEF Init, TypeOK, Undecided, Steps
<1>2. PagesJustified /\ DurableBeforeDispatch
  BY DEF Init, PagesJustified, DurableBeforeDispatch
<1>3. OneNoticePerCase
  BY DEF Init, OneNoticePerCase, Notice
<1>4. \A i \in Instances : pc[i] = "idle"
  BY DEF Init
<1>5. \A f \in Fingerprints, n \in Notice : f \notin rows => sent[f][n] = 0
  BY DEF Init
<1> QED
  BY <1>1, <1>2, <1>3, <1>4, <1>5 DEF IInv, WorkSound, Holds

\* The part of the shared state that the safety properties are about is untouched, no
\* instance comes to hold a case, and one that holds a case keeps it.
Quiet ==
    /\ UNCHANGED <<store, rows, sent, pages>>
    /\ \A i \in Instances :
         /\ Holds(i)' => /\ Holds(i)
                         /\ pc'[i] = pc[i]
                         /\ current'[i] = current[i]
                         /\ decided'[i][current[i]] = decided[i][current[i]]
         /\ pc'[i] = "remember" => current'[i] \in Fingerprints /\ pending'[i] \in Inputs

(* A quiet, well-typed step keeps the invariant. *)
LEMMA QuietKept ==
    ASSUME IInv, Quiet, TypeOK'
    PROVE  IInv'
<1>1. PagesJustified' /\ OneNoticePerCase'
  BY DEF IInv, Quiet, PagesJustified, OneNoticePerCase
<1>2. ASSUME NEW i \in Instances PROVE WorkSound(i)'
  BY DEF IInv, Quiet, WorkSound, Holds
<1>3. DurableBeforeDispatch'
  BY DEF IInv, Quiet, DurableBeforeDispatch, Holds
<1>4. (\A i, j \in Instances : (i # j /\ Holds(i) /\ Holds(j)) => current[i] # current[j])'
  BY DEF IInv, Quiet
<1>5. (\A f \in Fingerprints, n \in Notice : f \notin rows => sent[f][n] = 0)'
  BY DEF IInv, Quiet
<1>6. (\A i \in Instances, n \in Notice : pc[i] = "dispatch" => sent[current[i]][n] = 0)'
  BY DEF IInv, Quiet, Holds
<1> QED
  BY <1>1, <1>2, <1>3, <1>4, <1>5, <1>6 DEF IInv

(* A cycle begins. *)
LEMMA StartCycleKept ==
    ASSUME IInv, NEW i \in Instances, StartCycle(i)
    PROVE  IInv'
<1>1. TypeOK'
  <2>1. PICK found \in SUBSET Fingerprints : todo' = [todo EXCEPT ![i] = found]
    BY DEF StartCycle
  <2>2. todo' \in [Instances -> SUBSET Fingerprints]
    BY <2>1 DEF IInv, TypeOK
  <2>3. pc' \in [Instances -> Steps]
    BY DEF IInv, TypeOK, StartCycle, Goto, Steps
  <2>4. due' \in [Instances -> BOOLEAN]
    BY DEF IInv, TypeOK, StartCycle
  <2> QED
    BY <2>2, <2>3, <2>4 DEF IInv, TypeOK, StartCycle
<1>2. pc'[i] \in {"degraded", "gate"} /\ \A j \in Instances \ {i} : pc'[j] = pc[j]
  BY DEF IInv, TypeOK, StartCycle, Goto
<1>3. Quiet
  BY <1>2 DEF IInv, StartCycle, Quiet, WorkSound, Holds
<1> QED
  BY <1>1, <1>3, QuietKept

(* Recording a decision is well-typed and leaves the instance gating or at its cases. *)
LEMMA DecidedTyped ==
    ASSUME TypeOK, NEW i \in Instances, NEW f \in Fingerprints, NEW d \in Decision,
           Decided(i, f, d)
    PROVE  /\ decided' \in [Instances -> [Fingerprints -> Decision \cup {None}]]
           /\ todo' \in [Instances -> SUBSET Fingerprints]
           /\ current' \in [Instances -> Fingerprints \cup {None}]
           /\ pending' \in [Instances -> Inputs \cup {None}]
           /\ pc' \in [Instances -> Steps]
           /\ pc'[i] \in {"case", "gate"}
           /\ \A j \in Instances \ {i} : /\ pc'[j] = pc[j]
                                         /\ current'[j] = current[j]
                                         /\ pending'[j] = pending[j]
                                         /\ decided'[j] = decided[j]
  BY DEF TypeOK, Decided, Goto, Steps

(* Recording a decision is quiet. *)
LEMMA DecidedQuiet ==
    ASSUME IInv, NEW i \in Instances, NEW f \in Fingerprints, NEW d \in Decision,
           Decided(i, f, d), UNCHANGED <<store, rows, sent, pages>>
    PROVE  Quiet
<1>1. TypeOK
  BY DEF IInv
<1> QED
  BY <1>1, DecidedTyped DEF IInv, Quiet, WorkSound, Holds

(* The call counter stays in its bound, and setting a store's health is well-typed. *)
LEMMA FaultTyped ==
    ASSUME TypeOK, NoFault \/ Fault
    PROVE  faults' \in 0..MaxFaults
  BY HotPathAssumption DEF TypeOK, NoFault, Fault

LEMMA HealthTyped ==
    ASSUME TypeOK, NEW i \in Instances, NEW b \in BOOLEAN,
           healthy' = healthy \/ healthy' = [healthy EXCEPT ![i] = b]
    PROVE  healthy' \in [Instances -> BOOLEAN]
  BY DEF TypeOK

(* The gates up to the store's GET. *)
LEMMA EvaluateGatesKept ==
    ASSUME IInv, NEW i \in Instances, EvaluateGates(i)
    PROVE  IInv'
<1>0. TypeOK
  BY DEF IInv
<1>1. PICK f \in todo[i], x \in Inputs :
        \/ /\ Decided(i, f, [input |-> x, lookup |-> "unasked"])
           /\ UNCHANGED <<healthy, faults>>
        \/ /\ Decided(i, f, [input |-> x, lookup |-> "duplicate"])
           /\ healthy' = [healthy EXCEPT ![i] = TRUE]
           /\ NoFault
        \/ /\ current' = [current EXCEPT ![i] = f]
           /\ pending' = [pending EXCEPT ![i] = x]
           /\ Goto(i, "remember")
           /\ healthy' = [healthy EXCEPT ![i] = TRUE]
           /\ NoFault
           /\ UNCHANGED <<decided, todo>>
        \/ /\ Fault
           /\ Decided(i, f, [input |-> x, lookup |-> "error"])
           /\ healthy' = [healthy EXCEPT ![i] = FALSE]
  BY Zenon DEF EvaluateGates
<1>2. f \in Fingerprints
  BY <1>0 DEF TypeOK
<1>3. UNCHANGED <<redis, store, rows, sent, pages, window, due, status, crashes>>
  BY DEF EvaluateGates
<1>4. ASSUME NEW l \in Answer, Decided(i, f, [input |-> x, lookup |-> l]),
             healthy' \in [Instances -> BOOLEAN], faults' \in 0..MaxFaults
      PROVE  IInv'
  <2>1. [input |-> x, lookup |-> l] \in Decision
    BY DEF Decision
  <2>2. TypeOK'
    BY <1>0, <1>2, <1>3, <1>4, <2>1, DecidedTyped DEF TypeOK
  <2>3. Quiet
    BY <1>2, <1>3, <1>4, <2>1, DecidedQuiet
  <2> QED
    BY <2>2, <2>3, QuietKept
<1>5. ASSUME current' = [current EXCEPT ![i] = f],
             pending' = [pending EXCEPT ![i] = x],
             Goto(i, "remember"),
             healthy' = [healthy EXCEPT ![i] = TRUE],
             NoFault,
             UNCHANGED <<decided, todo>>
      PROVE  IInv'
  <2>1. TypeOK'
    BY <1>0, <1>2, <1>3, <1>5 DEF TypeOK, Goto, Steps, NoFault
  <2>2. Quiet
    BY <1>0, <1>2, <1>3, <1>5 DEF IInv, TypeOK, Quiet, WorkSound, Holds, Goto
  <2> QED
    BY <2>1, <2>2, QuietKept
<1>6. "unasked" \in Answer /\ "duplicate" \in Answer /\ "error" \in Answer
  BY DEF Answer, Lookup
<1>7. ASSUME Decided(i, f, [input |-> x, lookup |-> "unasked"]), UNCHANGED <<healthy, faults>>
      PROVE  IInv'
  <2>1. healthy' \in [Instances -> BOOLEAN] /\ faults' \in 0..MaxFaults
    BY <1>0, <1>7 DEF TypeOK
  <2> QED
    BY <1>4, <1>6, <1>7, <2>1
<1>8. ASSUME Decided(i, f, [input |-> x, lookup |-> "duplicate"]),
             healthy' = [healthy EXCEPT ![i] = TRUE], NoFault
      PROVE  IInv'
  <2>1. healthy' \in [Instances -> BOOLEAN]
    BY <1>0, <1>8, HealthTyped
  <2>2. faults' \in 0..MaxFaults
    BY <1>0, <1>8, FaultTyped
  <2> QED
    BY <1>4, <1>6, <1>8, <2>1, <2>2
<1>9. ASSUME Decided(i, f, [input |-> x, lookup |-> "error"]),
             healthy' = [healthy EXCEPT ![i] = FALSE], Fault
      PROVE  IInv'
  <2>1. healthy' \in [Instances -> BOOLEAN]
    BY <1>0, <1>9, HealthTyped
  <2>2. faults' \in 0..MaxFaults
    BY <1>0, <1>9, FaultTyped
  <2> QED
    BY <1>4, <1>6, <1>9, <2>1, <2>2
<1> QED
  BY <1>1, <1>5, <1>7, <1>8, <1>9

(* The store's SET. *)
LEMMA RememberKept ==
    ASSUME IInv, NEW i \in Instances, Remember(i)
    PROVE  IInv'
<1>0. TypeOK
  BY DEF IInv
<1> DEFINE f == current[i]
           x == pending[i]
<1>1. f \in Fingerprints /\ x \in Inputs
  BY DEF IInv, WorkSound, Remember
<1>2. \/ /\ SetNx(f, x)
         /\ Decided(i, f, [input |-> x, lookup |-> "new"])
         /\ Opens(i, f, x)
         /\ healthy' = [healthy EXCEPT ![i] = TRUE]
         /\ NoFault
      \/ /\ SetNx(f, x) \/ UNCHANGED redis
         /\ Decided(i, f, [input |-> x, lookup |-> "error"])
         /\ healthy' = [healthy EXCEPT ![i] = FALSE]
         /\ Fault
         /\ UNCHANGED window
  BY Zenon DEF Remember
<1> HIDE DEF f, x
<1>3. UNCHANGED <<store, rows, sent, pages, due, status, crashes>>
  BY DEF Remember
<1>4. PICK d \in Decision : Decided(i, f, d)
  <2>1. /\ [input |-> x, lookup |-> "new"] \in Decision
        /\ [input |-> x, lookup |-> "error"] \in Decision
    BY <1>1 DEF Decision, Answer, Lookup
  <2> QED
    BY <1>2, <2>1, Zenon
<1>5. BeforeDedupe(x).action \in Action
  <2>1. x \in GateInput
    BY <1>1, HotPathAssumption
  <2> QED
    BY <2>1, BeforeDedupeTyped DEF Evaluation
<1>6. Ttl[BeforeDedupe(x).action] \in Nat
  BY <1>5, HotPathAssumption
<1>7. Lives(f, x) \in Nat
  BY <1>0, <1>1, <1>6 DEF TypeOK, Lives
<1>8. redis' \in [Fingerprints -> Nat]
  BY <1>0, <1>1, <1>2, <1>7 DEF TypeOK, SetNx
<1>9. window' \in [Instances -> [Fingerprints -> Nat]]
  <2>1. window' = [window EXCEPT ![i][f] = Lives(f, x)] \/ window' = window
    BY <1>2 DEF Opens
  <2>2. window \in [Instances -> [Fingerprints -> Nat]]
    BY <1>0 DEF TypeOK
  <2> QED
    BY <1>1, <1>7, <2>1, <2>2
<1>10. healthy' \in [Instances -> BOOLEAN] /\ faults' \in 0..MaxFaults
  <2>1. \/ healthy' = [healthy EXCEPT ![i] = TRUE]
        \/ healthy' = [healthy EXCEPT ![i] = FALSE]
    BY <1>2, Zenon
  <2>2. healthy' \in [Instances -> BOOLEAN]
    BY <1>0, <2>1, HealthTyped
  <2> QED
    BY <1>0, <1>2, <2>2, FaultTyped
<1>11. TypeOK'
  BY <1>0, <1>1, <1>3, <1>4, <1>8, <1>9, <1>10, DecidedTyped DEF TypeOK
<1>12. Quiet
  BY <1>1, <1>3, <1>4, DecidedQuiet
<1> QED
  BY <1>11, <1>12, QuietKept

-----------------------------------------------------------------------------
(* The loop over the cases. *)

(* Leaving a case is well-typed and moves only the instance that leaves it. *)
LEMMA CaseEndsTyped ==
    ASSUME TypeOK, NEW i \in Instances, NEW f \in Fingerprints, CaseEnds(i, f)
    PROVE  /\ decided' \in [Instances -> [Fingerprints -> Decision \cup {None}]]
           /\ current' \in [Instances -> Fingerprints \cup {None}]
           /\ pc' \in [Instances -> Steps]
           /\ pc'[i] \in {"degraded", "case"}
           /\ \A j \in Instances \ {i} : /\ pc'[j] = pc[j]
                                         /\ current'[j] = current[j]
                                         /\ decided'[j] = decided[j]
  BY DEF TypeOK, CaseEnds, Goto, Steps

(* So is going on with a case. *)
LEMMA CaseGoesOnTyped ==
    ASSUME TypeOK, NEW i \in Instances, NEW f \in Fingerprints,
           NEW step \in {"insert", "dispatch"}, CaseGoesOn(i, f, step)
    PROVE  /\ current' \in [Instances -> Fingerprints \cup {None}]
           /\ pc' \in [Instances -> Steps]
           /\ pc'[i] = step /\ current'[i] = f
           /\ \A j \in Instances \ {i} : /\ pc'[j] = pc[j]
                                         /\ current'[j] = current[j]
           /\ decided' = decided
  BY DEF TypeOK, CaseGoesOn, Goto, Steps

(* An instance that leaves its case, having at most completed the store and the outbox *)
(* with its own casefile and row, keeps the invariant.                                  *)
LEMMA CaseEndsKept ==
    ASSUME IInv, TypeOK', NEW i \in Instances, NEW f \in Fingerprints, CaseEnds(i, f),
           \A g \in Fingerprints : store[g] # None => store'[g] = store[g],
           rows \subseteq rows',
           UNCHANGED <<sent, pages, pending>>
    PROVE  IInv'
<1>0. TypeOK
  BY DEF IInv
<1>1. /\ pc'[i] \in {"degraded", "case"}
      /\ \A j \in Instances \ {i} : /\ pc'[j] = pc[j]
                                    /\ current'[j] = current[j]
                                    /\ decided'[j] = decided[j]
  BY <1>0, CaseEndsTyped
<1>2. PagesJustified' /\ OneNoticePerCase'
  BY DEF IInv, PagesJustified, OneNoticePerCase
<1>3. ASSUME NEW j \in Instances PROVE WorkSound(j)'
  BY <1>1 DEF IInv, WorkSound, Holds
<1>4. DurableBeforeDispatch'
  <2>1. \A p \in pages' : p[1] \in rows'
    BY DEF IInv, DurableBeforeDispatch
  <2>2. ASSUME NEW j \in Instances, pc'[j] = "dispatch"
        PROVE  current'[j] \in rows' /\ store'[current'[j]] = decided'[j][current'[j]]
    BY <1>1, <1>3, <2>2 DEF IInv, DurableBeforeDispatch, WorkSound, Holds
  <2> QED
    BY <2>1, <2>2 DEF DurableBeforeDispatch
<1>5. (\A j, k \in Instances : (j # k /\ Holds(j) /\ Holds(k)) => current[j] # current[k])'
  BY <1>1 DEF IInv, Holds
<1>6. (\A g \in Fingerprints, n \in Notice : g \notin rows => sent[g][n] = 0)'
  BY DEF IInv
<1>7. (\A j \in Instances, n \in Notice : pc[j] = "dispatch" => sent[current[j]][n] = 0)'
  BY <1>1 DEF IInv
<1> QED
  BY <1>2, <1>3, <1>4, <1>5, <1>6, <1>7 DEF IInv

(* The write-once store takes a casefile only where there is none, so no other instance *)
(* holds the case.                                                                       *)
LEMMA PersistCasefileKept ==
    ASSUME IInv, NEW i \in Instances, PersistCasefile(i)
    PROVE  IInv'
<1>0. TypeOK
  BY DEF IInv
<1>1. PICK f \in Fingerprints :
        /\ decided[i][f] # None
        /\ \/ /\ store[f] = None
              /\ store' = [store EXCEPT ![f] = decided[i][f]]
              /\ CaseGoesOn(i, f, "insert")
              /\ NoFault
           \/ /\ store[f] # None
              /\ UNCHANGED store
              /\ CaseEnds(i, f)
              /\ NoFault
           \/ /\ Fault
              /\ \/ UNCHANGED store
                 \/ store[f] = None /\ store' = [store EXCEPT ![f] = decided[i][f]]
              /\ CaseEnds(i, f)
  BY Zenon DEF PersistCasefile
<1>2. UNCHANGED <<redis, rows, sent, pages, window, due, todo, pending, healthy, status, crashes>>
  BY DEF PersistCasefile
<1>3. faults' \in 0..MaxFaults
  BY <1>0, <1>1, FaultTyped
<1>4. \/ store' = store
      \/ store[f] = None /\ store' = [store EXCEPT ![f] = decided[i][f]]
  BY <1>1
<1>5. /\ store' \in [Fingerprints -> Decision \cup {None}]
      /\ \A g \in Fingerprints : store[g] # None => store'[g] = store[g]
  <2>1. decided[i][f] \in Decision /\ store \in [Fingerprints -> Decision \cup {None}]
    BY <1>0, <1>1 DEF TypeOK
  <2> QED
    BY <1>4, <2>1
<1>6. CASE CaseEnds(i, f)
  <2>1. TypeOK'
    BY <1>0, <1>2, <1>3, <1>5, <1>6, CaseEndsTyped DEF TypeOK
  <2> QED
    BY <1>2, <1>5, <1>6, <2>1, CaseEndsKept
<1>7. CASE /\ store[f] = None
           /\ store' = [store EXCEPT ![f] = decided[i][f]]
           /\ CaseGoesOn(i, f, "insert")
  <2>1. /\ current' \in [Instances -> Fingerprints \cup {None}]
        /\ pc' \in [Instances -> Steps]
        /\ pc'[i] = "insert" /\ current'[i] = f
        /\ \A j \in Instances \ {i} : pc'[j] = pc[j] /\ current'[j] = current[j]
        /\ decided' = decided
    BY <1>0, <1>7, CaseGoesOnTyped
  <2>2. TypeOK'
    BY <1>0, <1>2, <1>3, <1>5, <2>1 DEF TypeOK
  <2>3. \A j \in Instances : Holds(j) => current[j] \in Fingerprints \ {f}
    BY <1>7 DEF IInv, WorkSound
  <2>4. store'[f] = decided[i][f]
    BY <1>0, <1>7 DEF TypeOK
  <2>5. PagesJustified' /\ OneNoticePerCase'
    BY <1>2 DEF IInv, PagesJustified, OneNoticePerCase
  <2>6. ASSUME NEW j \in Instances PROVE WorkSound(j)'
    <3>1. CASE j = i
      BY <1>1, <2>1, <2>4, <3>1 DEF WorkSound, Holds
    <3>2. CASE j # i
      BY <1>2, <1>5, <2>1, <3>2 DEF IInv, WorkSound, Holds
    <3> QED
      BY <3>1, <3>2
  <2>7. DurableBeforeDispatch'
    BY <1>2, <2>1, <2>6 DEF IInv, DurableBeforeDispatch, WorkSound, Holds
  <2>8. (\A j, k \in Instances : (j # k /\ Holds(j) /\ Holds(k)) => current[j] # current[k])'
    BY <2>1, <2>3 DEF IInv, Holds
  <2>9. (\A g \in Fingerprints, n \in Notice : g \notin rows => sent[g][n] = 0)'
    BY <1>2 DEF IInv
  <2>10. (\A j \in Instances, n \in Notice : pc[j] = "dispatch" => sent[current[j]][n] = 0)'
    BY <1>2, <2>1 DEF IInv
  <2> QED
    BY <2>2, <2>5, <2>6, <2>7, <2>8, <2>9, <2>10 DEF IInv
<1> QED
  BY <1>1, <1>6, <1>7, Zenon

(* The row goes in once, so nothing has been sent for a case whose row is new. *)
LEMMA InsertPendingObjectKept ==
    ASSUME IInv, NEW i \in Instances, InsertPendingObject(i)
    PROVE  IInv'
<1>0. TypeOK
  BY DEF IInv
<1> DEFINE f == current[i]
<1>1. pc[i] = "insert" /\ f \in Fingerprints /\ decided[i][f] # None /\ store[f] = decided[i][f]
  BY DEF IInv, WorkSound, Holds, InsertPendingObject
<1>2. \/ /\ f \notin rows
         /\ rows' = rows \cup {f}
         /\ CaseGoesOn(i, f, "dispatch")
         /\ NoFault
      \/ /\ rows' = rows \/ rows' = rows \cup {f}
         /\ CaseEnds(i, f)
         /\ NoFault \/ Fault
  BY Zenon DEF InsertPendingObject
<1>3. UNCHANGED <<redis, store, sent, pages, window, due, todo, pending, healthy, status, crashes>>
  BY DEF InsertPendingObject
<1>4. faults' \in 0..MaxFaults
  BY <1>0, <1>2, FaultTyped
<1>5. rows' \subseteq Fingerprints /\ rows \subseteq rows'
  BY <1>0, <1>1, <1>2 DEF TypeOK
<1> HIDE DEF f
<1>6. CASE CaseEnds(i, f)
  <2>1. TypeOK'
    BY <1>0, <1>1, <1>3, <1>4, <1>5, <1>6, CaseEndsTyped DEF TypeOK
  <2> QED
    BY <1>1, <1>3, <1>5, <1>6, <2>1, CaseEndsKept
<1>7. CASE f \notin rows /\ rows' = rows \cup {f} /\ CaseGoesOn(i, f, "dispatch")
  <2>1. /\ current' \in [Instances -> Fingerprints \cup {None}]
        /\ pc' \in [Instances -> Steps]
        /\ pc'[i] = "dispatch" /\ current'[i] = f
        /\ \A j \in Instances \ {i} : pc'[j] = pc[j] /\ current'[j] = current[j]
        /\ decided' = decided
    BY <1>0, <1>1, <1>7, CaseGoesOnTyped
  <2>2. TypeOK'
    BY <1>0, <1>3, <1>4, <1>5, <2>1 DEF TypeOK
  <2>3. \A n \in Notice : sent[f][n] = 0
    BY <1>1, <1>7 DEF IInv
  <2>4. PagesJustified' /\ OneNoticePerCase'
    BY <1>3 DEF IInv, PagesJustified, OneNoticePerCase
  <2>5. ASSUME NEW j \in Instances PROVE WorkSound(j)'
    BY <1>1, <1>3, <2>1 DEF IInv, WorkSound, Holds
  <2>6. DurableBeforeDispatch'
    BY <1>1, <1>3, <1>7, <2>1 DEF IInv, DurableBeforeDispatch
  <2>7. (\A j, k \in Instances : (j # k /\ Holds(j) /\ Holds(k)) => current[j] # current[k])'
    BY <1>1, <2>1 DEF IInv, Holds, f
  <2>8. (\A g \in Fingerprints, n \in Notice : g \notin rows => sent[g][n] = 0)'
    BY <1>3, <1>5 DEF IInv
  <2>9. (\A j \in Instances, n \in Notice : pc[j] = "dispatch" => sent[current[j]][n] = 0)'
    BY <1>3, <2>1, <2>3 DEF IInv
  <2> QED
    BY <2>2, <2>4, <2>5, <2>6, <2>7, <2>8, <2>9 DEF IInv
<1> QED
  BY <1>2, <1>6, <1>7, Zenon

(* What leaves is what the gates allowed, for a case that is durable and has sent nothing. *)
LEMMA DispatchActionKept ==
    ASSUME IInv, NEW i \in Instances, DispatchAction(i)
    PROVE  IInv'
<1>0. TypeOK
  BY DEF IInv
<1> DEFINE f == current[i]
           d == decided[i][f]
<1>1. /\ pc[i] = "dispatch" /\ f \in Fingerprints /\ d # None
      /\ f \in rows
      /\ \A n \in Notice : sent[f][n] = 0
  BY DEF IInv, DurableBeforeDispatch, WorkSound, Holds, DispatchAction
<1>2. d \in Decision
  BY <1>0, <1>1 DEF TypeOK
<1>3. PICK out \in SUBSET Notices(d) :
        /\ sent' = [sent EXCEPT ![f] = [n \in Notice |-> IF n \in out THEN @[n] + 1 ELSE @[n]]]
        /\ pages' = IF "page" \in out THEN pages \cup {<<f, d>>} ELSE pages
        /\ IF out = Notices(d) THEN NoFault ELSE Fault
        /\ CaseEnds(i, f)
  BY Zenon DEF DispatchAction
<1>4. UNCHANGED <<redis, store, rows, window, due, todo, pending, healthy, status, crashes>>
  BY DEF DispatchAction
<1>5. \A j \in Instances \ {i} : Holds(j) => current[j] # f
  BY <1>1 DEF IInv, Holds
<1> HIDE DEF f, d
<1>6. faults' \in 0..MaxFaults
  BY <1>0, <1>3, FaultTyped
<1>7. "page" \in out => Justified(d.input, d.lookup)
  <2>1. d.input \in GateInput
    BY <1>2, HotPathAssumption DEF Decision
  <2>2. "page" \in out => Result(d).action = "PAGE"
    BY DEF Notices
  <2> QED
    BY <2>1, <2>2, GatesConfinePaging DEF Result
<1>8. /\ sent' \in [Fingerprints -> [Notice -> Nat]]
      /\ \A n \in Notice : sent'[f][n] <= 1
      /\ \A g \in Fingerprints \ {f} : sent'[g] = sent[g]
  <2>1. sent[f] \in [Notice -> Nat]
    BY <1>0, <1>1 DEF TypeOK
  <2>2. sent'[f] = [n \in Notice |-> IF n \in out THEN sent[f][n] + 1 ELSE sent[f][n]]
    BY <1>0, <1>1, <1>3 DEF TypeOK
  <2>3. sent'[f] \in [Notice -> Nat] /\ \A n \in Notice : sent'[f][n] <= 1
    BY <1>1, <2>1, <2>2
  <2>4. sent' = [sent EXCEPT ![f] = sent'[f]]
    BY <1>0, <1>1, <1>3, <2>2 DEF TypeOK
  <2> QED
    BY <1>0, <1>1, <2>3, <2>4 DEF TypeOK
<1>9. pages' \subseteq Fingerprints \X Decision
  BY <1>0, <1>1, <1>2, <1>3 DEF TypeOK
<1>10. /\ decided' \in [Instances -> [Fingerprints -> Decision \cup {None}]]
       /\ current' \in [Instances -> Fingerprints \cup {None}]
       /\ pc' \in [Instances -> Steps]
       /\ pc'[i] \in {"degraded", "case"}
       /\ \A j \in Instances \ {i} : /\ pc'[j] = pc[j]
                                     /\ current'[j] = current[j]
                                     /\ decided'[j] = decided[j]
  BY <1>0, <1>1, <1>3, CaseEndsTyped
<1>11. TypeOK'
  BY <1>0, <1>4, <1>6, <1>8, <1>9, <1>10 DEF TypeOK
<1>12. PagesJustified'
  <2>1. ASSUME NEW p \in pages' PROVE Justified(p[2].input, p[2].lookup)
    <3>1. CASE p \in pages
      BY <3>1 DEF IInv, PagesJustified
    <3>2. CASE "page" \in out /\ p = <<f, d>>
      BY <1>7, <3>2
    <3> QED
      BY <1>3, <3>1, <3>2
  <2> QED
    BY <2>1 DEF PagesJustified
<1>13. DurableBeforeDispatch'
  <2>1. \A p \in pages' : p[1] \in rows'
    BY <1>1, <1>3, <1>4 DEF IInv, DurableBeforeDispatch
  <2>2. ASSUME NEW j \in Instances, pc'[j] = "dispatch"
        PROVE  current'[j] \in rows' /\ store'[current'[j]] = decided'[j][current'[j]]
    BY <1>4, <1>10, <2>2 DEF IInv, DurableBeforeDispatch
  <2> QED
    BY <2>1, <2>2 DEF DurableBeforeDispatch
<1>14. OneNoticePerCase'
  BY <1>8 DEF IInv, OneNoticePerCase
<1>15. ASSUME NEW j \in Instances PROVE WorkSound(j)'
  BY <1>4, <1>10 DEF IInv, WorkSound, Holds
<1>16. (\A j, k \in Instances : (j # k /\ Holds(j) /\ Holds(k)) => current[j] # current[k])'
  BY <1>10 DEF IInv, Holds
<1>17. (\A g \in Fingerprints, n \in Notice : g \notin rows => sent[g][n] = 0)'
  BY <1>1, <1>4, <1>8 DEF IInv
<1>18. (\A j \in Instances, n \in Notice : pc[j] = "dispatch" => sent[current[j]][n] = 0)'
  <2> SUFFICES ASSUME NEW j \in Instances, NEW n \in Notice, pc'[j] = "dispatch"
               PROVE  sent'[current'[j]][n] = 0
    OBVIOUS
  <2>1. j # i /\ pc[j] = "dispatch" /\ current'[j] = current[j]
    BY <1>10
  <2>2. current[j] \in Fingerprints \ {f}
    BY <1>5, <2>1 DEF IInv, WorkSound, Holds
  <2> QED
    BY <1>8, <2>1, <2>2 DEF IInv
<1> QED
  BY <1>11, <1>12, <1>13, <1>14, <1>15, <1>16, <1>17, <1>18 DEF IInv

(* The end of a cycle. *)
LEMMA EmitDegradedKept ==
    ASSUME IInv, NEW i \in Instances, EmitDegraded(i)
    PROVE  IInv'
<1>1. TypeOK'
  BY DEF IInv, TypeOK, EmitDegraded, Goto, Steps
<1>2. Quiet
  BY DEF IInv, TypeOK, EmitDegraded, Goto, Quiet, WorkSound, Holds
<1> QED
  BY <1>1, <1>2, QuietKept

-----------------------------------------------------------------------------
(* The environment. *)

(* A crash lets go of whatever the instance held. *)
LEMMA CrashKept ==
    ASSUME IInv, NEW i \in Instances, Crash(i)
    PROVE  IInv'
<1>1. TypeOK'
  BY HotPathAssumption DEF IInv, TypeOK, Crash, Goto, Steps, Undecided
<1>2. pc'[i] = "idle"
      /\ \A j \in Instances \ {i} : /\ pc'[j] = pc[j]
                                    /\ current'[j] = current[j]
                                    /\ pending'[j] = pending[j]
                                    /\ decided'[j] = decided[j]
  BY DEF IInv, TypeOK, Crash, Goto
<1>3. Quiet
  BY <1>2 DEF IInv, Crash, Quiet, WorkSound, Holds
<1> QED
  BY <1>1, <1>3, QuietKept

(* A purge removes a casefile no instance is working on. *)
LEMMA PurgeKept ==
    ASSUME IInv, NEW f \in Fingerprints, Purge(f)
    PROVE  IInv'
<1>1. TypeOK'
  BY DEF IInv, TypeOK, Purge
<1>2. \A j \in Instances : Holds(j) => store'[current[j]] = store[current[j]]
  BY DEF IInv, TypeOK, WorkSound, Purge
<1>3. UNCHANGED <<rows, sent, pages, pc, decided, current, pending>>
  BY DEF Purge
<1>4. PagesJustified' /\ OneNoticePerCase'
  BY <1>3 DEF IInv, PagesJustified, OneNoticePerCase
<1>5. ASSUME NEW j \in Instances PROVE WorkSound(j)'
  BY <1>2, <1>3 DEF IInv, WorkSound, Holds
<1>6. DurableBeforeDispatch'
  BY <1>2, <1>3 DEF IInv, DurableBeforeDispatch, Holds
<1>7. (\A j, k \in Instances : (j # k /\ Holds(j) /\ Holds(k)) => current[j] # current[k])'
  BY <1>3 DEF IInv, Holds
<1>8. /\ (\A g \in Fingerprints, n \in Notice : g \notin rows => sent[g][n] = 0)'
      /\ (\A j \in Instances, n \in Notice : pc[j] = "dispatch" => sent[current[j]][n] = 0)'
  BY <1>3 DEF IInv
<1> QED
  BY <1>1, <1>4, <1>5, <1>6, <1>7, <1>8 DEF IInv

(* An interval passes. *)
LEMMA TickKept ==
    ASSUME IInv, Tick
    PROVE  IInv'
<1>1. \A left \in [Fingerprints -> Nat] : Passes(left) \in [Fingerprints -> Nat]
  BY DEF Passes
<1>2. TypeOK'
  BY <1>1 DEF IInv, TypeOK, Tick
<1>3. Quiet
  BY DEF IInv, Tick, Quiet, WorkSound, Holds
<1> QED
  BY <1>2, <1>3, QuietKept

(* Every step of the specification keeps the invariant. *)
LEMMA NextKept ==
    ASSUME IInv, [Next]_vars
    PROVE  IInv'
<1>1. ASSUME NEW i \in Instances, CycleStep(i) PROVE IInv'
  BY <1>1, StartCycleKept, EvaluateGatesKept, RememberKept, PersistCasefileKept,
     InsertPendingObjectKept, DispatchActionKept, EmitDegradedKept, Zenon DEF CycleStep
<1>2. ASSUME NEW i \in Instances, Crash(i) PROVE IInv'
  BY <1>2, CrashKept
<1>3. ASSUME NEW f \in Fingerprints, Purge(f) PROVE IInv'
  BY <1>3, PurgeKept
<1>4. ASSUME Tick PROVE IInv'
  BY <1>4, TickKept
<1>5. ASSUME UNCHANGED vars PROVE IInv'
  <2>1. TypeOK'
    BY <1>5 DEF vars, IInv, TypeOK
  <2>2. Quiet
    BY <1>5 DEF vars, IInv, Quiet, WorkSound, Holds
  <2> QED
    BY <2>1, <2>2, QuietKept
<1> QED
  BY <1>1, <1>2, <1>3, <1>4, <1>5, Zenon DEF Next

-----------------------------------------------------------------------------
(* The inductive invariant holds in every reachable state of the hot path, for any number *)
(* of instances, whatever fails, crashes or expires.                                      *)
THEOREM HotPathInductive == Spec => []IInv
<1>1. Init => IInv
  BY InitKept
<1>2. IInv /\ [Next]_vars => IInv'
  BY NextKept
<1> QED
  BY <1>1, <1>2, PTL DEF Spec

(* The type invariant. *)
THEOREM HotPathTypeCorrect == Spec => []TypeOK
<1>1. IInv => TypeOK
  BY DEF IInv
<1> QED
  BY <1>1, HotPathInductive, PTL

(* A page leaves the system only for a decision that met every paging condition. *)
THEOREM PagesJustifiedHolds == Spec => []PagesJustified
<1>1. IInv => PagesJustified
  BY DEF IInv
<1> QED
  BY <1>1, HotPathInductive, PTL

(* An action leaves only once its own casefile is stored and its row is in the outbox. *)
THEOREM DurableBeforeDispatchHolds == Spec => []DurableBeforeDispatch
<1>1. IInv => DurableBeforeDispatch
  BY DEF IInv
<1> QED
  BY <1>1, HotPathInductive, PTL

(* A case is paged, and its postmortem asked for, at most once. *)
THEOREM OneNoticePerCaseHolds == Spec => []OneNoticePerCase
<1>1. IInv => OneNoticePerCase
  BY DEF IInv
<1> QED
  BY <1>1, HotPathInductive, PTL

-----------------------------------------------------------------------------
(* What the race of the instances leaves of storm control. *)

\* No instance counts on a key for longer than the key lives, and none that found the key
\* missing still counts on one.
WindowsKept ==
    /\ \A i \in Instances, f \in Fingerprints : window[i][f] <= redis[f]
    /\ \A i \in Instances : pc[i] = "remember" => window[i][current[i]] = 0

StormInv == IInv /\ WindowsKept

\* Only i moves on in its cycle.
Alone(i) ==
    \A j \in Instances \ {i} : /\ pc'[j] = pc[j] /\ current'[j] = current[j]
                               /\ decided'[j] = decided[j]

\* i is granted nothing while it counts on a key.
GrantsSound(i) ==
    \A f \in Fingerprints : (~Granted(i, f) /\ Granted(i, f)') => window[i][f] = 0

(* A step of one instance keeps the windows if it does so for that instance. *)
LEMMA OneMoves ==
    ASSUME StormInv, NEW i \in Instances, Alone(i), GrantsSound(i),
           \A f \in Fingerprints : redis[f] <= redis'[f] /\ window'[i][f] <= redis'[f],
           redis' \in [Fingerprints -> Nat],
           \A j \in Instances \ {i} : window'[j] = window[j],
           pc'[i] = "remember" => window'[i][current'[i]] = 0
    PROVE  WindowsKept' /\ \A j \in Instances : GrantsSound(j)
<1>1. TypeOK
  BY DEF StormInv, IInv
<1>2. ASSUME NEW j \in Instances, NEW f \in Fingerprints PROVE window'[j][f] <= redis'[f]
  <2>1. CASE j = i
    BY <2>1
  <2>2. CASE j # i
    <3>1. window'[j][f] = window[j][f] /\ window[j][f] <= redis[f]
      BY <2>2 DEF StormInv, WindowsKept
    <3>2. window[j][f] \in Nat /\ redis[f] \in Nat /\ redis'[f] \in Nat
      BY <1>1 DEF TypeOK
    <3> QED
      BY <3>1, <3>2
  <2> QED
    BY <2>1, <2>2
<1>3. ASSUME NEW j \in Instances, pc'[j] = "remember" PROVE window'[j][current'[j]] = 0
  BY <1>3 DEF Alone, StormInv, WindowsKept
<1>4. ASSUME NEW j \in Instances PROVE GrantsSound(j)
  BY DEF Alone, GrantsSound, Granted
<1> QED
  BY <1>2, <1>3, <1>4 DEF WindowsKept

(* The SET: the key lives at least as long as the instance counts on it. *)
LEMMA RememberWindows ==
    ASSUME StormInv, NEW i \in Instances, Remember(i)
    PROVE  WindowsKept' /\ \A j \in Instances : GrantsSound(j)
<1>1. /\ TypeOK /\ pc[i] = "remember"
      /\ current[i] \in Fingerprints /\ pending[i] \in Inputs
  BY DEF StormInv, IInv, WorkSound, Remember
<1>2. PICK f : f = current[i] /\ f \in Fingerprints
  BY <1>1
<1>3. window[i][f] = 0
  BY <1>1, <1>2 DEF StormInv, WindowsKept
<1>4. PICK life : life = Lives(f, pending[i])
  OBVIOUS
<1>5. life \in Nat /\ redis[f] \in Nat /\ redis[f] <= life
  <2>1. pending[i] \in GateInput
    BY <1>1, HotPathAssumption
  <2>2. BeforeDedupe(pending[i]).action \in Action
    BY <2>1, BeforeDedupeTyped DEF Evaluation
  <2>3. Ttl[BeforeDedupe(pending[i]).action] \in Nat
    BY <2>2, HotPathAssumption
  <2>4. redis[f] \in Nat
    BY <1>1, <1>2 DEF TypeOK
  <2> QED
    BY <1>4, <2>3, <2>4 DEF Lives
<1>6. PICK l : Decided(i, f, [input |-> pending[i], lookup |-> l])
  BY <1>2 DEF Remember
<1>7. /\ pc'[i] # "remember" /\ Alone(i)
      /\ \A g \in Fingerprints : g # f => decided'[i][g] = decided[i][g]
  BY <1>1, <1>6 DEF TypeOK, Decided, Goto, Alone
<1>8. \/ /\ redis' = [redis EXCEPT ![f] = life]
         /\ window' = [window EXCEPT ![i][f] = life] \/ window' = window
      \/ redis' = redis /\ window' = window
  BY <1>2, <1>4 DEF Remember, SetNx, Opens
<1>9. /\ redis \in [Fingerprints -> Nat] /\ redis' \in [Fingerprints -> Nat]
      /\ window \in [Instances -> [Fingerprints -> Nat]]
  BY <1>1, <1>5, <1>8 DEF TypeOK
<1>10. ASSUME NEW g \in Fingerprints
       PROVE  redis[g] <= redis'[g] /\ window'[i][g] <= redis'[g]
  <2>1. window[i][g] <= redis[g] /\ redis[g] \in Nat /\ window[i][g] \in Nat
    BY <1>9 DEF StormInv, WindowsKept
  <2>2. CASE g = f
    <3>1. \/ redis'[f] = life /\ (window'[i][f] = life \/ window'[i][f] = 0)
          \/ redis'[f] = redis[f] /\ window'[i][f] = 0
      BY <1>2, <1>3, <1>8, <1>9
    <3> QED
      BY <1>5, <2>2, <3>1
  <2>3. CASE g # f
    <3>1. redis'[g] = redis[g] /\ window'[i][g] = window[i][g]
      BY <1>8, <1>9, <2>3
    <3> QED
      BY <2>1, <3>1
  <2> QED
    BY <2>2, <2>3
<1>11. \A j \in Instances \ {i} : window'[j] = window[j]
  BY <1>8, <1>9
<1>12. GrantsSound(i)
  BY <1>3, <1>7 DEF GrantsSound, Granted
<1> QED
  BY <1>7, <1>9, <1>10, <1>11, <1>12, OneMoves

(* A step of an instance that touches no key and is granted nothing. *)
LEMMA OtherWindows ==
    ASSUME StormInv, NEW i \in Instances, Alone(i), UNCHANGED <<redis, window>>,
           \A f \in Fingerprints : Granted(i, f)' => Granted(i, f),
           pc'[i] = "remember" => current'[i] \in Fingerprints /\ redis[current'[i]] = 0
    PROVE  WindowsKept' /\ \A j \in Instances : GrantsSound(j)
<1>1. /\ redis \in [Fingerprints -> Nat] /\ window \in [Instances -> [Fingerprints -> Nat]]
      /\ \A f \in Fingerprints : window[i][f] <= redis[f]
  BY DEF StormInv, IInv, TypeOK, WindowsKept
<1>2. \A f \in Fingerprints : redis[f] \in Nat /\ window[i][f] \in Nat
  BY <1>1
<1>3. pc'[i] = "remember" => window'[i][current'[i]] = 0
  BY <1>1, <1>2
<1>4. \A f \in Fingerprints : redis[f] <= redis'[f] /\ window'[i][f] <= redis'[f]
  BY <1>1, <1>2
<1> QED
  BY <1>1, <1>3, <1>4, OneMoves DEF GrantsSound

(* The GET: an instance that goes on to the SET found no key. *)
LEMMA GatesWindows ==
    ASSUME StormInv, NEW i \in Instances, EvaluateGates(i)
    PROVE  WindowsKept' /\ \A j \in Instances : GrantsSound(j)
<1>1. TypeOK /\ UNCHANGED <<redis, window>> /\ pc[i] = "gate"
  BY DEF StormInv, IInv, EvaluateGates
<1>2. PICK f \in todo[i], x \in Inputs :
        \/ \E l \in {"unasked", "duplicate", "error"} :
              Decided(i, f, [input |-> x, lookup |-> l])
        \/ /\ redis[f] = 0
           /\ current' = [current EXCEPT ![i] = f]
           /\ Goto(i, "remember")
           /\ UNCHANGED decided
  BY Zenon DEF EvaluateGates
<1>3. f \in Fingerprints
  BY <1>1 DEF TypeOK
<1>4. ASSUME NEW l \in {"unasked", "duplicate", "error"},
             Decided(i, f, [input |-> x, lookup |-> l])
      PROVE  /\ pc'[i] # "remember" /\ Alone(i)
             /\ \A g \in Fingerprints : Granted(i, g)' => Granted(i, g)
  <2>1. pc'[i] # "remember" /\ Alone(i)
    BY <1>1, <1>4 DEF Decided, Goto, TypeOK, Alone
  <2>2. /\ decided'[i][f] = [input |-> x, lookup |-> l]
        /\ \A g \in Fingerprints : g # f => decided'[i][g] = decided[i][g]
    BY <1>1, <1>3, <1>4 DEF Decided, TypeOK
  <2>3. decided'[i][f].lookup # "new"
    BY <2>2
  <2> QED
    BY <2>1, <2>2, <2>3 DEF Granted
<1>5. ASSUME redis[f] = 0, current' = [current EXCEPT ![i] = f], Goto(i, "remember"),
             UNCHANGED decided
      PROVE  /\ current'[i] \in Fingerprints /\ redis[current'[i]] = 0 /\ Alone(i)
             /\ \A g \in Fingerprints : Granted(i, g)' => Granted(i, g)
  BY <1>1, <1>3, <1>5 DEF TypeOK, Granted, Goto, Alone
<1> QED
  BY <1>1, <1>2, <1>4, <1>5, OtherWindows

LEMMA StormStep ==
    ASSUME StormInv, [Next]_vars
    PROVE  StormInv' /\ \A i \in Instances : GrantsSound(i)
<1>1. IInv' /\ TypeOK
  BY NextKept DEF StormInv, IInv
<1> SUFFICES WindowsKept' /\ \A i \in Instances : GrantsSound(i)
  BY <1>1 DEF StormInv
<1>2. ASSUME NEW i \in Instances, CycleStep(i) \/ Crash(i)
      PROVE  WindowsKept' /\ \A j \in Instances : GrantsSound(j)
  <2>1. CASE EvaluateGates(i)
    BY <2>1, GatesWindows
  <2>2. CASE Remember(i)
    BY <2>2, RememberWindows
  <2>3. CASE StartCycle(i) \/ EmitDegraded(i)
    <3>1. UNCHANGED <<redis, window, decided>> /\ pc'[i] # "remember" /\ Alone(i)
      BY <1>1, <2>3 DEF StartCycle, EmitDegraded, Goto, TypeOK, Alone
    <3> QED
      BY <3>1, OtherWindows DEF Granted
  <2>4. CASE Crash(i)
    <3>1. /\ UNCHANGED <<redis, window>> /\ pc'[i] # "remember" /\ Alone(i)
          /\ \A f \in Fingerprints : decided'[i][f] = None
      BY <1>1, <2>4 DEF Crash, Goto, TypeOK, Undecided, Alone
    <3> QED
      BY <3>1, OtherWindows DEF Granted
  <2>5. CASE PersistCasefile(i) \/ InsertPendingObject(i) \/ DispatchAction(i)
    <3>1. UNCHANGED <<redis, window>>
      BY <2>5 DEF PersistCasefile, InsertPendingObject, DispatchAction
    <3>2. \E f : CaseEnds(i, f) \/ CaseGoesOn(i, f, "insert") \/ CaseGoesOn(i, f, "dispatch")
      BY <2>5 DEF PersistCasefile, InsertPendingObject, DispatchAction
    <3>3. ASSUME NEW f, CaseEnds(i, f)
          PROVE  /\ pc'[i] # "remember" /\ Alone(i)
                 /\ \A g \in Fingerprints : decided'[i][g] \in {decided[i][g], None}
      BY <1>1, <3>3 DEF CaseEnds, Goto, TypeOK, Alone
    <3>4. ASSUME NEW f, CaseGoesOn(i, f, "insert") \/ CaseGoesOn(i, f, "dispatch")
          PROVE  pc'[i] # "remember" /\ Alone(i) /\ UNCHANGED decided
      BY <1>1, <3>4 DEF CaseGoesOn, Goto, TypeOK, Alone
    <3>5. /\ pc'[i] # "remember" /\ Alone(i)
          /\ \A g \in Fingerprints : decided'[i][g] \in {decided[i][g], None}
      BY <3>2, <3>3, <3>4
    <3> QED
      BY <3>1, <3>5, OtherWindows DEF Granted
  <2> QED
    BY <1>2, <2>1, <2>2, <2>3, <2>4, <2>5 DEF CycleStep
<1>3. CASE \E i \in Instances : CycleStep(i) \/ Crash(i)
  BY <1>2, <1>3
<1>4. CASE Tick
  <2>1. UNCHANGED <<pc, current, decided>>
    BY <1>4 DEF Tick
  <2>2. \A f \in Fingerprints :
          /\ redis'[f] = IF redis[f] = 0 THEN 0 ELSE redis[f] - 1
          /\ \A i \in Instances : window'[i][f] = IF window[i][f] = 0 THEN 0 ELSE window[i][f] - 1
    BY <1>4 DEF Tick, Passes
  <2>3. \A f \in Fingerprints, i \in Instances : redis[f] \in Nat /\ window[i][f] \in Nat
    BY <1>1 DEF TypeOK
  <2>4. \A i \in Instances, f \in Fingerprints : window'[i][f] <= redis'[f]
    BY <2>2, <2>3 DEF StormInv, WindowsKept
  <2>5. \A i \in Instances : pc'[i] = "remember" => window'[i][current'[i]] = 0
    BY <2>1, <2>2 DEF StormInv, IInv, WorkSound, WindowsKept
  <2> QED
    BY <2>1, <2>4, <2>5 DEF WindowsKept, GrantsSound, Granted
<1>5. CASE (\E f \in Fingerprints : Purge(f)) \/ UNCHANGED vars
  <2>1. UNCHANGED <<redis, window, pc, current, decided>>
    BY <1>5 DEF Purge, vars
  <2> QED
    BY <2>1 DEF StormInv, WindowsKept, GrantsSound, Granted
<1> QED
  BY <1>3, <1>4, <1>5 DEF Next

(* However many instances race for a fingerprint, AG5 lets at most one action through per  *)
(* instance while a key lives, whatever cycles, lost answers and restarts come in between. *)
THEOREM OneGrantPerInstanceHolds == Spec => OneGrantPerInstance
<1>1. Init => StormInv
  <2>1. Init => WindowsKept
    BY DEF Init, WindowsKept
  <2> QED
    BY <2>1, InitKept DEF StormInv
<1>2. StormInv /\ [Next]_vars => StormInv'
  BY StormStep
<1>3. StormInv /\ [Next]_vars =>
        [\A i \in Instances, f \in Fingerprints :
            (~Granted(i, f) /\ Granted(i, f)') => window[i][f] = 0]_vars
  BY StormStep DEF GrantsSound
<1> QED
  BY <1>1, <1>2, <1>3, PTL DEF Spec, OneGrantPerInstance

(* For every rulebook whose AG3 takes away the page and nothing else, as rulebook-v1 does, *)
(* for every set of gate inputs and in every state of the dedupe store, the sequence of    *)
(* gates decides what the order-free policy says.                                          *)
THEOREM MatchesReferenceHolds == CapTo["AG3"] = "TICKET" => MatchesReference
  BY NoDeviations DEF MatchesReference, DeviatingAnswers
=============================================================================
