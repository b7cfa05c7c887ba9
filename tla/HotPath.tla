------------------------------ MODULE HotPath ------------------------------
(***************************************************************************)
(* The hot-path loop of __main__.py: in every interval an instance gates   *)
(* the anomalies it found, asking Redis whether an action was taken        *)
(* lately, and then, case by case, writes the casefile, enqueues the       *)
(* outbox row and dispatches the action.  Several instances may run.       *)
(*                                                                         *)
(* A fingerprint determines its case (_derive_case_id), so fingerprints    *)
(* stand for cases too.  A casefile carries the time of its triage, so no  *)
(* two assemblies are equal: a casefile is its decision, and finding one   *)
(* already stored is always the write-once conflict.  Evidence, peak and   *)
(* topology stages are the choice of a cycle's anomalies and gate inputs.  *)
(***************************************************************************)
EXTENDS Gates

CONSTANTS
    Instances,     \* hot-path processes
    Fingerprints,  \* action fingerprints, and the cases derived from them
    Inputs,        \* the gate inputs the stages before Stage 6 may produce
    Ttl,           \* dedupe window of each action, in scheduler intervals
    MaxFaults,     \* bound on failing calls
    MaxCrashes,    \* bound on process crashes
    None

Answer == Lookup \cup {"unasked"}
Decision == [input: Inputs, lookup: Answer]
\* What dispatch_action sends out: the PagerDuty trigger, the Slack postmortem notice.
Notice == {"page", "postmortem"}

ASSUME HotPathAssumption ==
    /\ Inputs \subseteq GateInput
    /\ Ttl \in [Action -> Nat \ {0}]
    /\ MaxFaults \in Nat
    /\ MaxCrashes \in Nat
    /\ None \notin Decision \cup Fingerprints \cup Inputs

VARIABLES
    redis,     \* fingerprint -> intervals its dedupe key has left, 0 when absent
    store,     \* object store: case -> decision in its triage.json, or None
    rows,      \* cases with an outbox row
    sent,      \* fingerprint -> notice -> how often it left the system
    pages,     \* the decisions behind the pages that left the system
    window,    \* history: per instance and fingerprint, how long the key that the instance
               \* set, or found set, at its last action let through should still live
    pc,        \* per instance: the next step of its cycle
    due,       \* per instance: an interval boundary has passed since its last cycle
    todo,      \* per instance: anomalies of this cycle not yet gated
    decided,   \* per instance: decisions of this cycle not yet processed
    current,   \* per instance: the fingerprint it is working on
    pending,   \* per instance: gate input between the store's GET and SET
    healthy,   \* per instance: the dedupe store's is_healthy
    status,    \* per instance: the health registry's entry for redis
    faults, crashes

vars == <<redis, store, rows, sent, pages, window, pc, due, todo, decided, current, pending,
          healthy, status, faults, crashes>>

Steps == {"idle", "gate", "remember", "case", "insert", "dispatch", "degraded"}

(* The one type invariant. *)
TypeOK ==
    /\ redis \in [Fingerprints -> Nat]
    /\ store \in [Fingerprints -> Decision \cup {None}]
    /\ rows \subseteq Fingerprints
    /\ sent \in [Fingerprints -> [Notice -> Nat]]
    /\ pages \subseteq Fingerprints \X Decision
    /\ window \in [Instances -> [Fingerprints -> Nat]]
    /\ pc \in [Instances -> Steps]
    /\ due \in [Instances -> BOOLEAN]
    /\ todo \in [Instances -> SUBSET Fingerprints]
    /\ decided \in [Instances -> [Fingerprints -> Decision \cup {None}]]
    /\ current \in [Instances -> Fingerprints \cup {None}]
    /\ pending \in [Instances -> Inputs \cup {None}]
    /\ healthy \in [Instances -> BOOLEAN]
    /\ status \in [Instances -> {"HEALTHY", "DEGRADED"}]
    /\ faults \in 0..MaxFaults
    /\ crashes \in 0..MaxCrashes

Undecided == [f \in Fingerprints |-> None]

Init ==
    /\ redis = [f \in Fingerprints |-> 0]
    /\ store = [f \in Fingerprints |-> None]
    /\ rows = {}
    /\ sent = [f \in Fingerprints |-> [n \in Notice |-> 0]]
    /\ pages = {}
    /\ window = [i \in Instances |-> [f \in Fingerprints |-> 0]]
    /\ pc = [i \in Instances |-> "idle"]
    /\ due = [i \in Instances |-> TRUE]
    /\ todo = [i \in Instances |-> {}]
    /\ decided = [i \in Instances |-> Undecided]
    /\ current = [i \in Instances |-> None]
    /\ pending = [i \in Instances |-> None]
    /\ healthy = [i \in Instances |-> TRUE]
    /\ status = [i \in Instances |-> "HEALTHY"]
    /\ faults = 0
    /\ crashes = 0

-----------------------------------------------------------------------------
Result(d) == Decide(d.input, d.lookup)
Goto(i, step) == pc' = [pc EXCEPT ![i] = step]
Fault == faults < MaxFaults /\ faults' = faults + 1
NoFault == UNCHANGED faults

\* A cycle begins: reload, evidence, peak, topology and gate-input stages found anomalies
\* for some scopes.  None were found, or one of the stages raised, when the set is empty.
StartCycle(i) ==
    /\ pc[i] = "idle"
    /\ due[i]
    /\ due' = [due EXCEPT ![i] = FALSE]
    /\ todo' \in {[todo EXCEPT ![i] = found] : found \in SUBSET Fingerprints}
    /\ Goto(i, IF todo'[i] = {} THEN "degraded" ELSE "gate")
    /\ UNCHANGED <<redis, store, rows, sent, pages, window, decided, current, pending, healthy, status,
                   faults, crashes>>

\* The gates return a decision for f; when it was the last, the cases are processed.
Decided(i, f, d) ==
    /\ decided' = [decided EXCEPT ![i][f] = d]
    /\ todo' = [todo EXCEPT ![i] = @ \ {f}]
    /\ current' = [current EXCEPT ![i] = None]
    /\ pending' = [pending EXCEPT ![i] = None]
    /\ Goto(i, IF todo[i] \subseteq {f} THEN "case" ELSE "gate")

\* evaluate_rulebook_gates up to and including is_duplicate.
EvaluateGates(i) ==
    /\ pc[i] = "gate"
    /\ \E f \in todo[i], x \in Inputs :
        \/ /\ ~ConsultsStore(BeforeDedupe(x))
           /\ Decided(i, f, [input |-> x, lookup |-> "unasked"])
           /\ UNCHANGED <<healthy, faults>>
        \/ /\ ConsultsStore(BeforeDedupe(x))
           /\ redis[f] > 0
           /\ Decided(i, f, [input |-> x, lookup |-> "duplicate"])
           /\ healthy' = [healthy EXCEPT ![i] = TRUE]
           /\ NoFault
        \/ /\ ConsultsStore(BeforeDedupe(x))
           /\ redis[f] = 0
           /\ current' = [current EXCEPT ![i] = f]
           /\ pending' = [pending EXCEPT ![i] = x]
           /\ Goto(i, "remember")
           /\ healthy' = [healthy EXCEPT ![i] = TRUE]
           /\ NoFault
           /\ UNCHANGED <<decided, todo>>
        \/ /\ ConsultsStore(BeforeDedupe(x))
           /\ Fault
           /\ Decided(i, f, [input |-> x, lookup |-> "error"])
           /\ healthy' = [healthy EXCEPT ![i] = FALSE]
    /\ UNCHANGED <<redis, store, rows, sent, pages, window, due, status, crashes>>

\* How long the key lives after SET NX EX, which leaves an existing key alone.
Lives(f, x) == IF redis[f] = 0 THEN Ttl[BeforeDedupe(x).action] ELSE redis[f]
SetNx(f, x) == redis' = [redis EXCEPT ![f] = Lives(f, x)]

\* History: i lets an action through.
Opens(i, f, x) == window' = [window EXCEPT ![i][f] = Lives(f, x)]

\* Mutant: the key is never written.
RememberNothing(i) ==
    /\ pc[i] = "remember"
    /\ Decided(i, current[i], [input |-> pending[i], lookup |-> "new"])
    /\ Opens(i, current[i], pending[i])
    /\ UNCHANGED <<redis, healthy, faults, store, rows, sent, pages, due, status, crashes>>

\* remember: evaluate_rulebook_gates ignores whether the key was new.  On an error the
\* write may have happened although the answer was lost.
Remember(i) ==
    /\ pc[i] = "remember"
    /\ \/ /\ SetNx(current[i], pending[i])
          /\ Decided(i, current[i], [input |-> pending[i], lookup |-> "new"])
          /\ Opens(i, current[i], pending[i])
          /\ healthy' = [healthy EXCEPT ![i] = TRUE]
          /\ NoFault
       \/ /\ SetNx(current[i], pending[i]) \/ UNCHANGED redis
          /\ Decided(i, current[i], [input |-> pending[i], lookup |-> "error"])
          /\ healthy' = [healthy EXCEPT ![i] = FALSE]
          /\ Fault
          /\ UNCHANGED window
    /\ UNCHANGED <<store, rows, sent, pages, due, status, crashes>>

-----------------------------------------------------------------------------
(* The loop over the decisions; its except block goes on with the next one. *)

\* Mutant: the handler stands outside the loop, the cycle's other cases are dropped.
CaseEndsCycle(i, f) ==
    /\ decided' = [decided EXCEPT ![i] = Undecided]
    /\ current' = [current EXCEPT ![i] = None]
    /\ Goto(i, "degraded")

CaseEnds(i, f) ==
    /\ decided' = [decided EXCEPT ![i][f] = None]
    /\ current' = [current EXCEPT ![i] = None]
    /\ Goto(i, IF \A g \in Fingerprints \ {f} : decided[i][g] = None THEN "degraded" ELSE "case")

CaseGoesOn(i, f, step) ==
    /\ current' = [current EXCEPT ![i] = f]
    /\ Goto(i, step)
    /\ UNCHANGED decided

\* Mutant: a casefile that is already there counts as written.
PersistAcceptsExisting(i) ==
    /\ pc[i] = "case"
    /\ \E f \in Fingerprints :
        /\ decided[i][f] # None
        /\ \/ /\ store' = IF store[f] = None THEN [store EXCEPT ![f] = decided[i][f]] ELSE store
              /\ CaseGoesOn(i, f, "insert")
              /\ NoFault
           \/ /\ Fault
              /\ \/ UNCHANGED store
                 \/ store[f] = None /\ store' = [store EXCEPT ![f] = decided[i][f]]
              /\ CaseEnds(i, f)
    /\ UNCHANGED <<redis, rows, sent, pages, window, due, todo, pending, healthy, status, crashes>>

\* assemble_casefile_triage_stage and persist_casefile_and_prepare_outbox_ready.
PersistCasefile(i) ==
    /\ pc[i] = "case"
    /\ \E f \in Fingerprints :
        /\ decided[i][f] # None
        /\ \/ /\ store[f] = None
              /\ store' = [store EXCEPT ![f] = decided[i][f]]
              /\ CaseGoesOn(i, f, "insert")
              /\ NoFault
           \/ /\ store[f] # None
              /\ UNCHANGED store
              /\ CaseEnds(i, f)
              /\ NoFault
           \/ /\ Fault
              /\ \/ UNCHANGED store
                 \/ store[f] = None /\ store' = [store EXCEPT ![f] = decided[i][f]]
              /\ CaseEnds(i, f)
    /\ UNCHANGED <<redis, rows, sent, pages, window, due, todo, pending, healthy, status, crashes>>

\* Mutant: an existing row is accepted whatever its hash.
InsertAnyway(i) ==
    /\ pc[i] = "insert"
    /\ rows' = rows \cup {current[i]}
    /\ CaseGoesOn(i, current[i], "dispatch")
    /\ UNCHANGED <<redis, store, sent, pages, window, due, todo, pending, healthy, status, faults, crashes>>

\* insert_pending_object: a row left by an earlier casefile of the case has another hash.
InsertPendingObject(i) ==
    /\ pc[i] = "insert"
    /\ \/ /\ current[i] \notin rows
          /\ rows' = rows \cup {current[i]}
          /\ CaseGoesOn(i, current[i], "dispatch")
          /\ NoFault
       \/ /\ current[i] \in rows
          /\ UNCHANGED rows
          /\ CaseEnds(i, current[i])
          /\ NoFault
       \/ /\ Fault
          /\ \/ UNCHANGED rows
             \/ rows' = rows \cup {current[i]}
          /\ CaseEnds(i, current[i])
    /\ UNCHANGED <<redis, store, sent, pages, window, due, todo, pending, healthy, status, crashes>>

\* The notices a decision asks for.
Notices(d) ==
    {n \in Notice : \/ n = "page" /\ Result(d).action = "PAGE"
                    \/ n = "postmortem" /\ Result(d).postmortem}

\* dispatch_action: a notice that fails to leave is logged and forgotten.
DispatchAction(i) ==
    /\ pc[i] = "dispatch"
    /\ LET f == current[i]
           d == decided[i][f] IN
        \E out \in SUBSET Notices(d) :
            /\ sent' = [sent EXCEPT ![f] = [n \in Notice |-> IF n \in out THEN @[n] + 1 ELSE @[n]]]
            /\ pages' = IF "page" \in out THEN pages \cup {<<f, d>>} ELSE pages
            /\ IF out = Notices(d) THEN NoFault ELSE Fault
            /\ CaseEnds(i, f)
    /\ UNCHANGED <<redis, store, rows, window, due, todo, pending, healthy, status, crashes>>

\* emit_redis_degraded_mode_events, then sleep until the next boundary.
EmitDegraded(i) ==
    /\ pc[i] = "degraded"
    /\ status' = [status EXCEPT ![i] = IF healthy[i] THEN "HEALTHY" ELSE "DEGRADED"]
    /\ Goto(i, "idle")
    /\ UNCHANGED <<redis, store, rows, sent, pages, window, due, todo, decided, current, pending, healthy,
                   faults, crashes>>

-----------------------------------------------------------------------------
\* The process ends and is started again: its memory is lost, what it wrote is not.
Crash(i) ==
    /\ crashes < MaxCrashes
    /\ crashes' = crashes + 1
    /\ Goto(i, "idle")
    /\ due' = [due EXCEPT ![i] = TRUE]
    /\ todo' = [todo EXCEPT ![i] = {}]
    /\ decided' = [decided EXCEPT ![i] = Undecided]
    /\ current' = [current EXCEPT ![i] = None]
    /\ pending' = [pending EXCEPT ![i] = None]
    /\ healthy' = [healthy EXCEPT ![i] = TRUE]
    /\ status' = [status EXCEPT ![i] = "HEALTHY"]
    /\ UNCHANGED <<redis, store, rows, sent, pages, window, faults>>

\* casefile-lifecycle deletes an expired casefile; the outbox row stays.  Retention is
\* months and a cycle minutes, so no instance is working on the case.
Purge(f) ==
    /\ store[f] # None
    /\ \A i \in Instances : current[i] # f
    /\ store' = [store EXCEPT ![f] = None]
    /\ UNCHANGED <<redis, rows, sent, pages, window, pc, due, todo, decided, current, pending, healthy,
                   status, faults, crashes>>

\* One scheduler interval passes.
Passes(left) == [f \in Fingerprints |-> IF left[f] = 0 THEN 0 ELSE left[f] - 1]

Tick ==
    /\ redis' = Passes(redis)
    /\ window' = [i \in Instances |-> Passes(window[i])]
    /\ due' = [i \in Instances |-> TRUE]
    /\ UNCHANGED <<store, rows, sent, pages, pc, todo, decided, current, pending, healthy, status,
                   faults, crashes>>

CycleStep(i) ==
    \/ StartCycle(i)
    \/ EvaluateGates(i) \/ Remember(i)
    \/ PersistCasefile(i) \/ InsertPendingObject(i) \/ DispatchAction(i)
    \/ EmitDegraded(i)

Next ==
    \/ \E i \in Instances : CycleStep(i) \/ Crash(i)
    \/ \E f \in Fingerprints : Purge(f)
    \/ Tick

Spec == Init /\ [][Next]_vars

\* An instance that is up keeps executing its cycle.
LiveSpec == Spec /\ \A i \in Instances : WF_vars(CycleStep(i))

-----------------------------------------------------------------------------
(* Properties. *)

\* What the dedupe store may answer to a question about f now.
Answers(f) == {IF redis[f] > 0 THEN "duplicate" ELSE "new", "error"}

(* The gates of evaluate_rulebook_gates, applied one after the other to a running action, *)
(* give what the policy says without an order: the lowest of all caps, weakened further   *)
(* by the checks that apply only to urgent actions and by what the dedupe store, in the   *)
(* state it has got into, answers or fails to answer.                                     *)
MatchesReference == \A f \in Fingerprints : Answers(f) \cap DeviatingAnswers = {}

(* A page leaves the system only for a decision that met every condition of the rulebook, *)
(* whatever the store answered, failed to answer, or answered to somebody else.           *)
PagesJustified == \A p \in pages : Justified(p[2].input, p[2].lookup)

(* Nothing is dispatched that is not durable: when an action is about to leave, its own    *)
(* casefile is stored and its case has an outbox row, whoever else works on the case.      *)
DurableBeforeDispatch ==
    /\ \A i \in Instances :
         pc[i] = "dispatch" => /\ current[i] \in rows
                               /\ store[current[i]] = decided[i][current[i]]
    /\ \A p \in pages : p[1] \in rows

(* A case pages at most once and asks for its postmortem at most once, although instances  *)
(* race, dedupe keys expire, answers get lost and casefiles are purged.                    *)
OneNoticePerCase == \A f \in Fingerprints, n \in Notice : sent[f][n] <= 1

\* An instance is between its persist and its dispatch.
Holds(i) == pc[i] \in {"insert", "dispatch"}

\* What an instance's place in its cycle says about the shared state.
WorkSound(i) ==
    /\ pc[i] = "remember" => current[i] \in Fingerprints /\ pending[i] \in Inputs
    /\ Holds(i) => /\ current[i] \in Fingerprints
                   /\ decided[i][current[i]] # None
                   /\ store[current[i]] = decided[i][current[i]]

(* The inductive invariant of the safety proofs: beside the properties, that at most one  *)
(* instance holds a case, and that a case nobody has enqueued has sent nothing.           *)
IInv ==
    /\ TypeOK
    /\ PagesJustified
    /\ DurableBeforeDispatch
    /\ OneNoticePerCase
    /\ \A i \in Instances : WorkSound(i)
    /\ \A i, j \in Instances : (i # j /\ Holds(i) /\ Holds(j)) => current[i] # current[j]
    /\ \A f \in Fingerprints, n \in Notice : f \notin rows => sent[f][n] = 0
    /\ \A i \in Instances, n \in Notice : pc[i] = "dispatch" => sent[current[i]][n] = 0

Granted(i, f) == decided[i][f] # None /\ decided[i][f].lookup = "new"

(* Storm control as the dedupe store promises it: while a key lives, AG5 lets no other     *)
(* action of its fingerprint through, whichever instance asks.                             *)
OneGrantPerWindow ==
    [][\A i \in Instances, f \in Fingerprints :
         (~Granted(i, f) /\ Granted(i, f)') => \A j \in Instances : window[j][f] = 0]_vars

(* What the race between the GET and the SET NX of two instances leaves of storm control:  *)
(* while a key lives AG5 lets at most one action of its fingerprint through per instance,  *)
(* over cycles, expiries, lost answers and restarts.                                       *)
OneGrantPerInstance ==
    [][\A i \in Instances, f \in Fingerprints :
         (~Granted(i, f) /\ Granted(i, f)') => window[i][f] = 0]_vars

(* The first page of a case is sent though other cases of its cycle fail: a decision to    *)
(* page for a case that has neither casefile nor row leads to the page, unless a call      *)
(* fails or the process dies.                                                              *)
FirstPageSent ==
    \A i \in Instances, f \in Fingerprints :
        (/\ decided[i][f] # None /\ Result(decided[i][f]).action = "PAGE"
         /\ store[f] = None /\ f \notin rows)
            ~> (sent[f]["page"] > 0 \/ faults > 0 \/ crashes > 0)

=============================================================================
