------------------------------ MODULE ColdPath ------------------------------
(***************************************************************************)
(* The cold path: fire-and-forget diagnosis tasks on one event loop, each  *)
(* asking the LLM under a timeout and writing diagnosis.json, a report or  *)
(* a fallback, into the store that stage writers and the lifecycle job     *)
(* share.  Beside it the gauge, the health entry and the error-rate alert  *)
(* the tasks keep.                                                         *)
(*                                                                         *)
(* A task suspends only in asyncio.wait_for: HealthRegistry.update holds   *)
(* its lock across no await and the store client is synchronous, so what   *)
(* follows the LLM's answer is one step of the event loop.  Prompt, report *)
(* and reason wording are a body of the diagnosis file.                    *)
(***************************************************************************)
EXTENDS CaseFiles

CONSTANTS
    Tasks,       \* identities of diagnosis tasks, a bound on how many are spawned
    Modes,       \* integration modes of the LLM client
    LiveAnswers, \* how a LIVE call can end: with a report, or for a reason without one
    Window,      \* llm_error_rate.window_size
    Warning,     \* llm_error_rate thresholds of the environment, in percent; the
    Critical,    \*   warning threshold may be None
    Rules,       \* the severities the policy has a rule for
    MaxCrashes   \* bound on restarts of the process

\* What a fallback report says; the LLM's own reports are the other bodies.
Reasons == {"LLM_TIMEOUT", "LLM_SCHEMA_INVALID", "LLM_UNAVAILABLE", "LLM_ERROR"}
Reports == Bodies["diagnosis"] \ Reasons

\* LLMClient.invoke and asyncio.wait_for around it: a report, or the reason there is none.
Answers(m) ==
    CASE m \in {"OFF", "LIVE_WITHOUT_URL"} -> {"LLM_ERROR"}
      [] m \in {"LOG", "MOCK"} -> {CHOOSE r \in Reports : TRUE}
      [] m = "LIVE" -> LiveAnswers

Severity == {"warning", "critical"}

ASSUME ColdPathAssumption ==
    /\ Reports # {}
    /\ IsFiniteSet(Tasks)
    /\ None \notin Severity
    /\ \A m \in Modes : Answers(m) \subseteq Bodies["diagnosis"]
    /\ Modes \subseteq {"OFF", "LOG", "MOCK", "LIVE", "LIVE_WITHOUT_URL"}
    /\ Window \in Nat \ {0}
    /\ Warning \in Nat \cup {None}
    /\ Critical \in Nat
    /\ Rules \subseteq Severity
    /\ MaxCrashes \in Nat

VARIABLES
    mode,      \* the LLM client's integration mode
    task,      \* per task: where it is, its case and the triage_hash it was given
    inflight,  \* the llm_inflight gauge
    health,    \* the health registry's entry for "llm"
    recent,    \* _llm_recent_failures
    alerted,   \* _llm_last_alert_severity
    alerts,    \* history: the alerts emitted, with the number of the result they followed
    results,   \* history: the results recorded by this process
    crashes

coldVars == <<mode, task, inflight, health, recent, alerted, alerts, results, crashes>>
taskVars == <<inflight, health, recent, alerted, alerts, results>>
vars == <<fileVars, coldVars>>

NoTask == [at |-> "unused", case |-> None, triage |-> None]
Done == {"success", "fallback", "error", "unsafe", "lost"}

(* The one type invariant. *)
TypeOK ==
    /\ FilesTypeOK
    /\ mode \in Modes
    /\ task \in [Tasks -> [at: {"unused", "spawned", "waiting"} \cup Done,
                           case: Cases \cup {None}, triage: TriageHash \cup {None}]]
    /\ inflight \in Nat
    /\ health \in {"HEALTHY", "DEGRADED", None}
    /\ recent \in Seq(BOOLEAN) /\ Len(recent) <= Window
    /\ alerted \in Severity \cup {None}
    /\ alerts \subseteq (Nat \X Severity)
    /\ results \in Seq({"success", "fallback", "error"})
    /\ crashes \in 0..MaxCrashes

Init ==
    /\ FilesInit
    /\ mode \in Modes
    /\ task = [t \in Tasks |-> NoTask]
    /\ inflight = 0
    /\ health = None
    /\ recent = <<>>
    /\ alerted = None
    /\ alerts = {}
    /\ results = <<>>
    /\ crashes = 0

Running(t) == task[t].at = "waiting"

-----------------------------------------------------------------------------
(* health/alerts.py *)

\* error_rate > threshold, without the division
Exceeds(failures, percent) ==
    100 * Cardinality({i \in 1..Len(failures) : failures[i]}) > percent * Len(failures)

\* _resolve_severity
SeverityOf(failures) ==
    IF Exceeds(failures, Critical) THEN "critical"
    ELSE IF Warning = None THEN None
    ELSE IF Exceeds(failures, Warning) THEN "warning" ELSE None

\* deque(maxlen=window_size).append
Push(failed) ==
    LET all == Append(recent, failed) IN IF Len(all) > Window THEN Tail(all) ELSE all

\* The alert state after a window of that severity: an alert for every new one that has a rule.
AlertOn(severity) ==
    /\ alerted' = severity
    /\ alerts' = IF severity \in {None, alerted} \/ severity \notin Rules THEN alerts
                 ELSE alerts \cup {<<Len(results) + 1, severity>>}

\* Mutant: the rate is judged before the window is full.
RecordLlmResultEarly(result) ==
    /\ recent' = Push(result # "success")
    /\ AlertOn(SeverityOf(Push(result # "success")))

\* record_llm_invocation_result
RecordLlmResult(result) ==
    LET window == Push(result # "success")
    IN /\ recent' = window
       /\ AlertOn(IF Len(window) < Window THEN alerted ELSE SeverityOf(window))

-----------------------------------------------------------------------------
(* diagnosis/graph.py *)

\* _record_llm_completion: the counters and the error-rate alert
RecordResult(result) ==
    /\ results' = Append(results, result)
    /\ RecordLlmResult(result)

\* HealthRegistry.update("llm", status)
UpdateHealth(status) == health' = status

\* spawn_cold_path_diagnosis_task: an eligible case (PROD, TIER_0, sustained) whose
\* triage.json the caller has persisted.  It may be spawned again.  That the hash the caller
\* hands on is the persisted one is a precondition of the interface: the task writes it as
\* it is, and the repository has no caller yet.
Spawn(t, c) ==
    /\ task[t].at = "unused"
    /\ Present(c, "triage")
    /\ task' = [task EXCEPT ![t] = [at |-> "spawned", case |-> c,
                                    triage |-> objects[c]["triage"].file.hash]]
    /\ UNCHANGED <<fileVars, mode, taskVars, crashes>>

\* The head of run_cold_path_diagnosis: a denylist that strips a required field raises
\* before the gauge and the metrics are touched.
Start(t) ==
    /\ task[t].at = "spawned"
    /\ \/ /\ task' = [task EXCEPT ![t].at = "waiting"]
          /\ UpdateHealth("HEALTHY")
          /\ inflight' = inflight + 1
       \/ /\ task' = [task EXCEPT ![t].at = "unsafe"]
          /\ UNCHANGED <<health, inflight>>
    /\ UNCHANGED <<fileVars, mode, recent, alerted, alerts, results, crashes>>

\* Mutant: the gauge goes down only when the call returns.
EndWithoutFinally(t, result) ==
    /\ task' = [task EXCEPT ![t].at = result]
    /\ inflight' = IF result = "error" THEN inflight ELSE inflight - 1

\* The gauge goes down in the finally clause, however the task ends.
End(t, result) ==
    /\ task' = [task EXCEPT ![t].at = result]
    /\ inflight' = inflight - 1

Write(t, body, outcome) ==
    PersistWriteOnce(task[t].case, "diagnosis",
                     Seal(body, task[t].triage, None, TRUE), outcome)

\* A validated, sanitised report: persisted, or the failure to persist it is loud.
WriteReport(t, report) ==
    \/ /\ Write(t, report, "confirmed")
       /\ UpdateHealth("HEALTHY")
       /\ RecordResult("success")
       /\ End(t, "success")
    \/ /\ Write(t, report, "raised")
       /\ UpdateHealth("DEGRADED")
       /\ RecordResult("error")
       /\ End(t, "error")

\* Mutant: the fallback is returned but not persisted when the LLM times out.
WriteFallbackUnlessTimeout(t, reason) ==
    /\ \E outcome \in {"confirmed", "raised"} :
          /\ IF reason = "LLM_TIMEOUT" THEN UNCHANGED <<objects, confirmed, faults>>
             ELSE Write(t, reason, outcome)
          /\ End(t, IF outcome = "confirmed" THEN "fallback" ELSE "error")
    /\ UpdateHealth("DEGRADED")
    /\ RecordResult("fallback")

\* Mutant: the health entry is left alone.
WriteFallbackQuietly(t, reason) ==
    /\ \E outcome \in {"confirmed", "raised"} :
          /\ Write(t, reason, outcome)
          /\ End(t, IF outcome = "confirmed" THEN "fallback" ELSE "error")
    /\ UNCHANGED health
    /\ RecordResult("fallback")

\* _make_and_persist_fallback after the failure was counted; when it raises, the outer
\* handler finds llm_metrics_recorded set and counts nothing more.
WriteFallback(t, reason) ==
    /\ \E outcome \in {"confirmed", "raised"} :
          /\ Write(t, reason, outcome)
          /\ End(t, IF outcome = "confirmed" THEN "fallback" ELSE "error")
    /\ UpdateHealth("DEGRADED")
    /\ RecordResult("fallback")

Finish(t) ==
    /\ Running(t)
    /\ \E answer \in Answers(mode) :
          IF answer \in Reasons THEN WriteFallback(t, answer) ELSE WriteReport(t, answer)
    /\ UNCHANGED <<writer, sweep, swept, clock, mode, crashes>>

TaskStep(t) == Start(t) \/ Finish(t)

\* The process is restarted: its tasks, gauge, health entry and alert state are gone.
Crash ==
    /\ crashes < MaxCrashes
    /\ \E t \in Tasks : task[t].at \in {"spawned", "waiting"}
    /\ crashes' = crashes + 1
    /\ task' = [t \in Tasks |-> IF task[t].at = "unused" THEN NoTask
                                ELSE [NoTask EXCEPT !.at = "lost"]]
    /\ inflight' = 0
    /\ health' = None
    /\ recent' = <<>>
    /\ alerted' = None
    /\ alerts' = {}
    /\ results' = <<>>
    /\ UNCHANGED <<fileVars, mode>>

\* A task ends within its timeout, long before the month does.
Tick ==
    /\ \A t \in Tasks : task[t].at \notin {"spawned", "waiting"}
    /\ Month
    /\ UNCHANGED coldVars

Next ==
    \/ FilesStep /\ UNCHANGED coldVars
    \/ \E t \in Tasks, c \in Cases : Spawn(t, c)
    \/ \E t \in Tasks : TaskStep(t)
    \/ Crash
    \/ Tick

Spec == Init /\ [][Next]_vars

\* The event loop runs every task that can run, and the timeout makes it one that can.
LiveSpec == Spec /\ \A t \in Tasks : WF_vars(TaskStep(t))

-----------------------------------------------------------------------------
(* Properties. *)

Count(ats) == Cardinality({t \in Tasks : task[t].at \in ats})

(* Nothing leaks: the gauge is the number of tasks waiting for the LLM, and every task     *)
(* that got as far as the LLM is counted exactly once, also one whose fallback could not   *)
(* be persisted.                                                                           *)
EveryTaskCounted ==
    /\ inflight = Count({"waiting"})
    /\ Len(results) = Count({"success", "fallback", "error"})

\* The severity of the window that ended with the n-th result; none before it is full.
SeverityAfter(n) ==
    IF n < Window THEN None
    ELSE SeverityOf([i \in 1..Window |-> results[n - Window + i] # "success"])

(* The alert is edge triggered: an alert stands in the history exactly for the results     *)
(* after which the rate of the last Window results had a severity it did not have before.  *)
AlertsAtEdges ==
    alerts = {a \in (1..Len(results)) \X Rules :
                 SeverityAfter(a[1]) = a[2] /\ SeverityAfter(a[1] - 1) # a[2]}

(* Health tells of the LLM once nobody waits for it: the entry is DEGRADED exactly when    *)
(* the last task to finish did not end in success, whatever the tasks started meanwhile.   *)
HealthTellsLast ==
    (inflight = 0 /\ results # <<>>) =>
        (health = "DEGRADED" <=> results[Len(results)] # "success")

(* Every case that reaches the LLM gets its diagnosis.json, a report or a fallback,        *)
(* unless a store request fails, the process dies, or the case is purged meanwhile.        *)
CaseDiagnosed ==
    \A t \in Tasks, c \in Cases :
        (Running(t) /\ task[t].case = c)
            ~> (Present(c, "diagnosis") \/ faults > 0 \/ crashes > 0 \/ c \in swept)
=============================================================================
