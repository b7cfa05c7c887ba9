------------------------------ MODULE Linkage -------------------------------
(***************************************************************************)
(* The ServiceNow linkage of a case: a durable retry row in Postgres, an   *)
(* attempt that looks up and then creates or updates one Problem record    *)
(* and its PIR tasks in ServiceNow, and the write-once linkage.json.       *)
(*                                                                         *)
(* A caller runs execute_servicenow_linkage_and_persist.  Every database   *)
(* transaction, every HTTP request and every object put is one step, and   *)
(* other callers, crashes and the clock run in between.  Names, summaries, *)
(* payload texts and logs are left out; a ServiceNow record is its number  *)
(* among the records that carry the same external id.                      *)
(***************************************************************************)
EXTENDS Integers, Sequences

CONSTANTS
    Cases,        \* case ids
    Workers,      \* callers of the linkage stage
    Modes,        \* ServiceNow integration modes to start in
    Tasks,        \* number of PIR task types after dedupe_preserve_order
    Errors,       \* what a failing request reports: [code, after]
    LookupLimit,  \* contract.max_upsert_lookup_results
    Window,       \* contract.retry_window_minutes
    SloWindow,    \* the two hours of _record_page_linkage_slo_if_applicable
    BaseSeconds,  \* contract.retry_base_seconds
    MaxSeconds,   \* contract.retry_max_seconds
    JitterPercent,\* contract.retry_jitter_ratio, in percent
    Horizon,      \* bound on the clock; a case starts only if its window fits
    MaxCrashes,   \* bound on crashes of callers
    MaxLate,      \* bound on the unanswered POSTs ServiceNow still holds for an external id
    None          \* Python's None

\* Key 1 is the Problem, key i + 1 the i-th PIR task: the external ids of a case.
Keys == 1..(Tasks + 1)
Mock == 0   \* a sys_id of MOCK mode, a digest of table and external id

Transient == {"timeout", "connection_error", "http_429", "http_5xx"}
Lasting == {"http_4xx", "lookup_error", "missing_sys_id", "missing_incident_sys_id",
            "invalid_input", "missing_base_url"}
Error == [code: Transient \cup Lasting, after: Nat \cup {None}]
Permanent(why) == [code |-> why, after |-> None]

States == {"PENDING", "SEARCHING", "FAILED_TEMP", "LINKED", "FAILED_FINAL"}
Final == {"LINKED", "FAILED_FINAL"}
Reported == {"linked", "not-linked", "skipped", "failed"}

Row == [state: States, attempts: Nat, first: Nat, updated: Nat, deadline: Nat,
        next: Nat \cup {None}, status: {"linked", "skipped", None}, ids: Seq(Nat)]
Result == [status: Reported, ids: Seq(Nat), error: Error \cup {None}]
File == [status: Reported, ids: Seq(Nat), rehydrated: BOOLEAN]
Attempt == [incident: BOOLEAN, key: Nat, found: Nat \cup {None}, ids: Seq(Nat)]

ASSUME LinkageAssumption ==
    /\ Modes \subseteq {"OFF", "LOG", "MOCK", "LIVE", "LIVE_WITHOUT_URL"}
    /\ Tasks \in Nat
    /\ Errors \subseteq Error
    /\ LookupLimit \in Nat \ {0}
    /\ Window \in Nat \ {0}
    /\ SloWindow \in Nat
    /\ BaseSeconds \in Nat \ {0}
    /\ MaxSeconds \in Nat \ {0}
    /\ BaseSeconds <= MaxSeconds
    /\ JitterPercent \in 0..100
    /\ Horizon \in Nat
    /\ MaxCrashes \in Nat
    /\ MaxLate \in Nat
    /\ None \notin Nat \cup Cases \cup Row \cup Result \cup File \cup Error \cup Attempt
    /\ None \notin {"linked", "skipped"}

VARIABLES
    mode,      \* the client's integration mode
    durable,   \* whether the caller passes a retry repository
    rows,      \* sn_linkage_retry table: case -> row, or None
    records,   \* ServiceNow: how many records carry each external id of a case
    files,     \* object store: case -> its linkage.json, or None
    escalated, \* cases whose FAILED_FINAL escalation was sent
    slo,       \* per case: the SLO verdicts counted for it
    late,      \* ServiceNow: POSTs given up by their caller that may still be applied
    pc,        \* per caller: the next step it takes
    current,   \* per caller: the case it works on
    held,      \* per caller: the row as its last database call returned it
    try,       \* per caller: where the running upsert stands
    result,    \* per caller: what the upsert returned
    clock,
    crashes

env == <<mode, durable>>
local == <<pc, current, held, try, result>>
vars == <<mode, durable, rows, records, files, escalated, slo, late,
          pc, current, held, try, result, clock, crashes>>

Steps == {"idle", "mark", "lookup", "write", "outcome", "slo", "escalate", "file"}
NoAttempt == [incident |-> FALSE, key |-> 1, found |-> None, ids |-> <<>>]

(* The one type invariant. *)
TypeOK ==
    /\ mode \in Modes
    /\ durable \in BOOLEAN
    /\ rows \in [Cases -> Row \cup {None}]
    /\ records \in [Cases -> [Keys -> Nat]]
    /\ files \in [Cases -> File \cup {None}]
    /\ escalated \subseteq Cases
    /\ slo \in [Cases -> SUBSET {"met", "missed"}]
    /\ late \in [Cases -> [Keys -> Nat]]
    /\ pc \in [Workers -> Steps]
    /\ current \in [Workers -> Cases \cup {None}]
    /\ held \in [Workers -> Row \cup {None}]
    /\ try \in [Workers -> Attempt]
    /\ result \in [Workers -> Result \cup {None}]
    /\ clock \in 0..Horizon
    /\ crashes \in 0..MaxCrashes

Init ==
    /\ mode \in Modes
    /\ durable \in BOOLEAN
    /\ rows = [c \in Cases |-> None]
    /\ records = [c \in Cases |-> [k \in Keys |-> 0]]
    /\ files = [c \in Cases |-> None]
    /\ escalated = {}
    /\ slo = [c \in Cases |-> {}]
    /\ late = [c \in Cases |-> [k \in Keys |-> 0]]
    /\ pc = [w \in Workers |-> "idle"]
    /\ current = [w \in Workers |-> None]
    /\ held = [w \in Workers |-> None]
    /\ try = [w \in Workers |-> NoAttempt]
    /\ result = [w \in Workers |-> None]
    /\ clock = 0
    /\ crashes = 0

-----------------------------------------------------------------------------
(* linkage/state_machine.py *)

\* _resolve_transition_now
TransitionNow(row) == IF clock < row.updated THEN row.updated ELSE clock

\* create_pending_linkage_retry_record
PendingRow ==
    [state |-> "PENDING", attempts |-> 0, first |-> clock, updated |-> clock,
     deadline |-> clock + Window, next |-> None, status |-> None, ids |-> <<>>]

\* is_retry_due
IsRetryDue(row) ==
    IF row.state = "FAILED_TEMP"
    THEN IF row.next = None THEN TRUE ELSE row.next <= clock
    ELSE row.state \in {"PENDING", "SEARCHING"}

\* mark_linkage_searching
MarkSearching(row) ==
    [row EXCEPT !.state = "SEARCHING", !.updated = TransitionNow(row), !.next = None]

\* mark_linkage_success, with the metadata of _build_linked_retry_reason_metadata
MarkSuccess(row, r) ==
    [row EXCEPT !.state = "LINKED", !.attempts = @ + 1, !.updated = TransitionNow(row),
                !.next = None, !.status = r.status, !.ids = r.ids]

\* compute_retry_delay_seconds: every delay the digest's jitter can give
RetryDelays(n) ==
    LET exp    == IF BaseSeconds * 2^(n - 1) < MaxSeconds
                  THEN BaseSeconds * 2^(n - 1) ELSE MaxSeconds
        jitter == (exp * JitterPercent) \div 100
        window == IF jitter < 1 THEN 1 ELSE jitter
    IN  {d \in 1..(2 * MaxSeconds) : exp - window <= d /\ d <= exp + window}

\* The server's Retry-After, bounded by retry_max_seconds, prolongs the delay.
Prolong(d, after) ==
    LET bounded == IF after < MaxSeconds THEN after ELSE MaxSeconds
    IN  IF d < bounded THEN bounded ELSE d

FinalFailure(row) ==
    [row EXCEPT !.state = "FAILED_FINAL", !.attempts = @ + 1, !.updated = TransitionNow(row),
                !.next = None, !.status = None, !.ids = <<>>]

RetryAt(row, t) ==
    [row EXCEPT !.state = "FAILED_TEMP", !.attempts = @ + 1, !.updated = TransitionNow(row),
                !.next = t, !.status = None, !.ids = <<>>]

\* Mutant: the scheduled instant is not compared with the deadline.
MarkFailureUnbounded(row, e) ==
    IF e.code \notin Transient \/ TransitionNow(row) >= row.deadline
    THEN {FinalFailure(row)}
    ELSE {RetryAt(row, TransitionNow(row) + d) : d \in RetryDelays(row.attempts + 1)}

\* mark_linkage_failure, one row per possible jitter
MarkFailure(row, e) ==
    IF e.code \notin Transient \/ TransitionNow(row) >= row.deadline
    THEN {FinalFailure(row)}
    ELSE {LET delay == IF e.after = None THEN d ELSE Prolong(d, e.after)
              t     == TransitionNow(row) + delay
          IN  IF t > row.deadline THEN FinalFailure(row) ELSE RetryAt(row, t)
          : d \in RetryDelays(row.attempts + 1)}

-----------------------------------------------------------------------------
(* linkage/repository.py *)

\* Mutant: the UPDATE carries no source-state guard.
PersistTransitionUnguarded(c, next, expected) == next

\* persist_transition: the row the caller gets back, None for InvariantViolation
PersistTransition(c, next, expected) ==
    IF rows[c].state \in expected THEN next
    ELSE IF rows[c].state = next.state THEN rows[c]
    ELSE None

\* Mutant: the query compares next_attempt_at with < instead of <=.
RetryCandidatesStrict ==
    {c \in Cases : rows[c] # None /\ rows[c].state = "FAILED_TEMP" /\ rows[c].next < clock}

\* select_retry_candidates: what a retry loop that only asks the table would run
RetryCandidates ==
    {c \in Cases : rows[c] # None /\ rows[c].state = "FAILED_TEMP" /\ IsRetryDue(rows[c])}

-----------------------------------------------------------------------------
(* integrations/servicenow.py: upsert_problem_and_pir_tasks *)

Linked(ids) == [status |-> "linked", ids |-> ids, error |-> None]
Skipped == [status |-> "skipped", ids |-> <<>>, error |-> None]
Failed(e, ids) == [status |-> "failed", ids |-> ids, error |-> e]
NotLinked == [status |-> "not-linked", ids |-> <<>>, error |-> Permanent("missing_incident_sys_id")]

\* The results that need no request, None when the client must ask ServiceNow.
LocalResult(incident) ==
    CASE ~incident                  -> NotLinked
      [] incident /\ Tasks = 0      -> Failed(Permanent("invalid_input"), <<>>)
      [] incident /\ Tasks # 0 ->
           CASE mode \in {"OFF", "LOG"}      -> Skipped
             [] mode = "MOCK"                -> Linked([k \in Keys |-> Mock])
             [] mode = "LIVE_WITHOUT_URL"    -> Failed(Permanent("missing_base_url"), <<>>)
             [] mode = "LIVE"                -> None

\* upsert_problem_and_pir_tasks up to its first request
BeginUpsert(w, incident) ==
    LET r == LocalResult(incident)
    IN  /\ try' = [try EXCEPT ![w] = [NoAttempt EXCEPT !.incident = incident]]
        /\ result' = [result EXCEPT ![w] = r]
        /\ pc' = [pc EXCEPT ![w] = IF r = None THEN "lookup" ELSE "outcome"]

\* The upsert of one record failed: the whole orchestration returns.
FailUpsert(w, e) ==
    /\ result' = [result EXCEPT ![w] = Failed(e, try[w].ids)]
    /\ pc' = [pc EXCEPT ![w] = "outcome"]
    /\ UNCHANGED try

\* Mutant: linked is reported as soon as the Problem exists.
AdvanceEarly(w, id) ==
    /\ result' = [result EXCEPT ![w] = Linked(Append(try[w].ids, id))]
    /\ pc' = [pc EXCEPT ![w] = "outcome"]
    /\ UNCHANGED try

\* The record id is upserted: go on with the next PIR task, or report linked.
Advance(w, id) ==
    LET ids == Append(try[w].ids, id)
    IN  IF try[w].key = Tasks + 1
        THEN /\ result' = [result EXCEPT ![w] = Linked(ids)]
             /\ pc' = [pc EXCEPT ![w] = "outcome"]
             /\ UNCHANGED try
        ELSE /\ try' = [try EXCEPT ![w].key = @ + 1, ![w].found = None, ![w].ids = ids]
             /\ pc' = [pc EXCEPT ![w] = "lookup"]
             /\ UNCHANGED result

\* _request_records and _request_record_mutation turn every failure of a request, a
\* timeout too, into an error that ends the upsert.
RequestFails(w) == \E e \in Errors : FailUpsert(w, e)

\* _extract_existing_sys_id of the answer to a lookup for which n records exist: the ids
\* it can return.  More than one distinct id raises, which is {}.
ExistingSysId(n) ==
    IF n = 0 THEN {None}
    ELSE IF n = 1 \/ LookupLimit = 1 THEN 1..n
    ELSE {}

Found(w, id) ==
    /\ try' = [try EXCEPT ![w].found = id]
    /\ pc' = [pc EXCEPT ![w] = "write"]
    /\ UNCHANGED result

\* _upsert_record, the lookup by external id
Lookup(w) ==
    LET existing == ExistingSysId(records[current[w]][try[w].key])
    IN  /\ pc[w] = "lookup"
        /\ \/ RequestFails(w)
           \/ \E id \in existing : Found(w, id)
           \/ existing = {} /\ FailUpsert(w, Permanent("lookup_error"))
        /\ UNCHANGED <<env, rows, records, files, escalated, slo, late,
                       current, held, clock, crashes>>

\* The failures after which the client cannot know what becomes of its request.
Unanswered == {e \in Errors : e.code \in {"timeout", "connection_error", "http_5xx"}}

\* The POST of _request_record_mutation.  A request that reports an error may have created
\* the record all the same, or may be applied after the caller has gone on, and an answer
\* may lack the sys_id.
Post(w, c, k) ==
    LET created == [records EXCEPT ![c][k] = @ + 1]
    IN  \/ Advance(w, records[c][k] + 1) /\ records' = created /\ UNCHANGED late
        \/ RequestFails(w) /\ records' = created /\ UNCHANGED late
        \/ FailUpsert(w, Permanent("missing_sys_id")) /\ records' = created /\ UNCHANGED late
        \/ RequestFails(w) /\ UNCHANGED <<records, late>>
        \/ /\ late[c][k] < MaxLate
           /\ \E e \in Unanswered : FailUpsert(w, e)
           /\ late' = [late EXCEPT ![c][k] = @ + 1]
           /\ UNCHANGED records

\* _upsert_record, no record found
Create(w) ==
    /\ pc[w] = "write"
    /\ try[w].found = None
    /\ Post(w, current[w], try[w].key)
    /\ UNCHANGED <<env, rows, files, escalated, slo, current, held, clock, crashes>>

\* ServiceNow applies a POST whose caller has given it up.
ApplyLate(c, k) ==
    /\ late[c][k] > 0
    /\ late' = [late EXCEPT ![c][k] = @ - 1]
    /\ records' = [records EXCEPT ![c][k] = @ + 1]
    /\ UNCHANGED <<env, rows, files, escalated, slo, local, clock, crashes>>

\* _upsert_record, one record found: PATCH
Update(w) ==
    /\ pc[w] = "write"
    /\ try[w].found # None
    /\ Advance(w, try[w].found) \/ RequestFails(w)
    /\ UNCHANGED <<env, rows, records, files, escalated, slo, late,
                   current, held, clock, crashes>>

-----------------------------------------------------------------------------
(* pipeline/stages/linkage.py: execute_servicenow_linkage_and_persist *)

\* The call returns or raises: nothing of it survives in the caller.
Return(w) ==
    /\ pc' = [pc EXCEPT ![w] = "idle"]
    /\ current' = [current EXCEPT ![w] = None]
    /\ held' = [held EXCEPT ![w] = None]
    /\ try' = [try EXCEPT ![w] = NoAttempt]
    /\ result' = [result EXCEPT ![w] = None]

\* get_or_create_pending, for a case whose attempt is due
Open(w, c, incident) ==
    LET row == IF rows[c] = None THEN PendingRow ELSE rows[c]
    IN  /\ pc[w] = "idle"
        /\ durable
        /\ rows[c] = None => clock + Window <= Horizon
        /\ IsRetryDue(row)
        /\ rows' = [rows EXCEPT ![c] = row]
        /\ held' = [held EXCEPT ![w] = row]
        /\ current' = [current EXCEPT ![w] = c]
        /\ try' = [try EXCEPT ![w] = [NoAttempt EXCEPT !.incident = incident]]
        /\ pc' = [pc EXCEPT ![w] = "mark"]
        /\ UNCHANGED <<env, records, files, escalated, slo, late, result, clock, crashes>>

\* Mutant: an existing file is replaced.
PutOver(c, file) == files' = [files EXCEPT ![c] = file]

\* _persist_terminal_linkage_stage: write once, a differing file stays
Put(c, file) == files' = [files EXCEPT ![c] = IF @ = None THEN file ELSE @]

\* Mutant: the file is rebuilt from whatever state the row is in.
RehydrateUnchecked(w, c) ==
    /\ pc[w] = "idle"
    /\ durable
    /\ rows[c] # None
    /\ Put(c, [status |-> IF rows[c].state = "LINKED" THEN "linked" ELSE "failed",
               ids |-> rows[c].ids, rehydrated |-> TRUE])
    /\ UNCHANGED <<env, rows, records, escalated, slo, late, local, clock, crashes>>

\* _ensure_terminal_linkage_stage for a final row, with the result rebuilt from
\* it: a LINKED row always gives "linked", a FAILED_FINAL row "failed".
Rehydrate(w, c) ==
    /\ pc[w] = "idle"
    /\ durable
    /\ rows[c] # None
    /\ rows[c].state \in Final
    /\ Put(c, [status |-> IF rows[c].state = "LINKED" THEN "linked" ELSE "failed",
               ids |-> rows[c].ids, rehydrated |-> TRUE])
    /\ UNCHANGED <<env, rows, records, escalated, slo, late, local, clock, crashes>>

\* The transition to SEARCHING, then the upsert up to its first request
MarkSearchingStep(w) ==
    LET c   == current[w]
        got == PersistTransition(c, MarkSearching(held[w]), {held[w].state})
    IN  /\ pc[w] = "mark"
        /\ \/ /\ got = None
              /\ Return(w)
              /\ UNCHANGED rows
           \/ /\ got # None
              /\ rows' = [rows EXCEPT ![c] = got]
              /\ held' = [held EXCEPT ![w] = got]
              /\ BeginUpsert(w, try[w].incident)
              /\ UNCHANGED current
        /\ UNCHANGED <<env, records, files, escalated, slo, late, clock, crashes>>

\* The outcome becomes durable: a final row goes on to the SLO sample, FAILED_TEMP
\* returns, a lost guard raises.
Outcome(w) ==
    LET c == current[w]
        r == result[w]
        nexts == IF r.status \in {"linked", "skipped"} THEN {MarkSuccess(held[w], r)}
                 ELSE MarkFailure(held[w], r.error)
    IN  /\ pc[w] = "outcome"
        /\ durable
        /\ \E next \in nexts :
              LET got == PersistTransition(c, next, {"SEARCHING"})
              IN  \/ /\ got = None
                     /\ Return(w)
                     /\ UNCHANGED rows
                  \/ /\ got # None
                     /\ rows' = [rows EXCEPT ![c] = got]
                     /\ \/ got.state = "FAILED_TEMP" /\ Return(w)
                        \/ /\ got.state \in Final
                           /\ held' = [held EXCEPT ![w] = got]
                           /\ pc' = [pc EXCEPT ![w] = "slo"]
                           /\ UNCHANGED <<current, try, result>>
        /\ UNCHANGED <<env, records, files, escalated, slo, late, clock, crashes>>

\* Mutant: the duration is measured when the sample is taken.
SloVerdictsByClock(row, r) ==
    IF row.state = "LINKED" /\ r.status # "linked" THEN {}
    ELSE {IF row.state = "LINKED" /\ clock - row.first <= SloWindow THEN "met" ELSE "missed"}

\* _record_page_linkage_slo_if_applicable for a PAGE case that ended in row
SloVerdicts(row, r) ==
    CASE row.state = "FAILED_FINAL"                    -> {"missed"}
      [] row.state = "LINKED" /\ r.status # "linked"   -> {}
      [] row.state = "LINKED" /\ r.status = "linked"   ->
           {IF row.updated - row.first <= SloWindow THEN "met" ELSE "missed"}

\* The SLO sample of a final row; a FAILED_FINAL case is then escalated.
RecordSlo(w) ==
    LET c == current[w]
    IN  /\ pc[w] = "slo"
        /\ slo' = [slo EXCEPT ![c] = @ \cup SloVerdicts(held[w], result[w])]
        /\ pc' = [pc EXCEPT ![w] = IF held[w].state = "LINKED" THEN "file" ELSE "escalate"]
        /\ UNCHANGED <<env, rows, records, files, escalated, late, current, held, try,
                       result, clock, crashes>>

\* Mutant: only a "failed" result is escalated, not "not-linked".
EscalateFailedOnly(w) ==
    /\ pc[w] = "escalate"
    /\ escalated' = IF result[w].status = "failed" THEN escalated \cup {current[w]} ELSE escalated
    /\ pc' = [pc EXCEPT ![w] = "file"]
    /\ UNCHANGED <<env, rows, records, files, slo, late, current, held, try, result,
                   clock, crashes>>

\* _emit_failed_final_escalation
Escalate(w) ==
    /\ pc[w] = "escalate"
    /\ escalated' = escalated \cup {current[w]}
    /\ pc' = [pc EXCEPT ![w] = "file"]
    /\ UNCHANGED <<env, rows, records, files, slo, late, current, held, try, result,
                   clock, crashes>>

\* _persist_terminal_linkage_stage for the result of this call
WriteFile(w) ==
    /\ pc[w] = "file"
    /\ Put(current[w], [status |-> result[w].status, ids |-> result[w].ids,
                        rehydrated |-> FALSE])
    /\ Return(w)
    /\ UNCHANGED <<env, rows, records, escalated, slo, late, clock, crashes>>

\* The path without a repository: one upsert, no row, then the file
OneShot(w, c, incident) ==
    /\ pc[w] = "idle"
    /\ ~durable
    /\ current' = [current EXCEPT ![w] = c]
    /\ BeginUpsert(w, incident)
    /\ UNCHANGED <<env, rows, records, files, escalated, slo, late, held, clock, crashes>>

OneShotOutcome(w) ==
    LET c == current[w]
        r == result[w]
    IN  /\ pc[w] = "outcome"
        /\ ~durable
        /\ slo' = [slo EXCEPT ![c] = @ \cup (IF r.status = "linked" THEN {"met"}
                                             ELSE IF r.status = "skipped" THEN {}
                                             ELSE {"missed"})]
        /\ pc' = [pc EXCEPT ![w] = "file"]
        /\ UNCHANGED <<env, rows, records, files, escalated, late, current, held, try,
                       result, clock, crashes>>

-----------------------------------------------------------------------------
\* The process dies, or a database or store call of the stage raises out of it.
Crash(w) ==
    /\ pc[w] # "idle"
    /\ crashes < MaxCrashes
    /\ crashes' = crashes + 1
    /\ Return(w)
    /\ UNCHANGED <<env, rows, records, files, escalated, slo, late, clock>>

Tick ==
    /\ clock < Horizon
    /\ clock' = clock + 1
    /\ UNCHANGED <<env, rows, records, files, escalated, slo, late, local, crashes>>

CallerStep(w) ==
    \/ MarkSearchingStep(w)
    \/ Lookup(w)
    \/ Create(w)
    \/ Update(w)
    \/ Outcome(w)
    \/ RecordSlo(w)
    \/ Escalate(w)
    \/ WriteFile(w)
    \/ OneShotOutcome(w)

Call(w, c) ==
    \/ \E incident \in BOOLEAN : Open(w, c, incident) \/ OneShot(w, c, incident)
    \/ Rehydrate(w, c)

Next ==
    \/ \E w \in Workers : CallerStep(w) \/ Crash(w)
    \/ \E w \in Workers, c \in Cases : Call(w, c)
    \/ \E c \in Cases, k \in Keys : ApplyLate(c, k)
    \/ Tick

Spec == Init /\ [][Next]_vars

-----------------------------------------------------------------------------
(* Properties *)

IsFinal(c) == rows[c] # None /\ rows[c].state \in Final

\* A final row never changes again, whatever a slower caller still believes:
\* persist_transition's source-state guard is all that protects it.
FinalRowsStay == [][\A c \in Cases : IsFinal(c) => rows'[c] = rows[c]]_vars

\* In LIVE mode nothing is reported linked, by the row or by linkage.json, that
\* ServiceNow does not hold: the Problem and every PIR task were upserted, and
\* the ids reported are records of this case.
Backed(c, ids) == DOMAIN ids = Keys /\ \A k \in Keys : ids[k] \in 1..records[c][k]
LinkedIsReal ==
    mode = "LIVE" =>
        \A c \in Cases :
            /\ rows[c] # None /\ rows[c].state = "LINKED" => Backed(c, rows[c].ids)
            /\ files[c] # None /\ files[c].status = "linked" => Backed(c, files[c].ids)

\* No external id of the case has two records.
Unique(c) == \A k \in Keys : records[c][k] <= 1

\* With a repository, linkage.json exists only after the verdict is durable and repeats it:
\* whether the case is linked, the status a LINKED row keeps, and, as long as no external
\* id is duplicated, its record ids.  Two exceptions are the code's: a file rebuilt from a
\* "skipped" row says "linked" (_build_terminal_linkage_result_from_retry_state), and with
\* duplicates the caller that finds the row LINKED already writes its own ids, not the
\* row's; a failed row keeps no ids.
FileAgreesWithRow ==
    durable => \A c \in Cases :
        files[c] # None =>
            /\ IsFinal(c)
            /\ files[c].status \in {"linked", "skipped"} <=> rows[c].state = "LINKED"
            /\ rows[c].state = "LINKED" =>
                  /\ ~files[c].rehydrated => files[c].status = rows[c].status
                  /\ Unique(c) => files[c].ids = rows[c].ids

\* upsert_problem and upsert_pir_task say of themselves that they "idempotently upsert" a
\* record "keyed by deterministic external_id": one record per external id.
NoDuplicateRecords == \A c \in Cases : Unique(c)

\* A retry is scheduled strictly later than the failure and not past the end
\* of the case's retry window.
RetryInsideWindow ==
    \A c \in Cases :
        rows[c] # None /\ rows[c].state = "FAILED_TEMP" =>
            /\ rows[c].next \in Nat
            /\ rows[c].updated < rows[c].next
            /\ rows[c].next <= rows[c].deadline

\* The escalation follows the durable FAILED_FINAL row, never precedes it; and
\* while no caller crashes, no FAILED_FINAL row is left without one.
EscalationFollowsVerdict ==
    \A c \in Cases :
        /\ c \in escalated => rows[c] # None /\ rows[c].state = "FAILED_FINAL"
        /\ /\ rows[c] # None
           /\ rows[c].state = "FAILED_FINAL"
           /\ crashes = 0
           /\ \A w \in Workers : current[w] = c => pc[w] \notin {"slo", "escalate"}
           => c \in escalated

\* While no caller crashes, select_retry_candidates misses nothing: a case that
\* nobody works on and that has no verdict is a candidate now or once its next
\* attempt is due.  (A caller that dies in SEARCHING leaves a row no candidate
\* query returns: only a new call for the case picks it up.)
RetryLoopMissesNothing ==
    \A c \in Cases :
        rows[c] # None /\ ~IsFinal(c) /\ crashes = 0 /\ (\A w \in Workers : current[w] # c) =>
            \/ c \in RetryCandidates
            \/ rows[c].state = "FAILED_TEMP" /\ clock < rows[c].next

\* Racing callers that end the same case never count it both as an SLO success
\* and as an SLO miss (one-shot callers keep no common row and may).
SloConsistent == durable => \A c \in Cases : slo[c] # {"met", "missed"}

-----------------------------------------------------------------------------
(* The verdict of a case is its final row; without a repository the file is all there is. *)
Said(c) == IF files[c].status \in {"linked", "skipped"} THEN "linked" ELSE "failed"
Decided(c) ==
    IF durable
    THEN IF ~IsFinal(c) THEN "open" ELSE IF rows[c].state = "LINKED" THEN "linked" ELSE "failed"
    ELSE IF files[c] = None THEN "open" ELSE Said(c)

Contract == INSTANCE LinkageContract WITH
    live <- (mode = "LIVE"),
    made <- records,
    verdict <- [c \in Cases |-> Decided(c)],
    report <- [c \in Cases |-> IF files[c] = None THEN None ELSE Said(c)],
    alarmed <- escalated

(* Seen from outside, a case gets one verdict, backed by its records; linkage.json is    *)
(* written once and repeats it, and only a failure is escalated, whoever retries, races  *)
(* or dies on the way: execute_servicenow_linkage_and_persist implements the contract,   *)
(* with a repository and without.                                                        *)
ImplementsLinkageContract == Contract!CSpec
=============================================================================
