------------------------------- MODULE Outbox -------------------------------
(***************************************************************************)
(* The durable outbox: casefile producers put a write-once triage.json in  *)
(* the object store and a row in Postgres; publisher workers poll the      *)
(* rows, publish the case's two events to Kafka and move the row on.       *)
(*                                                                         *)
(* Every repository call is one read followed by one guarded UPDATE in a   *)
(* READ COMMITTED transaction, so each is two steps here and other         *)
(* processes run in between.  The text of errors, the log records, the     *)
(* metrics and created_at are left out: no transition reads them.          *)
(***************************************************************************)
EXTENDS Integers, FiniteSets

CONSTANTS
    Cases,        \* case ids
    Hashes,       \* triage hashes: two casefiles differ iff their hashes do
    Producers,    \* hot-path instances (or tools) that hand casefiles over
    Workers,      \* outbox-publisher processes
    Role,         \* what each producer runs after persisting its casefile
    BatchSize,    \* worker.batch_size
    MaxRetry,     \* policy.retention_by_env[app_env].max_retry_attempts
    BaseSeconds,  \* compute_retry_delay_seconds base_seconds
    MaxSeconds,   \* compute_retry_delay_seconds max_seconds
    Horizon,      \* bound on the clock; the last instant stands for all later
    MaxFaults,    \* bound on crashes and database errors
    None          \* Python's None

Procs == Producers \cup Workers
\* The events a worker publishes for a case.
Kinds == {"header", "excerpt"}

Time == 0..Horizon
Status == {"PENDING_OBJECT", "READY", "RETRY", "SENT", "DEAD"}
Row == [status: Status, hash: Hashes, attempts: Nat, next: Time \cup {None}, updated: Time]
Tx == [expected: Status, next: Row]
Event == [case: Cases, kind: Kinds, hash: Hashes]
\* A header that a caller hands to the stage; only its case id is ever looked at.
CallerHeader == [case: Cases, kind: {"caller_header"}, hash: {None}]
Message == Event \cup CallerHeader

ASSUME OutboxAssumption ==
    /\ Producers \cap Workers = {}
    /\ Role \in [Producers -> {"insert", "ready", "header"}]
    /\ BatchSize \in Nat \ {0}
    /\ MaxRetry \in Nat
    /\ BaseSeconds \in Nat \ {0}
    /\ MaxSeconds \in Nat \ {0}
    /\ Horizon \in Nat
    /\ MaxFaults \in Nat
    /\ None \notin Nat \cup Hashes \cup Cases \cup Row \cup Tx

VARIABLES
    store,    \* object store: case -> hash of its triage.json, or None
    rows,     \* Postgres outbox table: case -> row, or None
    kafka,    \* events the brokers have accepted (duplicates collapse)
    queue,    \* per process: events still in its Kafka client's local queue
    pc,       \* per process: the next step it takes
    current,  \* per process: the case it is working on
    content,  \* per producer: hash of the casefile it assembled
    batch,    \* per worker: cases of the batch not yet processed
    now,      \* per worker: resolved_now of this run_once
    tx,       \* per process: the open transaction's expected status and next row
    clock,
    faults

vars == <<store, rows, kafka, queue, pc, current, content, batch, now, tx, clock, faults>>

ProducerSteps == {"idle", "insert_read", "insert_write", "ready_read", "ready_write",
                  "header", "sent_read", "sent_write"}
WorkerSteps == {"idle", "loop", "sent_read", "sent_write", "fail_read", "fail_write", "down"}

(* The one type invariant. *)
TypeOK ==
    /\ store \in [Cases -> Hashes \cup {None}]
    /\ rows \in [Cases -> Row \cup {None}]
    /\ kafka \subseteq Message
    /\ queue \in [Procs -> SUBSET Message]
    /\ pc \in [Procs -> ProducerSteps \cup WorkerSteps]
    /\ \A p \in Producers : pc[p] \in ProducerSteps
    /\ \A w \in Workers : pc[w] \in WorkerSteps
    /\ current \in [Procs -> Cases \cup {None}]
    /\ content \in [Producers -> Hashes \cup {None}]
    /\ batch \in [Workers -> SUBSET Cases]
    /\ now \in [Workers -> Time]
    /\ tx \in [Procs -> Tx \cup {None}]
    /\ clock \in Time
    /\ faults \in 0..MaxFaults

Init ==
    /\ store = [c \in Cases |-> None]
    /\ rows = [c \in Cases |-> None]
    /\ kafka = {}
    /\ queue = [x \in Procs |-> {}]
    /\ pc = [x \in Procs |-> "idle"]
    /\ current = [x \in Procs |-> None]
    /\ content = [p \in Producers |-> None]
    /\ batch = [w \in Workers |-> {}]
    /\ now = [w \in Workers |-> 0]
    /\ tx = [x \in Procs |-> None]
    /\ clock = 0
    /\ faults = 0

-----------------------------------------------------------------------------
(* outbox/state_machine.py: the next row of each transition. *)

\* _resolve_transition_now
TransitionNow(row, t) == IF t < row.updated THEN row.updated ELSE t

\* create_pending_outbox_record, and the VALUES of insert_pending_object
PendingRow(h, t) ==
    [status |-> "PENDING_OBJECT", hash |-> h, attempts |-> 0, next |-> None, updated |-> t]

MarkReady(row, t) ==
    [row EXCEPT !.status = "READY", !.next = None, !.updated = TransitionNow(row, t)]

MarkSent(row, t) ==
    [row EXCEPT !.status = "SENT", !.attempts = @ + 1, !.next = None,
                !.updated = TransitionNow(row, t)]

\* compute_retry_delay_seconds: every delay the digest's jitter can give
RetryDelays(n) ==
    LET exp    == IF BaseSeconds * 2^(n - 1) < MaxSeconds
                  THEN BaseSeconds * 2^(n - 1) ELSE MaxSeconds
        window == IF exp \div 5 < 1 THEN 1 ELSE exp \div 5
    IN  {d \in 1..(2 * MaxSeconds) : exp - window <= d /\ d <= exp + window}

\* t + d, on a clock whose last instant is Horizon
After(t, d) == IF t + d < Horizon THEN t + d ELSE Horizon

\* Mutant: the retry budget compared with >= off by one.
MarkPublishFailureLate(row, t) ==
    LET n == row.attempts + 1
        u == TransitionNow(row, t)
    IN  IF n > MaxRetry + 1
        THEN {[row EXCEPT !.status = "DEAD", !.attempts = n, !.next = None, !.updated = u]}
        ELSE {[row EXCEPT !.status = "RETRY", !.attempts = n, !.next = After(u, d),
                          !.updated = u] : d \in RetryDelays(n)}

\* mark_outbox_record_publish_failure, one row per possible jitter
MarkPublishFailure(row, t) ==
    LET n == row.attempts + 1
        u == TransitionNow(row, t)
    IN  IF n > MaxRetry
        THEN {[row EXCEPT !.status = "DEAD", !.attempts = n, !.next = None, !.updated = u]}
        ELSE {[row EXCEPT !.status = "RETRY", !.attempts = n, !.next = After(u, d),
                          !.updated = u] : d \in RetryDelays(n)}

-----------------------------------------------------------------------------
(* Returning from, raising in, and dying with a process's local state. *)

Goto(x, step) == pc' = [pc EXCEPT ![x] = step]

\* The producer's call ends, normally or with an exception.
ProducerEnds(p) ==
    /\ Goto(p, "idle")
    /\ current' = [current EXCEPT ![p] = None]
    /\ content' = [content EXCEPT ![p] = None]
    /\ tx' = [tx EXCEPT ![p] = None]
    /\ UNCHANGED <<batch, now>>

\* run_once goes on with the next record, or sleeps when there is none.
NextRecord(w) ==
    /\ Goto(w, IF batch[w] = {} THEN "idle" ELSE "loop")
    /\ current' = [current EXCEPT ![w] = None]
    /\ tx' = [tx EXCEPT ![w] = None]
    /\ now' = IF batch[w] = {} THEN [now EXCEPT ![w] = 0] ELSE now
    /\ UNCHANGED <<batch, content>>

\* The exception leaves run_once and run_forever: the process ends.
WorkerEnds(w) ==
    /\ Goto(w, "down")
    /\ current' = [current EXCEPT ![w] = None]
    /\ tx' = [tx EXCEPT ![w] = None]
    /\ batch' = [batch EXCEPT ![w] = {}]
    /\ now' = [now EXCEPT ![w] = 0]
    /\ UNCHANGED content

\* run_once catches whatever the publish or transition_to_sent raises.
WorkerCatches(w) ==
    /\ Goto(w, "fail_read")
    /\ tx' = [tx EXCEPT ![w] = None]
    /\ UNCHANGED <<current, content, batch, now>>

Fault == faults < MaxFaults /\ faults' = faults + 1
NoFault == UNCHANGED faults

\* Mutant: a successful transition is handled like a failed publish.
SentReturnsThenRaises(x) ==
    NoFault /\ IF x \in Workers THEN WorkerCatches(x) ELSE ProducerEnds(x)

\* transition_to_sent has returned.  The worker's logs, metrics and SLO evaluation follow
\* inside the same try block, so a failure of theirs counts as a failed publish.
SentReturns(x) ==
    \/ NoFault /\ IF x \in Workers THEN NextRecord(x) ELSE ProducerEnds(x)
    \/ x \in Workers /\ Fault /\ WorkerCatches(x)
SentRaises(x) == IF x \in Workers THEN WorkerCatches(x) ELSE ProducerEnds(x)

\* A transaction has read the row and computed the next one.
OpenTx(x, step, row, next) ==
    /\ Goto(x, step)
    /\ tx' = [tx EXCEPT ![x] = [expected |-> row.status, next |-> next]]
    /\ UNCHANGED <<current, content, batch, now>>

\* Mutant: the UPDATE without its source-status condition.
GuardDropped(x) == tx[x] # None

\* _write_transition: the UPDATE matches, or the latest row already has the status.
GuardHolds(x) == rows[current[x]].status = tx[x].expected
Applied(x) == rows' = [rows EXCEPT ![current[x]] = tx[x].next]
AlreadyThere(x) ==
    /\ ~GuardHolds(x)
    /\ rows[current[x]].status = tx[x].next.status
GuardFails(x) ==
    /\ ~GuardHolds(x)
    /\ rows[current[x]].status # tx[x].next.status

-----------------------------------------------------------------------------
(* Producers: stages/casefile.py and stages/outbox.py. *)

\* Mutant: an unconditional put instead of put_if_absent.
PersistOverwrites(p) ==
    /\ pc[p] = "idle"
    /\ \E c \in Cases, h \in Hashes :
        /\ store' = [store EXCEPT ![c] = h]
        /\ current' = [current EXCEPT ![p] = c]
        /\ content' = [content EXCEPT ![p] = h]
    /\ Goto(p, "insert_read")
    /\ UNCHANGED <<rows, kafka, queue, batch, now, tx, clock, faults>>

\* persist_casefile_and_prepare_outbox_ready: put_if_absent creates the object or
\* finds the same bytes; on different bytes it raises and nothing has changed.
PersistCasefile(p) ==
    /\ pc[p] = "idle"
    /\ \E c \in Cases, h \in Hashes :
        /\ store[c] \in {None, h}
        /\ store' = [store EXCEPT ![c] = h]
        /\ current' = [current EXCEPT ![p] = c]
        /\ content' = [content EXCEPT ![p] = h]
    /\ Goto(p, "insert_read")
    /\ UNCHANGED <<rows, kafka, queue, batch, now, tx, clock, faults>>

\* The object store took the object but the producer got an error instead of the answer.
PersistAnswerLost(p) ==
    /\ pc[p] = "idle"
    /\ \E c \in Cases, h \in Hashes :
        /\ store[c] = None
        /\ store' = [store EXCEPT ![c] = h]
    /\ UNCHANGED <<rows, kafka, queue, pc, current, content, batch, now, tx, clock, faults>>

\* What the producer does once insert_pending_object has returned.
Inserted(p) ==
    IF Role[p] = "insert"
    THEN ProducerEnds(p)
    ELSE /\ Goto(p, "ready_read")
         /\ UNCHANGED <<current, content, batch, now, tx>>

\* insert_pending_object, the SELECT: an existing row is returned if its payload matches.
InsertRead(p) ==
    /\ pc[p] = "insert_read"
    /\ LET row == rows[current[p]] IN
        \/ /\ row = None
           /\ Goto(p, "insert_write")
           /\ UNCHANGED <<current, content, batch, now, tx>>
        \/ /\ row # None
           /\ row.hash = content[p]
           /\ Inserted(p)
        \/ /\ row # None
           /\ row.hash # content[p]
           /\ ProducerEnds(p)
    /\ UNCHANGED <<store, rows, kafka, queue, clock, faults>>

\* insert_pending_object, the INSERT.  After a lost race Postgres has aborted the
\* transaction and the handler's re-read raises; an engine that has not aborted it
\* (SQLite in the tests) returns the other's row if the payload matches.
InsertWrite(p) ==
    /\ pc[p] = "insert_write"
    /\ LET row == rows[current[p]] IN
        \/ /\ row = None
           /\ rows' = [rows EXCEPT ![current[p]] = PendingRow(content[p], clock)]
           /\ Inserted(p)
        \/ /\ row # None
           /\ ProducerEnds(p)
           /\ UNCHANGED rows
        \/ /\ row # None
           /\ row.hash = content[p]
           /\ Inserted(p)
           /\ UNCHANGED rows
    /\ UNCHANGED <<store, kafka, queue, clock, faults>>

\* What the producer does once transition_to_ready has returned a READY record.
BecameReady(p) ==
    IF Role[p] = "ready"
    THEN ProducerEnds(p)
    ELSE /\ Goto(p, "header")
         /\ tx' = [tx EXCEPT ![p] = None]
         /\ UNCHANGED <<current, content, batch, now>>

\* transition_to_ready, the SELECT.
ReadyRead(p) ==
    /\ pc[p] = "ready_read"
    /\ LET row == rows[current[p]] IN
        \/ /\ row.status = "READY"
           /\ BecameReady(p)
        \/ /\ row.status = "PENDING_OBJECT"
           /\ OpenTx(p, "ready_write", row, MarkReady(row, clock))
        \/ /\ row.status \notin {"READY", "PENDING_OBJECT"}
           /\ ProducerEnds(p)
    /\ UNCHANGED <<store, rows, kafka, queue, clock, faults>>

\* transition_to_ready, the guarded UPDATE.
ReadyWrite(p) ==
    /\ pc[p] = "ready_write"
    /\ \/ GuardHolds(p)   /\ Applied(p)     /\ BecameReady(p)
       \/ AlreadyThere(p) /\ UNCHANGED rows /\ BecameReady(p)
       \/ GuardFails(p)   /\ UNCHANGED rows /\ ProducerEnds(p)
    /\ UNCHANGED <<store, kafka, queue, clock, faults>>

-----------------------------------------------------------------------------
(* Publishing: outbox/publisher.py and integrations/kafka.py. *)

\* build_outbox_case_events: the events of the casefile that was read back
Events(c) == {[case |-> c, kind |-> k, hash |-> store[c]] : k \in Kinds}

\* The header a caller passes beside a case's casefile
HeaderFor(c) == [case |-> c, kind |-> "caller_header", hash |-> None]

\* _readback_casefile_for_outbox_record accepts the stored object.
Readback(c) == store[c] = rows[c].hash

\* Mutant: success reported without looking at delivery errors or pending messages.
PublishBatchUnchecked(x, messages, ok) ==
    \E delivered \in SUBSET (queue[x] \cup messages) :
        \E pending \in SUBSET ((queue[x] \cup messages) \ delivered) :
            /\ ok \in BOOLEAN
            /\ kafka' = kafka \cup delivered
            /\ queue' = [queue EXCEPT ![x] = pending]

\* _publish_batch: the client delivers some of what it holds (messages of an earlier
\* flush timeout included) and keeps some.  It reports success only when this batch is
\* acknowledged and nothing is pending; it may report failure whatever was delivered.
PublishBatch(x, messages, ok) ==
    \E delivered \in SUBSET (queue[x] \cup messages) :
        \E pending \in SUBSET ((queue[x] \cup messages) \ delivered) :
            /\ ok => messages \subseteq delivered /\ pending = {}
            /\ kafka' = kafka \cup delivered
            /\ queue' = [queue EXCEPT ![x] = pending]

\* The client's background thread delivers a queued message late, or gives it up.
DeliverQueued(x) ==
    /\ \E m \in queue[x] :
        /\ queue' = [queue EXCEPT ![x] = @ \ {m}]
        /\ kafka' \in {kafka, kafka \cup {m}}
    /\ UNCHANGED <<store, rows, pc, current, content, batch, now, tx, clock, faults>>

\* publish_case_header_after_confirmed_casefile: publish the caller's header for a READY
\* record.  The first disjunct is a failing readback, or a header of another case.
PublishHeader(p) ==
    /\ pc[p] = "header"
    /\ \/ /\ ProducerEnds(p)
          /\ UNCHANGED <<kafka, queue>>
       \/ /\ Readback(current[p])
          /\ PublishBatch(p, {HeaderFor(current[p])}, FALSE)
          /\ ProducerEnds(p)
       \/ /\ Readback(current[p])
          /\ PublishBatch(p, {HeaderFor(current[p])}, TRUE)
          /\ Goto(p, "sent_read")
          /\ UNCHANGED <<current, content, batch, now, tx>>
    /\ UNCHANGED <<store, rows, clock, faults>>

\* Mutant: rows still waiting for their object are selected too.
PublishableUnpromoted == {c \in Cases : rows[c] # None /\ rows[c].status \notin {"SENT", "DEAD"}}
\* Mutant: RETRY rows are forgotten.
PublishableFirstTryOnly == {c \in Cases : rows[c] # None /\ rows[c].status = "READY"}

\* select_publishable(now): READY rows, and RETRY rows that are due.
Publishable ==
    {c \in Cases : /\ rows[c] # None
                   /\ \/ rows[c].status = "READY"
                      \/ /\ rows[c].status = "RETRY"
                         /\ rows[c].next = None \/ rows[c].next <= clock}

\* run_once begins: the oldest publishable rows, at most batch_size of them.  An empty
\* poll changes nothing.  The loop uses only case_id and hash of the selected records,
\* which no transition changes, so the batch is the set of their cases.
SelectPublishable(w) ==
    /\ pc[w] = "idle"
    /\ \E selected \in SUBSET Publishable :
        /\ selected # {}
        /\ \/ selected = Publishable /\ Cardinality(selected) <= BatchSize
           \/ selected # Publishable /\ Cardinality(selected) = BatchSize
        /\ \A c \in selected, d \in Publishable \ selected : rows[c].updated <= rows[d].updated
        /\ batch' = [batch EXCEPT ![w] = selected]
    /\ now' = [now EXCEPT ![w] = clock]
    /\ Goto(w, "loop")
    /\ UNCHANGED <<store, rows, kafka, queue, current, content, tx, clock, faults>>

\* Mutant: a failed publish is recorded as sent.
PublishCaseEventsOptimistic(w) ==
    /\ pc[w] = "loop"
    /\ \E c \in batch[w] :
        /\ batch' = [batch EXCEPT ![w] = @ \ {c}]
        /\ current' = [current EXCEPT ![w] = c]
        /\ Readback(c)
        /\ \E ok \in BOOLEAN : PublishBatch(w, Events(c), ok)
        /\ Goto(w, "sent_read")
    /\ UNCHANGED <<store, rows, content, now, tx, clock, faults>>

\* publish_case_events_after_invariant_a for the next record.  The first disjunct is an
\* exception before Kafka is called: object store down, hash mismatch, denylist failure.
PublishCaseEvents(w) ==
    /\ pc[w] = "loop"
    /\ \E c \in batch[w] :
        /\ batch' = [batch EXCEPT ![w] = @ \ {c}]
        /\ current' = [current EXCEPT ![w] = c]
        /\ \/ Goto(w, "fail_read") /\ UNCHANGED <<kafka, queue>>
           \/ /\ Readback(c)
              /\ PublishBatch(w, Events(c), FALSE)
              /\ Goto(w, "fail_read")
           \/ /\ Readback(c)
              /\ PublishBatch(w, Events(c), TRUE)
              /\ Goto(w, "sent_read")
    /\ UNCHANGED <<store, rows, content, now, tx, clock, faults>>

-----------------------------------------------------------------------------
(* outbox/repository.py: the transitions after a publish. *)

\* A worker passes the resolved_now of its run_once; a producer lets the call read the clock.
CallNow(x) == IF x \in Workers THEN now[x] ELSE clock

\* transition_to_sent, the SELECT.
SentRead(x) ==
    /\ pc[x] = "sent_read"
    /\ LET row == rows[current[x]] IN
        \/ /\ row.status = "SENT"
           /\ SentReturns(x)
        \/ /\ row.status \in {"READY", "RETRY"}
           /\ OpenTx(x, "sent_write", row, MarkSent(row, CallNow(x)))
           /\ NoFault
        \/ /\ row.status \notin {"SENT", "READY", "RETRY"}
           /\ SentRaises(x)
           /\ NoFault
    /\ UNCHANGED <<store, rows, kafka, queue, clock>>

\* transition_to_sent, the guarded UPDATE.
SentWrite(x) ==
    /\ pc[x] = "sent_write"
    /\ \/ GuardHolds(x)   /\ Applied(x)     /\ SentReturns(x)
       \/ AlreadyThere(x) /\ UNCHANGED rows /\ SentReturns(x)
       \/ GuardFails(x)   /\ UNCHANGED rows /\ SentRaises(x) /\ NoFault
    /\ UNCHANGED <<store, kafka, queue, clock>>

\* transition_publish_failure, the SELECT.  Nothing catches what it raises.
FailRead(w) ==
    /\ pc[w] = "fail_read"
    /\ LET row == rows[current[w]] IN
        \/ /\ row.status = "DEAD"
           /\ NextRecord(w)
           /\ UNCHANGED queue
        \/ /\ row.status \in {"READY", "RETRY"}
           /\ \E next \in MarkPublishFailure(row, now[w]) : OpenTx(w, "fail_write", row, next)
           /\ UNCHANGED queue
        \/ /\ row.status \notin {"DEAD", "READY", "RETRY"}
           /\ WorkerEnds(w)
           /\ queue' = [queue EXCEPT ![w] = {}]
    /\ UNCHANGED <<store, rows, kafka, clock, faults>>

\* transition_publish_failure, the guarded UPDATE.
FailWrite(w) ==
    /\ pc[w] = "fail_write"
    /\ \/ GuardHolds(w)   /\ Applied(w)     /\ NextRecord(w) /\ UNCHANGED queue
       \/ AlreadyThere(w) /\ UNCHANGED rows /\ NextRecord(w) /\ UNCHANGED queue
       \/ /\ GuardFails(w)
          /\ UNCHANGED rows
          /\ WorkerEnds(w)
          /\ queue' = [queue EXCEPT ![w] = {}]
    /\ UNCHANGED <<store, kafka, clock, faults>>

-----------------------------------------------------------------------------
(* Faults, restarts and time. *)

\* A repository call raises CriticalDependencyError.  An UPDATE or INSERT that was sent
\* may have committed although the answer is lost.
RepositoryFails(x) ==
    /\ Fault
    /\ \/ UNCHANGED rows
       \/ pc[x] \in {"ready_write", "sent_write", "fail_write"} /\ GuardHolds(x) /\ Applied(x)
       \/ /\ pc[x] = "insert_write"
          /\ rows[current[x]] = None
          /\ rows' = [rows EXCEPT ![current[x]] = PendingRow(content[x], clock)]
    /\ \/ /\ pc[x] \in {"insert_read", "insert_write", "ready_read", "ready_write"}
          /\ ProducerEnds(x)
          /\ UNCHANGED queue
       \/ /\ pc[x] \in {"sent_read", "sent_write"}
          /\ SentRaises(x)
          /\ UNCHANGED queue
       \/ /\ x \in Workers
          /\ pc[x] \in {"idle", "fail_read", "fail_write"}
          /\ WorkerEnds(x)
          /\ queue' = [queue EXCEPT ![x] = {}]
    /\ UNCHANGED <<store, kafka, clock>>

\* The process stops; its transaction rolls back and its client's queue is lost.
Crash(x) ==
    /\ Fault
    /\ \/ x \in Producers /\ pc[x] # "idle" /\ ProducerEnds(x)
       \/ x \in Workers /\ pc[x] # "down" /\ WorkerEnds(x)
    /\ queue' = [queue EXCEPT ![x] = {}]
    /\ UNCHANGED <<store, rows, kafka, clock>>

Restart(w) ==
    /\ pc[w] = "down"
    /\ Goto(w, "idle")
    /\ UNCHANGED <<store, rows, kafka, queue, current, content, batch, now, tx, clock, faults>>

Tick ==
    /\ clock < Horizon
    /\ clock' = clock + 1
    /\ UNCHANGED <<store, rows, kafka, queue, pc, current, content, batch, now, tx, faults>>

ProducerStep(p) ==
    \/ PersistCasefile(p) \/ PersistAnswerLost(p)
    \/ InsertRead(p) \/ InsertWrite(p)
    \/ ReadyRead(p) \/ ReadyWrite(p)
    \/ PublishHeader(p)
    \/ SentRead(p) \/ SentWrite(p)

WorkerStep(w) ==
    \/ SelectPublishable(w)
    \/ PublishCaseEvents(w)
    \/ SentRead(w) \/ SentWrite(w)
    \/ FailRead(w) \/ FailWrite(w)

Next ==
    \/ \E p \in Producers : ProducerStep(p)
    \/ \E w \in Workers : WorkerStep(w) \/ Restart(w)
    \/ \E x \in Procs : DeliverQueued(x) \/ RepositoryFails(x) \/ Crash(x)
    \/ Tick

Spec == Init /\ [][Next]_vars

\* A started worker keeps running and time passes; nothing is assumed of Kafka, of
\* producers, of late deliveries, or of anybody restarting a worker.
Fairness ==
    /\ \A w \in Workers : WF_vars(WorkerStep(w))
    /\ WF_vars(Tick)

LiveSpec == Spec /\ Fairness

-----------------------------------------------------------------------------
(* Properties. *)

AttemptsConsistent(row) ==
    /\ row.status \in {"PENDING_OBJECT", "READY"} => row.attempts = 0 /\ row.next = None
    /\ row.status = "RETRY" => /\ row.attempts \in 1..MaxRetry
                               /\ row.next # None
                               /\ row.next >= row.updated
    /\ row.status = "SENT" => row.attempts \in 1..(MaxRetry + 1) /\ row.next = None
    /\ row.status = "DEAD" => row.attempts = MaxRetry + 1 /\ row.next = None

(* delivery_attempts, next_attempt_at and status stay consistent under lost updates      *)
(* between workers: no row outlives its retry budget, none waits for a retry without a   *)
(* due time, and a DEAD row has used exactly its budget.                                 *)
AttemptAccounting == \A c \in Cases : rows[c] # None => AttemptsConsistent(rows[c])

Accepted(c) == rows[c] # None /\ rows[c].status # "PENDING_OBJECT"

\* What marking a case SENT promises: the worker's two events, or, when a producer marked
\* it, the header it was handed.
Delivered(c) == Events(c) \subseteq kafka \/ HeaderFor(c) \in kafka

\* The row is promoted, its casefile is the stored one, and an event built by a worker was
\* built from it.  What a header handed to the stage says is its caller's affair.
Backed(m) ==
    /\ Accepted(m.case)
    /\ store[m.case] = rows[m.case].hash
    /\ m.kind \in Kinds => m.hash = store[m.case]

(* Invariant A: whatever the brokers hold, or a client may still deliver late, is about  *)
(* a case whose casefile is in the object store and whose row was promoted to READY, and *)
(* a worker's event was built from that very casefile.  At stake: publish before write,  *)
(* a row whose hash is not the stored one, a client queue that outlives its batch.       *)
InvariantA ==
    /\ \A m \in kafka : Backed(m)
    /\ \A x \in Procs : \A m \in queue[x] : Backed(m)

(* A row is SENT only when both events of its stored casefile are on the bus, or, where  *)
(* a producer published for it, that producer's header, whichever of the racing workers  *)
(* and producers wrote SENT, and after whichever partial delivery.                       *)
SentMeansDelivered ==
    \A c \in Cases : (rows[c] # None /\ rows[c].status = "SENT") => Delivered(c)

RowsBacked == \A c \in Cases : rows[c] # None => store[c] = rows[c].hash

\* What a producer's place in its call says about the shared state.
ProducerSound(p) ==
    /\ pc[p] # "idle" => /\ current[p] \in Cases
                         /\ content[p] \in Hashes
                         /\ store[current[p]] = content[p]
    /\ pc[p] \in {"ready_read", "ready_write", "header", "sent_read", "sent_write"}
         => Role[p] # "insert" /\ rows[current[p]] # None
    /\ pc[p] \in {"header", "sent_read", "sent_write"}
         => Role[p] = "header" /\ Accepted(current[p])
    /\ pc[p] \in {"sent_read", "sent_write"} => HeaderFor(current[p]) \in kafka

\* What a worker's place in run_once says about the shared state.
WorkerSound(w) ==
    /\ \A c \in batch[w] : Accepted(c)
    /\ pc[w] \in {"sent_read", "sent_write", "fail_read", "fail_write"}
         => current[w] \in Cases /\ Accepted(current[w])
    /\ pc[w] \in {"sent_read", "sent_write"} => Events(current[w]) \subseteq kafka

\* The row an open transaction is about to write.
TxSound(x) ==
    pc[x] \in {"ready_write", "sent_write", "fail_write"} =>
        /\ tx[x] \in Tx
        /\ tx[x].next.hash = rows[current[x]].hash
        /\ AttemptsConsistent(tx[x].next)
        /\ pc[x] = "ready_write" => /\ tx[x].expected = "PENDING_OBJECT"
                                    /\ tx[x].next.status = "READY"
        /\ pc[x] = "sent_write" => /\ tx[x].expected \in {"READY", "RETRY"}
                                   /\ tx[x].next.status = "SENT"
        /\ pc[x] = "fail_write" => /\ tx[x].expected \in {"READY", "RETRY"}
                                   /\ tx[x].next.status \in {"RETRY", "DEAD"}

(* The stale local state of every process stays sound while others move the rows: a case *)
(* in a batch stays promoted, a process about to write SENT has its events on the bus,   *)
(* the row it is about to write belongs to the stored casefile.                          *)
LocalStateSound ==
    /\ \A p \in Producers : ProducerSound(p)
    /\ \A w \in Workers : WorkerSound(w)
    /\ \A x \in Procs : TxSound(x)

(* The inductive invariant of the safety proofs. *)
IInv ==
    /\ TypeOK
    /\ RowsBacked
    /\ AttemptAccounting
    /\ LocalStateSound
    /\ InvariantA
    /\ SentMeansDelivered

\* How one step may move a row.
RowMoves(c) ==
    rows[c] # None =>
        /\ rows'[c] # None
        /\ rows'[c].hash = rows[c].hash
        /\ rows[c].status \in {"SENT", "DEAD"} => rows'[c] = rows[c]
        /\ rows[c].status = "PENDING_OBJECT" => rows'[c].status \in {"PENDING_OBJECT", "READY"}
        /\ rows[c].status = "READY" => rows'[c].status \in {"READY", "RETRY", "SENT", "DEAD"}
        /\ rows[c].status = "RETRY" => rows'[c].status \in {"RETRY", "SENT", "DEAD"}

(* A row never moves against the state machine: a SENT or DEAD row is never touched      *)
(* again, a promoted row never returns to PENDING_OBJECT nor a retried one to READY, the *)
(* hash never changes, rows are never deleted.  Violating it takes a stale read by one   *)
(* process and a completed transition by another.                                        *)
StateMachine == [][\A c \in Cases : RowMoves(c)]_rows

(* Every promoted row is eventually sent or given up: while workers keep running, no     *)
(* batch limit, retry or race with another worker makes the outbox lose sight of it.     *)
DeliveryResolves ==
    \A c \in Cases : Accepted(c) ~> (Accepted(c) /\ rows[c].status \in {"SENT", "DEAD"})

(* A worker that shares its rows with nobody and meets no fault never dies: the          *)
(* exceptions that escape run_once come only from races and outages.                     *)
LoneWorkerSurvives ==
    (/\ faults = 0
     /\ \A v, w \in Workers : v = w
     /\ \A p \in Producers : Role[p] # "header")
        => \A w \in Workers : pc[w] # "down"

(* The loop of run_forever runs "continuously": without a fault no worker ends, however  *)
(* many of them share the rows.                                                          *)
EveryWorkerSurvives == faults = 0 => \A w \in Workers : pc[w] # "down"

(* Every row a producer has inserted is promoted to READY. *)
EveryRowPromoted == \A c \in Cases : rows[c] # None ~> Accepted(c)

-----------------------------------------------------------------------------
(* The outbox implements AtLeastOnce: rows are seen as acceptance and outcome, *)
(* the two steps of a transition as one, everything local to a process as      *)
(* nothing.                                                                    *)
Outcome(c) ==
    IF rows[c] = None THEN "open"
    ELSE IF rows[c].status = "SENT" THEN "sent"
    ELSE IF rows[c].status = "DEAD" THEN "dead"
    ELSE "open"

Contract == INSTANCE AtLeastOnce WITH
    casefile <- store,
    accepted <- {c \in Cases : Accepted(c)},
    bus <- kafka,
    settled <- [c \in Cases |-> Outcome(c)]

(* Every behaviour of workers, producers, races and faults is one the delivery contract *)
(* allows.                                                                              *)
ImplementsAtLeastOnce == Contract!ASpec

=============================================================================
