---------------------------- MODULE OutboxProofs ----------------------------
(* Safety of the outbox for every number of cases, producers and workers, every retry    *)
(* budget and every fault bound.                                                         *)
EXTENDS Outbox, TLAPS

TxSteps == {"ready_write", "sent_write", "fail_write"}

\* The shared state only moves forward.
Grows ==
    /\ \A c \in Cases : store[c] # None => store'[c] = store[c]
    /\ \A c \in Cases : RowMoves(c)
    /\ kafka \subseteq kafka'

\* The invariants about rows hold in the next state.
RowsGood == RowsBacked' /\ AttemptAccounting' /\ SentMeansDelivered'

\* No process but x changes its local state.
OnlyMoves(x) ==
    /\ \A y \in Procs \ {x} : pc'[y] = pc[y] /\ current'[y] = current[y] /\ tx'[y] = tx[y]
    /\ \A p \in Producers \ {x} : content'[p] = content[p]
    /\ \A w \in Workers \ {x} : batch'[w] = batch[w]

\* The step adds no event that is not backed.
AddsBacked ==
    /\ \A m \in kafka' \ kafka : m \in Message /\ Backed(m)
    /\ \A x \in Procs : \A m \in queue'[x] \ queue[x] : m \in Message /\ Backed(m)

SharedTyped ==
    /\ store \in [Cases -> Hashes \cup {None}]
    /\ rows \in [Cases -> Row \cup {None}]
    /\ kafka \subseteq Message
    /\ queue \in [Procs -> SUBSET Message]
    /\ clock \in Time
    /\ faults \in 0..MaxFaults

LocalsTyped ==
    /\ pc \in [Procs -> ProducerSteps \cup WorkerSteps]
    /\ \A p \in Producers : pc[p] \in ProducerSteps
    /\ \A w \in Workers : pc[w] \in WorkerSteps
    /\ current \in [Procs -> Cases \cup {None}]
    /\ content \in [Producers -> Hashes \cup {None}]
    /\ batch \in [Workers -> SUBSET Cases]
    /\ now \in [Workers -> Time]
    /\ tx \in [Procs -> Tx \cup {None}]

\* x's own local state is sound in the next state.
SoundAfter(x) ==
    /\ x \in Producers => ProducerSound(x)'
    /\ x \in Workers => WorkerSound(x)'
    /\ TxSound(x)'

(* A promoted row stays promoted. *)
LEMMA AcceptedStays ==
    ASSUME IInv, Grows, NEW c \in Cases, Accepted(c)
    PROVE  Accepted(c)' /\ rows'[c].hash = rows[c].hash /\ store'[c] = store[c]
                        /\ store[c] = rows[c].hash
  BY OutboxAssumption DEF IInv, Grows, RowMoves, Accepted, RowsBacked, TypeOK, Row, Status

(* Events backed before a step that only moves the shared state forward stay backed. *)
LEMMA BackedStays ==
    ASSUME IInv, Grows, NEW m \in Message, Backed(m)
    PROVE  Backed(m)'
<1>1. m.case \in Cases
  BY DEF Message, Event, CallerHeader
<1> QED
  BY <1>1, AcceptedStays DEF Backed

(* What has been delivered stays delivered. *)
LEMMA DeliveredStays ==
    ASSUME NEW c \in Cases, store'[c] = store[c], kafka \subseteq kafka', Delivered(c)
    PROVE  Delivered(c)'
<1>1. Events(c)' = Events(c) /\ HeaderFor(c)' = HeaderFor(c)
  BY DEF Events, HeaderFor
<1> QED
  BY <1>1 DEF Delivered

(* A step that leaves the rows alone keeps the invariants about rows. *)
LEMMA RowsKept ==
    ASSUME IInv, Grows, rows' = rows
    PROVE  RowsGood
<1>1. RowsBacked'
  BY OutboxAssumption DEF IInv, Grows, RowsBacked, TypeOK, Row
<1>2. AttemptAccounting'
  BY DEF IInv, AttemptAccounting, AttemptsConsistent
<1>3. SentMeansDelivered'
  <2> SUFFICES ASSUME NEW c \in Cases, rows'[c] # None, rows'[c].status = "SENT"
               PROVE  Delivered(c)'
    BY DEF SentMeansDelivered
  <2>1. store'[c] = store[c]
    BY OutboxAssumption DEF IInv, Grows, RowsBacked, TypeOK, Row
  <2> QED
    BY <2>1, DeliveredStays DEF IInv, SentMeansDelivered, Grows
<1> QED
  BY <1>1, <1>2, <1>3 DEF RowsGood

(* The guarded UPDATE of a sound transaction moves its row along the state machine. *)
LEMMA ApplyTx ==
    ASSUME IInv, NEW x \in Procs, pc[x] \in TxSteps, GuardHolds(x), Applied(x),
           store' = store, kafka' = kafka
    PROVE  Grows /\ RowsGood /\ rows' \in [Cases -> Row \cup {None}]
<1> DEFINE d == current[x]
<1>1. /\ d \in Cases /\ rows[d] \in Row /\ tx[x] \in Tx
      /\ tx[x].next.hash = rows[d].hash
      /\ AttemptsConsistent(tx[x].next)
      /\ rows[d].status = tx[x].expected
      /\ \/ tx[x].expected = "PENDING_OBJECT" /\ tx[x].next.status = "READY"
         \/ tx[x].expected \in {"READY", "RETRY"} /\ tx[x].next.status \in {"SENT", "RETRY", "DEAD"}
      /\ pc[x] # "sent_write" => tx[x].next.status # "SENT"
  <2>1. CASE x \in Producers
    BY <2>1, OutboxAssumption
       DEF IInv, LocalStateSound, ProducerSound, TxSound, TxSteps, GuardHolds, TypeOK,
           ProducerSteps, Procs
  <2>2. CASE x \in Workers
    BY <2>2, OutboxAssumption
       DEF IInv, LocalStateSound, WorkerSound, TxSound, TxSteps, GuardHolds, TypeOK,
           WorkerSteps, Procs, Accepted
  <2> QED
    BY <2>1, <2>2 DEF Procs
<1>2. rows' = [rows EXCEPT ![d] = tx[x].next] /\ rows \in [Cases -> Row \cup {None}]
  BY DEF Applied, IInv, TypeOK
<1>3. rows' \in [Cases -> Row \cup {None}] /\ rows'[d] = tx[x].next /\ tx[x].next \in Row
  BY <1>1, <1>2 DEF Tx
<1>4. \A c \in Cases : RowMoves(c)
  BY <1>1, <1>2, <1>3, OutboxAssumption DEF RowMoves, Row, Status
<1>5. Grows
  BY <1>4 DEF Grows
<1>6. RowsBacked'
  BY <1>1, <1>2, <1>3, OutboxAssumption DEF RowsBacked, IInv
<1>7. AttemptAccounting'
  <2> SUFFICES ASSUME NEW c \in Cases, rows'[c] # None
               PROVE  AttemptsConsistent(rows'[c])
    BY DEF AttemptAccounting, AttemptsConsistent
  <2>1. CASE c = d
    BY <2>1, <1>1, <1>3
  <2>2. CASE c # d
    BY <2>2, <1>1, <1>2 DEF IInv, AttemptAccounting
  <2> QED
    BY <2>1, <2>2
<1>8. SentMeansDelivered'
  <2> SUFFICES ASSUME NEW c \in Cases, rows'[c] # None, rows'[c].status = "SENT"
               PROVE  Delivered(c)'
    BY DEF SentMeansDelivered
  <2>1. Delivered(c) => Delivered(c)'
    BY DeliveredStays
  <2>2. CASE c = d
    <3>1. pc[x] = "sent_write"
      BY <2>2, <1>1, <1>3
    <3>2. CASE x \in Workers
      BY <2>1, <2>2, <3>1, <3>2 DEF IInv, LocalStateSound, WorkerSound, Delivered
    <3>3. CASE x \in Producers
      BY <2>1, <2>2, <3>1, <3>3 DEF IInv, LocalStateSound, ProducerSound, Delivered
    <3> QED
      BY <3>2, <3>3 DEF Procs
  <2>3. CASE c # d
    BY <2>3, <2>1, <1>1, <1>2 DEF IInv, SentMeansDelivered
  <2> QED
    BY <2>2, <2>3
<1> QED
  BY <1>3, <1>5, <1>6, <1>7, <1>8 DEF RowsGood

(* The local state of the processes that do not move stays sound. *)
LEMMA OthersSound ==
    ASSUME IInv, Grows, NEW x \in Procs, OnlyMoves(x), NEW y \in Procs \ {x}
    PROVE  SoundAfter(y)
<1>1. ASSUME y \in Producers
      PROVE  ProducerSound(y)'
  <2> DEFINE d == current[y]
  <2>0. ProducerSound(y) /\ y \in Procs
    BY <1>1 DEF IInv, LocalStateSound
  <2>1. pc'[y] = pc[y] /\ current'[y] = d /\ content'[y] = content[y]
    BY <1>1 DEF OnlyMoves
  <2>2. CASE pc[y] = "idle"
    BY <2>1, <2>2 DEF ProducerSound
  <2>3. CASE pc[y] # "idle"
    <3>1. d \in Cases /\ content[y] \in Hashes /\ store[d] = content[y]
      BY <2>0, <2>3 DEF ProducerSound
    <3>2. store'[d] = store[d]
      BY <3>1, OutboxAssumption DEF Grows
    <3>3. rows[d] # None => rows'[d] # None
      BY <3>1 DEF Grows, RowMoves
    <3>4. \A c \in Cases : Accepted(c) => Accepted(c)'
      BY AcceptedStays
    <3>5. HeaderFor(d) \in kafka => HeaderFor(current[y])' \in kafka'
      BY <2>1 DEF Grows, HeaderFor
    <3> QED
      BY <2>0, <2>1, <3>1, <3>2, <3>3, <3>4, <3>5 DEF ProducerSound, Accepted
  <2> QED
    BY <2>2, <2>3
<1>2. ASSUME y \in Workers
      PROVE  WorkerSound(y)'
  <2> DEFINE d == current[y]
  <2>0. WorkerSound(y) /\ y \in Procs /\ batch[y] \subseteq Cases
    BY <1>2 DEF IInv, LocalStateSound, TypeOK
  <2>1. pc'[y] = pc[y] /\ current'[y] = d /\ batch'[y] = batch[y]
    BY <1>2 DEF OnlyMoves
  <2>2. \A c \in Cases : Accepted(c) => Accepted(c)' /\ store'[c] = store[c]
    BY AcceptedStays
  <2>3. \A c \in batch'[y] : Accepted(c)'
    BY <2>0, <2>1, <2>2 DEF WorkerSound
  <2>4. ASSUME pc[y] \in {"sent_read", "sent_write"}
        PROVE  Events(current[y])' \subseteq kafka'
    <3>1. d \in Cases /\ Accepted(d) /\ Events(d) \subseteq kafka
      BY <2>0, <2>4 DEF WorkerSound
    <3>2. store'[d] = store[d]
      BY <3>1, <2>2
    <3> QED
      BY <3>1, <3>2, <2>1 DEF Events, Grows
  <2> QED
    BY <2>0, <2>1, <2>2, <2>3, <2>4 DEF WorkerSound, Accepted
<1>3. TxSound(y)'
  <2>1. CASE pc[y] \notin TxSteps
    BY <2>1 DEF OnlyMoves, TxSound, TxSteps
  <2>2. CASE pc[y] \in TxSteps
    <3> DEFINE d == current[y]
    <3>1. d \in Cases /\ rows[d] # None
      <4>1. CASE y \in Producers
        BY <4>1, <2>2 DEF IInv, LocalStateSound, ProducerSound, TxSteps, TypeOK, ProducerSteps
      <4>2. CASE y \in Workers
        BY <4>2, <2>2 DEF IInv, LocalStateSound, WorkerSound, TxSteps, TypeOK, WorkerSteps, Accepted
      <4> QED
        BY <4>1, <4>2 DEF Procs
    <3>2. rows'[d].hash = rows[d].hash
      BY <3>1 DEF Grows, RowMoves
    <3>3. TxSound(y) /\ pc'[y] = pc[y] /\ current'[y] = d /\ tx'[y] = tx[y]
      BY DEF IInv, LocalStateSound, OnlyMoves
    <3> QED
      BY <2>2, <3>2, <3>3 DEF TxSound, TxSteps, AttemptsConsistent
  <2> QED
    BY <2>1, <2>2
<1> QED
  BY <1>1, <1>2, <1>3 DEF SoundAfter

(* What a step of one process must establish for the invariant to be kept. *)
LEMMA StepKeeps ==
    ASSUME IInv, SharedTyped', LocalsTyped', Grows, RowsGood, AddsBacked,
           NEW x \in Procs, OnlyMoves(x), SoundAfter(x)
    PROVE  IInv' /\ Grows
<1>0. TypeOK'
  BY DEF TypeOK, SharedTyped, LocalsTyped
<1>1. \A y \in Procs : SoundAfter(y)
  BY OthersSound
<1>2. LocalStateSound'
  BY <1>1 DEF LocalStateSound, SoundAfter, Procs
<1>3. ASSUME NEW m \in Message, Backed(m)
      PROVE  Backed(m)'
  BY <1>3, BackedStays
<1>4. \A m \in kafka' : m \in Message /\ Backed(m)
  BY DEF IInv, InvariantA, AddsBacked, TypeOK
<1>5. \A y \in Procs : \A m \in queue'[y] : m \in Message /\ Backed(m)
  <2> SUFFICES ASSUME NEW y \in Procs, NEW m \in queue'[y]
               PROVE  m \in Message /\ Backed(m)
    OBVIOUS
  <2>1. queue[y] \in SUBSET Message
    BY DEF IInv, TypeOK
  <2> QED
    BY <2>1 DEF IInv, InvariantA, AddsBacked
<1>6. InvariantA'
  BY <1>3, <1>4, <1>5 DEF InvariantA
<1> QED
  BY <1>0, <1>2, <1>6 DEF IInv, RowsGood

(* A step that touches neither the store, the rows nor the brokers. *)
LEMMA QuietShared ==
    ASSUME IInv, store' = store, rows' = rows, kafka' = kafka,
           \A y \in Procs : queue'[y] \subseteq queue[y]
    PROVE  Grows /\ RowsGood /\ AddsBacked
<1>1. Grows
  <2>1. \A c \in Cases : RowMoves(c)
    BY DEF RowMoves, IInv, TypeOK, Row, Status
  <2> QED
    BY <2>1 DEF Grows
<1> QED
  BY <1>1, RowsKept DEF AddsBacked

(* The end of a producer's call. *)
LEMMA ProducerEndsSound ==
    ASSUME IInv, NEW p \in Producers, ProducerEnds(p)
    PROVE  LocalsTyped' /\ OnlyMoves(p) /\ SoundAfter(p)
<1>1. p \in Procs /\ p \notin Workers
  BY OutboxAssumption DEF Procs
<1>2. LocalsTyped'
  BY <1>1 DEF IInv, TypeOK, LocalsTyped, ProducerEnds, Goto, ProducerSteps
<1>3. OnlyMoves(p)
  BY <1>1 DEF IInv, TypeOK, OnlyMoves, ProducerEnds, Goto, Procs
<1>4. pc'[p] = "idle"
  BY <1>1 DEF IInv, TypeOK, ProducerEnds, Goto
<1>5. SoundAfter(p)
  BY <1>1, <1>4 DEF SoundAfter, ProducerSound, TxSound
<1> QED
  BY <1>2, <1>3, <1>5

(* The end of a worker's process. *)
LEMMA WorkerEndsSound ==
    ASSUME IInv, NEW w \in Workers, WorkerEnds(w)
    PROVE  LocalsTyped' /\ OnlyMoves(w) /\ SoundAfter(w)
<1>1. w \in Procs /\ w \notin Producers
  BY OutboxAssumption DEF Procs
<1>2. LocalsTyped'
  BY <1>1, OutboxAssumption DEF IInv, TypeOK, LocalsTyped, WorkerEnds, Goto, WorkerSteps, Time
<1>3. OnlyMoves(w)
  BY <1>1 DEF IInv, TypeOK, OnlyMoves, WorkerEnds, Goto, Procs
<1>4. pc'[w] = "down" /\ batch'[w] = {}
  BY <1>1 DEF IInv, TypeOK, WorkerEnds, Goto
<1>5. SoundAfter(w)
  BY <1>1, <1>4 DEF SoundAfter, WorkerSound, TxSound
<1> QED
  BY <1>2, <1>3, <1>5

(* A worker going on to its next record. *)
LEMMA NextRecordSound ==
    ASSUME IInv, Grows, NEW w \in Workers, NextRecord(w)
    PROVE  LocalsTyped' /\ OnlyMoves(w) /\ SoundAfter(w)
<1>1. w \in Procs /\ w \notin Producers
  BY OutboxAssumption DEF Procs
<1>2. LocalsTyped'
  BY <1>1, OutboxAssumption DEF IInv, TypeOK, LocalsTyped, NextRecord, Goto, WorkerSteps, Time
<1>3. OnlyMoves(w)
  BY <1>1 DEF IInv, TypeOK, OnlyMoves, NextRecord, Goto, Procs
<1>4. pc'[w] \in {"idle", "loop"} /\ batch' = batch
  BY <1>1 DEF IInv, TypeOK, NextRecord, Goto
<1>5. \A c \in batch'[w] : Accepted(c)'
  BY <1>4, AcceptedStays DEF IInv, TypeOK, LocalStateSound, WorkerSound
<1>6. SoundAfter(w)
  BY <1>1, <1>4, <1>5 DEF SoundAfter, WorkerSound, TxSound
<1> QED
  BY <1>2, <1>3, <1>6

(* A worker turning to transition_publish_failure for its current case. *)
LEMMA WorkerCatchesSound ==
    ASSUME IInv, Grows, NEW w \in Workers, WorkerCatches(w), pc[w] \in {"sent_read", "sent_write"}
    PROVE  LocalsTyped' /\ OnlyMoves(w) /\ SoundAfter(w)
<1>1. w \in Procs /\ w \notin Producers
  BY OutboxAssumption DEF Procs
<1>2. LocalsTyped'
  BY <1>1, OutboxAssumption DEF IInv, TypeOK, LocalsTyped, WorkerCatches, Goto, WorkerSteps
<1>3. OnlyMoves(w)
  BY <1>1 DEF IInv, TypeOK, OnlyMoves, WorkerCatches, Goto, Procs
<1>4. pc'[w] = "fail_read" /\ batch' = batch /\ current' = current
  BY <1>1 DEF IInv, TypeOK, WorkerCatches, Goto
<1>5. \A c \in batch'[w] : Accepted(c)'
  BY <1>4, AcceptedStays DEF IInv, TypeOK, LocalStateSound, WorkerSound
<1>6. current[w] \in Cases /\ Accepted(current[w])
  BY DEF IInv, LocalStateSound, WorkerSound
<1>7. rows'[current[w]] # None /\ rows'[current[w]].status # "PENDING_OBJECT"
  BY <1>6, AcceptedStays DEF Accepted
<1>8. SoundAfter(w)
  BY <1>1, <1>4, <1>5, <1>6, <1>7 DEF SoundAfter, WorkerSound, TxSound, Accepted
<1> QED
  BY <1>2, <1>3, <1>8

(* transition_to_sent returning or raising, for either kind of caller. *)
LEMMA SentEndsSound ==
    ASSUME IInv, Grows, NEW x \in Procs, pc[x] \in {"sent_read", "sent_write"},
           SentReturns(x) \/ SentRaises(x)
    PROVE  LocalsTyped' /\ OnlyMoves(x) /\ SoundAfter(x)
<1>1. CASE x \in Workers
  BY <1>1, NextRecordSound, WorkerCatchesSound DEF SentReturns, SentRaises
<1>2. CASE x \notin Workers
  BY <1>2, ProducerEndsSound DEF SentReturns, SentRaises, Procs
<1> QED
  BY <1>1, <1>2

(* A process opening a transaction keeps what it knew at its read step. *)
LEMMA OpenTxSound ==
    ASSUME IInv, store' = store, rows' = rows, kafka' = kafka,
           NEW x \in Procs, NEW step \in TxSteps, NEW next \in Row,
           OpenTx(x, step, rows[current[x]], next),
           \/ x \in Producers /\ pc[x] = "ready_read" /\ step = "ready_write"
           \/ pc[x] = "sent_read" /\ step = "sent_write"
           \/ x \in Workers /\ pc[x] = "fail_read" /\ step = "fail_write",
           next.hash = rows[current[x]].hash, AttemptsConsistent(next),
           step = "ready_write" => /\ rows[current[x]].status = "PENDING_OBJECT"
                                   /\ next.status = "READY",
           step # "ready_write" => rows[current[x]].status \in {"READY", "RETRY"},
           step = "sent_write" => next.status = "SENT",
           step = "fail_write" => next.status \in {"RETRY", "DEAD"}
    PROVE  LocalsTyped' /\ OnlyMoves(x) /\ SoundAfter(x)
<1> DEFINE d == current[x]
<1>1. d \in Cases /\ rows[d] \in Row
  <2>1. CASE x \in Producers
    BY <2>1, OutboxAssumption DEF IInv, LocalStateSound, ProducerSound, TypeOK, ProducerSteps
  <2>2. CASE x \in Workers
    BY <2>2, OutboxAssumption DEF IInv, LocalStateSound, WorkerSound, TypeOK, WorkerSteps, Accepted
  <2> QED
    BY <2>1, <2>2 DEF Procs
<1> DEFINE new == [expected |-> rows[d].status, next |-> next]
<1>2. new \in Tx
  BY <1>1 DEF Tx, Row
<1>3. /\ pc' = [pc EXCEPT ![x] = step] /\ tx' = [tx EXCEPT ![x] = new]
      /\ current' = current /\ content' = content /\ batch' = batch /\ now' = now
  BY DEF OpenTx, Goto
<1>4. pc'[x] = step /\ tx'[x] = new /\ x \in Producers \cup Workers
  BY <1>3 DEF IInv, TypeOK, Procs
<1>5. LocalsTyped'
  <2>1. x \in Producers => step \in ProducerSteps
    BY OutboxAssumption DEF IInv, TypeOK, ProducerSteps
  <2>2. x \in Workers => step \in WorkerSteps
    BY OutboxAssumption DEF IInv, TypeOK, WorkerSteps
  <2>3. pc' \in [Procs -> ProducerSteps \cup WorkerSteps]
    BY <1>3, <1>4, <2>1, <2>2 DEF IInv, TypeOK
  <2>4. tx' \in [Procs -> Tx \cup {None}]
    BY <1>2, <1>3 DEF IInv, TypeOK
  <2> QED
    BY <1>3, <1>4, <2>1, <2>2, <2>3, <2>4 DEF IInv, TypeOK, LocalsTyped, Procs
<1>6. OnlyMoves(x)
  BY <1>3 DEF IInv, TypeOK, OnlyMoves, Procs
<1>7. x \in Producers => ProducerSound(x)'
  BY <1>3, <1>4 DEF IInv, TypeOK, LocalStateSound, ProducerSound, Accepted, HeaderFor, TxSteps,
                    ProducerSteps
<1>8. x \in Workers => WorkerSound(x)'
  BY <1>3, <1>4 DEF IInv, TypeOK, LocalStateSound, WorkerSound, Accepted, Events, TxSteps,
                    WorkerSteps
<1>9. TxSound(x)'
  <2>1. AttemptsConsistent(new.next)
    OBVIOUS
  <2> QED
    BY <1>2, <1>3, <1>4, <2>1 DEF TxSound, AttemptsConsistent, TxSteps
<1> QED
  BY <1>5, <1>6, <1>7, <1>8, <1>9 DEF SoundAfter

-----------------------------------------------------------------------------
(* The rows the state machine computes. *)

(* A transition time is a time of the model's clock. *)
LEMMA TransitionNowType ==
    ASSUME NEW row \in Row, NEW t \in Time
    PROVE  TransitionNow(row, t) \in Time
  BY DEF TransitionNow, Row

(* mark_outbox_record_ready on a row waiting for its object. *)
LEMMA MarkReadySound ==
    ASSUME NEW row \in Row, NEW t \in Time, AttemptsConsistent(row),
           row.status = "PENDING_OBJECT"
    PROVE  LET next == MarkReady(row, t)
           IN  /\ next \in Row /\ next.status = "READY" /\ next.hash = row.hash
               /\ AttemptsConsistent(next)
  BY TransitionNowType, OutboxAssumption DEF MarkReady, Row, Status, AttemptsConsistent

(* mark_outbox_record_sent stays within the retry budget. *)
LEMMA MarkSentSound ==
    ASSUME NEW row \in Row, NEW t \in Time, AttemptsConsistent(row),
           row.status \in {"READY", "RETRY"}
    PROVE  LET next == MarkSent(row, t)
           IN  /\ next \in Row /\ next.status = "SENT" /\ next.hash = row.hash
               /\ AttemptsConsistent(next)
<1> DEFINE u == TransitionNow(row, t)
           n == row.attempts + 1
<1>1. u \in Time /\ n \in 1..(MaxRetry + 1) /\ n \in Nat
  BY TransitionNowType, OutboxAssumption DEF Row, AttemptsConsistent
<1>2. MarkSent(row, t) = [row EXCEPT !.status = "SENT", !.attempts = n, !.next = None, !.updated = u]
  BY DEF MarkSent
<1> HIDE DEF u, n
<1> QED
  BY <1>1, <1>2 DEF Row, Status, AttemptsConsistent

(* mark_outbox_record_publish_failure dies exactly when the budget is used up. *)
LEMMA MarkPublishFailureSound ==
    ASSUME NEW row \in Row, NEW t \in Time, AttemptsConsistent(row),
           row.status \in {"READY", "RETRY"}, NEW next \in MarkPublishFailure(row, t)
    PROVE  /\ next \in Row /\ next.status \in {"RETRY", "DEAD"} /\ next.hash = row.hash
           /\ AttemptsConsistent(next)
<1> DEFINE n == row.attempts + 1
           u == TransitionNow(row, t)
<1>1. u \in Time /\ n \in 1..(MaxRetry + 1) /\ n \in Nat
  BY TransitionNowType, OutboxAssumption DEF Row, AttemptsConsistent
<1>2. CASE n > MaxRetry
  <2>1. next = [row EXCEPT !.status = "DEAD", !.attempts = n, !.next = None, !.updated = u]
    BY <1>2 DEF MarkPublishFailure
  <2>2. n = MaxRetry + 1
    BY <1>1, <1>2, OutboxAssumption
  <2> HIDE DEF u, n
  <2> QED
    BY <1>1, <2>1, <2>2 DEF Row, Status, AttemptsConsistent
<1>3. CASE ~(n > MaxRetry)
  <2>1. PICK delay \in RetryDelays(n) :
          next = [row EXCEPT !.status = "RETRY", !.attempts = n, !.next = After(u, delay),
                             !.updated = u]
    BY <1>3 DEF MarkPublishFailure
  <2>2. delay \in 1..(2 * MaxSeconds)
    BY DEF RetryDelays
  <2> DEFINE due == After(u, delay)
  <2>3. due \in Time /\ due >= u
    BY <1>1, <2>2, OutboxAssumption DEF After, Time
  <2>4. n \in 1..MaxRetry
    BY <1>1, <1>3, OutboxAssumption
  <2>5. due # None
    BY <2>3, OutboxAssumption DEF Time
  <2>6. next = [row EXCEPT !.status = "RETRY", !.attempts = n, !.next = due, !.updated = u]
    BY <2>1
  <2> HIDE DEF u, n, due
  <2>7. next \in Row /\ next.hash = row.hash
    BY <1>1, <2>3, <2>6 DEF Row, Status
  <2>8. next.status = "RETRY" /\ next.attempts = n /\ next.next = due /\ next.updated = u
    BY <2>6 DEF Row
  <2> QED
    BY <2>3, <2>4, <2>5, <2>7, <2>8 DEF AttemptsConsistent
<1> QED
  BY <1>2, <1>3

-----------------------------------------------------------------------------
(* One lemma per action: it keeps the inductive invariant. *)

(* The initial state satisfies the invariant. *)
LEMMA InitKept == Init => IInv
<1> SUFFICES ASSUME Init PROVE IInv
  OBVIOUS
<1>1. TypeOK
  BY OutboxAssumption DEF Init, TypeOK, Procs, ProducerSteps, WorkerSteps, Time
<1>2. RowsBacked /\ AttemptAccounting /\ SentMeansDelivered
  BY DEF Init, RowsBacked, AttemptAccounting, SentMeansDelivered
<1>3. InvariantA
  BY DEF Init, InvariantA
<1>4. LocalStateSound
  BY DEF Init, LocalStateSound, ProducerSound, WorkerSound, TxSound, Procs
<1> QED
  BY <1>1, <1>2, <1>3, <1>4 DEF IInv

(* A producer persisting its casefile. *)
LEMMA PersistCasefileKept ==
    ASSUME IInv, NEW p \in Producers, PersistCasefile(p)
    PROVE  IInv' /\ Grows
<1>0. p \in Procs /\ p \notin Workers
  BY OutboxAssumption DEF Procs
<1>1. PICK c \in Cases, h \in Hashes :
        /\ store[c] \in {None, h}
        /\ store' = [store EXCEPT ![c] = h]
        /\ current' = [current EXCEPT ![p] = c]
        /\ content' = [content EXCEPT ![p] = h]
  BY DEF PersistCasefile
<1>2. /\ pc' = [pc EXCEPT ![p] = "insert_read"]
      /\ UNCHANGED <<rows, kafka, queue, batch, now, tx, clock, faults>>
  BY DEF PersistCasefile, Goto
<1>3. SharedTyped'
  BY <1>1, <1>2 DEF IInv, TypeOK, SharedTyped
<1>4. LocalsTyped'
  BY <1>0, <1>1, <1>2 DEF IInv, TypeOK, LocalsTyped, ProducerSteps
<1>5. Grows
  <2>1. \A d \in Cases : store[d] # None => store'[d] = store[d]
    BY <1>1 DEF IInv, TypeOK
  <2>2. \A d \in Cases : RowMoves(d)
    BY <1>2 DEF RowMoves, IInv, TypeOK, Row, Status
  <2> QED
    BY <1>2, <2>1, <2>2 DEF Grows
<1>6. RowsGood
  BY <1>2, <1>5, RowsKept
<1>7. AddsBacked
  BY <1>2 DEF AddsBacked
<1>8. OnlyMoves(p)
  BY <1>0, <1>1, <1>2 DEF IInv, TypeOK, OnlyMoves, Procs
<1>9. /\ pc'[p] = "insert_read" /\ current'[p] = c /\ content'[p] = h
      /\ store'[c] = h
  BY <1>0, <1>1, <1>2 DEF IInv, TypeOK
<1>10. SoundAfter(p)
  BY <1>0, <1>9 DEF SoundAfter, ProducerSound, TxSound
<1> QED
  BY <1>0, <1>3, <1>4, <1>5, <1>6, <1>7, <1>8, <1>10, StepKeeps

(* A step that leaves every process's local state alone. *)
LEMMA LocalsKept ==
    ASSUME IInv, Grows, RowsGood, AddsBacked, SharedTyped',
           UNCHANGED <<pc, current, content, batch, now, tx>>
    PROVE  IInv' /\ Grows
<1>1. LocalsTyped'
  BY DEF IInv, TypeOK, LocalsTyped
<1>2. TypeOK'
  BY <1>1 DEF TypeOK, SharedTyped, LocalsTyped
<1>3. CASE Procs = {}
  <2>1. LocalStateSound'
    BY <1>3 DEF LocalStateSound, Procs
  <2>2. \A m \in kafka' : m \in Message /\ Backed(m)
    BY DEF IInv, InvariantA, AddsBacked, TypeOK
  <2>3. InvariantA'
    BY <1>3, <2>2, BackedStays DEF InvariantA
  <2> QED
    BY <1>2, <2>1, <2>3 DEF IInv, RowsGood
<1>4. ASSUME NEW x \in Procs
      PROVE  SoundAfter(x)
  <2>1. \A c \in Cases : Accepted(c) => Accepted(c)' /\ store'[c] = store[c]
    BY AcceptedStays
  <2>2. \A c \in Cases : rows[c] # None => rows'[c] # None /\ rows'[c].hash = rows[c].hash
    BY DEF Grows, RowMoves
  <2>3. \A c \in Cases : store[c] \in Hashes => store'[c] = store[c]
    BY OutboxAssumption DEF Grows
  <2>4. x \in Producers => ProducerSound(x)'
    BY <2>1, <2>2, <2>3 DEF IInv, LocalStateSound, ProducerSound, HeaderFor, Grows, Accepted
  <2>5. x \in Workers => WorkerSound(x)'
    BY <2>1 DEF IInv, TypeOK, LocalStateSound, WorkerSound, Events, Grows, Accepted
  <2>6. TxSound(x)'
    <3>1. CASE pc[x] \notin TxSteps
      BY <3>1 DEF TxSound, TxSteps
    <3>2. CASE pc[x] \in TxSteps
      <4>1. current[x] \in Cases /\ rows[current[x]] # None
        <5>1. CASE x \in Producers
          BY <5>1, <3>2 DEF IInv, LocalStateSound, ProducerSound, TxSteps, TypeOK, ProducerSteps
        <5>2. CASE x \in Workers
          BY <5>2, <3>2
             DEF IInv, LocalStateSound, WorkerSound, TxSteps, TypeOK, WorkerSteps, Accepted
        <5> QED
          BY <5>1, <5>2 DEF Procs
      <4>2. rows'[current[x]].hash = rows[current[x]].hash
        BY <4>1, <2>2
      <4>3. TxSound(x)
        BY DEF IInv, LocalStateSound
      <4> QED
        BY <4>2, <4>3 DEF TxSound, AttemptsConsistent
    <3> QED
      BY <3>1, <3>2
  <2> QED
    BY <2>4, <2>5, <2>6 DEF SoundAfter
<1>5. CASE Procs # {}
  <2>1. PICK x \in Procs : TRUE
    BY <1>5
  <2>2. OnlyMoves(x)
    BY DEF OnlyMoves
  <2> QED
    BY <1>1, <1>4, <2>2, StepKeeps
<1> QED
  BY <1>3, <1>5

(* The object store keeping an object whose writer saw an error. *)
LEMMA PersistAnswerLostKept ==
    ASSUME IInv, NEW p \in Producers, PersistAnswerLost(p)
    PROVE  IInv' /\ Grows
<1>1. PICK c \in Cases, h \in Hashes : store[c] = None /\ store' = [store EXCEPT ![c] = h]
  BY DEF PersistAnswerLost
<1>2. UNCHANGED <<rows, kafka, queue, pc, current, content, batch, now, tx, clock, faults>>
  BY DEF PersistAnswerLost
<1>3. SharedTyped'
  BY <1>1, <1>2 DEF IInv, TypeOK, SharedTyped
<1>4. Grows
  <2>1. \A d \in Cases : store[d] # None => store'[d] = store[d]
    BY <1>1 DEF IInv, TypeOK
  <2>2. \A d \in Cases : RowMoves(d)
    BY <1>2 DEF RowMoves, IInv, TypeOK, Row, Status
  <2> QED
    BY <1>2, <2>1, <2>2 DEF Grows
<1>5. RowsGood
  BY <1>2, <1>4, RowsKept
<1>6. AddsBacked
  BY <1>2 DEF AddsBacked
<1> QED
  BY <1>2, <1>3, <1>4, <1>5, <1>6, LocalsKept

(* Going on after insert_pending_object. *)
LEMMA InsertedSound ==
    ASSUME IInv, Grows, NEW p \in Producers, pc[p] \in {"insert_read", "insert_write"},
           rows'[current[p]] # None, Inserted(p)
    PROVE  LocalsTyped' /\ OnlyMoves(p) /\ SoundAfter(p)
<1>1. CASE Role[p] = "insert"
  BY <1>1, ProducerEndsSound DEF Inserted
<1>2. CASE Role[p] # "insert"
  <2>0. p \in Procs /\ p \notin Workers
    BY OutboxAssumption DEF Procs
  <2>1. pc' = [pc EXCEPT ![p] = "ready_read"] /\ UNCHANGED <<current, content, batch, now, tx>>
    BY <1>2 DEF Inserted, Goto
  <2>2. LocalsTyped'
    BY <2>0, <2>1 DEF IInv, TypeOK, LocalsTyped, ProducerSteps
  <2>3. OnlyMoves(p)
    BY <2>0, <2>1 DEF IInv, TypeOK, OnlyMoves, Procs
  <2>4. pc'[p] = "ready_read"
    BY <2>0, <2>1 DEF IInv, TypeOK
  <2>5. current[p] \in Cases /\ content[p] \in Hashes /\ store[current[p]] = content[p]
    BY DEF IInv, LocalStateSound, ProducerSound
  <2>6. store'[current[p]] = content[p]
    BY <2>5, OutboxAssumption DEF Grows
  <2> QED
    BY <1>2, <2>0, <2>1, <2>2, <2>3, <2>4, <2>5, <2>6 DEF SoundAfter, ProducerSound, TxSound
<1> QED
  BY <1>1, <1>2

(* Going on after transition_to_ready. *)
LEMMA BecameReadySound ==
    ASSUME IInv, Grows, NEW p \in Producers, pc[p] \in {"ready_read", "ready_write"},
           rows'[current[p]] # None, rows'[current[p]].status = "READY", BecameReady(p)
    PROVE  LocalsTyped' /\ OnlyMoves(p) /\ SoundAfter(p)
<1>1. CASE Role[p] = "ready"
  BY <1>1, ProducerEndsSound DEF BecameReady
<1>2. CASE Role[p] # "ready"
  <2>0. p \in Procs /\ p \notin Workers
    BY OutboxAssumption DEF Procs
  <2>1. /\ pc' = [pc EXCEPT ![p] = "header"] /\ tx' = [tx EXCEPT ![p] = None]
        /\ UNCHANGED <<current, content, batch, now>>
    BY <1>2 DEF BecameReady, Goto
  <2>2. LocalsTyped'
    BY <2>0, <2>1 DEF IInv, TypeOK, LocalsTyped, ProducerSteps
  <2>3. OnlyMoves(p)
    BY <2>0, <2>1 DEF IInv, TypeOK, OnlyMoves, Procs
  <2>4. pc'[p] = "header"
    BY <2>0, <2>1 DEF IInv, TypeOK
  <2>5. /\ current[p] \in Cases /\ content[p] \in Hashes /\ store[current[p]] = content[p]
        /\ Role[p] # "insert"
    BY DEF IInv, LocalStateSound, ProducerSound
  <2>6. store'[current[p]] = content[p] /\ Role[p] = "header"
    BY <1>2, <2>5, OutboxAssumption DEF Grows
  <2> QED
    BY <2>0, <2>1, <2>2, <2>3, <2>4, <2>5, <2>6
       DEF SoundAfter, ProducerSound, TxSound, Accepted
<1> QED
  BY <1>1, <1>2

(* The SELECT of insert_pending_object. *)
LEMMA InsertReadKept ==
    ASSUME IInv, NEW p \in Producers, InsertRead(p)
    PROVE  IInv' /\ Grows
<1>0. p \in Procs /\ p \notin Workers /\ pc[p] = "insert_read"
  BY OutboxAssumption DEF Procs, InsertRead
<1>1. UNCHANGED <<store, rows, kafka, queue, clock, faults>>
  BY DEF InsertRead
<1>2. SharedTyped'
  BY <1>1 DEF IInv, TypeOK, SharedTyped
<1>3. Grows /\ RowsGood /\ AddsBacked
  BY <1>1, QuietShared
<1>4. LocalsTyped' /\ OnlyMoves(p) /\ SoundAfter(p)
  <2>1. CASE Goto(p, "insert_write") /\ UNCHANGED <<current, content, batch, now, tx>>
    <3>1. LocalsTyped'
      BY <1>0, <2>1 DEF IInv, TypeOK, LocalsTyped, ProducerSteps, Goto
    <3>2. OnlyMoves(p)
      BY <1>0, <2>1 DEF IInv, TypeOK, OnlyMoves, Procs, Goto
    <3>3. pc'[p] = "insert_write"
      BY <1>0, <2>1 DEF IInv, TypeOK, Goto
    <3>4. ProducerSound(p)
      BY DEF IInv, LocalStateSound
    <3> QED
      BY <1>0, <1>1, <2>1, <3>1, <3>2, <3>3, <3>4 DEF SoundAfter, ProducerSound, TxSound
  <2>2. CASE rows[current[p]] # None /\ Inserted(p)
    BY <1>0, <1>1, <1>3, <2>2, InsertedSound
  <2>3. CASE ProducerEnds(p)
    BY <2>3, ProducerEndsSound
  <2> QED
    BY <2>1, <2>2, <2>3 DEF InsertRead
<1> QED
  BY <1>0, <1>2, <1>3, <1>4, StepKeeps

(* A new row for a persisted casefile. *)
LEMMA InsertRow ==
    ASSUME IInv, NEW p \in Producers, pc[p] = "insert_write", rows[current[p]] = None,
           rows' = [rows EXCEPT ![current[p]] = PendingRow(content[p], clock)],
           UNCHANGED <<store, kafka>>
    PROVE  /\ Grows /\ RowsGood
           /\ rows' \in [Cases -> Row \cup {None}] /\ rows'[current[p]] # None
<1> DEFINE d == current[p]
           new == PendingRow(content[p], clock)
<1>1. d \in Cases /\ content[p] \in Hashes /\ store[d] = content[p]
  BY DEF IInv, LocalStateSound, ProducerSound
<1>2. new \in Row /\ new.status = "PENDING_OBJECT" /\ new.hash = content[p] /\ AttemptsConsistent(new)
  BY <1>1 DEF PendingRow, Row, Status, AttemptsConsistent, IInv, TypeOK
<1>3. /\ rows \in [Cases -> Row \cup {None}] /\ new # None
      /\ rows' = [rows EXCEPT ![d] = new]
  BY <1>2, OutboxAssumption DEF IInv, TypeOK
<1> HIDE DEF new
<1>4. rows' \in [Cases -> Row \cup {None}] /\ rows'[d] = new
  BY <1>1, <1>2, <1>3
<1>5. Grows
  <2>1. \A c \in Cases : RowMoves(c)
    BY <1>1, <1>3 DEF RowMoves, Row, Status
  <2> QED
    BY <2>1 DEF Grows
<1>6. RowsBacked'
  <2> SUFFICES ASSUME NEW c \in Cases, rows'[c] # None
               PROVE  store'[c] = rows'[c].hash
    BY DEF RowsBacked
  <2>1. CASE c = d
    BY <2>1, <1>1, <1>2, <1>4
  <2>2. CASE c # d
    BY <2>2, <1>1, <1>3 DEF IInv, RowsBacked
  <2> QED
    BY <2>1, <2>2
<1>7. AttemptAccounting'
  <2> SUFFICES ASSUME NEW c \in Cases, rows'[c] # None
               PROVE  AttemptsConsistent(rows'[c])
    BY DEF AttemptAccounting, AttemptsConsistent
  <2>1. CASE c = d
    BY <2>1, <1>2, <1>4
  <2>2. CASE c # d
    BY <2>2, <1>1, <1>3 DEF IInv, AttemptAccounting
  <2> QED
    BY <2>1, <2>2
<1>8. SentMeansDelivered'
  <2> SUFFICES ASSUME NEW c \in Cases, rows'[c] # None, rows'[c].status = "SENT"
               PROVE  Delivered(c)'
    BY DEF SentMeansDelivered
  <2>1. c # d
    BY <1>2, <1>4
  <2>2. Delivered(c)
    BY <2>1, <1>1, <1>3 DEF IInv, SentMeansDelivered
  <2> QED
    BY <2>2, DeliveredStays
<1> QED
  BY <1>3, <1>4, <1>5, <1>6, <1>7, <1>8 DEF RowsGood

(* The INSERT of insert_pending_object, won or lost. *)
LEMMA InsertWriteKept ==
    ASSUME IInv, NEW p \in Producers, InsertWrite(p)
    PROVE  IInv' /\ Grows
<1>0. p \in Procs /\ pc[p] = "insert_write"
  BY DEF Procs, InsertWrite
<1>1. UNCHANGED <<store, kafka, queue, clock, faults>>
  BY DEF InsertWrite
<1>2. CASE /\ rows[current[p]] = None
           /\ rows' = [rows EXCEPT ![current[p]] = PendingRow(content[p], clock)]
           /\ Inserted(p)
  <2>1. /\ Grows /\ RowsGood
        /\ rows' \in [Cases -> Row \cup {None}] /\ rows'[current[p]] # None
    BY <1>0, <1>1, <1>2, InsertRow
  <2>2. SharedTyped'
    BY <1>1, <2>1 DEF IInv, TypeOK, SharedTyped
  <2>3. AddsBacked
    BY <1>1 DEF AddsBacked
  <2>4. LocalsTyped' /\ OnlyMoves(p) /\ SoundAfter(p)
    BY <1>0, <1>2, <2>1, InsertedSound
  <2> QED
    BY <1>0, <2>1, <2>2, <2>3, <2>4, StepKeeps
<1>3. CASE rows' = rows /\ rows[current[p]] # None /\ (ProducerEnds(p) \/ Inserted(p))
  <2>1. Grows /\ RowsGood /\ AddsBacked
    BY <1>1, <1>3, QuietShared
  <2>2. SharedTyped'
    BY <1>1, <1>3 DEF IInv, TypeOK, SharedTyped
  <2>3. LocalsTyped' /\ OnlyMoves(p) /\ SoundAfter(p)
    BY <1>0, <1>3, <2>1, InsertedSound, ProducerEndsSound
  <2> QED
    BY <1>0, <2>1, <2>2, <2>3, StepKeeps
<1> QED
  BY <1>2, <1>3 DEF InsertWrite

(* The SELECT of transition_to_ready. *)
LEMMA ReadyReadKept ==
    ASSUME IInv, NEW p \in Producers, ReadyRead(p)
    PROVE  IInv' /\ Grows
<1>0. p \in Procs /\ p \notin Workers /\ pc[p] = "ready_read"
  BY OutboxAssumption DEF Procs, ReadyRead
<1>1. UNCHANGED <<store, rows, kafka, queue, clock, faults>>
  BY DEF ReadyRead
<1>2. SharedTyped'
  BY <1>1 DEF IInv, TypeOK, SharedTyped
<1>3. Grows /\ RowsGood /\ AddsBacked
  BY <1>1, QuietShared
<1> DEFINE row == rows[current[p]]
<1>4. current[p] \in Cases /\ row \in Row /\ row # None /\ AttemptsConsistent(row) /\ clock \in Time
  <2>1. current[p] \in Cases /\ row # None
    BY <1>0 DEF IInv, LocalStateSound, ProducerSound
  <2> QED
    BY <2>1 DEF IInv, TypeOK, AttemptAccounting
<1>5. LocalsTyped' /\ OnlyMoves(p) /\ SoundAfter(p)
  <2>1. CASE row.status = "READY" /\ BecameReady(p)
    BY <1>0, <1>1, <1>3, <1>4, <2>1, BecameReadySound
  <2>2. CASE row.status = "PENDING_OBJECT" /\ OpenTx(p, "ready_write", row, MarkReady(row, clock))
    <3> DEFINE next == MarkReady(row, clock)
    <3>1. /\ next \in Row /\ next.status = "READY" /\ next.hash = row.hash
          /\ AttemptsConsistent(next)
      BY <1>4, <2>2, MarkReadySound
    <3>2. "ready_write" \in TxSteps
      BY DEF TxSteps
    <3> HIDE DEF next
    <3>3. OpenTx(p, "ready_write", row, next)
      BY <2>2 DEF next
    <3> QED
      BY <1>0, <1>1, <2>2, <3>1, <3>2, <3>3, OpenTxSound
  <2>3. CASE ProducerEnds(p)
    BY <2>3, ProducerEndsSound
  <2> QED
    BY <2>1, <2>2, <2>3 DEF ReadyRead
<1> QED
  BY <1>0, <1>2, <1>3, <1>5, StepKeeps

(* What the row is after the guarded UPDATE, in each of its three outcomes. *)
LEMMA WriteShared ==
    ASSUME IInv, NEW x \in Procs, pc[x] \in TxSteps,
           UNCHANGED <<store, kafka, clock>>, faults' \in 0..MaxFaults,
           queue' \in [Procs -> SUBSET Message], \A y \in Procs : queue'[y] \subseteq queue[y],
           \/ GuardHolds(x) /\ Applied(x)
           \/ UNCHANGED rows
    PROVE  SharedTyped' /\ Grows /\ RowsGood /\ AddsBacked
<1>1. CASE GuardHolds(x) /\ Applied(x)
  BY <1>1, ApplyTx DEF IInv, TypeOK, SharedTyped, AddsBacked
<1>2. CASE UNCHANGED rows
  BY <1>2, QuietShared DEF IInv, TypeOK, SharedTyped
<1> QED
  BY <1>1, <1>2

(* The guarded UPDATE of transition_to_ready. *)
LEMMA ReadyWriteKept ==
    ASSUME IInv, NEW p \in Producers, ReadyWrite(p)
    PROVE  IInv' /\ Grows
<1>0. p \in Procs /\ p \notin Workers /\ pc[p] = "ready_write" /\ pc[p] \in TxSteps
  BY OutboxAssumption DEF Procs, ReadyWrite, TxSteps
<1>1. UNCHANGED <<store, kafka, queue, clock, faults>>
  BY DEF ReadyWrite
<1>2. SharedTyped' /\ Grows /\ RowsGood /\ AddsBacked
  BY <1>0, <1>1, WriteShared DEF ReadyWrite, IInv, TypeOK
<1>3. /\ current[p] \in Cases /\ rows[current[p]] # None /\ tx[p] \in Tx
      /\ tx[p].next.status = "READY"
  BY <1>0 DEF IInv, LocalStateSound, ProducerSound, TxSound
<1>4. LocalsTyped' /\ OnlyMoves(p) /\ SoundAfter(p)
  <2>1. CASE Applied(p) /\ BecameReady(p)
    <3>1. rows'[current[p]] = tx[p].next /\ tx[p].next # None
      BY <1>3, <2>1, OutboxAssumption DEF Applied, IInv, TypeOK, Tx
    <3> QED
      BY <1>0, <1>2, <1>3, <2>1, <3>1, BecameReadySound
  <2>2. CASE AlreadyThere(p) /\ UNCHANGED rows /\ BecameReady(p)
    <3>1. rows'[current[p]] # None /\ rows'[current[p]].status = "READY"
      BY <1>3, <2>2 DEF AlreadyThere
    <3> QED
      BY <1>0, <1>2, <2>2, <3>1, BecameReadySound
  <2>3. CASE ProducerEnds(p)
    BY <2>3, ProducerEndsSound
  <2> QED
    BY <2>1, <2>2, <2>3 DEF ReadyWrite
<1> QED
  BY <1>0, <1>2, <1>4, StepKeeps

(* The SELECT of transition_to_sent. *)
LEMMA SentReadKept ==
    ASSUME IInv, NEW x \in Procs, SentRead(x)
    PROVE  IInv' /\ Grows
<1>0. pc[x] = "sent_read"
  BY DEF SentRead
<1>1. UNCHANGED <<store, rows, kafka, queue, clock>> /\ faults' \in 0..MaxFaults
  BY OutboxAssumption DEF SentRead, SentReturns, Fault, NoFault, IInv, TypeOK
<1>2. SharedTyped'
  BY <1>1 DEF IInv, TypeOK, SharedTyped
<1>3. Grows /\ RowsGood /\ AddsBacked
  BY <1>1, QuietShared
<1> DEFINE row == rows[current[x]]
<1>4. /\ current[x] \in Cases /\ row \in Row /\ AttemptsConsistent(row)
      /\ CallNow(x) \in Time
  <2>1. current[x] \in Cases /\ row # None
    BY <1>0 DEF IInv, LocalStateSound, ProducerSound, WorkerSound, Accepted, Procs
  <2>2. CallNow(x) \in Time
    BY DEF CallNow, IInv, TypeOK
  <2> QED
    BY <2>1, <2>2 DEF IInv, TypeOK, AttemptAccounting
<1>5. LocalsTyped' /\ OnlyMoves(x) /\ SoundAfter(x)
  <2>1. CASE SentReturns(x) \/ SentRaises(x)
    BY <1>0, <1>3, <2>1, SentEndsSound
  <2>2. CASE /\ row.status \in {"READY", "RETRY"}
             /\ OpenTx(x, "sent_write", row, MarkSent(row, CallNow(x)))
    <3> DEFINE next == MarkSent(row, CallNow(x))
    <3>1. /\ next \in Row /\ next.status = "SENT" /\ next.hash = row.hash
          /\ AttemptsConsistent(next)
      BY <1>4, <2>2, MarkSentSound
    <3>2. "sent_write" \in TxSteps
      BY DEF TxSteps
    <3> HIDE DEF next
    <3>3. OpenTx(x, "sent_write", row, next)
      BY <2>2 DEF next
    <3> QED
      BY <1>0, <1>1, <2>2, <3>1, <3>2, <3>3, OpenTxSound
  <2> QED
    BY <2>1, <2>2 DEF SentRead
<1> QED
  BY <1>2, <1>3, <1>5, StepKeeps

(* The guarded UPDATE of transition_to_sent. *)
LEMMA SentWriteKept ==
    ASSUME IInv, NEW x \in Procs, SentWrite(x)
    PROVE  IInv' /\ Grows
<1>0. pc[x] = "sent_write" /\ pc[x] \in TxSteps
  BY DEF SentWrite, TxSteps
<1>1. UNCHANGED <<store, kafka, queue, clock>> /\ faults' \in 0..MaxFaults
  BY OutboxAssumption DEF SentWrite, SentReturns, Fault, NoFault, IInv, TypeOK
<1>2. SharedTyped' /\ Grows /\ RowsGood /\ AddsBacked
  BY <1>0, <1>1, WriteShared DEF SentWrite, IInv, TypeOK
<1>3. LocalsTyped' /\ OnlyMoves(x) /\ SoundAfter(x)
  BY <1>0, <1>2, SentEndsSound DEF SentWrite
<1> QED
  BY <1>2, <1>3, StepKeeps

(* The events of a promoted case are messages built from its stored casefile. *)
LEMMA EventsBacked ==
    ASSUME IInv, NEW c \in Cases, Accepted(c)
    PROVE  \A m \in Events(c) : m \in Message /\ Backed(m)
<1>1. store[c] = rows[c].hash /\ store[c] \in Hashes
  BY OutboxAssumption DEF IInv, RowsBacked, Accepted, TypeOK, Row
<1> QED
  BY <1>1 DEF Events, Message, Event, Backed, Accepted

(* A header handed over for a promoted case is a message about a stored casefile. *)
LEMMA HeaderBacked ==
    ASSUME IInv, NEW c \in Cases, Accepted(c)
    PROVE  \A m \in {HeaderFor(c)} : m \in Message /\ Backed(m)
<1>1. store[c] = rows[c].hash
  BY DEF IInv, RowsBacked, Accepted
<1> QED
  BY <1>1 DEF HeaderFor, Message, CallerHeader, Backed, Accepted, Kinds

(* A publish adds only backed messages, and all of them if it reports success. *)
LEMMA PublishShared ==
    ASSUME IInv, NEW x \in Procs, NEW messages, \A m \in messages : m \in Message /\ Backed(m),
           NEW ok \in BOOLEAN, PublishBatch(x, messages, ok),
           UNCHANGED <<store, rows, clock, faults>>
    PROVE  /\ SharedTyped' /\ Grows /\ RowsGood /\ AddsBacked
           /\ ok => messages \subseteq kafka'
<1>1. PICK delivered \in SUBSET (queue[x] \cup messages) :
        \E pending \in SUBSET ((queue[x] \cup messages) \ delivered) :
            /\ ok => messages \subseteq delivered /\ pending = {}
            /\ kafka' = kafka \cup delivered
            /\ queue' = [queue EXCEPT ![x] = pending]
  BY DEF PublishBatch
<1>2. PICK pending \in SUBSET ((queue[x] \cup messages) \ delivered) :
            /\ ok => messages \subseteq delivered /\ pending = {}
            /\ kafka' = kafka \cup delivered
            /\ queue' = [queue EXCEPT ![x] = pending]
  BY <1>1
<1>3. queue \in [Procs -> SUBSET Message] /\ queue[x] \subseteq Message /\ kafka \subseteq Message
  BY DEF IInv, TypeOK
<1>4. delivered \subseteq Message /\ pending \subseteq Message
  BY <1>1, <1>2, <1>3
<1>5. queue' \in [Procs -> SUBSET Message] /\ kafka' \subseteq Message
  BY <1>2, <1>3, <1>4
<1>6. SharedTyped'
  BY <1>5 DEF IInv, TypeOK, SharedTyped
<1>7. Grows
  <2>1. \A d \in Cases : RowMoves(d)
    BY DEF RowMoves, IInv, TypeOK, Row, Status
  <2> QED
    BY <1>2, <2>1 DEF Grows
<1>8. RowsGood
  BY <1>7, RowsKept
<1>9. \A m \in delivered \cup pending : m \in Message /\ Backed(m)
  BY <1>1, <1>2, <1>3 DEF IInv, InvariantA
<1>10. AddsBacked
  BY <1>2, <1>3, <1>9 DEF AddsBacked
<1>11. ok => messages \subseteq kafka'
  BY <1>2
<1> QED
  BY <1>6, <1>7, <1>8, <1>10, <1>11

(* A late delivery, or a message given up. *)
LEMMA DeliverQueuedKept ==
    ASSUME IInv, NEW x \in Procs, DeliverQueued(x)
    PROVE  IInv' /\ Grows
<1>1. PICK m \in queue[x] :
        /\ queue' = [queue EXCEPT ![x] = @ \ {m}]
        /\ kafka' \in {kafka, kafka \cup {m}}
  BY DEF DeliverQueued
<1>2. UNCHANGED <<store, rows, pc, current, content, batch, now, tx, clock, faults>>
  BY DEF DeliverQueued
<1>3. queue \in [Procs -> SUBSET Message] /\ m \in Message /\ Backed(m) /\ kafka \subseteq Message
  BY DEF IInv, TypeOK, InvariantA
<1>4. queue' \in [Procs -> SUBSET Message] /\ kafka' \subseteq Message
  BY <1>1, <1>3
<1>5. SharedTyped'
  BY <1>2, <1>4 DEF IInv, TypeOK, SharedTyped
<1>6. Grows
  <2>1. \A d \in Cases : RowMoves(d)
    BY <1>2 DEF RowMoves, IInv, TypeOK, Row, Status
  <2> QED
    BY <1>1, <1>2, <2>1 DEF Grows
<1>7. RowsGood
  BY <1>2, <1>6, RowsKept
<1>8. AddsBacked
  BY <1>1, <1>3 DEF AddsBacked
<1> QED
  BY <1>2, <1>5, <1>6, <1>7, <1>8, LocalsKept

(* A producer publishing the header of its READY record. *)
LEMMA PublishHeaderKept ==
    ASSUME IInv, NEW p \in Producers, PublishHeader(p)
    PROVE  IInv' /\ Grows
<1>0. p \in Procs /\ p \notin Workers /\ pc[p] = "header"
  BY OutboxAssumption DEF Procs, PublishHeader
<1>1. UNCHANGED <<store, rows, clock, faults>>
  BY DEF PublishHeader
<1> DEFINE d == current[p]
<1>2. /\ d \in Cases /\ Accepted(d) /\ Role[p] = "header"
      /\ content[p] \in Hashes /\ store[d] = content[p]
  BY <1>0 DEF IInv, LocalStateSound, ProducerSound
<1>3. \A m \in {HeaderFor(d)} : m \in Message /\ Backed(m)
  BY <1>2, HeaderBacked
<1>4. CASE ProducerEnds(p) /\ UNCHANGED <<kafka, queue>>
  <2>1. Grows /\ RowsGood /\ AddsBacked
    BY <1>1, <1>4, QuietShared
  <2>2. SharedTyped'
    BY <1>1, <1>4 DEF IInv, TypeOK, SharedTyped
  <2> QED
    BY <1>0, <1>4, <2>1, <2>2, ProducerEndsSound, StepKeeps
<1>5. CASE PublishBatch(p, {HeaderFor(d)}, FALSE) /\ ProducerEnds(p)
  <2>1. SharedTyped' /\ Grows /\ RowsGood /\ AddsBacked
    BY <1>0, <1>1, <1>3, <1>5, PublishShared
  <2> QED
    BY <1>0, <1>5, <2>1, ProducerEndsSound, StepKeeps
<1>6. CASE /\ PublishBatch(p, {HeaderFor(d)}, TRUE)
           /\ Goto(p, "sent_read") /\ UNCHANGED <<current, content, batch, now, tx>>
  <2>1. /\ SharedTyped' /\ Grows /\ RowsGood /\ AddsBacked
        /\ {HeaderFor(d)} \subseteq kafka'
    BY <1>0, <1>1, <1>3, <1>6, PublishShared
  <2>2. LocalsTyped'
    BY <1>0, <1>6 DEF IInv, TypeOK, LocalsTyped, ProducerSteps, Goto
  <2>3. OnlyMoves(p)
    BY <1>0, <1>6 DEF IInv, TypeOK, OnlyMoves, Procs, Goto
  <2>4. pc'[p] = "sent_read" /\ current'[p] = d /\ content'[p] = content[p]
    BY <1>0, <1>6 DEF IInv, TypeOK, Goto
  <2>5. HeaderFor(current[p])' \in kafka'
    BY <2>1, <2>4 DEF HeaderFor
  <2>6. ProducerSound(p)'
    BY <1>1, <1>2, <1>6, <2>4, <2>5 DEF ProducerSound, Accepted
  <2>7. SoundAfter(p)
    BY <1>0, <2>4, <2>6 DEF SoundAfter, TxSound
  <2> QED
    BY <1>0, <2>1, <2>2, <2>3, <2>7, StepKeeps
<1> QED
  BY <1>4, <1>5, <1>6 DEF PublishHeader

(* run_once selecting its batch. *)
LEMMA SelectPublishableKept ==
    ASSUME IInv, NEW w \in Workers, SelectPublishable(w)
    PROVE  IInv' /\ Grows
<1>0. w \in Procs /\ w \notin Producers
  BY OutboxAssumption DEF Procs
<1>1. PICK selected \in SUBSET Publishable : batch' = [batch EXCEPT ![w] = selected]
  BY DEF SelectPublishable
<1>2. /\ now' = [now EXCEPT ![w] = clock] /\ pc' = [pc EXCEPT ![w] = "loop"]
      /\ UNCHANGED <<store, rows, kafka, queue, current, content, tx, clock, faults>>
  BY DEF SelectPublishable, Goto
<1>3. SharedTyped'
  BY <1>2 DEF IInv, TypeOK, SharedTyped
<1>4. Grows /\ RowsGood /\ AddsBacked
  BY <1>2, QuietShared
<1>5. selected \subseteq Cases /\ \A c \in selected : Accepted(c)
  BY DEF Publishable, Accepted
<1>6. LocalsTyped'
  BY <1>0, <1>1, <1>2, <1>5 DEF IInv, TypeOK, LocalsTyped, WorkerSteps
<1>7. OnlyMoves(w)
  BY <1>0, <1>1, <1>2 DEF IInv, TypeOK, OnlyMoves, Procs
<1>8. pc'[w] = "loop" /\ batch'[w] = selected
  BY <1>0, <1>1, <1>2 DEF IInv, TypeOK
<1>9. SoundAfter(w)
  BY <1>0, <1>2, <1>5, <1>8 DEF SoundAfter, WorkerSound, TxSound, Accepted
<1> QED
  BY <1>0, <1>3, <1>4, <1>6, <1>7, <1>9, StepKeeps

(* A worker publishing the next record of its batch. *)
LEMMA PublishCaseEventsKept ==
    ASSUME IInv, NEW w \in Workers, PublishCaseEvents(w)
    PROVE  IInv' /\ Grows
<1>0. w \in Procs /\ w \notin Producers
  BY OutboxAssumption DEF Procs
<1>1. UNCHANGED <<store, rows, content, now, tx, clock, faults>>
  BY DEF PublishCaseEvents
<1>2. PICK c \in batch[w] :
        /\ batch' = [batch EXCEPT ![w] = @ \ {c}]
        /\ current' = [current EXCEPT ![w] = c]
        /\ \/ Goto(w, "fail_read") /\ UNCHANGED <<kafka, queue>>
           \/ PublishBatch(w, Events(c), FALSE) /\ Goto(w, "fail_read")
           \/ PublishBatch(w, Events(c), TRUE) /\ Goto(w, "sent_read")
  BY DEF PublishCaseEvents
<1>3. c \in Cases /\ Accepted(c) /\ \A d \in batch[w] : Accepted(d)
  BY DEF IInv, TypeOK, LocalStateSound, WorkerSound
<1>4. /\ SharedTyped' /\ Grows /\ RowsGood /\ AddsBacked
      /\ pc' = [pc EXCEPT ![w] = "sent_read"] => Events(c) \subseteq kafka'
  <2>0. \A m \in Events(c) : m \in Message /\ Backed(m)
    BY <1>3, EventsBacked
  <2>1. CASE Goto(w, "fail_read") /\ UNCHANGED <<kafka, queue>>
    <3>1. Grows /\ RowsGood /\ AddsBacked
      BY <1>1, <2>1, QuietShared
    <3>2. pc'[w] = "fail_read"
      BY <1>0, <2>1 DEF Goto, IInv, TypeOK
    <3>3. pc' # [pc EXCEPT ![w] = "sent_read"]
      BY <1>0, <3>2 DEF IInv, TypeOK
    <3> QED
      BY <1>1, <2>1, <3>1, <3>3 DEF IInv, TypeOK, SharedTyped
  <2>2. CASE PublishBatch(w, Events(c), FALSE) /\ Goto(w, "fail_read")
    <3>1. SharedTyped' /\ Grows /\ RowsGood /\ AddsBacked
      BY <1>0, <1>1, <2>0, <2>2, PublishShared
    <3>2. pc'[w] = "fail_read"
      BY <1>0, <2>2 DEF Goto, IInv, TypeOK
    <3>3. pc' # [pc EXCEPT ![w] = "sent_read"]
      BY <1>0, <3>2 DEF IInv, TypeOK
    <3> QED
      BY <3>1, <3>3
  <2>3. CASE PublishBatch(w, Events(c), TRUE) /\ Goto(w, "sent_read")
    BY <1>0, <1>1, <2>0, <2>3, PublishShared
  <2> QED
    BY <1>2, <2>1, <2>2, <2>3
<1>5. \/ pc' = [pc EXCEPT ![w] = "fail_read"]
      \/ pc' = [pc EXCEPT ![w] = "sent_read"]
  BY <1>2 DEF Goto
<1>6. LocalsTyped'
  <2>1. PICK step \in {"fail_read", "sent_read"} : pc' = [pc EXCEPT ![w] = step]
    BY <1>5
  <2>2. /\ pc' \in [Procs -> ProducerSteps \cup WorkerSteps]
        /\ \A p \in Producers : pc'[p] \in ProducerSteps
        /\ \A v \in Workers : pc'[v] \in WorkerSteps
    BY <1>0, <2>1 DEF IInv, TypeOK, WorkerSteps, Procs
  <2>3. batch' \in [Workers -> SUBSET Cases] /\ current' \in [Procs -> Cases \cup {None}]
    BY <1>0, <1>2, <1>3 DEF IInv, TypeOK
  <2> QED
    BY <1>1, <2>2, <2>3 DEF IInv, TypeOK, LocalsTyped
<1>7. OnlyMoves(w)
  BY <1>0, <1>1, <1>2, <1>5 DEF IInv, TypeOK, OnlyMoves, Procs
<1>8. current'[w] = c /\ batch'[w] \subseteq batch[w] /\ pc'[w] \in {"fail_read", "sent_read"}
  BY <1>0, <1>2, <1>5 DEF IInv, TypeOK
<1>9. pc'[w] = "sent_read" => Events(c) \subseteq kafka'
  BY <1>0, <1>4, <1>5 DEF IInv, TypeOK
<1>10. WorkerSound(w)'
  <2>1. Events(current[w])' = Events(c)
    BY <1>1, <1>8 DEF Events
  <2> QED
    BY <1>1, <1>3, <1>8, <1>9, <2>1 DEF WorkerSound, Accepted
<1>11. SoundAfter(w)
  BY <1>0, <1>8, <1>10 DEF SoundAfter, TxSound
<1> QED
  BY <1>0, <1>4, <1>6, <1>7, <1>11, StepKeeps

(* The SELECT of transition_publish_failure. *)
LEMMA FailReadKept ==
    ASSUME IInv, NEW w \in Workers, FailRead(w)
    PROVE  IInv' /\ Grows
<1>0. w \in Procs /\ pc[w] = "fail_read"
  BY DEF Procs, FailRead
<1>1. UNCHANGED <<store, rows, kafka, clock, faults>>
  BY DEF FailRead
<1>2. queue' = queue \/ queue' = [queue EXCEPT ![w] = {}]
  BY DEF FailRead
<1>3. /\ queue' \in [Procs -> SUBSET Message]
      /\ \A y \in Procs : queue'[y] \subseteq queue[y]
  BY <1>0, <1>2 DEF IInv, TypeOK
<1>4. SharedTyped'
  BY <1>1, <1>3 DEF IInv, TypeOK, SharedTyped
<1>5. Grows /\ RowsGood /\ AddsBacked
  BY <1>1, <1>3, QuietShared
<1> DEFINE row == rows[current[w]]
<1>6. current[w] \in Cases /\ row \in Row /\ AttemptsConsistent(row) /\ now[w] \in Time
  <2>1. current[w] \in Cases /\ row # None
    BY <1>0 DEF IInv, LocalStateSound, WorkerSound, Accepted
  <2> QED
    BY <2>1 DEF IInv, TypeOK, AttemptAccounting
<1>7. LocalsTyped' /\ OnlyMoves(w) /\ SoundAfter(w)
  <2>1. CASE NextRecord(w)
    BY <1>5, <2>1, NextRecordSound
  <2>2. CASE WorkerEnds(w)
    BY <2>2, WorkerEndsSound
  <2>3. CASE /\ row.status \in {"READY", "RETRY"}
             /\ \E next \in MarkPublishFailure(row, now[w]) : OpenTx(w, "fail_write", row, next)
    <3>1. PICK next \in MarkPublishFailure(row, now[w]) : OpenTx(w, "fail_write", row, next)
      BY <2>3
    <3>2. /\ next \in Row /\ next.status \in {"RETRY", "DEAD"} /\ next.hash = row.hash
          /\ AttemptsConsistent(next)
      BY <1>6, <2>3, MarkPublishFailureSound
    <3>3. "fail_write" \in TxSteps
      BY DEF TxSteps
    <3> QED
      BY <1>0, <1>1, <2>3, <3>1, <3>2, <3>3, OpenTxSound
  <2> QED
    BY <2>1, <2>2, <2>3 DEF FailRead
<1> QED
  BY <1>0, <1>4, <1>5, <1>7, StepKeeps

(* The guarded UPDATE of transition_publish_failure. *)
LEMMA FailWriteKept ==
    ASSUME IInv, NEW w \in Workers, FailWrite(w)
    PROVE  IInv' /\ Grows
<1>0. w \in Procs /\ pc[w] \in TxSteps
  BY DEF Procs, FailWrite, TxSteps
<1>1. UNCHANGED <<store, kafka, clock, faults>>
  BY DEF FailWrite
<1>2. queue' = queue \/ queue' = [queue EXCEPT ![w] = {}]
  BY DEF FailWrite
<1>3. /\ queue' \in [Procs -> SUBSET Message]
      /\ \A y \in Procs : queue'[y] \subseteq queue[y]
  BY <1>0, <1>2 DEF IInv, TypeOK
<1>4. SharedTyped' /\ Grows /\ RowsGood /\ AddsBacked
  BY <1>0, <1>1, <1>3, WriteShared DEF FailWrite, IInv, TypeOK
<1>5. LocalsTyped' /\ OnlyMoves(w) /\ SoundAfter(w)
  BY <1>4, NextRecordSound, WorkerEndsSound DEF FailWrite
<1> QED
  BY <1>0, <1>4, <1>5, StepKeeps

(* A repository call failing, its UPDATE or INSERT applied or not. *)
LEMMA RepositoryFailsKept ==
    ASSUME IInv, NEW x \in Procs, RepositoryFails(x)
    PROVE  IInv' /\ Grows
<1>1. UNCHANGED <<store, kafka, clock>>
  BY DEF RepositoryFails
<1>2. faults' \in 0..MaxFaults
  BY OutboxAssumption DEF RepositoryFails, Fault, IInv, TypeOK
<1>3. queue' = queue \/ queue' = [queue EXCEPT ![x] = {}]
  BY DEF RepositoryFails
<1>4. /\ queue' \in [Procs -> SUBSET Message]
      /\ \A y \in Procs : queue'[y] \subseteq queue[y]
  BY <1>3 DEF IInv, TypeOK
<1>5. SharedTyped' /\ Grows /\ RowsGood /\ AddsBacked
  <2>1. CASE UNCHANGED rows
    <3>1. Grows /\ RowsGood /\ AddsBacked
      BY <1>1, <1>4, <2>1, QuietShared
    <3> QED
      BY <1>1, <1>2, <1>4, <2>1, <3>1 DEF IInv, TypeOK, SharedTyped
  <2>2. CASE /\ pc[x] \in {"ready_write", "sent_write", "fail_write"}
             /\ GuardHolds(x) /\ Applied(x)
    BY <1>1, <1>2, <1>4, <2>2, WriteShared DEF TxSteps
  <2>3. CASE /\ pc[x] = "insert_write" /\ rows[current[x]] = None
             /\ rows' = [rows EXCEPT ![current[x]] = PendingRow(content[x], clock)]
    <3>1. x \in Producers
      BY <2>3 DEF IInv, TypeOK, Procs, WorkerSteps
    <3>2. Grows /\ RowsGood /\ rows' \in [Cases -> Row \cup {None}]
      BY <1>1, <2>3, <3>1, InsertRow
    <3>3. AddsBacked
      BY <1>1, <1>4 DEF AddsBacked
    <3> QED
      BY <1>1, <1>2, <1>4, <3>2, <3>3 DEF IInv, TypeOK, SharedTyped
  <2> QED
    BY <2>1, <2>2, <2>3 DEF RepositoryFails
<1>6. LocalsTyped' /\ OnlyMoves(x) /\ SoundAfter(x)
  <2>1. CASE /\ pc[x] \in {"insert_read", "insert_write", "ready_read", "ready_write"}
             /\ ProducerEnds(x)
    <3>1. x \in Producers
      BY <2>1 DEF IInv, TypeOK, Procs, WorkerSteps
    <3> QED
      BY <2>1, <3>1, ProducerEndsSound
  <2>2. CASE pc[x] \in {"sent_read", "sent_write"} /\ SentRaises(x)
    BY <1>5, <2>2, SentEndsSound
  <2>3. CASE x \in Workers /\ WorkerEnds(x)
    BY <2>3, WorkerEndsSound
  <2> QED
    BY <2>1, <2>2, <2>3 DEF RepositoryFails
<1> QED
  BY <1>5, <1>6, StepKeeps

(* A process stopping. *)
LEMMA CrashKept ==
    ASSUME IInv, NEW x \in Procs, Crash(x)
    PROVE  IInv' /\ Grows
<1>1. UNCHANGED <<store, rows, kafka, clock>> /\ queue' = [queue EXCEPT ![x] = {}]
  BY DEF Crash
<1>2. faults' \in 0..MaxFaults
  BY OutboxAssumption DEF Crash, Fault, IInv, TypeOK
<1>3. /\ queue' \in [Procs -> SUBSET Message]
      /\ \A y \in Procs : queue'[y] \subseteq queue[y]
  BY <1>1 DEF IInv, TypeOK
<1>4. Grows /\ RowsGood /\ AddsBacked
  BY <1>1, <1>3, QuietShared
<1>5. SharedTyped'
  BY <1>1, <1>2, <1>3 DEF IInv, TypeOK, SharedTyped
<1>6. LocalsTyped' /\ OnlyMoves(x) /\ SoundAfter(x)
  BY ProducerEndsSound, WorkerEndsSound DEF Crash
<1> QED
  BY <1>4, <1>5, <1>6, StepKeeps

(* A worker process starting again. *)
LEMMA RestartKept ==
    ASSUME IInv, NEW w \in Workers, Restart(w)
    PROVE  IInv' /\ Grows
<1>0. w \in Procs /\ w \notin Producers
  BY OutboxAssumption DEF Procs
<1>1. /\ pc' = [pc EXCEPT ![w] = "idle"]
      /\ UNCHANGED <<store, rows, kafka, queue, current, content, batch, now, tx, clock, faults>>
  BY DEF Restart, Goto
<1>2. Grows /\ RowsGood /\ AddsBacked
  BY <1>1, QuietShared
<1>3. SharedTyped'
  BY <1>1 DEF IInv, TypeOK, SharedTyped
<1>4. LocalsTyped'
  BY <1>0, <1>1 DEF IInv, TypeOK, LocalsTyped, WorkerSteps
<1>5. OnlyMoves(w) /\ pc'[w] = "idle"
  BY <1>0, <1>1 DEF IInv, TypeOK, OnlyMoves, Procs
<1>6. SoundAfter(w)
  <2>1. WorkerSound(w)
    BY DEF IInv, LocalStateSound
  <2>2. WorkerSound(w)'
    BY <1>1, <1>5, <2>1 DEF WorkerSound, Accepted
  <2> QED
    BY <1>0, <1>5, <2>2 DEF SoundAfter, TxSound
<1> QED
  BY <1>0, <1>2, <1>3, <1>4, <1>5, <1>6, StepKeeps

(* Time passing, and steps that change nothing. *)
LEMMA TickKept ==
    ASSUME IInv, Tick \/ UNCHANGED vars
    PROVE  IInv' /\ Grows
<1>1. UNCHANGED <<store, rows, kafka, queue, pc, current, content, batch, now, tx, faults>>
  BY DEF Tick, vars
<1>2. clock' \in Time
  BY OutboxAssumption DEF Tick, vars, IInv, TypeOK, Time
<1>3. Grows /\ RowsGood /\ AddsBacked
  BY <1>1, QuietShared
<1>4. SharedTyped'
  BY <1>1, <1>2 DEF IInv, TypeOK, SharedTyped
<1> QED
  BY <1>1, <1>3, <1>4, LocalsKept

-----------------------------------------------------------------------------

(* Every step keeps the inductive invariant and moves the shared state forward. *)
LEMMA NextKept == IInv /\ [Next]_vars => IInv' /\ Grows
<1> SUFFICES ASSUME IInv, [Next]_vars PROVE IInv' /\ Grows
  OBVIOUS
<1>1. ASSUME NEW p \in Producers, ProducerStep(p) PROVE IInv' /\ Grows
  <2>1. p \in Procs
    BY DEF Procs
  <2> QED
    BY <1>1, <2>1, PersistCasefileKept, PersistAnswerLostKept, InsertReadKept, InsertWriteKept,
       ReadyReadKept, ReadyWriteKept, PublishHeaderKept, SentReadKept, SentWriteKept
       DEF ProducerStep
<1>2. ASSUME NEW w \in Workers, WorkerStep(w) \/ Restart(w) PROVE IInv' /\ Grows
  <2>1. w \in Procs
    BY DEF Procs
  <2> QED
    BY <1>2, <2>1, SelectPublishableKept, PublishCaseEventsKept, SentReadKept, SentWriteKept,
       FailReadKept, FailWriteKept, RestartKept DEF WorkerStep
<1>3. ASSUME NEW x \in Procs, DeliverQueued(x) \/ RepositoryFails(x) \/ Crash(x) PROVE IInv' /\ Grows
  BY <1>3, DeliverQueuedKept, RepositoryFailsKept, CrashKept
<1>4. CASE Tick \/ UNCHANGED vars
  BY <1>4, TickKept
<1> QED
  BY <1>1, <1>2, <1>3, <1>4 DEF Next

(* The inductive invariant holds in every reachable state. *)
THEOREM Inductive == Spec => []IInv
  BY InitKept, NextKept, PTL DEF Spec

(* Type correctness of the outbox. *)
THEOREM TypeCorrect == Spec => []TypeOK
<1>1. IInv => TypeOK
  BY DEF IInv
<1> QED
  BY <1>1, Inductive, PTL

(* Invariant A: no event is delivered, or can be delivered late, that was not built from *)
(* the stored casefile of a promoted row.                                                *)
THEOREM InvariantAHolds == Spec => []InvariantA
<1>1. IInv => InvariantA
  BY DEF IInv
<1> QED
  BY <1>1, Inductive, PTL

(* SENT is never recorded before the promised events are on the bus. *)
THEOREM SentMeansDeliveredHolds == Spec => []SentMeansDelivered
<1>1. IInv => SentMeansDelivered
  BY DEF IInv
<1> QED
  BY <1>1, Inductive, PTL

(* The stale local state of every process stays sound: batches stay promoted, a process *)
(* about to write SENT has its events on the bus.                                       *)
THEOREM LocalStateSoundHolds == Spec => []LocalStateSound
<1>1. IInv => LocalStateSound
  BY DEF IInv
<1> QED
  BY <1>1, Inductive, PTL

(* The retry budget and the due times stay consistent under lost updates. *)
THEOREM AttemptAccountingHolds == Spec => []AttemptAccounting
<1>1. IInv => AttemptAccounting
  BY DEF IInv
<1> QED
  BY <1>1, Inductive, PTL

(* Rows move only along the state machine, for any number of racing processes. *)
THEOREM StateMachineHolds == Spec => StateMachine
<1>1. IInv /\ [Next]_vars => [\A c \in Cases : RowMoves(c)]_rows
  BY NextKept DEF Grows
<1> QED
  BY <1>1, Inductive, PTL DEF Spec, StateMachine

-----------------------------------------------------------------------------
(* A worker that shares its rows with nobody.  Between its SELECT and its UPDATE nobody  *)
(* moves a row that waits for publication, so no transition it asks for is refused.      *)

Lone ==
    /\ faults = 0
    /\ \A v, w \in Workers : v = w
    /\ \A p \in Producers : Role[p] # "header"

\* A row that waits for its publication.
Waiting(c) == rows[c] # None /\ rows[c].status \in {"READY", "RETRY"}

Undisturbed(w) ==
    /\ pc[w] # "down"
    /\ \A c \in batch[w] : Waiting(c)
    /\ pc[w] \in {"sent_read", "sent_write", "fail_read", "fail_write"}
         => Waiting(current[w]) /\ current[w] \notin batch[w]
    /\ pc[w] \in {"sent_write", "fail_write"} => tx[w].expected = rows[current[w]].status

LoneInv == Lone => \A w \in Workers : Undisturbed(w)

(* A step that leaves waiting rows and the worker's local state alone. *)
LEMMA UndisturbedStays ==
    ASSUME IInv, NEW w \in Workers, Undisturbed(w),
           \A c \in Cases : Waiting(c) => rows'[c] = rows[c],
           pc'[w] = pc[w], current'[w] = current[w], tx'[w] = tx[w], batch'[w] = batch[w]
    PROVE  Undisturbed(w)'
<1>1. batch[w] \subseteq Cases
  BY DEF IInv, TypeOK
<1>2. pc[w] \in {"sent_read", "sent_write", "fail_read", "fail_write"} => current[w] \in Cases
  BY DEF IInv, LocalStateSound, WorkerSound
<1> QED
  BY <1>1, <1>2 DEF Undisturbed, Waiting

(* No producer without a header to publish touches a waiting row. *)
LEMMA ProducerLeavesWaiting ==
    ASSUME IInv, NEW p \in Producers, Role[p] # "header", ProducerStep(p)
    PROVE  /\ \A c \in Cases : Waiting(c) => rows'[c] = rows[c]
           /\ \A w \in Workers : /\ pc'[w] = pc[w] /\ current'[w] = current[w]
                                 /\ tx'[w] = tx[w] /\ batch'[w] = batch[w]
           /\ faults' = faults
<1>1. /\ p \in Procs /\ p \notin Workers /\ \A w \in Workers : w \in Procs /\ w # p
      /\ pc \in [Procs -> ProducerSteps \cup WorkerSteps]
      /\ current \in [Procs -> Cases \cup {None}] /\ tx \in [Procs -> Tx \cup {None}]
      /\ rows \in [Cases -> Row \cup {None}]
  BY OutboxAssumption DEF Procs, IInv, TypeOK
<1>2. pc[p] \notin {"header", "sent_read", "sent_write"}
  BY DEF IInv, LocalStateSound, ProducerSound
<1>3. PersistCasefile(p) \/ PersistAnswerLost(p) \/ InsertRead(p) \/ InsertWrite(p)
        \/ ReadyRead(p) \/ ReadyWrite(p)
  BY <1>2 DEF ProducerStep, PublishHeader, SentRead, SentWrite
<1>4. faults' = faults
  BY <1>3 DEF PersistCasefile, PersistAnswerLost, InsertRead, InsertWrite, ReadyRead, ReadyWrite
<1>5. ASSUME NEW w \in Workers
      PROVE  /\ pc'[w] = pc[w] /\ current'[w] = current[w]
             /\ tx'[w] = tx[w] /\ batch'[w] = batch[w]
  <2>1. CASE PersistCasefile(p) \/ PersistAnswerLost(p)
    BY <1>1, <2>1 DEF PersistCasefile, PersistAnswerLost, Goto
  <2>2. CASE InsertRead(p) \/ InsertWrite(p)
    BY <1>1, <2>2 DEF InsertRead, InsertWrite, Inserted, ProducerEnds, Goto
  <2>3. CASE ReadyRead(p) \/ ReadyWrite(p)
    BY <1>1, <2>3 DEF ReadyRead, ReadyWrite, BecameReady, OpenTx, ProducerEnds, Goto
  <2> QED
    BY <1>3, <2>1, <2>2, <2>3
<1>6. ASSUME NEW c \in Cases, Waiting(c) PROVE rows'[c] = rows[c]
  <2>1. CASE PersistCasefile(p) \/ PersistAnswerLost(p) \/ InsertRead(p) \/ ReadyRead(p)
    BY <2>1 DEF PersistCasefile, PersistAnswerLost, InsertRead, ReadyRead
  <2>2. CASE InsertWrite(p)
    BY <1>1, <1>6, <2>2 DEF InsertWrite, Waiting
  <2>3. CASE ReadyWrite(p)
    <3>1. tx[p].expected = "PENDING_OBJECT"
      BY <1>1, <2>3 DEF ReadyWrite, IInv, LocalStateSound, TxSound
    <3> QED
      BY <1>1, <1>6, <2>3, <3>1 DEF ReadyWrite, GuardHolds, Applied, Waiting
  <2> QED
    BY <1>3, <2>1, <2>2, <2>3
<1> QED
  BY <1>4, <1>5, <1>6

LEMMA NextRecordUndisturbed ==
    ASSUME IInv, NEW w \in Workers, Undisturbed(w), NextRecord(w),
           \A c \in batch[w] : rows'[c] = rows[c]
    PROVE  Undisturbed(w)'
<1>1. w \in Procs /\ pc \in [Procs -> ProducerSteps \cup WorkerSteps]
  BY DEF Procs, IInv, TypeOK
<1>2. batch' = batch /\ pc'[w] \in {"idle", "loop"}
  BY <1>1 DEF NextRecord, Goto
<1> QED
  BY <1>2 DEF Undisturbed, Waiting

LEMMA OpenTxUndisturbed ==
    ASSUME IInv, NEW w \in Workers, Undisturbed(w), pc[w] \in {"sent_read", "fail_read"},
           NEW step \in {"sent_write", "fail_write"}, NEW next,
           OpenTx(w, step, rows[current[w]], next), rows' = rows
    PROVE  Undisturbed(w)'
<1>1. w \in Procs /\ pc \in [Procs -> ProducerSteps \cup WorkerSteps] /\ tx \in [Procs -> Tx \cup {None}]
  BY DEF Procs, IInv, TypeOK
<1>2. /\ pc'[w] = step /\ current' = current /\ batch' = batch
      /\ tx'[w] = [expected |-> rows[current[w]].status, next |-> next]
  BY <1>1 DEF OpenTx, Goto
<1> QED
  BY <1>2 DEF Undisturbed, Waiting

(* The worker's own steps: the row it read is the row it writes. *)
LEMMA WorkerUndisturbed ==
    ASSUME IInv, NEW w \in Workers, Undisturbed(w), WorkerStep(w), faults' = faults
    PROVE  Undisturbed(w)'
<1>1. /\ w \in Procs /\ w \notin Producers
      /\ pc \in [Procs -> ProducerSteps \cup WorkerSteps]
      /\ current \in [Procs -> Cases \cup {None}] /\ tx \in [Procs -> Tx \cup {None}]
      /\ rows \in [Cases -> Row \cup {None}] /\ batch \in [Workers -> SUBSET Cases]
  BY OutboxAssumption DEF Procs, IInv, TypeOK
<1>2. CASE SelectPublishable(w)
  <2>1. batch'[w] \subseteq Publishable /\ pc'[w] = "loop" /\ rows' = rows
    BY <1>1, <1>2 DEF SelectPublishable, Goto
  <2>2. \A c \in batch'[w] : rows[c] # None /\ rows[c].status \in {"READY", "RETRY"}
    BY <2>1 DEF Publishable
  <2> QED
    BY <2>1, <2>2 DEF Undisturbed, Waiting
<1>3. CASE PublishCaseEvents(w)
  <2>1. PICK c \in batch[w] : /\ batch' = [batch EXCEPT ![w] = @ \ {c}]
                              /\ current' = [current EXCEPT ![w] = c]
                              /\ Goto(w, "fail_read") \/ Goto(w, "sent_read")
    BY <1>3 DEF PublishCaseEvents
  <2>2. batch'[w] = batch[w] \ {c} /\ current'[w] = c /\ pc'[w] \in {"fail_read", "sent_read"}
    BY <1>1, <2>1 DEF Goto
  <2>3. rows' = rows
    BY <1>3 DEF PublishCaseEvents
  <2>4. \A d \in batch[w] : rows[d] # None /\ rows[d].status \in {"READY", "RETRY"}
    BY DEF Undisturbed, Waiting
  <2> QED
    BY <2>2, <2>3, <2>4 DEF Undisturbed, Waiting
<1>4. CASE SentRead(w)
  <2>1. rows' = rows /\ pc[w] = "sent_read"
        /\ rows[current[w]].status \in {"READY", "RETRY"}
    BY <1>4 DEF SentRead, Undisturbed, Waiting
  <2>2. OpenTx(w, "sent_write", rows[current[w]], MarkSent(rows[current[w]], CallNow(w)))
    BY <1>4, <2>1 DEF SentRead
  <2> QED
    BY <2>1, <2>2, OpenTxUndisturbed
<1>5. CASE FailRead(w)
  <2>1. rows' = rows /\ pc[w] = "fail_read"
        /\ rows[current[w]].status \in {"READY", "RETRY"}
    BY <1>5 DEF FailRead, Undisturbed, Waiting
  <2>2. PICK next : OpenTx(w, "fail_write", rows[current[w]], next)
    BY <1>5, <2>1 DEF FailRead
  <2> QED
    BY <2>1, <2>2, OpenTxUndisturbed
<1>6. CASE SentWrite(w) \/ FailWrite(w)
  <2>1. GuardHolds(w) /\ current[w] \notin batch[w]
    BY <1>6 DEF SentWrite, FailWrite, Undisturbed, GuardHolds
  <2>2. faults' # faults + 1
    BY DEF IInv, TypeOK
  <2>3. Applied(w) /\ NextRecord(w)
    BY <1>6, <2>1, <2>2 DEF SentWrite, FailWrite, AlreadyThere, GuardFails, SentReturns, Fault
  <2>4. \A c \in batch[w] : rows'[c] = rows[c]
    BY <1>1, <2>1, <2>3 DEF Applied
  <2> QED
    BY <2>3, <2>4, NextRecordUndisturbed
<1> QED
  BY <1>2, <1>3, <1>4, <1>5, <1>6 DEF WorkerStep

LEMMA LoneKept == IInv /\ LoneInv /\ [Next]_vars => LoneInv'
<1> SUFFICES ASSUME IInv, LoneInv, [Next]_vars, Lone', NEW v \in Workers PROVE Undisturbed(v)'
  BY DEF LoneInv
<1>1. faults \in Nat /\ faults' = 0
  BY OutboxAssumption DEF IInv, TypeOK, Lone
<1>2. ASSUME faults' = faults PROVE Undisturbed(v) /\ \A p \in Producers : Role[p] # "header"
  BY <1>1, <1>2 DEF Lone, LoneInv
<1>3. CASE \E p \in Producers : ProducerStep(p)
  <2>1. PICK p \in Producers : ProducerStep(p)
    BY <1>3
  <2>2. Role[p] # "header"
    BY DEF Lone
  <2>3. /\ \A c \in Cases : Waiting(c) => rows'[c] = rows[c]
        /\ \A w \in Workers : /\ pc'[w] = pc[w] /\ current'[w] = current[w]
                              /\ tx'[w] = tx[w] /\ batch'[w] = batch[w]
        /\ faults' = faults
    BY <2>1, <2>2, ProducerLeavesWaiting
  <2> QED
    BY <1>2, <2>3, UndisturbedStays
<1>4. CASE \E w \in Workers : WorkerStep(w)
  <2>1. PICK w \in Workers : WorkerStep(w)
    BY <1>4
  <2>2. w = v
    BY DEF Lone
  <2>3. faults' = faults
    <3>1. ~Fault
      BY <1>1 DEF Fault
    <3>2. SentReturns(w) => NoFault
      BY <3>1 DEF SentReturns
    <3>3. CASE SentRead(w) \/ SentWrite(w)
      BY <3>2, <3>3 DEF SentRead, SentWrite, NoFault
    <3>4. CASE SelectPublishable(w) \/ PublishCaseEvents(w) \/ FailRead(w) \/ FailWrite(w)
      BY <3>4 DEF SelectPublishable, PublishCaseEvents, FailRead, FailWrite
    <3> QED
      BY <2>1, <3>3, <3>4 DEF WorkerStep
  <2> QED
    BY <1>2, <2>1, <2>2, <2>3, WorkerUndisturbed
<1>5. CASE \E w \in Workers : Restart(w)
  <2>1. PICK w \in Workers : Restart(w)
    BY <1>5
  <2>2. w = v /\ faults' = faults /\ pc[w] = "down"
    BY <2>1 DEF Restart, Lone
  <2> QED
    BY <1>2, <2>2 DEF Undisturbed
<1>6. CASE \E x \in Procs : RepositoryFails(x) \/ Crash(x)
  BY <1>1, <1>6 DEF RepositoryFails, Crash, Fault
<1>7. CASE (\E x \in Procs : DeliverQueued(x)) \/ Tick \/ UNCHANGED vars
  <2>1. UNCHANGED <<rows, pc, current, tx, batch, faults>>
    BY <1>7 DEF DeliverQueued, Tick, vars
  <2> QED
    BY <1>2, <2>1, UndisturbedStays
<1> QED
  BY <1>3, <1>4, <1>5, <1>6, <1>7 DEF Next

(* A worker that shares its rows with nobody and meets no fault never ends: for every     *)
(* number of cases and producers, every batch size and retry budget, the exceptions of    *)
(* transition_publish_failure that escape run_once come only from races and outages.      *)
THEOREM LoneWorkerSurvivesHolds == Spec => []LoneWorkerSurvives
<1>1. Init => LoneInv
  BY DEF Init, LoneInv, Undisturbed, Procs
<1>2. LoneInv => LoneWorkerSurvives
  BY DEF LoneInv, Lone, LoneWorkerSurvives, Undisturbed
<1> QED
  BY <1>1, <1>2, Inductive, LoneKept, PTL DEF Spec

-----------------------------------------------------------------------------------------
(* The outbox implements the delivery contract AtLeastOnce: every step of every process  *)
(* is a step of the contract or changes nothing the contract speaks of.                  *)

\* A step the contract allows.
Allowed == [Contract!ANext]_(Contract!avars)

(* The initial state is one of the contract. *)
LEMMA InitAllowed == Init => Contract!AInit
  BY DEF Init, Contract!AInit, Accepted, Outcome

(* A step that changes neither store, rows nor brokers. *)
LEMMA QuietAllowed ==
    ASSUME UNCHANGED <<store, rows, kafka>>
    PROVE  Allowed
  BY DEF Allowed, Contract!avars, Accepted, Outcome

(* A casefile written, or found with the same bytes. *)
LEMMA PersistAllowed ==
    ASSUME IInv, UNCHANGED <<rows, kafka>>, NEW c \in Cases, NEW h \in Hashes,
           store[c] \in {None, h}, store' = [store EXCEPT ![c] = h]
    PROVE  Allowed
<1>1. UNCHANGED << {d \in Cases : Accepted(d)}, kafka, [d \in Cases |-> Outcome(d)] >>
  BY DEF Accepted, Outcome
<1>2. CASE store[c] = None
  <2>1. Contract!Persist(c, h)
    BY <1>1, <1>2 DEF Contract!Persist
  <2> QED
    BY <2>1 DEF Allowed, Contract!ANext
<1>3. CASE store[c] = h
  <2>1. store' = store
    BY <1>3 DEF IInv, TypeOK
  <2> QED
    BY <2>1, QuietAllowed
<1> QED
  BY <1>2, <1>3

(* Events delivered. *)
LEMMA DeliverAllowed ==
    ASSUME IInv, AddsBacked, kafka \subseteq kafka', UNCHANGED <<store, rows>>
    PROVE  Allowed
<1>1. \A m \in kafka' \ kafka :
        /\ m.case \in {c \in Cases : Accepted(c)}
        /\ m.kind \in Kinds => m = [case |-> m.case, kind |-> m.kind, hash |-> store[m.case]]
  <2> SUFFICES ASSUME NEW m \in kafka' \ kafka
               PROVE  /\ m.case \in Cases /\ Accepted(m.case)
                      /\ m.kind \in Kinds
                           => m = [case |-> m.case, kind |-> m.kind, hash |-> store[m.case]]
    OBVIOUS
  <2>1. m \in Message /\ Backed(m)
    BY DEF AddsBacked
  <2> QED
    BY <2>1 DEF Backed, Message, Event, CallerHeader
<1>2. UNCHANGED << store, {d \in Cases : Accepted(d)}, [d \in Cases |-> Outcome(d)] >>
  BY DEF Accepted, Outcome
<1>3. Contract!Deliver
  BY <1>1, <1>2 DEF Contract!Deliver, Contract!EventOf
<1> QED
  BY <1>3 DEF Allowed, Contract!ANext

(* A new row waits for its promotion: the contract does not see it. *)
LEMMA InsertAllowed ==
    ASSUME IInv, UNCHANGED <<store, kafka>>, NEW d \in Cases, NEW h, rows[d] = None,
           rows' = [rows EXCEPT ![d] = PendingRow(h, clock)]
    PROVE  Allowed
<1>1. rows \in [Cases -> Row \cup {None}]
  BY DEF IInv, TypeOK
<1>2. PendingRow(h, clock).status = "PENDING_OBJECT"
  BY DEF PendingRow
<1>3. \A c \in Cases : Accepted(c)' = Accepted(c) /\ Outcome(c)' = Outcome(c)
  <2> TAKE c \in Cases
  <2>1. CASE c = d
    BY <2>1, <1>1, <1>2 DEF Accepted, Outcome
  <2>2. CASE c # d
    BY <2>2, <1>1 DEF Accepted, Outcome
  <2> QED
    BY <2>1, <2>2
<1> QED
  BY <1>3 DEF Allowed, Contract!avars

(* The guarded UPDATE of a sound transaction: a promotion, an outcome, or a retry the    *)
(* contract does not see.                                                                *)
LEMMA WriteAllowed ==
    ASSUME IInv, NEW x \in Procs, pc[x] \in TxSteps, GuardHolds(x), Applied(x),
           UNCHANGED <<store, kafka>>
    PROVE  Allowed
<1>0. current[x] \in Cases
  BY DEF IInv, LocalStateSound, ProducerSound, WorkerSound, Procs, TxSteps, TypeOK, WorkerSteps
<1>. PICK d \in Cases : d = current[x]
  BY <1>0
<1> DEFINE next == tx[x].next
<1>1. /\ rows[d] \in Row /\ next \in Row
      /\ rows[d].status = tx[x].expected
      /\ \/ tx[x].expected = "PENDING_OBJECT" /\ next.status = "READY"
         \/ tx[x].expected \in {"READY", "RETRY"} /\ next.status \in {"SENT", "RETRY", "DEAD"}
      /\ RowsGood
  <2>1. CASE x \in Producers
    BY <2>1, ApplyTx, OutboxAssumption
       DEF IInv, LocalStateSound, ProducerSound, TxSound, TxSteps, GuardHolds, TypeOK,
           ProducerSteps, Tx
  <2>2. CASE x \in Workers
    BY <2>2, ApplyTx, OutboxAssumption
       DEF IInv, LocalStateSound, WorkerSound, TxSound, TxSteps, GuardHolds, TypeOK,
           WorkerSteps, Accepted, Tx
  <2> QED
    BY <2>1, <2>2 DEF Procs
<1>2. /\ rows \in [Cases -> Row \cup {None}] /\ next # None /\ rows[d] # None
      /\ rows' = [rows EXCEPT ![d] = next]
  BY <1>1, OutboxAssumption DEF IInv, TypeOK, Applied
<1>3. store[d] = rows[d].hash /\ store[d] # None
  BY <1>1, <1>2, OutboxAssumption DEF IInv, RowsBacked, Row
<1>4. rows'[d] = next
  BY <1>1, <1>2
<1>5. \A c \in Cases \ {d} : Accepted(c)' = Accepted(c) /\ Outcome(c)' = Outcome(c)
  BY <1>2 DEF Accepted, Outcome
<1>6. CASE next.status = "READY"
  <2>1. ~Accepted(d) /\ Outcome(d) = "open"
    BY <1>1, <1>2, <1>6 DEF Accepted, Outcome
  <2>2. rows'[d] # None /\ rows'[d].status = "READY"
    BY <1>2, <1>4, <1>6
  <2>3. \A c \in Cases : Accepted(c)' <=> (Accepted(c) \/ c = d)
    BY <1>5, <2>2 DEF Accepted
  <2>4. \A c \in Cases : Outcome(c)' = Outcome(c)
    BY <1>5, <2>1, <2>2 DEF Outcome
  <2>5. {c \in Cases : Accepted(c)}' = {c \in Cases : Accepted(c)} \cup {d}
    BY <1>1, <2>3
  <2>6. [c \in Cases |-> Outcome(c)]' = [c \in Cases |-> Outcome(c)]
    BY <2>4
  <2>7. Contract!Accept(d)
    BY <1>3, <2>5, <2>6 DEF Contract!Accept
  <2> QED
    BY <1>1, <2>7 DEF Allowed, Contract!ANext
<1>7. CASE next.status = "RETRY"
  <2>1. Accepted(d)' = Accepted(d) /\ Outcome(d)' = Outcome(d)
    BY <1>1, <1>2, <1>4, <1>7 DEF Accepted, Outcome
  <2>2. \A c \in Cases : Accepted(c)' = Accepted(c) /\ Outcome(c)' = Outcome(c)
    BY <1>5, <2>1, Zenon
  <2> QED
    BY <2>2 DEF Allowed, Contract!avars
<1>8. CASE next.status \in {"SENT", "DEAD"}
  <2> DEFINE outcome == IF next.status = "SENT" THEN "sent" ELSE "dead"
  <2>1. Accepted(d) /\ Outcome(d) = "open"
    BY <1>1, <1>2, <1>8 DEF Accepted, Outcome
  <2>2. rows'[d] # None /\ rows'[d].status = next.status
    BY <1>2, <1>4
  <2>3. \A c \in Cases : Accepted(c)' <=> Accepted(c)
    <3>1. Accepted(d)'
      BY <1>8, <2>2 DEF Accepted
    <3> QED
      BY <1>5, <2>1, <3>1
  <2>4. \A c \in Cases : Outcome(c)' = IF c = d THEN outcome ELSE Outcome(c)
    <3> TAKE c \in Cases
    <3>1. CASE c = d
      BY <1>8, <2>2, <3>1 DEF Outcome
    <3>2. CASE c # d
      BY <1>5, <3>2
    <3> QED
      BY <3>1, <3>2
  <2>5. {c \in Cases : Accepted(c)}' = {c \in Cases : Accepted(c)}
    BY <2>3
  <2>6. [c \in Cases |-> Outcome(c)]' = [[c \in Cases |-> Outcome(c)] EXCEPT ![d] = outcome]
    BY <2>4
  <2>7. next.status = "SENT" => Delivered(d)
    BY <1>1, <2>2 DEF RowsGood, SentMeansDelivered, Delivered, Events, HeaderFor
  <2>8. outcome = "sent" => \/ \A k \in Kinds : [case |-> d, kind |-> k, hash |-> store[d]] \in kafka
                            \/ \E m \in kafka : m.case = d /\ m.kind \notin Kinds
    <3>1. HeaderFor(d).case = d /\ HeaderFor(d).kind \notin Kinds
      BY DEF HeaderFor, Kinds
    <3> QED
      BY <2>7, <3>1 DEF Delivered, Events
  <2>9. Contract!Settle(d, outcome)
    BY <1>1, <2>1, <2>5, <2>6, <2>8 DEF Contract!Settle, Contract!EventOf
  <2>10. outcome \in {"sent", "dead"}
    OBVIOUS
  <2> QED
    BY <1>1, <2>9, <2>10 DEF Allowed, Contract!ANext
<1> QED
  BY <1>1, <1>6, <1>7, <1>8

(* Every step of the outbox is one the contract allows. *)
LEMMA NextAllowed == IInv /\ [Next]_vars => Allowed
<1> SUFFICES ASSUME IInv, [Next]_vars PROVE Allowed
  OBVIOUS
<1>1. ASSUME NEW p \in Producers, ProducerStep(p) PROVE Allowed
  <2>0. p \in Procs
    BY DEF Procs
  <2>1. CASE PersistCasefile(p)
    BY <2>1, PersistAllowed DEF PersistCasefile
  <2>2. CASE PersistAnswerLost(p)
    BY <2>2, PersistAllowed DEF PersistAnswerLost
  <2>3. CASE InsertRead(p) \/ ReadyRead(p) \/ SentRead(p)
    BY <2>3, QuietAllowed DEF InsertRead, ReadyRead, SentRead
  <2>4. CASE InsertWrite(p)
    <3>1. current[p] \in Cases
      BY <2>4 DEF InsertWrite, IInv, LocalStateSound, ProducerSound
    <3> QED
      BY <2>4, <3>1, InsertAllowed, QuietAllowed DEF InsertWrite
  <2>5. CASE ReadyWrite(p) \/ SentWrite(p)
    BY <2>0, <2>5, WriteAllowed, QuietAllowed DEF ReadyWrite, SentWrite, TxSteps
  <2>6. CASE PublishHeader(p)
    <3>1. current[p] \in Cases /\ Accepted(current[p])
      BY <2>6 DEF PublishHeader, IInv, LocalStateSound, ProducerSound
    <3>2. \A m \in {HeaderFor(current[p])} : m \in Message /\ Backed(m)
      BY <3>1, HeaderBacked
    <3>3. UNCHANGED <<store, rows, clock, faults>>
      BY <2>6 DEF PublishHeader
    <3>4. CASE UNCHANGED <<kafka, queue>>
      BY <3>3, <3>4, QuietAllowed
    <3>5. ASSUME NEW ok \in BOOLEAN, PublishBatch(p, {HeaderFor(current[p])}, ok)
          PROVE  Allowed
      <4>1. AddsBacked /\ Grows
        BY <2>0, <3>2, <3>3, <3>5, PublishShared
      <4> QED
        BY <3>3, <4>1, DeliverAllowed DEF Grows
    <3> QED
      BY <2>6, <3>4, <3>5 DEF PublishHeader
  <2> QED
    BY <1>1, <2>1, <2>2, <2>3, <2>4, <2>5, <2>6 DEF ProducerStep
<1>2. ASSUME NEW w \in Workers, WorkerStep(w) \/ Restart(w) PROVE Allowed
  <2>0. w \in Procs
    BY DEF Procs
  <2>1. CASE SelectPublishable(w) \/ SentRead(w) \/ FailRead(w) \/ Restart(w)
    BY <2>1, QuietAllowed DEF SelectPublishable, SentRead, FailRead, Restart
  <2>2. CASE SentWrite(w) \/ FailWrite(w)
    BY <2>0, <2>2, WriteAllowed, QuietAllowed DEF SentWrite, FailWrite, TxSteps
  <2>3. CASE PublishCaseEvents(w)
    <3>1. PICK c \in batch[w] :
            \/ UNCHANGED <<kafka, queue>>
            \/ \E ok \in BOOLEAN : PublishBatch(w, Events(c), ok)
      BY <2>3 DEF PublishCaseEvents
    <3>2. \A m \in Events(c) : m \in Message /\ Backed(m)
      BY EventsBacked DEF IInv, TypeOK, LocalStateSound, WorkerSound
    <3>3. UNCHANGED <<store, rows, clock, faults>>
      BY <2>3 DEF PublishCaseEvents
    <3>4. CASE UNCHANGED <<kafka, queue>>
      BY <3>3, <3>4, QuietAllowed
    <3>5. ASSUME NEW ok \in BOOLEAN, PublishBatch(w, Events(c), ok)
          PROVE  Allowed
      <4>1. AddsBacked /\ Grows
        BY <2>0, <3>2, <3>3, <3>5, PublishShared
      <4> QED
        BY <3>3, <4>1, DeliverAllowed DEF Grows
    <3> QED
      BY <3>1, <3>4, <3>5
  <2> QED
    BY <1>2, <2>1, <2>2, <2>3 DEF WorkerStep
<1>3. ASSUME NEW x \in Procs, DeliverQueued(x) \/ RepositoryFails(x) \/ Crash(x) PROVE Allowed
  <2>1. CASE DeliverQueued(x)
    <3>1. AddsBacked
      <4>1. queue \in [Procs -> SUBSET Message]
        BY DEF IInv, TypeOK
      <4> QED
        BY <2>1, <4>1 DEF DeliverQueued, AddsBacked, IInv, InvariantA
    <3>2. kafka \subseteq kafka' /\ UNCHANGED <<store, rows>>
      BY <2>1 DEF DeliverQueued
    <3> QED
      BY <3>1, <3>2, DeliverAllowed
  <2>2. CASE RepositoryFails(x)
    <3>0. UNCHANGED <<store, kafka>>
      BY <2>2 DEF RepositoryFails
    <3>1. CASE UNCHANGED rows
      BY <3>0, <3>1, QuietAllowed
    <3>2. CASE /\ pc[x] \in {"ready_write", "sent_write", "fail_write"}
               /\ GuardHolds(x) /\ Applied(x)
      BY <3>0, <3>2, WriteAllowed DEF TxSteps
    <3>3. CASE /\ pc[x] = "insert_write" /\ rows[current[x]] = None
               /\ rows' = [rows EXCEPT ![current[x]] = PendingRow(content[x], clock)]
      <4>1. x \in Producers
        BY <3>3 DEF IInv, TypeOK, Procs, WorkerSteps
      <4>2. current[x] \in Cases
        BY <3>3, <4>1 DEF IInv, LocalStateSound, ProducerSound
      <4> QED
        BY <3>0, <3>3, <4>2, InsertAllowed
    <3> QED
      BY <2>2, <3>1, <3>2, <3>3 DEF RepositoryFails
  <2>3. CASE Crash(x)
    BY <2>3, QuietAllowed DEF Crash
  <2> QED
    BY <1>3, <2>1, <2>2, <2>3
<1>4. CASE Tick \/ UNCHANGED vars
  BY <1>4, QuietAllowed DEF Tick, vars
<1> QED
  BY <1>1, <1>2, <1>3, <1>4 DEF Next

(* The outbox implements the delivery contract. *)
THEOREM Refinement == Spec => ImplementsAtLeastOnce
<1>1. IInv /\ [Next]_vars => [Contract!ANext]_(Contract!avars)
  BY NextAllowed DEF Allowed
<1> QED
  BY <1>1, InitAllowed, Inductive, PTL DEF Spec, ImplementsAtLeastOnce, Contract!ASpec

=============================================================================
