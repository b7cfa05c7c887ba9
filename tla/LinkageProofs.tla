---------------------------- MODULE LinkageProofs ----------------------------
(***************************************************************************)
(* The safety theorems of the ServiceNow linkage, for any number of cases, *)
(* callers and PIR tasks, any errors and any retry window.  IInv is shown  *)
(* inductive: first what a step does to the shared state and to the caller *)
(* that takes it, then each part of the invariant.                         *)
(***************************************************************************)
EXTENDS Linkage, TLAPS

-----------------------------------------------------------------------------
(* The inductive invariant. *)

\* What a success reports: ServiceNow's records, MOCK ids, or nothing when switched off.
Success(status, ids) ==
    IF mode = "LIVE" THEN status = "linked"
    ELSE IF mode = "MOCK" THEN status = "linked" /\ ids = [k \in Keys |-> Mock]
    ELSE status = "skipped" /\ ids = <<>>

\* A result says why when it is not a success; in LIVE mode it is backed by records.
ResultSound(w) ==
    /\ result[w] # None
    /\ result[w].status \in {"linked", "skipped"} => Success(result[w].status, result[w].ids)
    /\ result[w].status \notin {"linked", "skipped"} => result[w].error # None
    /\ mode = "LIVE" => /\ result[w].status # "skipped"
                        /\ result[w].status = "linked" => Backed(current[w], result[w].ids)

\* The upsert has found or made one record for every key before the present one.
UpsertSound(w) ==
    /\ mode = "LIVE"
    /\ try[w].key \in Keys
    /\ Len(try[w].ids) = try[w].key - 1
    /\ \A k \in 1..(try[w].key - 1) : try[w].ids[k] \in 1..records[current[w]][k]
    /\ pc[w] = "write" /\ try[w].found # None =>
           try[w].found \in 1..records[current[w]][try[w].key]

\* What a running call knows is true of the shared state.
CallSound(w) ==
    /\ current[w] \in Cases
    /\ durable => held[w] # None /\ rows[current[w]] # None
    /\ durable /\ rows[current[w]].state = "PENDING" =>
           pc[w] = "mark" /\ held[w].state = "PENDING"
    /\ pc[w] = "mark" => durable /\ held[w].state \notin Final
    /\ pc[w] \in {"lookup", "write"} => UpsertSound(w)
    /\ pc[w] \in {"outcome", "slo", "escalate", "file"} => ResultSound(w)
    /\ pc[w] = "slo" => durable
    /\ pc[w] = "escalate" => durable /\ held[w].state = "FAILED_FINAL"
    /\ pc[w] \in {"slo", "escalate", "file"} /\ durable =>
           /\ held[w] = rows[current[w]]
           /\ held[w].state \in Final
           /\ held[w].state = "LINKED" <=> result[w].status \in {"linked", "skipped"}

CallsSound == \A w \in Workers : pc[w] # "idle" => CallSound(w)

\* Without a repository there are no rows.
RowsDurable == ~durable => \A c \in Cases : rows[c] = None

\* linkage.json exists only beside a final row and says linked only beside a LINKED one.
FileFollowsRow ==
    durable => \A c \in Cases :
        files[c] # None =>
            /\ IsFinal(c)
            /\ files[c].status \in {"linked", "skipped"} <=> rows[c].state = "LINKED"

\* A LINKED row keeps what a success reports; its file repeats it, or the row.
Retells(c, file) ==
    IF file.rehydrated THEN file.ids = rows[c].ids ELSE Success(file.status, file.ids)
SuccessTold ==
    /\ \A c \in Cases :
          rows[c] # None /\ rows[c].state = "LINKED" => Success(rows[c].status, rows[c].ids)
    /\ \A c \in Cases :
          durable /\ files[c] # None /\ rows[c].state = "LINKED" => Retells(c, files[c])

\* The one verdict a final row allows.
Verdict(row) ==
    IF row.state = "LINKED" /\ row.updated - row.first <= SloWindow THEN "met" ELSE "missed"
SloFollowsRow ==
    durable => \A c \in Cases : slo[c] # {} => IsFinal(c) /\ slo[c] \subseteq {Verdict(rows[c])}

\* A FAILED_FINAL row has its escalation or a caller about to send it.
Escalating(c) == \E w \in Workers : current[w] = c /\ pc[w] \in {"slo", "escalate"}
EscalationDue ==
    \A c \in Cases :
        /\ c \in escalated => rows[c] # None /\ rows[c].state = "FAILED_FINAL"
        /\ rows[c] # None /\ rows[c].state = "FAILED_FINAL" /\ crashes = 0 =>
               c \in escalated \/ Escalating(c)

\* An unfinished row that is not waiting for its retry has a caller.
WorksOn(w, c) == current[w] = c /\ pc[w] # "idle"
NobodyLost ==
    \A c \in Cases :
        rows[c] # None /\ crashes = 0 /\ rows[c].state \in {"PENDING", "SEARCHING"} =>
            \E w \in Workers : WorksOn(w, c)

\* Only LIVE callers leave requests with ServiceNow.
LateLive == \A c \in Cases, k \in Keys : late[c][k] > 0 => mode = "LIVE"

IInv ==
    /\ TypeOK
    /\ CallsSound
    /\ RowsDurable
    /\ RetryInsideWindow
    /\ FileFollowsRow
    /\ SuccessTold
    /\ LinkedIsReal
    /\ SloFollowsRow
    /\ EscalationDue
    /\ NobodyLost
    /\ LateLive

-----------------------------------------------------------------------------
(* The rows and results the code computes are well formed. *)

LEMMA NoneApart ==
    /\ None \notin Nat /\ None \notin Cases /\ None \notin Row /\ None \notin Result
    /\ None \notin File /\ None \notin Error /\ None # "linked" /\ None # "skipped"
  BY LinkageAssumption

LEMMA PendingRowTyped ==
    ASSUME TypeOK
    PROVE  PendingRow \in Row /\ PendingRow.state = "PENDING"
  BY LinkageAssumption DEF TypeOK, PendingRow, Row, States

LEMMA TransitionNowTyped ==
    ASSUME TypeOK, NEW row \in Row
    PROVE  TransitionNow(row) \in Nat
  BY LinkageAssumption DEF TypeOK, TransitionNow, Row

LEMMA MarkSearchingTyped ==
    ASSUME TypeOK, NEW row \in Row
    PROVE  MarkSearching(row) \in Row /\ MarkSearching(row).state = "SEARCHING"
  BY TransitionNowTyped DEF MarkSearching, Row, States

LEMMA MarkSuccessTyped ==
    ASSUME TypeOK, NEW row \in Row, NEW r \in Result, r.status \in {"linked", "skipped"}
    PROVE  /\ MarkSuccess(row, r) \in Row
           /\ MarkSuccess(row, r).state = "LINKED"
           /\ MarkSuccess(row, r).ids = r.ids
           /\ MarkSuccess(row, r).status = r.status
<1> DEFINE n == row.attempts + 1
           u == TransitionNow(row)
<1>1. n \in Nat /\ u \in Nat
  BY TransitionNowTyped DEF Row
<1>2. MarkSuccess(row, r) =
        [row EXCEPT !.state = "LINKED", !.attempts = n, !.updated = u, !.next = None,
                    !.status = r.status, !.ids = r.ids]
  BY Zenon DEF MarkSuccess
<1> HIDE DEF n, u
<1>3. r.ids \in Seq(Nat)
  BY DEF Result
<1> QED
  BY <1>1, <1>2, <1>3 DEF Row, States

LEMMA FinalFailureTyped ==
    ASSUME TypeOK, NEW row \in Row
    PROVE  /\ FinalFailure(row) \in Row
           /\ FinalFailure(row).state = "FAILED_FINAL"
<1> DEFINE n == row.attempts + 1
           u == TransitionNow(row)
           none == <<>>
<1>1. n \in Nat /\ u \in Nat /\ none \in Seq(Nat)
  BY TransitionNowTyped DEF Row
<1>2. FinalFailure(row) =
        [row EXCEPT !.state = "FAILED_FINAL", !.attempts = n, !.updated = u, !.next = None,
                    !.status = None, !.ids = none]
  BY Zenon DEF FinalFailure
<1> HIDE DEF n, u, none
<1> QED
  BY <1>1, <1>2 DEF Row, States

LEMMA RetryAtTyped ==
    ASSUME TypeOK, NEW row \in Row, NEW t \in Nat
    PROVE  /\ RetryAt(row, t) \in Row
           /\ RetryAt(row, t).state = "FAILED_TEMP"
           /\ RetryAt(row, t).next = t
           /\ RetryAt(row, t).updated = TransitionNow(row)
           /\ RetryAt(row, t).deadline = row.deadline
<1> DEFINE n == row.attempts + 1
           u == TransitionNow(row)
           none == <<>>
<1>1. n \in Nat /\ u \in Nat /\ none \in Seq(Nat)
  BY TransitionNowTyped DEF Row
<1>2. RetryAt(row, t) =
        [row EXCEPT !.state = "FAILED_TEMP", !.attempts = n, !.updated = u, !.next = t,
                    !.status = None, !.ids = none]
  BY Zenon DEF RetryAt
<1>3. u = TransitionNow(row)
  OBVIOUS
<1> HIDE DEF n, u, none
<1> QED
  BY <1>1, <1>2, <1>3 DEF Row, States

(* A delay is positive, prolonged or not. *)
LEMMA DelayPositive ==
    ASSUME NEW n, NEW d \in RetryDelays(n), NEW after \in Nat
    PROVE  /\ d \in Nat /\ d > 0
           /\ Prolong(d, after) \in Nat /\ Prolong(d, after) > 0
<1>1. d \in 1..(2 * MaxSeconds)
  BY DEF RetryDelays
<1>2. d \in Nat /\ d > 0
  BY <1>1, LinkageAssumption
<1> QED
  BY <1>2, LinkageAssumption DEF Prolong

\* The instant of a retry lies inside the window of its row.
InsideWindow(row) ==
    row.state = "FAILED_TEMP" =>
        row.next \in Nat /\ row.updated < row.next /\ row.next <= row.deadline

(* mark_linkage_failure gives a final row or a retry inside the window. *)
LEMMA MarkFailureTyped ==
    ASSUME TypeOK, NEW row \in Row, NEW e \in Error, NEW next \in MarkFailure(row, e)
    PROVE  /\ next \in Row
           /\ next.state \in {"FAILED_TEMP", "FAILED_FINAL"}
           /\ InsideWindow(next)
<1>1. next = FinalFailure(row) \/
      \E d \in RetryDelays(row.attempts + 1) :
         LET delay == IF e.after = None THEN d ELSE Prolong(d, e.after)
             t     == TransitionNow(row) + delay
         IN  next = IF t > row.deadline THEN FinalFailure(row) ELSE RetryAt(row, t)
  BY DEF MarkFailure
<1>2. CASE next = FinalFailure(row)
  BY <1>2, FinalFailureTyped DEF InsideWindow
<1>3. ASSUME NEW d \in RetryDelays(row.attempts + 1),
             NEW delay, delay = IF e.after = None THEN d ELSE Prolong(d, e.after),
             next = IF TransitionNow(row) + delay > row.deadline THEN FinalFailure(row)
                    ELSE RetryAt(row, TransitionNow(row) + delay)
      PROVE  /\ next \in Row
             /\ next.state \in {"FAILED_TEMP", "FAILED_FINAL"}
             /\ InsideWindow(next)
  <2>1. delay \in Nat /\ delay > 0
    BY <1>3, DelayPositive DEF Error
  <2>2. TransitionNow(row) \in Nat /\ row.deadline \in Nat
    BY TransitionNowTyped DEF Row
  <2>3. CASE TransitionNow(row) + delay > row.deadline
    BY <1>3, <2>3, FinalFailureTyped DEF InsideWindow
  <2>4. CASE ~(TransitionNow(row) + delay > row.deadline)
    <3>1. TransitionNow(row) + delay \in Nat
      BY <2>1, <2>2
    <3>2. next = RetryAt(row, TransitionNow(row) + delay)
      BY <1>3, <2>4
    <3> DEFINE t == TransitionNow(row) + delay
    <3>3. /\ RetryAt(row, t) \in Row
          /\ RetryAt(row, t).state = "FAILED_TEMP"
          /\ RetryAt(row, t).next = t
          /\ RetryAt(row, t).updated = TransitionNow(row)
          /\ RetryAt(row, t).deadline = row.deadline
      BY <3>1, RetryAtTyped
    <3> QED
      BY <2>1, <2>2, <2>4, <3>1, <3>2, <3>3 DEF InsideWindow
  <2> QED
    BY <2>3, <2>4
<1> QED
  BY <1>1, <1>2, <1>3

(* persist_transition returns the row in the table afterwards, in the wanted state. *)
LEMMA PersistTransitionReturns ==
    ASSUME TypeOK, NEW c \in Cases, rows[c] # None, NEW next \in Row, NEW expected,
           NEW got, got = PersistTransition(c, next, expected), got # None
    PROVE  /\ got \in Row
           /\ got.state = next.state
           /\ (got = next /\ rows[c].state \in expected) \/ got = rows[c]
  BY DEF TypeOK, PersistTransition

(* The results that need no request. *)
LEMMA LocalResultTyped ==
    ASSUME TypeOK, NEW incident \in BOOLEAN, NEW r, r = LocalResult(incident)
    PROVE  /\ r \in Result \cup {None}
           /\ r = None => mode = "LIVE"
           /\ r # None => /\ r.status \notin {"linked", "skipped"} => r.error # None
                          /\ mode = "LIVE" => r.status \notin {"linked", "skipped"}
                          /\ r.status \in {"linked", "skipped"} => Success(r.status, r.ids)
<1>1. /\ Permanent("missing_incident_sys_id") \in Error
      /\ Permanent("invalid_input") \in Error
      /\ Permanent("missing_base_url") \in Error
  BY DEF Permanent, Error, Lasting
<1>2. NotLinked \in Result /\ NotLinked.status = "not-linked" /\ NotLinked.error # None
  BY <1>1, NoneApart DEF NotLinked, Result, Reported
<1>3. ASSUME NEW e \in Error
      PROVE  /\ Failed(e, <<>>) \in Result
             /\ Failed(e, <<>>).status = "failed"
             /\ Failed(e, <<>>).error # None
  BY NoneApart DEF Failed, Result, Reported
<1>4. Skipped \in Result /\ Skipped.status = "skipped" /\ Skipped.ids = <<>>
  BY DEF Skipped, Result, Reported
<1>5. /\ Linked([k \in Keys |-> Mock]) \in Result
      /\ Linked([k \in Keys |-> Mock]).status = "linked"
      /\ Linked([k \in Keys |-> Mock]).ids = [k \in Keys |-> Mock]
  <2>1. [k \in Keys |-> Mock] \in Seq(Nat)
    BY LinkageAssumption DEF Keys, Mock
  <2> QED
    BY <2>1 DEF Linked, Result, Reported
<1>6. mode \in {"OFF", "LOG", "MOCK", "LIVE", "LIVE_WITHOUT_URL"}
  BY LinkageAssumption DEF TypeOK
<1>7. CASE ~incident
  BY <1>2, <1>7, NoneApart DEF LocalResult
<1>8. CASE incident /\ Tasks = 0
  <2>1. Permanent("invalid_input") \in Error
    BY <1>1
  <2>2. r = Failed(Permanent("invalid_input"), <<>>)
    BY <1>8 DEF LocalResult
  <2> QED
    BY <1>3, <2>1, <2>2, NoneApart
<1>9. CASE incident /\ Tasks # 0
  <2>1. CASE mode \in {"OFF", "LOG"}
    BY <1>4, <1>9, <2>1, NoneApart DEF LocalResult, Success
  <2>2. CASE mode = "MOCK"
    BY <1>5, <1>9, <2>2, NoneApart DEF LocalResult, Success
  <2>3. CASE mode = "LIVE_WITHOUT_URL"
    <3>1. Permanent("missing_base_url") \in Error
      BY <1>1
    <3>2. r = Failed(Permanent("missing_base_url"), <<>>)
      BY <1>9, <2>3 DEF LocalResult
    <3> QED
      BY <1>3, <2>3, <3>1, <3>2, NoneApart
  <2>4. CASE mode = "LIVE"
    BY <1>9, <2>4 DEF LocalResult
  <2> QED
    BY <1>6, <2>1, <2>2, <2>3, <2>4
<1> QED
  BY <1>7, <1>8, <1>9

-----------------------------------------------------------------------------
(* What a step does: to the caller that takes it, to the others, to what they share. *)

LocalTyped ==
    /\ pc \in [Workers -> Steps]
    /\ current \in [Workers -> Cases \cup {None}]
    /\ held \in [Workers -> Row \cup {None}]
    /\ try \in [Workers -> Attempt]
    /\ result \in [Workers -> Result \cup {None}]

SharedTyped ==
    /\ mode \in Modes
    /\ durable \in BOOLEAN
    /\ rows \in [Cases -> Row \cup {None}]
    /\ records \in [Cases -> [Keys -> Nat]]
    /\ files \in [Cases -> File \cup {None}]
    /\ escalated \subseteq Cases
    /\ slo \in [Cases -> SUBSET {"met", "missed"}]
    /\ late \in [Cases -> [Keys -> Nat]]
    /\ clock \in 0..Horizon
    /\ crashes \in 0..MaxCrashes

LEMMA TypeSplit ==
    /\ TypeOK <=> LocalTyped /\ SharedTyped
    /\ TypeOK' <=> LocalTyped' /\ SharedTyped'
  BY Zenon DEF TypeOK, LocalTyped, SharedTyped

\* The other callers do not move.
Others(w) ==
    \A v \in Workers \ {w} :
        /\ pc'[v] = pc[v] /\ current'[v] = current[v] /\ held'[v] = held[v]
        /\ try'[v] = try[v] /\ result'[v] = result[v]

\* Rows only go forward and final ones stay, records only multiply.
Shared ==
    /\ UNCHANGED <<mode, durable>>
    /\ \A c \in Cases : rows[c] # None => rows'[c] # None
    /\ \A c \in Cases :
          rows[c] # None /\ rows'[c].state = "PENDING" => rows[c].state = "PENDING"
    /\ \A c \in Cases : IsFinal(c) => rows'[c] = rows[c]
    /\ \A c \in Cases, k \in Keys : records[c][k] <= records'[c][k]

Sound(w) == TypeOK' /\ Others(w) /\ Shared /\ (pc'[w] # "idle" => CallSound(w)')

LEMMA StillShared ==
    ASSUME TypeOK, UNCHANGED <<mode, durable, rows, records>>
    PROVE  Shared
  BY DEF TypeOK, Shared

(* What a caller knows stays true while others move. *)
LEMMA BackedKept ==
    ASSUME TypeOK, TypeOK', Shared, NEW c \in Cases, NEW ids, Backed(c, ids)
    PROVE  Backed(c, ids)'
<1>1. \A k \in Keys : records[c][k] \in Nat /\ records'[c][k] \in Nat
  BY DEF TypeOK
<1>2. ASSUME NEW k \in Keys PROVE ids[k] \in 1..records'[c][k]
  BY <1>1 DEF Backed, Shared
<1> QED
  BY <1>2 DEF Backed

LEMMA ResultSoundKept ==
    ASSUME TypeOK, TypeOK', Shared, NEW v \in Workers, current[v] \in Cases, ResultSound(v),
           result'[v] = result[v], current'[v] = current[v]
    PROVE  ResultSound(v)'
  BY BackedKept DEF ResultSound, Shared, Success

LEMMA UpsertSoundKept ==
    ASSUME TypeOK, TypeOK', Shared, NEW v \in Workers, current[v] \in Cases, UpsertSound(v),
           pc'[v] = pc[v], try'[v] = try[v], current'[v] = current[v]
    PROVE  UpsertSound(v)'
<1>1. \A k \in Keys : /\ records[current[v]][k] \in Nat
                      /\ records'[current[v]][k] \in Nat
                      /\ records[current[v]][k] <= records'[current[v]][k]
  BY DEF TypeOK, Shared
<1>2. try[v].key \in Keys /\ \A k \in 1..(try[v].key - 1) : k \in Keys
  BY LinkageAssumption DEF UpsertSound, Keys
<1>3. \A k \in 1..(try[v].key - 1) : try'[v].ids[k] \in 1..records'[current'[v]][k]
  BY <1>1, <1>2 DEF UpsertSound
<1>4. pc'[v] = "write" /\ try'[v].found # None =>
          try'[v].found \in 1..records'[current'[v]][try'[v].key]
  BY <1>1, <1>2 DEF UpsertSound
<1> QED
  BY <1>3, <1>4 DEF UpsertSound, Shared

LEMMA CallSoundKept ==
    ASSUME TypeOK, TypeOK', Shared, NEW v \in Workers, CallSound(v),
           pc'[v] = pc[v], current'[v] = current[v], held'[v] = held[v],
           try'[v] = try[v], result'[v] = result[v]
    PROVE  CallSound(v)'
<1>1. current[v] \in Cases
  BY DEF CallSound
<1>2. pc'[v] \in {"lookup", "write"} => UpsertSound(v)'
  BY <1>1, UpsertSoundKept DEF CallSound
<1>3. pc'[v] \in {"outcome", "slo", "escalate", "file"} => ResultSound(v)'
  BY <1>1, ResultSoundKept DEF CallSound
<1>4. durable' => held'[v] # None /\ rows'[current'[v]] # None
  BY <1>1 DEF CallSound, Shared
<1>5. durable' /\ rows'[current'[v]].state = "PENDING" =>
          pc'[v] = "mark" /\ held'[v].state = "PENDING"
  BY <1>1 DEF CallSound, Shared
<1>6. pc'[v] = "mark" => durable' /\ held'[v].state \notin Final
  BY DEF CallSound, Shared
<1>7. /\ pc'[v] = "slo" => durable'
      /\ pc'[v] = "escalate" => durable' /\ held'[v].state = "FAILED_FINAL"
  BY DEF CallSound, Shared
<1>8. pc'[v] \in {"slo", "escalate", "file"} /\ durable' =>
           /\ held'[v] = rows'[current'[v]]
           /\ held'[v].state \in Final
           /\ held'[v].state = "LINKED" <=> result'[v].status \in {"linked", "skipped"}
  <2> SUFFICES ASSUME pc'[v] \in {"slo", "escalate", "file"}, durable'
               PROVE  /\ held'[v] = rows'[current'[v]]
                      /\ held'[v].state \in Final
                      /\ held'[v].state = "LINKED" <=> result'[v].status \in {"linked", "skipped"}
    OBVIOUS
  <2>1. /\ held[v] = rows[current[v]] /\ held[v].state \in Final /\ rows[current[v]] # None
        /\ held[v].state = "LINKED" <=> result[v].status \in {"linked", "skipped"}
    BY DEF CallSound, Shared
  <2>2. rows'[current[v]] = rows[current[v]]
    BY <1>1, <2>1 DEF Shared, IsFinal
  <2> QED
    BY <2>1, <2>2
<1> QED
  BY <1>1, <1>2, <1>3, <1>4, <1>5, <1>6, <1>7, <1>8 DEF CallSound

(* Every step is sound for its caller: then all calls are. *)
LEMMA CallsSoundKept ==
    ASSUME TypeOK, CallsSound, NEW w \in Workers, Sound(w)
    PROVE  CallsSound'
<1> SUFFICES ASSUME NEW v \in Workers, pc'[v] # "idle" PROVE CallSound(v)'
  BY DEF CallsSound
<1>1. CASE v = w
  BY <1>1 DEF Sound
<1>2. CASE v # w
  BY <1>2, CallSoundKept DEF Sound, Others, CallsSound
<1> QED
  BY <1>1, <1>2

-----------------------------------------------------------------------------
(* The steps in ServiceNow. *)

LEMMA ReturnEffect ==
    ASSUME TypeOK, NEW w \in Workers, Return(w)
    PROVE  LocalTyped' /\ Others(w) /\ pc'[w] = "idle" /\ current'[w] = None
<1>1. NoAttempt \in Attempt
  BY DEF NoAttempt, Attempt
<1> QED
  BY <1>1 DEF TypeOK, Return, LocalTyped, Others, Steps

LEMMA FailedTyped ==
    ASSUME NEW e \in Error, NEW ids \in Seq(Nat)
    PROVE  /\ Failed(e, ids) \in Result
           /\ Failed(e, ids).status = "failed"
           /\ Failed(e, ids).error # None
  BY NoneApart DEF Failed, Result, Reported

LEMMA PermanentTyped ==
    Permanent("lookup_error") \in Error /\ Permanent("missing_sys_id") \in Error
  BY DEF Permanent, Error, Lasting

(* An upsert that fails leaves a sound call. *)
LEMMA FailUpsertSound ==
    ASSUME TypeOK, NEW w \in Workers, CallSound(w), pc[w] \in {"lookup", "write"},
           NEW e \in Error, FailUpsert(w, e), UNCHANGED <<mode, durable, rows, current, held>>
    PROVE  LocalTyped' /\ Others(w) /\ CallSound(w)' /\ pc'[w] = "outcome"
<1>1. try[w].ids \in Seq(Nat)
  BY DEF TypeOK, Attempt
<1> DEFINE r == Failed(e, try[w].ids)
<1>2. r \in Result /\ r.status = "failed" /\ r.error # None /\ r # None
  BY <1>1, FailedTyped, NoneApart
<1>3. /\ result' = [result EXCEPT ![w] = r]
      /\ pc' = [pc EXCEPT ![w] = "outcome"]
      /\ try' = try
  BY DEF FailUpsert
<1> HIDE DEF r
<1>4. LocalTyped' /\ Others(w)
  BY <1>2, <1>3 DEF TypeOK, LocalTyped, Others, Steps
<1>5. pc'[w] = "outcome" /\ result'[w] = r
  BY <1>3 DEF TypeOK
<1>6. ResultSound(w)'
  BY <1>2, <1>5 DEF ResultSound
<1> QED
  BY <1>4, <1>5, <1>6 DEF CallSound

(* So does an upserted record, once it is in ServiceNow. *)
LEMMA AdvanceSound ==
    ASSUME TypeOK, NEW w \in Workers, CallSound(w), pc[w] \in {"lookup", "write"},
           NEW id \in Nat, Advance(w, id), Shared, records' \in [Cases -> [Keys -> Nat]],
           id \in 1..records'[current[w]][try[w].key],
           UNCHANGED <<rows, current, held>>
    PROVE  /\ LocalTyped' /\ Others(w) /\ CallSound(w)'
           /\ pc'[w] \in {"outcome", "lookup"}
<1> DEFINE ids == Append(try[w].ids, id)
           c == current[w]
           key == try[w].key
<1>1. try[w] \in Attempt /\ try[w].ids \in Seq(Nat) /\ key \in Keys /\ key \in Nat
  BY LinkageAssumption DEF TypeOK, Attempt, CallSound, UpsertSound, Keys
<1>2. ids \in Seq(Nat) /\ Len(ids) = key /\ ids[key] = id
      /\ \A k \in 1..(key - 1) : ids[k] = try[w].ids[k]
  BY <1>1 DEF CallSound, UpsertSound
<1>3. c \in Cases /\ mode = "LIVE" /\ mode' = mode /\ durable' = durable
  BY DEF CallSound, UpsertSound, Shared
<1>4. ASSUME NEW k \in 1..key PROVE ids[k] \in 1..records'[c][k]
  <2>1. CASE k = key
    BY <1>2, <2>1
  <2>2. CASE k # key
    <3>1. k \in 1..(key - 1) /\ k \in Keys
      BY <1>1, <2>2, LinkageAssumption DEF Keys
    <3>2. ids[k] \in 1..records[c][k]
      BY <1>2, <3>1 DEF CallSound, UpsertSound
    <3>3. records[c][k] \in Nat /\ records'[c][k] \in Nat /\ records[c][k] <= records'[c][k]
      BY <1>3, <3>1 DEF TypeOK, Shared
    <3> HIDE DEF ids
    <3> QED
      BY <3>2, <3>3
  <2> QED
    BY <2>1, <2>2
<1>5. CASE key = Tasks + 1
  <2> DEFINE r == Linked(ids)
  <2>1. r \in Result /\ r.status = "linked" /\ r.ids = ids /\ r # None
    <3> HIDE DEF ids
    <3> QED
      BY <1>2, NoneApart DEF Linked, Result, Reported
  <2>2. result' = [result EXCEPT ![w] = r] /\ pc' = [pc EXCEPT ![w] = "outcome"] /\ try' = try
    BY <1>5 DEF Advance
  <2> HIDE DEF r
  <2>3. LocalTyped' /\ Others(w)
    BY <2>1, <2>2 DEF TypeOK, LocalTyped, Others, Steps
  <2>4. pc'[w] = "outcome" /\ result'[w] = r
    BY <2>2 DEF TypeOK
  <2>5. DOMAIN ids = Keys
    <3>1. Len(ids) = Tasks + 1 /\ ids \in Seq(Nat)
      BY <1>2, <1>5
    <3> HIDE DEF ids
    <3> QED
      BY <3>1 DEF Keys
  <2>6. \A k \in Keys : ids[k] \in 1..records'[c][k]
    BY <1>4, <1>5 DEF Keys
  <2>7. ResultSound(w)'
    <3> HIDE DEF ids
    <3> QED
      BY <1>3, <2>1, <2>4, <2>5, <2>6 DEF ResultSound, Backed, Success
  <2> QED
    BY <1>3, <2>3, <2>4, <2>7 DEF CallSound
<1>6. CASE key # Tasks + 1
  <2>1. key + 1 \in Keys /\ key + 1 \in Nat
    <3>1. Tasks \in Nat
      BY LinkageAssumption
    <3> HIDE DEF key
    <3> QED
      BY <1>1, <1>6, <3>1 DEF Keys
  <2>2. /\ try' = [try EXCEPT ![w] = [try[w] EXCEPT !.key = key + 1, !.found = None, !.ids = ids]]
        /\ pc' = [pc EXCEPT ![w] = "lookup"] /\ result' = result
    BY <1>6 DEF Advance, TypeOK
  <2> DEFINE new == [try[w] EXCEPT !.key = key + 1, !.found = None, !.ids = ids]
  <2>3. new \in Attempt /\ new.key = key + 1 /\ new.found = None /\ new.ids = ids
    <3> HIDE DEF ids, key
    <3> QED
      BY <1>1, <1>2, <2>1 DEF Attempt
  <2>4. try' = [try EXCEPT ![w] = new]
    BY <2>2
  <2> HIDE DEF new, ids
  <2>5. pc'[w] = "lookup" /\ try'[w] = new
    BY <2>2, <2>4 DEF TypeOK
  <2>6. UpsertSound(w)'
    BY <1>2, <1>3, <1>4, <2>1, <2>3, <2>5, <1>1 DEF UpsertSound
  <2>7. LocalTyped' /\ Others(w)
    BY <2>2, <2>3, <2>4 DEF TypeOK, LocalTyped, Others, Steps
  <2> QED
    BY <1>3, <2>3, <2>5, <2>6, <2>7 DEF CallSound
<1> QED
  BY <1>5, <1>6

LEMMA Finish ==
    ASSUME TypeOK, NEW w \in Workers, LocalTyped', SharedTyped', Others(w), Shared,
           pc'[w] # "idle" => CallSound(w)'
    PROVE  Sound(w)
  BY TypeSplit DEF Sound

LEMMA ErrorsTyped == \A e \in Errors : e \in Error
  BY LinkageAssumption

(* A caller that looked a record up knows it, or knows that there is none. *)
LEMMA FoundSound ==
    ASSUME TypeOK, NEW w \in Workers, CallSound(w), pc[w] = "lookup",
           NEW id \in ExistingSysId(records[current[w]][try[w].key]), Found(w, id),
           UNCHANGED <<mode, durable, rows, records, current, held>>
    PROVE  /\ LocalTyped' /\ Others(w) /\ CallSound(w)'
           /\ pc'[w] = "write"
<1> DEFINE n == records[current[w]][try[w].key]
           new == [try[w] EXCEPT !.found = id]
<1>1. n \in Nat /\ try[w] \in Attempt
  BY DEF TypeOK, CallSound, UpsertSound
<1>2. (id = None /\ n = 0) \/ (id \in 1..n /\ id \in Nat)
  BY <1>1 DEF ExistingSysId
<1>3. new \in Attempt /\ new.found = id /\ new.key = try[w].key /\ new.ids = try[w].ids
  <2> HIDE DEF n
  <2> QED
    BY <1>1, <1>2 DEF Attempt
<1>4. try' = [try EXCEPT ![w] = new] /\ pc' = [pc EXCEPT ![w] = "write"] /\ result' = result
  BY DEF Found
<1> HIDE DEF new
<1>5. LocalTyped' /\ Others(w)
  BY <1>3, <1>4 DEF TypeOK, LocalTyped, Others, Steps
<1>6. pc'[w] = "write" /\ try'[w] = new
  BY <1>4 DEF TypeOK
<1>7. UpsertSound(w)'
  BY <1>2, <1>3, <1>6 DEF UpsertSound, CallSound
<1>8. CallSound(w)'
  BY <1>6, <1>7 DEF CallSound
<1> QED
  BY <1>5, <1>6, <1>8

LEMMA LookupSound ==
    ASSUME TypeOK, CallsSound, NEW w \in Workers, Lookup(w)
    PROVE  Sound(w) /\ pc'[w] \in {"outcome", "write"}
<1>1. /\ pc[w] = "lookup"
      /\ UNCHANGED <<mode, durable, rows, records, files, escalated, slo, late,
                     current, held, clock, crashes>>
      /\ \/ \E e \in Errors : FailUpsert(w, e)
         \/ \E id \in ExistingSysId(records[current[w]][try[w].key]) : Found(w, id)
         \/ FailUpsert(w, Permanent("lookup_error"))
  BY Zenon DEF Lookup, RequestFails, env
<1>2. CallSound(w)
  BY <1>1 DEF CallsSound
<1>3. Shared /\ SharedTyped'
  BY <1>1, StillShared DEF TypeOK, SharedTyped
<1>4. ASSUME NEW e \in Error, FailUpsert(w, e)
      PROVE  Sound(w) /\ pc'[w] = "outcome"
  BY <1>1, <1>2, <1>3, <1>4, FailUpsertSound, Finish
<1>5. ASSUME NEW id \in ExistingSysId(records[current[w]][try[w].key]), Found(w, id)
      PROVE  Sound(w) /\ pc'[w] = "write"
  BY <1>1, <1>2, <1>3, <1>5, FoundSound, Finish
<1> QED
  BY <1>1, <1>4, <1>5, ErrorsTyped, PermanentTyped

(* A POST creates a record now, or later, or none, answered or not. *)
LEMMA CreateSound ==
    ASSUME TypeOK, CallsSound, NEW w \in Workers, Create(w)
    PROVE  /\ Sound(w)
           /\ pc[w] = "write" /\ mode = "LIVE"
           /\ UNCHANGED <<rows, files, escalated, slo, current, crashes>>
           /\ records' = records
              \/ records' = [records EXCEPT ![current[w]][try[w].key] = @ + 1]
           /\ pc'[w] \in {"outcome", "lookup"}
<1> DEFINE c == current[w]
           k == try[w].key
           created == [records EXCEPT ![c][k] = @ + 1]
           kept == [late EXCEPT ![c][k] = @ + 1]
<1>1. /\ pc[w] = "write"
      /\ UNCHANGED <<mode, durable, rows, files, escalated, slo, current, held, clock, crashes>>
      /\ late' \in {late, kept}
      /\ \/ Advance(w, records[c][k] + 1) /\ records' = created
         \/ \E e \in Errors : FailUpsert(w, e) /\ records' \in {records, created}
         \/ FailUpsert(w, Permanent("missing_sys_id")) /\ records' = created
  <2>1. \A e \in Unanswered : e \in Errors
    BY DEF Unanswered
  <2> QED
    BY <2>1, Zenon DEF Create, Post, RequestFails, env
<1>2. CallSound(w) /\ c \in Cases /\ k \in Keys /\ mode = "LIVE"
  BY <1>1 DEF CallsSound, CallSound, UpsertSound
<1>3. /\ records \in [Cases -> [Keys -> Nat]] /\ records[c][k] \in Nat
      /\ created \in [Cases -> [Keys -> Nat]]
      /\ created[c][k] = records[c][k] + 1
      /\ \A d \in Cases, j \in Keys : records[d][j] <= created[d][j]
  BY <1>2 DEF TypeOK
<1>4. records' \in {records, created}
  BY <1>1
<1>5. late' \in [Cases -> [Keys -> Nat]]
  <2>1. late \in [Cases -> [Keys -> Nat]] /\ kept \in [Cases -> [Keys -> Nat]]
    BY <1>2 DEF TypeOK
  <2> QED
    BY <1>1, <2>1
<1> HIDE DEF created, kept
<1>6. records' \in [Cases -> [Keys -> Nat]] /\ \A d \in Cases, j \in Keys : records[d][j] <= records'[d][j]
  BY <1>3, <1>4
<1>7. Shared /\ SharedTyped'
  BY <1>1, <1>5, <1>6 DEF TypeOK, SharedTyped, Shared
<1>8. ASSUME NEW e \in Error, FailUpsert(w, e)
      PROVE  Sound(w) /\ pc'[w] = "outcome"
  BY <1>1, <1>2, <1>7, <1>8, FailUpsertSound, Finish
<1>9. ASSUME Advance(w, records[c][k] + 1), records' = created
      PROVE  Sound(w) /\ pc'[w] \in {"outcome", "lookup"}
  <2>1. records[c][k] + 1 \in Nat /\ records[c][k] + 1 \in 1..records'[c][k]
    BY <1>3, <1>9
  <2> QED
    BY <1>1, <1>2, <1>6, <1>7, <1>9, <2>1, AdvanceSound, Finish
<1>10. Sound(w) /\ pc'[w] \in {"outcome", "lookup"}
  BY <1>1, <1>8, <1>9, ErrorsTyped, PermanentTyped
<1> QED
  BY <1>1, <1>2, <1>4, <1>10 DEF created

(* A PATCH of the record that was found. *)
LEMMA UpdateSound ==
    ASSUME TypeOK, CallsSound, NEW w \in Workers, Update(w)
    PROVE  Sound(w) /\ pc'[w] \in {"outcome", "lookup"}
<1> DEFINE id == try[w].found
<1>1. /\ pc[w] = "write" /\ id # None
      /\ UNCHANGED <<mode, durable, rows, records, files, escalated, slo, late,
                     current, held, clock, crashes>>
      /\ Advance(w, id) \/ \E e \in Errors : FailUpsert(w, e)
  BY Zenon DEF Update, RequestFails, env
<1>2. CallSound(w)
  BY <1>1 DEF CallsSound
<1>3. Shared /\ SharedTyped'
  BY <1>1, StillShared DEF TypeOK, SharedTyped
<1>4. ASSUME NEW e \in Error, FailUpsert(w, e)
      PROVE  Sound(w) /\ pc'[w] = "outcome"
  BY <1>1, <1>2, <1>3, <1>4, FailUpsertSound, Finish
<1>5. ASSUME Advance(w, id)
      PROVE  Sound(w) /\ pc'[w] \in {"outcome", "lookup"}
  <2>1. /\ id \in 1..records[current[w]][try[w].key]
        /\ records[current[w]][try[w].key] \in Nat
    BY <1>1, <1>2 DEF CallSound, UpsertSound, TypeOK
  <2>2. id \in Nat /\ id \in 1..records'[current[w]][try[w].key]
    BY <1>1, <2>1
  <2>3. records' \in [Cases -> [Keys -> Nat]]
    BY <1>1 DEF TypeOK
  <2> HIDE DEF id
  <2> QED
    BY <1>1, <1>2, <1>3, <1>5, <2>2, <2>3, AdvanceSound, Finish
<1> QED
  BY <1>1, <1>4, <1>5, ErrorsTyped

-----------------------------------------------------------------------------
(* The steps of the stage. *)

LEMMA AttemptTyped ==
    /\ [incident |-> TRUE, key |-> 1, found |-> None, ids |-> <<>>] \in Attempt
    /\ [incident |-> FALSE, key |-> 1, found |-> None, ids |-> <<>>] \in Attempt
  BY DEF Attempt

LEMMA FreshAttempt ==
    ASSUME NEW incident \in BOOLEAN
    PROVE  LET new == [NoAttempt EXCEPT !.incident = incident]
           IN  new \in Attempt /\ new.key = 1 /\ new.found = None /\ new.ids = <<>>
<1> DEFINE new == [NoAttempt EXCEPT !.incident = incident]
<1>1. new = [incident |-> incident, key |-> 1, found |-> None, ids |-> <<>>]
  BY DEF NoAttempt
<1> HIDE DEF new
<1>2. new.key = 1 /\ new.found = None /\ new.ids = <<>>
  BY <1>1
<1>3. CASE incident = TRUE
  BY <1>1, <1>2, <1>3, AttemptTyped, Zenon DEF new
<1>4. CASE incident = FALSE
  BY <1>1, <1>2, <1>4, AttemptTyped, Zenon DEF new
<1> QED
  BY <1>3, <1>4, Zenon

(* An upsert begins with its first lookup or with a result. *)
LEMMA BeginUpsertSound ==
    ASSUME TypeOK, NEW w \in Workers, NEW incident \in BOOLEAN,
           BeginUpsert(w, incident), UNCHANGED <<mode, durable, records>>
    PROVE  /\ pc' \in [Workers -> Steps]
           /\ try' \in [Workers -> Attempt]
           /\ result' \in [Workers -> Result \cup {None}]
           /\ pc'[w] \in {"lookup", "outcome"}
           /\ pc'[w] = "lookup" => UpsertSound(w)'
           /\ pc'[w] = "outcome" => ResultSound(w)'
           /\ \A v \in Workers \ {w} :
                 pc'[v] = pc[v] /\ try'[v] = try[v] /\ result'[v] = result[v]
<1> DEFINE r == LocalResult(incident)
           new == [NoAttempt EXCEPT !.incident = incident]
<1>1. /\ r \in Result \cup {None}
      /\ r = None => mode = "LIVE"
      /\ r # None => /\ r.status \notin {"linked", "skipped"} => r.error # None
                     /\ mode = "LIVE" => r.status \notin {"linked", "skipped"}
                     /\ r.status \in {"linked", "skipped"} => Success(r.status, r.ids)
  BY LocalResultTyped
<1>2. new \in Attempt /\ new.key = 1 /\ new.found = None /\ new.ids = <<>>
  BY FreshAttempt
<1>3. /\ try' = [try EXCEPT ![w] = new]
      /\ result' = [result EXCEPT ![w] = r]
      /\ pc' = [pc EXCEPT ![w] = IF r = None THEN "lookup" ELSE "outcome"]
  BY Zenon DEF BeginUpsert
<1> HIDE DEF r, new
<1>4. /\ pc' \in [Workers -> Steps] /\ try' \in [Workers -> Attempt]
      /\ result' \in [Workers -> Result \cup {None}]
      /\ pc'[w] = IF r = None THEN "lookup" ELSE "outcome"
      /\ try'[w] = new /\ result'[w] = r
      /\ \A v \in Workers \ {w} :
            pc'[v] = pc[v] /\ try'[v] = try[v] /\ result'[v] = result[v]
  BY <1>1, <1>2, <1>3 DEF TypeOK, Steps
<1>5. pc'[w] = "lookup" => UpsertSound(w)'
  <2>1. 1 \in Keys /\ 1..(1 - 1) = {}
    BY LinkageAssumption DEF Keys
  <2> QED
    BY <1>1, <1>2, <1>4, <2>1 DEF UpsertSound
<1>6. pc'[w] = "outcome" => ResultSound(w)'
  BY <1>1, <1>4 DEF ResultSound, Success
<1> QED
  BY <1>4, <1>5, <1>6

LEMMA OneShotSound ==
    ASSUME TypeOK, NEW w \in Workers, NEW c \in Cases, NEW incident \in BOOLEAN,
           OneShot(w, c, incident)
    PROVE  Sound(w)
<1>1. /\ ~durable
      /\ current' = [current EXCEPT ![w] = c]
      /\ BeginUpsert(w, incident)
      /\ UNCHANGED <<mode, durable, rows, records, files, escalated, slo, late, held,
                     clock, crashes>>
  BY DEF OneShot, env
<1>2. current' \in [Workers -> Cases \cup {None}] /\ current'[w] = c
      /\ \A v \in Workers \ {w} : current'[v] = current[v]
  BY <1>1 DEF TypeOK
<1>3. LocalTyped' /\ SharedTyped' /\ Others(w)
  BY <1>1, <1>2, BeginUpsertSound DEF TypeOK, LocalTyped, SharedTyped, Others
<1>4. Shared
  BY <1>1, StillShared
<1>5. CallSound(w)'
  BY <1>1, <1>2, BeginUpsertSound DEF CallSound
<1> QED
  BY <1>3, <1>4, <1>5, Finish

LEMMA DueRow ==
    ASSUME NEW row, IsRetryDue(row)
    PROVE  row.state \notin Final
  BY DEF IsRetryDue, Final

LEMMA OpenSound ==
    ASSUME TypeOK, NEW w \in Workers, NEW c \in Cases, NEW incident \in BOOLEAN,
           Open(w, c, incident)
    PROVE  /\ Sound(w)
           /\ rows' = [rows EXCEPT ![c] = IF rows[c] = None THEN PendingRow ELSE rows[c]]
           /\ pc'[w] = "mark" /\ current'[w] = c /\ durable
<1> DEFINE row == IF rows[c] = None THEN PendingRow ELSE rows[c]
           new == [NoAttempt EXCEPT !.incident = incident]
<1>1. /\ durable /\ IsRetryDue(row)
      /\ rows' = [rows EXCEPT ![c] = row]
      /\ held' = [held EXCEPT ![w] = row]
      /\ current' = [current EXCEPT ![w] = c]
      /\ try' = [try EXCEPT ![w] = new]
      /\ pc' = [pc EXCEPT ![w] = "mark"]
      /\ UNCHANGED <<mode, durable, records, files, escalated, slo, late, result, clock, crashes>>
  BY DEF Open, env
<1>2. row \in Row /\ row.state \notin Final /\ (rows[c] # None => row = rows[c])
  BY <1>1, PendingRowTyped, DueRow DEF TypeOK
<1>3. new \in Attempt
  BY FreshAttempt
<1> HIDE DEF row, new
<1>4. /\ LocalTyped' /\ Others(w)
      /\ pc'[w] = "mark" /\ current'[w] = c /\ held'[w] = row
  BY <1>1, <1>2, <1>3 DEF TypeOK, LocalTyped, Others, Steps
<1>5. SharedTyped' /\ rows'[c] = row /\ \A d \in Cases \ {c} : rows'[d] = rows[d]
  BY <1>1, <1>2 DEF TypeOK, SharedTyped
<1>6. Shared
  <2>1. \A d \in Cases, k \in Keys : records[d][k] <= records'[d][k]
    BY <1>1 DEF TypeOK
  <2>2. \A d \in Cases : rows[d] # None => rows'[d] = rows[d]
    BY <1>2, <1>5
  <2> QED
    BY <1>1, <2>1, <2>2 DEF Shared, IsFinal
<1>7. CallSound(w)'
  BY <1>1, <1>2, <1>4, <1>5, NoneApart DEF CallSound
<1> QED
  BY <1>1, <1>4, <1>5, <1>6, <1>7, Finish DEF row

LEMMA MarkSearchingSound ==
    ASSUME TypeOK, CallsSound, NEW w \in Workers, MarkSearchingStep(w)
    PROVE  /\ Sound(w)
           /\ pc[w] = "mark" /\ UNCHANGED <<records, files, escalated, slo, late, crashes>>
           /\ \/ /\ pc'[w] = "idle"
                 /\ rows' = rows
                 /\ rows[current[w]].state \notin {"SEARCHING", held[w].state}
              \/ /\ pc'[w] # "idle" /\ current' = current
                 /\ \E got \in Row : /\ got.state = "SEARCHING"
                                     /\ rows' = [rows EXCEPT ![current[w]] = got]
                 /\ BeginUpsert(w, try[w].incident)
<1> DEFINE c == current[w]
           next == MarkSearching(held[w])
           got == PersistTransition(c, next, {held[w].state})
<1>1. /\ pc[w] = "mark"
      /\ UNCHANGED <<mode, durable, records, files, escalated, slo, late, clock, crashes>>
      /\ \/ got = None /\ Return(w) /\ UNCHANGED rows
         \/ /\ got # None
            /\ rows' = [rows EXCEPT ![c] = got]
            /\ held' = [held EXCEPT ![w] = got]
            /\ BeginUpsert(w, try[w].incident)
            /\ UNCHANGED current
  BY Zenon DEF MarkSearchingStep, env
<1>2. CallSound(w) /\ c \in Cases /\ durable /\ held[w] \in Row /\ rows[c] # None
      /\ held[w].state \notin Final
  BY <1>1 DEF CallsSound, CallSound, TypeOK
<1>3. next \in Row /\ next.state = "SEARCHING"
  BY <1>2, MarkSearchingTyped
<1>4. got = IF rows[c].state \in {held[w].state} THEN next
            ELSE IF rows[c].state = next.state THEN rows[c] ELSE None
  BY DEF PersistTransition
<1>5. try[w].incident \in BOOLEAN /\ rows[c] \in Row
  BY <1>2 DEF TypeOK, Attempt
<1> HIDE DEF next, got
<1>6. CASE got = None
  <2>1. rows[c].state \notin {"SEARCHING", held[w].state}
    BY <1>2, <1>3, <1>4, <1>6, NoneApart
  <2>2. Return(w) /\ UNCHANGED rows
    BY <1>1, <1>6
  <2>3. Shared /\ SharedTyped'
    BY <1>1, <2>2, StillShared DEF TypeOK, SharedTyped
  <2> QED
    BY <1>1, <2>1, <2>2, <2>3, ReturnEffect, Finish
<1>7. CASE got # None
  <2>1. /\ rows' = [rows EXCEPT ![c] = got]
        /\ held' = [held EXCEPT ![w] = got]
        /\ BeginUpsert(w, try[w].incident)
        /\ current' = current
    BY <1>1, <1>7
  <2>2. got \in Row /\ got.state = "SEARCHING"
    BY <1>3, <1>4, <1>5, <1>7
  <2>3. /\ rows' \in [Cases -> Row \cup {None}] /\ rows'[c] = got
        /\ \A d \in Cases \ {c} : rows'[d] = rows[d]
        /\ held' \in [Workers -> Row \cup {None}] /\ held'[w] = got
        /\ \A v \in Workers \ {w} : held'[v] = held[v]
    BY <1>2, <2>1, <2>2 DEF TypeOK
  <2>4. LocalTyped' /\ SharedTyped' /\ Others(w)
    BY <1>1, <1>2, <1>5, <2>1, <2>3, BeginUpsertSound DEF TypeOK, LocalTyped, SharedTyped, Others
  <2>5. rows[c].state \notin Final
    BY <1>2, <1>3, <1>4, <1>7 DEF Final
  <2>6. Shared
    <3>1. \A d \in Cases, k \in Keys : records[d][k] <= records'[d][k]
      BY <1>1 DEF TypeOK
    <3>2. \A d \in Cases : IsFinal(d) => rows'[d] = rows[d]
      BY <2>3, <2>5 DEF IsFinal
    <3>3. \A d \in Cases : rows[d] # None => rows'[d] # None
      BY <2>2, <2>3, NoneApart
    <3>4. \A d \in Cases : rows[d] # None /\ rows'[d].state = "PENDING" => rows[d].state = "PENDING"
      BY <2>2, <2>3
    <3> QED
      BY <1>1, <3>1, <3>2, <3>3, <3>4 DEF Shared
  <2>7. pc'[w] \in {"lookup", "outcome"}
    BY <1>1, <1>2, <1>5, <2>1, BeginUpsertSound
  <2>8. pc'[w] = "lookup" => UpsertSound(w)'
    BY <1>1, <1>2, <1>5, <2>1, BeginUpsertSound
  <2>9. pc'[w] = "outcome" => ResultSound(w)'
    BY <1>1, <1>2, <1>5, <2>1, BeginUpsertSound
  <2>10. CallSound(w)'
    BY <1>1, <1>2, <2>1, <2>2, <2>3, <2>7, <2>8, <2>9, NoneApart DEF CallSound
  <2> QED
    BY <1>1, <2>1, <2>2, <2>4, <2>6, <2>7, <2>10, Finish
<1> QED
  BY <1>6, <1>7

\* The row a verdict leaves: the one that is there already, or a new one that is right.
NewRow(c, got) ==
    \/ got = rows[c]
    \/ /\ rows[c].state = "SEARCHING"
       /\ InsideWindow(got)
       /\ got.state = "LINKED" => Success(got.status, got.ids)
       /\ mode = "LIVE" /\ got.state = "LINKED" => Backed(c, got.ids)

LEMMA OutcomeSound ==
    ASSUME TypeOK, CallsSound, NEW w \in Workers, Outcome(w)
    PROVE  /\ Sound(w)
           /\ pc[w] = "outcome" /\ durable
           /\ UNCHANGED <<records, files, escalated, slo, late, crashes>>
           /\ \/ /\ rows' = rows /\ pc'[w] = "idle"
                 /\ rows[current[w]].state \notin {"PENDING", "SEARCHING"}
              \/ \E got \in Row :
                    /\ got.state \in {"FAILED_TEMP"} \cup Final
                    /\ rows' = [rows EXCEPT ![current[w]] = got]
                    /\ NewRow(current[w], got)
                    /\ pc'[w] \in {"idle", "slo"}
                    /\ got.state = "FAILED_FINAL" =>
                          pc'[w] = "slo" /\ current'[w] = current[w]
<1> DEFINE c == current[w]
           r == result[w]
           success == r.status \in {"linked", "skipped"}
           nexts == IF success THEN {MarkSuccess(held[w], r)} ELSE MarkFailure(held[w], r.error)
<1>1. /\ pc[w] = "outcome" /\ durable
      /\ UNCHANGED <<mode, durable, records, files, escalated, slo, late, clock, crashes>>
      /\ \E next \in nexts : LET got == PersistTransition(c, next, {"SEARCHING"})
              IN  \/ got = None /\ Return(w) /\ UNCHANGED rows
                  \/ /\ got # None
                     /\ rows' = [rows EXCEPT ![c] = got]
                     /\ \/ got.state = "FAILED_TEMP" /\ Return(w)
                        \/ /\ got.state \in Final
                           /\ held' = [held EXCEPT ![w] = got]
                           /\ pc' = [pc EXCEPT ![w] = "slo"]
                           /\ UNCHANGED <<current, try, result>>
  BY Zenon DEF Outcome, env
<1>2. CallSound(w) /\ ResultSound(w) /\ c \in Cases /\ held[w] \in Row /\ rows[c] \in Row
      /\ rows[c] # None /\ rows[c].state # "PENDING" /\ r \in Result
  BY <1>1 DEF CallsSound, CallSound, ResultSound, TypeOK
<1>3. PICK next \in nexts : LET got == PersistTransition(c, next, {"SEARCHING"})
              IN  \/ got = None /\ Return(w) /\ UNCHANGED rows
                  \/ /\ got # None
                     /\ rows' = [rows EXCEPT ![c] = got]
                     /\ \/ got.state = "FAILED_TEMP" /\ Return(w)
                        \/ /\ got.state \in Final
                           /\ held' = [held EXCEPT ![w] = got]
                           /\ pc' = [pc EXCEPT ![w] = "slo"]
                           /\ UNCHANGED <<current, try, result>>
  BY <1>1
<1>4. /\ next \in Row /\ InsideWindow(next)
      /\ success => next.state = "LINKED" /\ next.ids = r.ids /\ next.status = r.status
      /\ ~success => next.state \in {"FAILED_TEMP", "FAILED_FINAL"}
  <2>1. CASE success
    BY <1>2, <2>1, MarkSuccessTyped DEF InsideWindow
  <2>2. CASE ~success
    <3>1. r.error \in Error
      BY <1>2, <2>2 DEF ResultSound, Result
    <3> QED
      BY <1>2, <2>2, <3>1, MarkFailureTyped
  <2> QED
    BY <2>1, <2>2
<1>5. /\ next.state = "LINKED" => Success(next.status, next.ids)
      /\ mode = "LIVE" /\ next.state = "LINKED" => Backed(c, next.ids)
  BY <1>2, <1>4 DEF ResultSound
<1> DEFINE got == PersistTransition(c, next, {"SEARCHING"})
<1>6. got = IF rows[c].state \in {"SEARCHING"} THEN next
            ELSE IF rows[c].state = next.state THEN rows[c] ELSE None
  BY DEF PersistTransition
<1>7. \/ got = None /\ Return(w) /\ UNCHANGED rows
      \/ /\ got # None
         /\ rows' = [rows EXCEPT ![c] = got]
         /\ \/ got.state = "FAILED_TEMP" /\ Return(w)
            \/ /\ got.state \in Final
               /\ held' = [held EXCEPT ![w] = got]
               /\ pc' = [pc EXCEPT ![w] = "slo"]
               /\ UNCHANGED <<current, try, result>>
  BY <1>3
<1>8. got # None => /\ got \in Row /\ got.state = next.state /\ NewRow(c, got)
  <2> HIDE DEF got
  <2> QED
    BY <1>2, <1>4, <1>5, <1>6 DEF NewRow
<1> HIDE DEF got, nexts, success
<1>9. CASE got = None
  <2>1. Return(w) /\ UNCHANGED rows
    BY <1>7, <1>9
  <2>2. rows[c].state \notin {"PENDING", "SEARCHING"}
    BY <1>2, <1>4, <1>6, <1>9, NoneApart
  <2>3. Shared /\ SharedTyped'
    BY <1>1, <2>1, StillShared DEF TypeOK, SharedTyped
  <2> QED
    BY <1>1, <2>1, <2>2, <2>3, ReturnEffect, Finish
<1>10. CASE got # None
  <2>1. /\ rows' = [rows EXCEPT ![c] = got] /\ got \in Row /\ got.state = next.state
        /\ NewRow(c, got)
    BY <1>7, <1>8, <1>10
  <2>2. /\ rows' \in [Cases -> Row \cup {None}] /\ rows'[c] = got
        /\ \A d \in Cases \ {c} : rows'[d] = rows[d]
    BY <1>2, <2>1 DEF TypeOK
  <2>3. got.state \in {"FAILED_TEMP"} \cup Final
    BY <1>4, <2>1 DEF Final
  <2>4. SharedTyped'
    BY <1>1, <2>2 DEF TypeOK, SharedTyped
  <2>5. Shared
    <3>1. \A d \in Cases, k \in Keys : records[d][k] <= records'[d][k]
      BY <1>1 DEF TypeOK
    <3>2. \A d \in Cases : IsFinal(d) => rows'[d] = rows[d]
      BY <2>1, <2>2 DEF IsFinal, NewRow, Final
    <3>3. \A d \in Cases : rows[d] # None => rows'[d] # None
      BY <2>1, <2>2, NoneApart
    <3>4. \A d \in Cases : rows[d] # None /\ rows'[d].state = "PENDING" => rows[d].state = "PENDING"
      BY <2>2, <2>3 DEF Final
    <3> QED
      BY <1>1, <3>1, <3>2, <3>3, <3>4 DEF Shared
  <2>6. CASE got.state = "FAILED_TEMP"
    <3>1. Return(w)
      BY <1>7, <1>10, <2>6 DEF Final
    <3>2. Sound(w) /\ pc'[w] = "idle"
      BY <2>4, <2>5, <3>1, ReturnEffect, Finish
    <3> QED
      BY <1>1, <2>1, <2>3, <2>6, <3>2
  <2>7. CASE got.state \in Final
    <3>1. /\ held' = [held EXCEPT ![w] = got]
          /\ pc' = [pc EXCEPT ![w] = "slo"]
          /\ current' = current /\ try' = try /\ result' = result
      BY <1>7, <1>10, <2>7 DEF Final
    <3>2. /\ LocalTyped' /\ Others(w) /\ held'[w] = got
          /\ pc'[w] = "slo"
      BY <2>1, <3>1 DEF TypeOK, LocalTyped, Others, Steps
    <3>3. ResultSound(w)'
      BY <1>1, <1>2, <3>1 DEF ResultSound, Backed, Success
    <3>4. got.state = "LINKED" <=> result[w].status \in {"linked", "skipped"}
      BY <1>4, <2>1 DEF success
    <3>5. CallSound(w)'
      BY <1>1, <1>2, <2>1, <2>2, <2>7, <3>1, <3>2, <3>3, <3>4, NoneApart DEF CallSound, Final
    <3>6. Sound(w)
      BY <2>4, <2>5, <3>2, <3>5, Finish
    <3> QED
      BY <1>1, <2>1, <2>3, <3>1, <3>2, <3>6 DEF Final
  <2> QED
    BY <2>3, <2>6, <2>7
<1> QED
  BY <1>9, <1>10

LEMMA RecordSloSound ==
    ASSUME TypeOK, CallsSound, NEW w \in Workers, RecordSlo(w)
    PROVE  /\ Sound(w)
           /\ pc[w] = "slo" /\ pc'[w] \in {"escalate", "file"} /\ durable /\ IsFinal(current[w])
           /\ rows[current[w]].state = "FAILED_FINAL" => pc'[w] = "escalate"
           /\ UNCHANGED <<mode, durable, rows, records, files, escalated, late, current, try, crashes>>
           /\ \/ slo' = slo
              \/ slo' = [slo EXCEPT ![current[w]] = @ \cup {Verdict(rows[current[w]])}]
<1> DEFINE c == current[w]
           r == result[w]
           row == held[w]
<1>1. /\ pc[w] = "slo"
      /\ slo' = [slo EXCEPT ![c] = @ \cup SloVerdicts(row, r)]
      /\ pc' = [pc EXCEPT ![w] = IF row.state = "LINKED" THEN "file" ELSE "escalate"]
      /\ UNCHANGED <<mode, durable, rows, records, files, escalated, late, current, held, try,
                     result, clock, crashes>>
  BY Zenon DEF RecordSlo, env
<1>2. /\ CallSound(w) /\ ResultSound(w) /\ c \in Cases /\ durable
      /\ row = rows[c] /\ row # None /\ row.state \in Final
      /\ row.state = "LINKED" <=> r.status \in {"linked", "skipped"}
  BY <1>1 DEF CallsSound, CallSound
<1>3. SloVerdicts(row, r) = {} \/ SloVerdicts(row, r) = {Verdict(row)}
  BY <1>2 DEF SloVerdicts, Verdict, Final
<1>4. Verdict(row) \in {"met", "missed"}
  BY DEF Verdict
<1>5. slo' = slo \/ slo' = [slo EXCEPT ![c] = @ \cup {Verdict(row)}]
  <2>1. CASE SloVerdicts(row, r) = {}
    BY <1>1, <1>2, <2>1 DEF TypeOK
  <2> QED
    BY <1>1, <1>3, <2>1
<1>6. slo' \in [Cases -> SUBSET {"met", "missed"}]
  <2>1. slo \in [Cases -> SUBSET {"met", "missed"}] /\ c \in Cases
    BY <1>2 DEF TypeOK
  <2> HIDE DEF row, c
  <2> QED
    BY <1>4, <1>5, <2>1
<1>7. /\ LocalTyped' /\ SharedTyped' /\ Others(w)
      /\ pc'[w] = IF row.state = "LINKED" THEN "file" ELSE "escalate"
  BY <1>1, <1>6 DEF TypeOK, LocalTyped, SharedTyped, Others, Steps
<1>8. Shared
  BY <1>1, StillShared
<1>9. ResultSound(w)'
  BY <1>1, <1>2 DEF ResultSound, Backed, Success
<1>10. CallSound(w)'
  BY <1>1, <1>2, <1>7, <1>9 DEF CallSound, Final
<1> QED
  BY <1>1, <1>2, <1>5, <1>7, <1>8, <1>10, Finish DEF IsFinal

LEMMA EscalateSound ==
    ASSUME TypeOK, CallsSound, NEW w \in Workers, Escalate(w)
    PROVE  /\ Sound(w)
           /\ pc[w] = "escalate" /\ pc'[w] = "file"
           /\ UNCHANGED <<rows, records, files, slo, late, current, try, crashes>>
           /\ escalated' = escalated \cup {current[w]}
           /\ durable /\ rows[current[w]] # None
           /\ rows[current[w]].state = "FAILED_FINAL"
<1>1. /\ pc[w] = "escalate"
      /\ escalated' = escalated \cup {current[w]}
      /\ pc' = [pc EXCEPT ![w] = "file"]
      /\ UNCHANGED <<mode, durable, rows, records, files, slo, late, current, held, try, result,
                     clock, crashes>>
  BY Zenon DEF Escalate, env
<1>2. CallSound(w) /\ ResultSound(w) /\ current[w] \in Cases /\ durable
      /\ held[w] = rows[current[w]] /\ held[w] # None /\ held[w].state = "FAILED_FINAL"
  BY <1>1 DEF CallsSound, CallSound
<1>3. LocalTyped' /\ SharedTyped' /\ Others(w) /\ pc'[w] = "file"
  BY <1>1, <1>2 DEF TypeOK, LocalTyped, SharedTyped, Others, Steps
<1>4. Shared
  BY <1>1, StillShared
<1>5. ResultSound(w)'
  BY <1>1, <1>2 DEF ResultSound, Backed, Success
<1>6. CallSound(w)'
  BY <1>1, <1>2, <1>3, <1>5 DEF CallSound
<1> QED
  BY <1>1, <1>2, <1>3, <1>4, <1>6, Finish

(* A write-once put leaves the first file. *)
LEMMA PutEffect ==
    ASSUME TypeOK, NEW c \in Cases, NEW file \in File, Put(c, file)
    PROVE  /\ files' \in [Cases -> File \cup {None}]
           /\ \A d \in Cases : files'[d] = files[d] \/ (d = c /\ files'[d] = file)
  BY DEF TypeOK, Put

LEMMA WrittenFileTyped ==
    ASSUME NEW r \in Result
    PROVE  [status |-> r.status, ids |-> r.ids, rehydrated |-> FALSE] \in File
<1>1. r.status \in Reported /\ r.ids \in Seq(Nat)
  BY DEF Result
<1> QED
  BY <1>1, Zenon DEF File

LEMMA WriteFileSound ==
    ASSUME TypeOK, CallsSound, NEW w \in Workers, WriteFile(w)
    PROVE  LET c == current[w]
           IN  /\ Sound(w)
               /\ pc[w] = "file" /\ pc'[w] = "idle" /\ c \in Cases
               /\ UNCHANGED <<rows, records, escalated, slo, late, crashes>>
               /\ \A d \in Cases : \/ files'[d] = files[d]
                                   \/ /\ d = c
                                      /\ files'[d].status = result[w].status
                                      /\ files'[d].ids = result[w].ids
                                      /\ files'[d].rehydrated = FALSE
               /\ durable => /\ IsFinal(c)
                             /\ rows[c].state = "LINKED" <=>
                                    result[w].status \in {"linked", "skipped"}
               /\ ResultSound(w)
<1> DEFINE c == current[w]
           r == result[w]
           file == [status |-> r.status, ids |-> r.ids, rehydrated |-> FALSE]
<1>1. /\ pc[w] = "file" /\ Put(c, file) /\ Return(w)
      /\ UNCHANGED <<mode, durable, rows, records, escalated, slo, late, clock, crashes>>
  BY Zenon DEF WriteFile, env
<1>2. CallSound(w) /\ ResultSound(w) /\ c \in Cases /\ r \in Result
  BY <1>1 DEF CallsSound, CallSound, ResultSound, TypeOK
<1>3. /\ file \in File /\ file.status = r.status /\ file.ids = r.ids
      /\ file.rehydrated = FALSE
  BY <1>2, WrittenFileTyped
<1>4. /\ files' \in [Cases -> File \cup {None}]
      /\ \A d \in Cases : files'[d] = files[d] \/ (d = c /\ files'[d] = file)
  BY <1>1, <1>2, <1>3, PutEffect
<1>5. durable => /\ IsFinal(c)
                 /\ rows[c].state = "LINKED" <=> r.status \in {"linked", "skipped"}
  BY <1>1, <1>2 DEF CallSound, IsFinal
<1> HIDE DEF file
<1>6. Shared /\ SharedTyped'
  BY <1>1, <1>4, StillShared DEF TypeOK, SharedTyped
<1>7. Sound(w) /\ pc'[w] = "idle"
  BY <1>1, <1>6, ReturnEffect, Finish
<1> QED
  BY <1>1, <1>2, <1>3, <1>4, <1>5, <1>7

LEMMA OneShotOutcomeSound ==
    ASSUME TypeOK, CallsSound, NEW w \in Workers, OneShotOutcome(w)
    PROVE  /\ Sound(w)
           /\ pc[w] = "outcome" /\ pc'[w] = "file" /\ ~durable
           /\ UNCHANGED <<rows, records, files, escalated, late, current, try, crashes>>
<1> DEFINE r == result[w]
           sample == IF r.status = "linked" THEN {"met"}
                     ELSE IF r.status = "skipped" THEN {} ELSE {"missed"}
<1>1. /\ pc[w] = "outcome" /\ ~durable
      /\ slo' = [slo EXCEPT ![current[w]] = @ \cup sample]
      /\ pc' = [pc EXCEPT ![w] = "file"]
      /\ UNCHANGED <<mode, durable, rows, records, files, escalated, late, current, held, try,
                     result, clock, crashes>>
  BY Zenon DEF OneShotOutcome, env
<1>2. CallSound(w) /\ ResultSound(w) /\ current[w] \in Cases
  BY <1>1 DEF CallsSound, CallSound
<1>3. sample \subseteq {"met", "missed"}
  OBVIOUS
<1> HIDE DEF sample
<1>4. LocalTyped' /\ SharedTyped' /\ Others(w) /\ pc'[w] = "file"
  BY <1>1, <1>2, <1>3 DEF TypeOK, LocalTyped, SharedTyped, Others, Steps
<1>5. Shared
  BY <1>1, StillShared
<1>6. ResultSound(w)'
  BY <1>1, <1>2 DEF ResultSound, Backed, Success
<1>7. CallSound(w)'
  BY <1>1, <1>2, <1>4, <1>6 DEF CallSound
<1> QED
  BY <1>1, <1>4, <1>5, <1>7, Finish

LEMMA CrashSound ==
    ASSUME TypeOK, NEW w \in Workers, Crash(w)
    PROVE  /\ Sound(w)
           /\ pc'[w] = "idle" /\ crashes' > 0
           /\ UNCHANGED <<rows, records, files, escalated, slo, late>>
<1>1. /\ crashes < MaxCrashes /\ crashes' = crashes + 1 /\ Return(w)
      /\ UNCHANGED <<mode, durable, rows, records, files, escalated, slo, late, clock>>
  BY DEF Crash, env
<1>2. crashes' \in 0..MaxCrashes /\ crashes' > 0
  BY <1>1, LinkageAssumption DEF TypeOK
<1>3. Shared /\ SharedTyped'
  BY <1>1, <1>2, StillShared DEF TypeOK, SharedTyped
<1> QED
  BY <1>1, <1>2, <1>3, ReturnEffect, Finish

LEMMA RehydrateSound ==
    ASSUME TypeOK, NEW w \in Workers, NEW c \in Cases, Rehydrate(w, c)
    PROVE  /\ Sound(w)
           /\ durable /\ IsFinal(c)
           /\ UNCHANGED <<rows, records, escalated, slo, late, crashes,
                          pc, current, held, try, result>>
           /\ \A d \in Cases :
                 \/ files'[d] = files[d]
                 \/ /\ d = c
                    /\ files'[d].status = IF rows[c].state = "LINKED" THEN "linked" ELSE "failed"
                    /\ files'[d].ids = rows[c].ids /\ files'[d].rehydrated = TRUE
<1> DEFINE verdict == IF rows[c].state = "LINKED" THEN "linked" ELSE "failed"
           file == [status |-> verdict, ids |-> rows[c].ids, rehydrated |-> TRUE]
<1>1. /\ pc[w] = "idle" /\ durable /\ rows[c] # None /\ rows[c].state \in Final
      /\ Put(c, file)
      /\ UNCHANGED <<mode, durable, rows, records, escalated, slo, late, clock, crashes,
                     pc, current, held, try, result>>
  BY DEF Rehydrate, env, local
<1>2. rows[c].ids \in Seq(Nat) /\ verdict \in Reported
  BY <1>1 DEF TypeOK, Row, Reported
<1>3. /\ file \in File /\ file.status = verdict /\ file.ids = rows[c].ids
      /\ file.rehydrated = TRUE
  <2> HIDE DEF verdict
  <2>1. file.status = verdict /\ file.ids = rows[c].ids /\ file.rehydrated = TRUE
    OBVIOUS
  <2> QED
    BY <1>2, <2>1, Zenon DEF File
<1>4. /\ files' \in [Cases -> File \cup {None}]
      /\ \A d \in Cases : files'[d] = files[d] \/ (d = c /\ files'[d] = file)
  BY <1>1, <1>3, PutEffect
<1> HIDE DEF file
<1>5. LocalTyped' /\ SharedTyped' /\ Others(w) /\ pc'[w] = "idle"
  BY <1>1, <1>4 DEF TypeOK, LocalTyped, SharedTyped, Others
<1>6. Shared
  BY <1>1, StillShared
<1> QED
  BY <1>1, <1>3, <1>4, <1>5, <1>6, Finish DEF IsFinal

-----------------------------------------------------------------------------
(* What every step of a caller may do to the rows, files, samples and records. *)

RowsMove ==
    \A c \in Cases : rows'[c] # rows[c] =>
        /\ durable /\ rows'[c] \in Row /\ InsideWindow(rows'[c])
        /\ rows'[c].state = "LINKED" => Success(rows'[c].status, rows'[c].ids)
        /\ mode = "LIVE" /\ rows'[c].state = "LINKED" => Backed(c, rows'[c].ids)

FilesMove ==
    \A c \in Cases : files'[c] # files[c] =>
        /\ durable => /\ IsFinal(c)
                      /\ files'[c].status \in {"linked", "skipped"} <=> rows[c].state = "LINKED"
                      /\ rows[c].state = "LINKED" => Retells(c, files'[c])
        /\ mode = "LIVE" /\ files'[c].status = "linked" =>
               Backed(c, files'[c].ids)

SloMove ==
    \A c \in Cases : durable /\ slo'[c] # slo[c] =>
        IsFinal(c) /\ slo'[c] = slo[c] \cup {Verdict(rows[c])}

EscalationMove(w) ==
    /\ crashes <= crashes'
    /\ escalated \subseteq escalated'
    /\ \A c \in escalated' \ escalated : rows[c] # None /\ rows[c].state = "FAILED_FINAL"
    /\ \A c \in Cases : rows'[c] # None /\ rows'[c].state = "FAILED_FINAL" /\ crashes' = 0 =>
          \/ current'[w] = c /\ pc'[w] \in {"slo", "escalate"}
          \/ /\ rows[c] # None /\ rows[c].state = "FAILED_FINAL"
             /\ current[w] = c /\ pc[w] \in {"slo", "escalate"} => c \in escalated'

OwnersMove(w) ==
    \A c \in Cases :
        rows'[c] # None /\ crashes' = 0 /\ rows'[c].state \in {"PENDING", "SEARCHING"} =>
            \/ WorksOn(w, c)'
            \/ /\ rows[c] # None /\ rows[c].state \in {"PENDING", "SEARCHING"}
               /\ ~WorksOn(w, c)

LateMove == \A c \in Cases, k \in Keys : late'[c][k] > 0 => late[c][k] > 0 \/ mode = "LIVE"

Step(w) ==
    /\ Sound(w) /\ RowsMove /\ FilesMove /\ SloMove
    /\ EscalationMove(w) /\ OwnersMove(w) /\ LateMove

(* The parts a step leaves alone. *)
LEMMA Quiet ==
    ASSUME TypeOK, NEW w \in Workers
    PROVE  /\ rows' = rows => RowsMove
           /\ files' = files => FilesMove
           /\ slo' = slo => SloMove
           /\ UNCHANGED <<rows, escalated, crashes>> /\ pc[w] \notin {"slo", "escalate"} =>
                 EscalationMove(w)
           /\ UNCHANGED <<rows, crashes>> /\ current'[w] = current[w] /\ pc'[w] # "idle" =>
                 OwnersMove(w)
           /\ late' = late => LateMove
<1>1. rows' = rows => RowsMove
  BY DEF RowsMove
<1>2. files' = files => FilesMove
  BY DEF FilesMove
<1>3. slo' = slo => SloMove
  BY DEF SloMove
<1>4. UNCHANGED <<rows, escalated, crashes>> /\ pc[w] \notin {"slo", "escalate"} =>
          EscalationMove(w)
  <2>1. crashes \in Int
    BY DEF TypeOK
  <2> QED
    BY <2>1 DEF EscalationMove
<1>5. UNCHANGED <<rows, crashes>> /\ current'[w] = current[w] /\ pc'[w] # "idle" => OwnersMove(w)
  BY DEF OwnersMove, WorksOn
<1>6. late' = late => LateMove
  BY DEF LateMove
<1> QED
  BY <1>1, <1>2, <1>3, <1>4, <1>5, <1>6

LEMMA LookupStep ==
    ASSUME TypeOK, CallsSound, NEW w \in Workers, Lookup(w)
    PROVE  Step(w)
<1>1. /\ pc[w] = "lookup"
      /\ UNCHANGED <<rows, records, files, escalated, slo, late, current, crashes>>
  BY DEF Lookup
<1> QED
  BY <1>1, LookupSound, Quiet DEF Step

LEMMA CreateStep ==
    ASSUME TypeOK, CallsSound, NEW w \in Workers, Create(w)
    PROVE  Step(w)
<1>1. /\ Sound(w) /\ pc[w] = "write" /\ mode = "LIVE"
      /\ UNCHANGED <<rows, files, escalated, slo, current, crashes>>
      /\ pc'[w] \in {"outcome", "lookup"}
  BY CreateSound
<1>2. LateMove
  BY <1>1 DEF LateMove
<1> QED
  BY <1>1, <1>2, Quiet DEF Step

LEMMA UpdateStep ==
    ASSUME TypeOK, CallsSound, NEW w \in Workers, Update(w)
    PROVE  Step(w)
<1>1. /\ pc[w] = "write"
      /\ UNCHANGED <<rows, records, files, escalated, slo, late, current, crashes>>
  BY DEF Update
<1> QED
  BY <1>1, UpdateSound, Quiet DEF Step

LEMMA OneShotStep ==
    ASSUME TypeOK, RowsDurable, NEW w \in Workers, NEW c \in Cases,
           NEW incident \in BOOLEAN, OneShot(w, c, incident)
    PROVE  Step(w)
<1>1. /\ pc[w] = "idle" /\ ~durable
      /\ current' = [current EXCEPT ![w] = c]
      /\ BeginUpsert(w, incident)
      /\ UNCHANGED <<mode, durable, rows, records, files, escalated, slo, late, crashes>>
  BY DEF OneShot, env
<1>2. OwnersMove(w)
  BY <1>1 DEF OwnersMove, RowsDurable
<1> QED
  BY <1>1, <1>2, OneShotSound, Quiet DEF Step

LEMMA OpenStep ==
    ASSUME TypeOK, CallsSound, NEW w \in Workers, NEW c \in Cases,
           NEW incident \in BOOLEAN, Open(w, c, incident)
    PROVE  Step(w)
<1>1. /\ pc[w] = "idle" /\ durable
      /\ UNCHANGED <<records, files, escalated, slo, late, crashes>>
  BY DEF Open
<1>2. /\ Sound(w) /\ pc'[w] = "mark" /\ current'[w] = c
      /\ rows' = [rows EXCEPT ![c] = IF rows[c] = None THEN PendingRow ELSE rows[c]]
  BY OpenSound
<1>3. \A d \in Cases : rows'[d] = rows[d] \/ (d = c /\ rows[d] = None /\ rows'[d] = PendingRow)
  BY <1>2 DEF TypeOK
<1>4. RowsMove
  BY <1>1, <1>3, PendingRowTyped DEF RowsMove, InsideWindow
<1>5. EscalationMove(w)
  <2>1. crashes \in Int
    BY DEF TypeOK
  <2> QED
    BY <1>1, <1>3, <2>1, PendingRowTyped DEF EscalationMove
<1>6. OwnersMove(w)
  <2> SUFFICES ASSUME NEW d \in Cases, d # c, rows'[d] # None,
                      rows'[d].state \in {"PENDING", "SEARCHING"}
               PROVE  /\ rows[d] # None /\ rows[d].state \in {"PENDING", "SEARCHING"}
                      /\ ~WorksOn(w, d)
    BY <1>2 DEF OwnersMove, WorksOn
  <2> QED
    BY <1>1, <1>3 DEF WorksOn
<1> QED
  BY <1>1, <1>2, <1>4, <1>5, <1>6, Quiet DEF Step

LEMMA MarkSearchingStepped ==
    ASSUME TypeOK, CallsSound, NEW w \in Workers, MarkSearchingStep(w)
    PROVE  Step(w)
<1> DEFINE c == current[w]
<1>1. /\ Sound(w) /\ pc[w] = "mark" /\ UNCHANGED <<records, files, escalated, slo, late, crashes>>
      /\ \/ /\ pc'[w] = "idle" /\ rows' = rows
            /\ rows[c].state \notin {"SEARCHING", held[w].state}
         \/ /\ pc'[w] # "idle" /\ current' = current
            /\ \E got \in Row : got.state = "SEARCHING" /\ rows' = [rows EXCEPT ![c] = got]
            /\ BeginUpsert(w, try[w].incident)
  BY MarkSearchingSound
<1>2. CallSound(w) /\ c \in Cases /\ durable /\ try[w].incident \in BOOLEAN
  BY <1>1 DEF CallsSound, CallSound, TypeOK, Attempt
<1>3. mode' = mode /\ durable' = durable
  BY <1>1 DEF Sound, Shared
<1>4. CASE pc'[w] = "idle" /\ rows' = rows
           /\ rows[c].state \notin {"SEARCHING", held[w].state}
  <2>1. rows[c].state # "PENDING"
    BY <1>2, <1>4 DEF CallSound
  <2>2. OwnersMove(w)
    BY <1>4, <2>1 DEF OwnersMove, WorksOn
  <2> QED
    BY <1>1, <1>4, <2>2, Quiet DEF Step
<1>5. CASE /\ pc'[w] # "idle" /\ current' = current
           /\ \E got \in Row : got.state = "SEARCHING" /\ rows' = [rows EXCEPT ![c] = got]
           /\ BeginUpsert(w, try[w].incident)
  <2>1. PICK got \in Row : got.state = "SEARCHING" /\ rows' = [rows EXCEPT ![c] = got]
    BY <1>5
  <2>2. rows'[c] = got /\ \A d \in Cases \ {c} : rows'[d] = rows[d]
    BY <1>2, <2>1 DEF TypeOK
  <2>3. RowsMove
    BY <1>2, <2>1, <2>2 DEF RowsMove, InsideWindow
  <2>4. EscalationMove(w)
    <3>1. crashes \in Int
      BY DEF TypeOK
    <3> QED
      BY <1>1, <2>1, <2>2, <3>1 DEF EscalationMove
  <2>5. OwnersMove(w)
    BY <1>5, <2>2 DEF OwnersMove, WorksOn
  <2> QED
    BY <1>1, <2>3, <2>4, <2>5, Quiet DEF Step
<1> QED
  BY <1>1, <1>4, <1>5

LEMMA OutcomeStep ==
    ASSUME TypeOK, CallsSound, NEW w \in Workers, Outcome(w)
    PROVE  Step(w)
<1> DEFINE c == current[w]
<1>1. /\ Sound(w) /\ pc[w] = "outcome" /\ durable
      /\ UNCHANGED <<records, files, escalated, slo, late, crashes>>
      /\ \/ /\ rows' = rows /\ pc'[w] = "idle"
            /\ rows[c].state \notin {"PENDING", "SEARCHING"}
         \/ \E got \in Row :
               /\ got.state \in {"FAILED_TEMP"} \cup Final
               /\ rows' = [rows EXCEPT ![c] = got]
               /\ NewRow(c, got)
               /\ pc'[w] \in {"idle", "slo"}
               /\ got.state = "FAILED_FINAL" => pc'[w] = "slo" /\ current'[w] = c
  BY OutcomeSound
<1>2. c \in Cases
  BY <1>1 DEF CallsSound, CallSound
<1>3. CASE rows' = rows /\ pc'[w] = "idle" /\ rows[c].state \notin {"PENDING", "SEARCHING"}
  <2>1. OwnersMove(w)
    BY <1>1, <1>3 DEF OwnersMove, WorksOn
  <2> QED
    BY <1>1, <1>3, <2>1, Quiet DEF Step
<1>4. ASSUME NEW got \in Row,
             got.state \in {"FAILED_TEMP"} \cup Final,
             rows' = [rows EXCEPT ![c] = got],
             NewRow(c, got),
             pc'[w] \in {"idle", "slo"},
             got.state = "FAILED_FINAL" => pc'[w] = "slo" /\ current'[w] = c
      PROVE  Step(w)
  <2>1. rows'[c] = got /\ \A d \in Cases \ {c} : rows'[d] = rows[d]
    BY <1>2, <1>4 DEF TypeOK
  <2>2. RowsMove
    BY <1>1, <1>4, <2>1 DEF RowsMove, NewRow
  <2>3. EscalationMove(w)
    <3>1. crashes \in Int
      BY DEF TypeOK
    <3> QED
      BY <1>1, <1>4, <2>1, <3>1 DEF EscalationMove
  <2>4. OwnersMove(w)
    BY <1>4, <2>1 DEF OwnersMove, WorksOn, Final
  <2> QED
    BY <1>1, <1>4, <2>2, <2>3, <2>4, Quiet DEF Step
<1> QED
  BY <1>1, <1>3, <1>4

LEMMA RecordSloStep ==
    ASSUME TypeOK, CallsSound, NEW w \in Workers, RecordSlo(w)
    PROVE  Step(w)
<1> DEFINE c == current[w]
<1>1. /\ Sound(w) /\ pc[w] = "slo" /\ pc'[w] \in {"escalate", "file"} /\ durable /\ IsFinal(c)
      /\ rows[c].state = "FAILED_FINAL" => pc'[w] = "escalate"
      /\ UNCHANGED <<rows, records, files, escalated, late, current, crashes>>
      /\ slo' = slo \/ slo' = [slo EXCEPT ![c] = @ \cup {Verdict(rows[c])}]
  BY RecordSloSound
<1>2. SloMove
  <2>1. \A d \in Cases : slo'[d] = slo[d] \/ (d = c /\ slo'[d] = slo[d] \cup {Verdict(rows[c])})
    BY <1>1 DEF TypeOK
  <2> QED
    BY <1>1, <2>1 DEF SloMove
<1>3. EscalationMove(w)
  <2>1. crashes \in Int
    BY DEF TypeOK
  <2> QED
    BY <1>1, <2>1 DEF EscalationMove
<1> QED
  BY <1>1, <1>2, <1>3, Quiet DEF Step

LEMMA EscalateStep ==
    ASSUME TypeOK, CallsSound, NEW w \in Workers, Escalate(w)
    PROVE  Step(w)
<1> DEFINE c == current[w]
<1>1. /\ Sound(w) /\ pc[w] = "escalate" /\ pc'[w] = "file"
      /\ UNCHANGED <<rows, records, files, slo, late, current, try, crashes>>
      /\ escalated' = escalated \cup {c}
      /\ durable /\ rows[c] # None /\ rows[c].state = "FAILED_FINAL"
  BY EscalateSound
<1>2. EscalationMove(w)
  <2>1. crashes \in Int
    BY DEF TypeOK
  <2> QED
    BY <1>1, <2>1 DEF EscalationMove
<1> QED
  BY <1>1, <1>2, Quiet DEF Step

LEMMA WriteFileStep ==
    ASSUME TypeOK, CallsSound, RowsDurable, NEW w \in Workers, WriteFile(w)
    PROVE  Step(w)
<1> DEFINE c == current[w]
<1>1. /\ Sound(w) /\ pc[w] = "file" /\ pc'[w] = "idle" /\ c \in Cases
      /\ UNCHANGED <<rows, records, escalated, slo, late, crashes>>
      /\ \A d \in Cases : \/ files'[d] = files[d]
                          \/ /\ d = c
                             /\ files'[d].status = result[w].status
                             /\ files'[d].ids = result[w].ids
                             /\ files'[d].rehydrated = FALSE
      /\ durable => /\ IsFinal(c)
                    /\ rows[c].state = "LINKED" <=> result[w].status \in {"linked", "skipped"}
      /\ ResultSound(w)
  BY WriteFileSound
<1>2. FilesMove
  BY <1>1 DEF FilesMove, ResultSound, Retells
<1>3. OwnersMove(w)
  BY <1>1 DEF OwnersMove, WorksOn, IsFinal, Final, RowsDurable
<1> QED
  BY <1>1, <1>2, <1>3, Quiet DEF Step

LEMMA OneShotOutcomeStep ==
    ASSUME TypeOK, CallsSound, NEW w \in Workers, OneShotOutcome(w)
    PROVE  Step(w)
<1>1. SloMove
  BY OneShotOutcomeSound DEF SloMove
<1> QED
  BY <1>1, OneShotOutcomeSound, Quiet DEF Step

LEMMA CrashStep ==
    ASSUME TypeOK, NEW w \in Workers, Crash(w)
    PROVE  Step(w)
<1>1. crashes \in Nat /\ crashes' = crashes + 1
  BY DEF TypeOK, Crash
<1>2. EscalationMove(w) /\ OwnersMove(w)
  BY <1>1, CrashSound DEF EscalationMove, OwnersMove
<1> QED
  BY <1>2, CrashSound, Quiet DEF Step

LEMMA RehydrateStep ==
    ASSUME TypeOK, LinkedIsReal, NEW w \in Workers, NEW c \in Cases, Rehydrate(w, c)
    PROVE  Step(w)
<1>1. pc[w] = "idle"
  BY DEF Rehydrate
<1>2. /\ Sound(w) /\ durable /\ IsFinal(c)
      /\ UNCHANGED <<rows, records, escalated, slo, late, crashes, pc, current, held, try, result>>
      /\ \A d \in Cases :
            \/ files'[d] = files[d]
            \/ /\ d = c
               /\ files'[d].status = IF rows[c].state = "LINKED" THEN "linked" ELSE "failed"
               /\ files'[d].ids = rows[c].ids /\ files'[d].rehydrated = TRUE
  BY RehydrateSound
<1>3. FilesMove
  BY <1>2 DEF FilesMove, LinkedIsReal, IsFinal, Retells
<1>4. OwnersMove(w)
  BY <1>1, <1>2 DEF OwnersMove, WorksOn
<1> QED
  BY <1>1, <1>2, <1>3, <1>4, Quiet DEF Step

-----------------------------------------------------------------------------
(* Each part of the invariant survives such a step. *)

LEMMA RowPartsKept ==
    ASSUME IInv, NEW w \in Workers, Step(w)
    PROVE  RowsDurable' /\ RetryInsideWindow'
<1>1. TypeOK /\ RowsDurable /\ RetryInsideWindow /\ RowsMove /\ Shared
  BY DEF IInv, Step, Sound
<1>2. RowsDurable'
  BY <1>1 DEF RowsDurable, RowsMove, Shared
<1>3. RetryInsideWindow'
  <2> SUFFICES ASSUME NEW c \in Cases, rows'[c] # None, rows'[c].state = "FAILED_TEMP"
               PROVE  /\ rows'[c].next \in Nat
                      /\ rows'[c].updated < rows'[c].next
                      /\ rows'[c].next <= rows'[c].deadline
    BY DEF RetryInsideWindow
  <2>1. CASE rows'[c] = rows[c]
    BY <1>1, <2>1 DEF RetryInsideWindow
  <2>2. CASE rows'[c] # rows[c]
    BY <1>1, <2>2 DEF RowsMove, InsideWindow
  <2> QED
    BY <2>1, <2>2
<1> QED
  BY <1>2, <1>3

LEMMA FileFollowsKept ==
    ASSUME IInv, NEW w \in Workers, Step(w)
    PROVE  FileFollowsRow'
<1>1. TypeOK /\ FileFollowsRow /\ FilesMove /\ Shared
  BY DEF IInv, Step, Sound
<1> SUFFICES ASSUME NEW c \in Cases, durable, files'[c] # None
             PROVE  /\ IsFinal(c)'
                    /\ files'[c].status \in {"linked", "skipped"} <=> rows'[c].state = "LINKED"
  BY <1>1 DEF FileFollowsRow, Shared
<1>2. IsFinal(c) /\ (files'[c].status \in {"linked", "skipped"} <=> rows[c].state = "LINKED")
  <2>1. CASE files'[c] = files[c]
    BY <1>1, <2>1 DEF FileFollowsRow
  <2>2. CASE files'[c] # files[c]
    BY <1>1, <2>2 DEF FilesMove
  <2> QED
    BY <2>1, <2>2
<1>3. rows'[c] = rows[c]
  BY <1>1, <1>2 DEF Shared
<1> QED
  BY <1>2, <1>3 DEF IsFinal

LEMMA SuccessToldKept ==
    ASSUME IInv, NEW w \in Workers, Step(w)
    PROVE  SuccessTold'
<1>1. /\ TypeOK /\ FileFollowsRow /\ SuccessTold /\ RowsMove /\ FilesMove /\ Shared
      /\ mode' = mode /\ durable' = durable
  BY DEF IInv, Step, Sound, Shared
<1>2. ASSUME NEW c \in Cases, rows'[c] # None, rows'[c].state = "LINKED"
      PROVE  Success(rows'[c].status, rows'[c].ids)
  BY <1>1, <1>2 DEF SuccessTold, RowsMove
<1>3. ASSUME NEW c \in Cases, durable, files'[c] # None, rows'[c].state = "LINKED"
      PROVE  Retells(c, files'[c]) /\ rows'[c] = rows[c]
  <2>1. IsFinal(c)
    BY <1>1, <1>3 DEF FileFollowsRow, FilesMove
  <2>2. rows'[c] = rows[c]
    BY <1>1, <2>1 DEF Shared
  <2>3. CASE files'[c] = files[c]
    BY <1>1, <1>3, <2>2, <2>3 DEF SuccessTold
  <2>4. CASE files'[c] # files[c]
    BY <1>1, <1>3, <2>2, <2>4 DEF FilesMove
  <2> QED
    BY <2>2, <2>3, <2>4
<1> QED
  BY <1>1, <1>2, <1>3 DEF SuccessTold, Success, Retells

LEMMA LinkedIsRealKept ==
    ASSUME IInv, NEW w \in Workers, Step(w)
    PROVE  LinkedIsReal'
<1>1. TypeOK /\ TypeOK' /\ LinkedIsReal /\ RowsMove /\ FilesMove /\ Shared
  BY DEF IInv, Step, Sound
<1> SUFFICES ASSUME NEW c \in Cases, mode = "LIVE"
             PROVE  /\ rows'[c] # None /\ rows'[c].state = "LINKED" => Backed(c, rows[c].ids)'
                    /\ files'[c] # None /\ files'[c].status = "linked" => Backed(c, files[c].ids)'
  BY <1>1 DEF LinkedIsReal, Shared
<1>2. \A ids : Backed(c, ids) =>
          DOMAIN ids = Keys /\ \A k \in Keys : ids[k] \in 1..records'[c][k]
  <2>1. ASSUME NEW ids, Backed(c, ids)
        PROVE  DOMAIN ids = Keys /\ \A k \in Keys : ids[k] \in 1..records'[c][k]
    BY <1>1, <2>1, BackedKept DEF Backed
  <2> QED
    BY <2>1
<1>3. ASSUME rows'[c] # None, rows'[c].state = "LINKED" PROVE Backed(c, rows[c].ids)'
  <2>1. Backed(c, rows'[c].ids)
    BY <1>1, <1>3 DEF LinkedIsReal, RowsMove
  <2> QED
    BY <1>2, <2>1 DEF Backed
<1>4. ASSUME files'[c] # None, files'[c].status = "linked" PROVE Backed(c, files[c].ids)'
  <2>1. Backed(c, files'[c].ids)
    BY <1>1, <1>4 DEF LinkedIsReal, FilesMove
  <2> QED
    BY <1>2, <2>1 DEF Backed
<1> QED
  BY <1>3, <1>4

LEMMA SloKept ==
    ASSUME IInv, NEW w \in Workers, Step(w)
    PROVE  SloFollowsRow'
<1>1. TypeOK /\ SloFollowsRow /\ SloMove /\ Shared
  BY DEF IInv, Step, Sound
<1> SUFFICES ASSUME NEW c \in Cases, durable, slo'[c] # {}
             PROVE  IsFinal(c)' /\ slo'[c] \subseteq {Verdict(rows'[c])}
  BY <1>1 DEF SloFollowsRow, Shared, Verdict
<1>2. IsFinal(c) /\ slo'[c] \subseteq {Verdict(rows[c])}
  BY <1>1 DEF SloFollowsRow, SloMove
<1>3. rows'[c] = rows[c]
  BY <1>1, <1>2 DEF Shared
<1> QED
  BY <1>2, <1>3 DEF IsFinal

LEMMA EscalationKept ==
    ASSUME IInv, NEW w \in Workers, Step(w)
    PROVE  EscalationDue'
<1>1. /\ TypeOK /\ TypeOK' /\ EscalationDue /\ EscalationMove(w) /\ Shared /\ Others(w)
  BY DEF IInv, Step, Sound
<1>2. ASSUME NEW c \in Cases, c \in escalated'
      PROVE  rows'[c] # None /\ rows'[c].state = "FAILED_FINAL"
  <2>1. rows[c] # None /\ rows[c].state = "FAILED_FINAL"
    BY <1>1, <1>2 DEF EscalationDue, EscalationMove
  <2> QED
    BY <1>1, <2>1 DEF Shared, IsFinal, Final
<1>3. ASSUME NEW c \in Cases, rows'[c] # None, rows'[c].state = "FAILED_FINAL", crashes' = 0
      PROVE  c \in escalated' \/ \E v \in Workers : current'[v] = c /\ pc'[v] \in {"slo", "escalate"}
  <2>1. crashes = 0
    BY <1>1, <1>3 DEF EscalationMove, TypeOK
  <2>2. CASE current'[w] = c /\ pc'[w] \in {"slo", "escalate"}
    BY <2>2
  <2>3. CASE /\ rows[c] # None /\ rows[c].state = "FAILED_FINAL"
             /\ current[w] = c /\ pc[w] \in {"slo", "escalate"} => c \in escalated'
    <3>1. c \in escalated \/ \E v \in Workers : current[v] = c /\ pc[v] \in {"slo", "escalate"}
      BY <1>1, <2>1, <2>3 DEF EscalationDue, Escalating
    <3>2. ASSUME NEW v \in Workers, current[v] = c, pc[v] \in {"slo", "escalate"}
          PROVE  c \in escalated' \/ (current'[v] = c /\ pc'[v] \in {"slo", "escalate"})
      BY <1>1, <2>3, <3>2 DEF Others
    <3> QED
      BY <1>1, <3>1, <3>2 DEF EscalationMove
  <2> QED
    BY <1>1, <1>3, <2>2, <2>3 DEF EscalationMove
<1> QED
  BY <1>2, <1>3 DEF EscalationDue, Escalating

LEMMA NobodyLostKept ==
    ASSUME IInv, NEW w \in Workers, Step(w)
    PROVE  NobodyLost'
<1>1. /\ TypeOK /\ TypeOK' /\ NobodyLost /\ EscalationMove(w) /\ OwnersMove(w) /\ Others(w)
  BY DEF IInv, Step, Sound
<1> SUFFICES ASSUME NEW c \in Cases, rows'[c] # None, crashes' = 0,
                    rows'[c].state \in {"PENDING", "SEARCHING"}
             PROVE  \E v \in Workers : WorksOn(v, c)'
  BY DEF NobodyLost
<1>2. crashes = 0
  BY <1>1 DEF EscalationMove, TypeOK
<1>3. CASE WorksOn(w, c)'
  BY <1>3
<1>4. CASE /\ rows[c] # None /\ rows[c].state \in {"PENDING", "SEARCHING"}
           /\ ~WorksOn(w, c)
  <2>1. PICK v \in Workers : WorksOn(v, c)
    BY <1>1, <1>2, <1>4 DEF NobodyLost
  <2>2. WorksOn(v, c)'
    BY <1>1, <1>4, <2>1 DEF Others, WorksOn
  <2> QED
    BY <2>2
<1> QED
  BY <1>1, <1>3, <1>4 DEF OwnersMove

LEMMA StepKeeps ==
    ASSUME IInv, NEW w \in Workers, Step(w)
    PROVE  IInv'
<1>1. TypeOK' /\ CallsSound'
  BY CallsSoundKept DEF IInv, Step, Sound
<1>2. LateLive'
  BY DEF IInv, LateLive, Step, Sound, Shared, LateMove
<1> QED
  BY <1>1, <1>2, RowPartsKept, FileFollowsKept, SuccessToldKept, LinkedIsRealKept, SloKept,
     EscalationKept, NobodyLostKept DEF IInv

(* The clock is no part of what the invariant says. *)
LEMMA TickKeeps ==
    ASSUME IInv, clock' \in 0..Horizon,
           UNCHANGED <<mode, durable, rows, records, files, escalated, slo, late,
                       pc, current, held, try, result, crashes>>
    PROVE  IInv'
<1>1. TypeOK'
  BY DEF IInv, TypeOK
<1>2. CallsSound'
  BY DEF IInv, CallsSound, CallSound, UpsertSound, ResultSound, Backed, Success
<1>3. RowsDurable' /\ RetryInsideWindow' /\ FileFollowsRow' /\ SuccessTold'
  BY DEF IInv, RowsDurable, RetryInsideWindow, FileFollowsRow, IsFinal, SuccessTold, Success,
         Retells
<1>4. LinkedIsReal' /\ SloFollowsRow'
  BY DEF IInv, LinkedIsReal, SloFollowsRow, IsFinal, Verdict, Backed
<1>5. EscalationDue' /\ NobodyLost' /\ LateLive'
  BY DEF IInv, EscalationDue, Escalating, NobodyLost, WorksOn, LateLive
<1> QED
  BY <1>1, <1>2, <1>3, <1>4, <1>5 DEF IInv

(* A POST applied late adds a record and moves no caller. *)
LEMMA ApplyLateEffect ==
    ASSUME IInv, NEW c \in Cases, NEW k \in Keys, ApplyLate(c, k)
    PROVE  /\ TypeOK' /\ Shared /\ mode = "LIVE"
           /\ records' = [records EXCEPT ![c][k] = @ + 1]
           /\ \A d \in Cases, j \in Keys : late'[d][j] <= late[d][j]
           /\ UNCHANGED <<mode, durable, rows, files, escalated, slo, pc, current, held, try,
                          result, clock, crashes>>
<1>1. TypeOK /\ LateLive
  BY DEF IInv
<1>2. /\ late[c][k] > 0
      /\ late' = [late EXCEPT ![c][k] = @ - 1]
      /\ records' = [records EXCEPT ![c][k] = @ + 1]
      /\ UNCHANGED <<mode, durable, rows, files, escalated, slo, pc, current, held, try,
                     result, clock, crashes>>
  BY DEF ApplyLate, env, local
<1>3. /\ late' \in [Cases -> [Keys -> Nat]]
      /\ \A d \in Cases, j \in Keys : late'[d][j] <= late[d][j]
  BY <1>1, <1>2 DEF TypeOK
<1>4. /\ records' \in [Cases -> [Keys -> Nat]]
      /\ \A d \in Cases, j \in Keys : records[d][j] <= records'[d][j]
  BY <1>1, <1>2 DEF TypeOK
<1>5. TypeOK'
  BY <1>1, <1>2, <1>3, <1>4 DEF TypeOK
<1>6. Shared
  BY <1>2, <1>4 DEF Shared
<1> QED
  BY <1>1, <1>2, <1>3, <1>5, <1>6 DEF LateLive

LEMMA ApplyLateKeeps ==
    ASSUME IInv, NEW c \in Cases, NEW k \in Keys, ApplyLate(c, k)
    PROVE  IInv' /\ rows' = rows
<1>1. /\ TypeOK' /\ Shared
      /\ \A d \in Cases, j \in Keys : late'[d][j] <= late[d][j]
      /\ UNCHANGED <<mode, durable, rows, files, escalated, slo, pc, current, held, try,
                     result, clock, crashes>>
  BY ApplyLateEffect
<1>2. CallsSound'
  BY <1>1, CallSoundKept DEF IInv, CallsSound
<1>3. RowsDurable' /\ RetryInsideWindow' /\ FileFollowsRow' /\ SuccessTold'
  BY <1>1 DEF IInv, RowsDurable, RetryInsideWindow, FileFollowsRow, IsFinal, SuccessTold,
              Success, Retells
<1>4. LinkedIsReal'
  <2>1. ASSUME NEW d \in Cases, NEW ids, Backed(d, ids)
        PROVE  DOMAIN ids = Keys /\ \A j \in Keys : ids[j] \in 1..records'[d][j]
    BY <1>1, <2>1, BackedKept DEF IInv, Backed
  <2> QED
    BY <1>1, <2>1 DEF IInv, LinkedIsReal, Backed
<1>5. SloFollowsRow' /\ EscalationDue' /\ NobodyLost'
  BY <1>1 DEF IInv, SloFollowsRow, IsFinal, Verdict, EscalationDue, Escalating, NobodyLost,
              WorksOn
<1>6. LateLive'
  <2>1. \A d \in Cases, j \in Keys : late[d][j] \in Nat /\ late'[d][j] \in Nat
    BY <1>1 DEF IInv, TypeOK
  <2> QED
    BY <1>1, <2>1 DEF IInv, LateLive
<1> QED
  BY <1>1, <1>2, <1>3, <1>4, <1>5, <1>6 DEF IInv

LEMMA InitSound == Init => IInv
<1> SUFFICES ASSUME Init PROVE IInv
  OBVIOUS
<1>1. TypeOK
  <2>1. NoAttempt \in Attempt
    BY DEF NoAttempt, Attempt
  <2>2. clock \in 0..Horizon /\ crashes \in 0..MaxCrashes
    BY LinkageAssumption DEF Init
  <2> QED
    BY <2>1, <2>2 DEF Init, TypeOK, Steps
<1>2. CallsSound /\ RowsDurable /\ RetryInsideWindow /\ FileFollowsRow /\ SuccessTold
  BY DEF Init, CallsSound, RowsDurable, RetryInsideWindow, FileFollowsRow, SuccessTold
<1>3. LinkedIsReal /\ SloFollowsRow /\ EscalationDue /\ NobodyLost
  BY DEF Init, LinkedIsReal, SloFollowsRow, EscalationDue, NobodyLost
<1>4. LateLive
  BY DEF Init, LateLive
<1> QED
  BY <1>1, <1>2, <1>3, <1>4 DEF IInv

LEMMA NextSound ==
    ASSUME IInv, [Next]_vars
    PROVE  IInv' /\ (\A c \in Cases : IsFinal(c) => rows'[c] = rows[c])
<1>1. TypeOK /\ CallsSound /\ RowsDurable /\ LinkedIsReal
  BY DEF IInv
<1>2. ASSUME NEW w \in Workers, CallerStep(w) \/ Crash(w) PROVE Step(w)
  BY <1>1, <1>2, MarkSearchingStepped, LookupStep, CreateStep, UpdateStep, OutcomeStep,
     RecordSloStep, EscalateStep, WriteFileStep, OneShotOutcomeStep, CrashStep, Zenon DEF CallerStep
<1>3. ASSUME NEW w \in Workers, NEW c \in Cases, Call(w, c) PROVE Step(w)
  BY <1>1, <1>3, OpenStep, OneShotStep, RehydrateStep, Zenon DEF Call
<1>4. ASSUME NEW w \in Workers, Step(w)
      PROVE  IInv' /\ (\A c \in Cases : IsFinal(c) => rows'[c] = rows[c])
  BY <1>4, StepKeeps DEF Step, Sound, Shared
<1>5. ASSUME Tick \/ UNCHANGED vars
      PROVE  IInv' /\ (\A c \in Cases : IsFinal(c) => rows'[c] = rows[c])
  <2>1. UNCHANGED <<mode, durable, rows, records, files, escalated, slo, late,
                    pc, current, held, try, result, crashes>>
    BY <1>5 DEF Tick, vars, env, local
  <2>2. clock' \in 0..Horizon
    BY <1>1, <1>5, LinkageAssumption DEF Tick, vars, TypeOK
  <2> QED
    BY <2>1, <2>2, TickKeeps
<1>6. ASSUME NEW c \in Cases, NEW k \in Keys, ApplyLate(c, k)
      PROVE  IInv' /\ (\A d \in Cases : IsFinal(d) => rows'[d] = rows[d])
  BY <1>6, ApplyLateKeeps
<1> QED
  BY <1>2, <1>3, <1>4, <1>5, <1>6, Zenon DEF Next

-----------------------------------------------------------------------------
(* The theorems. *)

\* Whatever the callers, ServiceNow and the crashes do, what a running call believes, the
\* retry rows, linkage.json, the escalations and the records stay as IInv relates them.
THEOREM LinkageInductive == Spec => []IInv
<1>1. IInv /\ [Next]_vars => IInv'
  BY NextSound
<1> QED
  BY InitSound, <1>1, PTL DEF Spec

\* The linkage's variables keep their types.
THEOREM LinkageTypeCorrect == Spec => []TypeOK
<1>1. IInv => TypeOK
  BY DEF IInv
<1> QED
  BY <1>1, LinkageInductive, PTL

\* persist_transition's source-state guard keeps every final row as it is.
THEOREM FinalRowsStayHolds == Spec => FinalRowsStay
<1>1. IInv /\ [Next]_vars => [\A c \in Cases : IsFinal(c) => rows'[c] = rows[c]]_vars
  BY NextSound
<1> QED
  BY <1>1, LinkageInductive, PTL DEF Spec, FinalRowsStay

\* A LIVE case is reported linked, by the row or by linkage.json, only with every record of
\* it in ServiceNow.
THEOREM LinkedIsRealHolds == Spec => []LinkedIsReal
<1>1. IInv => LinkedIsReal
  BY DEF IInv
<1> QED
  BY <1>1, LinkageInductive, PTL

\* linkage.json follows the durable verdict and repeats it: its outcome, the status of a
\* LINKED row and, while no external id is duplicated, the record ids.
THEOREM FileAgreesWithRowHolds == Spec => []FileAgreesWithRow
<1>1. ASSUME IInv, NEW c \in Cases, durable, files[c] # None, rows[c].state = "LINKED"
      PROVE  /\ ~files[c].rehydrated => files[c].status = rows[c].status
             /\ Unique(c) => files[c].ids = rows[c].ids
  <2>1. /\ IsFinal(c) /\ rows[c] # None /\ rows[c] \in Row /\ files[c] \in File
        /\ files[c].status \in {"linked", "skipped"}
    BY <1>1 DEF IInv, FileFollowsRow, IsFinal, TypeOK
  <2>2. Success(rows[c].status, rows[c].ids) /\ Retells(c, files[c])
    BY <1>1, <2>1 DEF IInv, SuccessTold
  <2>3. CASE files[c].rehydrated
    BY <2>2, <2>3 DEF Retells
  <2>4. CASE ~files[c].rehydrated
    <3>1. Success(files[c].status, files[c].ids)
      BY <2>2, <2>4 DEF Retells
    <3>2. files[c].status = rows[c].status
      BY <2>2, <3>1 DEF Success
    <3>3. CASE mode # "LIVE"
      BY <2>2, <2>4, <3>1, <3>2, <3>3 DEF Success
    <3>4. ASSUME mode = "LIVE", Unique(c) PROVE files[c].ids = rows[c].ids
      <4>1. Backed(c, files[c].ids) /\ Backed(c, rows[c].ids)
        BY <1>1, <2>1, <3>1, <3>4 DEF IInv, LinkedIsReal, Success
      <4>2. files[c].ids \in Seq(Nat) /\ rows[c].ids \in Seq(Nat)
        BY <2>1 DEF File, Row
      <4>3. ASSUME NEW k \in Keys PROVE files[c].ids[k] = 1 /\ rows[c].ids[k] = 1
        <5>1. records[c][k] \in Nat /\ records[c][k] <= 1
          BY <1>1, <3>4 DEF IInv, TypeOK, Unique
        <5> QED
          BY <4>1, <5>1 DEF Backed
      <4>4. \A f, g \in Seq(Nat) : DOMAIN f = Keys /\ DOMAIN g = Keys
                 /\ (\A k \in Keys : f[k] = g[k]) => f = g
        OBVIOUS
      <4> QED
        BY <4>1, <4>2, <4>3, <4>4 DEF Backed
    <3> QED
      BY <2>4, <3>2, <3>3, <3>4
  <2> QED
    BY <2>3, <2>4
<1>2. IInv => FileAgreesWithRow
  BY <1>1 DEF IInv, FileFollowsRow, FileAgreesWithRow
<1> QED
  BY <1>2, LinkageInductive, PTL

\* mark_linkage_failure schedules a retry after the failure and inside the window, for every
\* backoff, jitter and Retry-After.
THEOREM RetryInsideWindowHolds == Spec => []RetryInsideWindow
<1>1. IInv => RetryInsideWindow
  BY DEF IInv
<1> QED
  BY <1>1, LinkageInductive, PTL

\* The escalation never precedes the FAILED_FINAL row, and only a crash loses it.
THEOREM EscalationFollowsVerdictHolds == Spec => []EscalationFollowsVerdict
<1>1. IInv => EscalationFollowsVerdict
  BY DEF IInv, EscalationDue, Escalating, EscalationFollowsVerdict
<1> QED
  BY <1>1, LinkageInductive, PTL

\* Without a crash select_retry_candidates finds every unfinished case nobody works on.
THEOREM RetryLoopMissesNothingHolds == Spec => []RetryLoopMissesNothing
<1>1. ASSUME IInv, NEW c \in Cases, rows[c] # None, ~IsFinal(c), crashes = 0,
             \A w \in Workers : current[w] # c
      PROVE  c \in RetryCandidates \/ (rows[c].state = "FAILED_TEMP" /\ clock < rows[c].next)
  <2>1. rows[c].state = "FAILED_TEMP"
    BY <1>1 DEF IInv, NobodyLost, WorksOn, IsFinal, Final, TypeOK, Row, States
  <2>2. rows[c].next \in Nat /\ clock \in Nat
    BY <1>1, <2>1, LinkageAssumption DEF IInv, RetryInsideWindow, TypeOK
  <2>3. CASE rows[c].next <= clock
    BY <1>1, <2>1, <2>2, <2>3 DEF RetryCandidates, IsRetryDue
  <2> QED
    BY <2>1, <2>2, <2>3
<1>2. IInv => RetryLoopMissesNothing
  BY <1>1 DEF RetryLoopMissesNothing
<1> QED
  BY <1>2, LinkageInductive, PTL

\* No case with a retry row is counted both as met and as missed.
THEOREM SloConsistentHolds == Spec => []SloConsistent
<1>1. ASSUME IInv, NEW c \in Cases, durable PROVE slo[c] # {"met", "missed"}
  BY <1>1 DEF IInv, SloFollowsRow
<1>2. IInv => SloConsistent
  BY <1>1 DEF SloConsistent
<1> QED
  BY <1>2, LinkageInductive, PTL

-----------------------------------------------------------------------------
(* The linkage implements LinkageContract: every step is one of the contract, or changes *)
(* nothing the contract speaks of.                                                       *)

Allowed == [Contract!CNext]_(Contract!cvars)

Reporting(c) == IF files[c] = None THEN None ELSE Said(c)

(* The contract's view of a step that changes the verdict and the report of one case at most. *)
LEMMA ViewMoves ==
    ASSUME TypeOK, NEW c \in Cases,
           \A d \in Cases \ {c} : Decided(d)' = Decided(d) /\ Reporting(d)' = Reporting(d)
    PROVE  /\ [d \in Cases |-> Decided(d)]' =
                  [[d \in Cases |-> Decided(d)] EXCEPT ![c] = Decided(c)']
           /\ [d \in Cases |-> Reporting(d)]' =
                  [[d \in Cases |-> Reporting(d)] EXCEPT ![c] = Reporting(c)']
  OBVIOUS

LEMMA InitAllowed == Init => Contract!CInit
<1> SUFFICES ASSUME Init PROVE Contract!CInit
  OBVIOUS
<1>1. \A c \in Cases : Decided(c) = "open" /\ files[c] = None
  BY DEF Init, Decided, IsFinal
<1>2. (mode = "LIVE") \in BOOLEAN
  OBVIOUS
<1> QED
  BY <1>1, <1>2 DEF Init, Contract!CInit

(* A step that keeps every verdict and touches neither records, files nor escalations. *)
LEMMA QuietAllowed ==
    ASSUME UNCHANGED <<mode, durable, records, files, escalated>>,
           \A c \in Cases : Decided(c)' = Decided(c)
    PROVE  Allowed
<1>1. \A c \in Cases : Reporting(c)' = Reporting(c)
  BY DEF Reporting, Said
<1> QED
  BY <1>1 DEF Allowed, Contract!cvars, Reporting

(* Rows that are not final before nor after, and final ones that stay. *)
LEMMA OpenRows ==
    ASSUME durable' = durable, files' = files,
           \A c \in Cases : IsFinal(c)' = IsFinal(c) /\ (IsFinal(c) => rows'[c] = rows[c])
    PROVE  \A c \in Cases : Decided(c)' = Decided(c)
  BY DEF Decided, Said

LEMMA CreateAllowed ==
    ASSUME TypeOK, CallsSound, NEW w \in Workers, Create(w)
    PROVE  Allowed
<1>1. /\ Sound(w) /\ pc[w] = "write"
      /\ UNCHANGED <<rows, files, escalated>>
      /\ records' = records
         \/ records' = [records EXCEPT ![current[w]][try[w].key] = @ + 1]
  BY CreateSound
<1>2. UNCHANGED <<mode, durable>>
  BY <1>1 DEF Sound, Shared
<1>3. mode = "LIVE" /\ current[w] \in Cases /\ try[w].key \in Keys
  BY <1>1 DEF CallsSound, CallSound, UpsertSound
<1>4. \A c \in Cases : Decided(c)' = Decided(c) /\ Reporting(c)' = Reporting(c)
  BY <1>1, <1>2 DEF Decided, Reporting, Said, IsFinal
<1>5. CASE records' = records
  BY <1>1, <1>2, <1>4, <1>5, QuietAllowed
<1>6. CASE records' = [records EXCEPT ![current[w]][try[w].key] = @ + 1]
  <2>1. Contract!Create(current[w], try[w].key)
    BY <1>1, <1>2, <1>3, <1>4, <1>6 DEF Contract!Create, Reporting
  <2> QED
    BY <1>3, <2>1 DEF Allowed, Contract!CNext
<1> QED
  BY <1>1, <1>5, <1>6

LEMMA ApplyLateAllowed ==
    ASSUME IInv, NEW c \in Cases, NEW k \in Keys, ApplyLate(c, k)
    PROVE  Allowed
<1>1. /\ mode = "LIVE" /\ records' = [records EXCEPT ![c][k] = @ + 1]
      /\ UNCHANGED <<mode, durable, rows, files, escalated>>
  BY ApplyLateEffect
<1>2. \A d \in Cases : Decided(d)' = Decided(d) /\ Reporting(d)' = Reporting(d)
  BY <1>1 DEF Decided, Reporting, Said, IsFinal
<1>3. Contract!Create(c, k)
  BY <1>1, <1>2 DEF Contract!Create, Reporting
<1> QED
  BY <1>3 DEF Allowed, Contract!CNext

(* The verdict of a case that has none, by its row or by its file. *)
LEMMA DecideAllowed ==
    ASSUME TypeOK, NEW c \in Cases, UNCHANGED <<mode, records, escalated>>,
           \A d \in Cases \ {c} : Decided(d)' = Decided(d) /\ Reporting(d)' = Reporting(d),
           NEW v \in {"linked", "failed"}, Decided(c) = "open", Decided(c)' = v,
           v = "linked" /\ mode = "LIVE" => \A k \in Keys : records[c][k] > 0,
           Reporting(c)' = Reporting(c) \/ Reporting(c)' = v
    PROVE  Allowed
<1>1. /\ [d \in Cases |-> Decided(d)]' = [[d \in Cases |-> Decided(d)] EXCEPT ![c] = v]
      /\ [d \in Cases |-> Reporting(d)]' =
             [[d \in Cases |-> Reporting(d)] EXCEPT ![c] = Reporting(c)']
  BY ViewMoves
<1>2. [d \in Cases |-> Reporting(d)]' \in
          {[d \in Cases |-> Reporting(d)], [[d \in Cases |-> Reporting(d)] EXCEPT ![c] = v]}
  BY <1>1
<1>3. Contract!Decide(c, v)
  BY <1>1, <1>2 DEF Contract!Decide, Reporting
<1> QED
  BY <1>3 DEF Allowed, Contract!CNext

LEMMA OutcomeAllowed ==
    ASSUME TypeOK, CallsSound, NEW w \in Workers, Outcome(w)
    PROVE  Allowed
<1>0. PICK c : c = current[w]
  OBVIOUS
<1>1. /\ Sound(w) /\ pc[w] = "outcome" /\ durable
      /\ UNCHANGED <<records, files, escalated>>
      /\ \/ rows' = rows
         \/ \E got \in Row :
               /\ got.state \in {"FAILED_TEMP"} \cup Final
               /\ rows' = [rows EXCEPT ![c] = got]
               /\ NewRow(c, got)
  BY <1>0, OutcomeSound
<1>2. c \in Cases /\ UNCHANGED <<mode, durable>>
  BY <1>0, <1>1 DEF CallsSound, CallSound, Sound, Shared
<1>3. CASE rows' = rows
  BY <1>1, <1>2, <1>3, QuietAllowed, OpenRows DEF IsFinal
<1>4. ASSUME NEW got \in Row, got.state \in {"FAILED_TEMP"} \cup Final,
             rows' = [rows EXCEPT ![c] = got], NewRow(c, got)
      PROVE  Allowed
  <2>1. /\ rows'[c] = got /\ got # None
        /\ \A d \in Cases \ {c} : rows'[d] = rows[d]
    BY <1>2, <1>4, NoneApart DEF TypeOK
  <2>2. /\ \A d \in Cases : Reporting(d)' = Reporting(d)
        /\ \A d \in Cases \ {c} : Decided(d)' = Decided(d)
    <3>1. \A d \in Cases : Reporting(d)' = Reporting(d)
      BY <1>1 DEF Reporting, Said
    <3>2. \A d \in Cases \ {c} : Decided(d)' = Decided(d)
      BY <1>1, <1>2, <2>1 DEF Decided, IsFinal
    <3> QED
      BY <3>1, <3>2
  <2>3. CASE got = rows[c]
    <3>1. Decided(c)' = Decided(c)
      BY <1>1, <1>2, <2>1, <2>3 DEF Decided, IsFinal
    <3> QED
      BY <1>1, <1>2, <2>2, <3>1, QuietAllowed
  <2>4. CASE rows[c].state = "SEARCHING" /\ got.state = "FAILED_TEMP"
    <3>1. Decided(c)' = Decided(c)
      BY <1>1, <1>2, <2>1, <2>4 DEF Decided, IsFinal, Final
    <3> QED
      BY <1>1, <1>2, <2>2, <3>1, QuietAllowed
  <2>5. CASE /\ rows[c].state = "SEARCHING" /\ got.state \in Final
             /\ mode = "LIVE" /\ got.state = "LINKED" => Backed(c, got.ids)
    <3>1. Decided(c) = "open"
      BY <1>1, <2>5 DEF Decided, IsFinal, Final
    <3>2. Decided(c)' = IF got.state = "LINKED" THEN "linked" ELSE "failed"
      BY <1>1, <1>2, <2>1, <2>5 DEF Decided, IsFinal
    <3>3. mode = "LIVE" /\ got.state = "LINKED" => \A k \in Keys : records[c][k] > 0
      <4>1. \A k \in Keys : records[c][k] \in Nat
        BY <1>2 DEF TypeOK
      <4> QED
        BY <2>5, <4>1 DEF Backed
    <3> QED
      BY <1>1, <1>2, <2>2, <3>1, <3>2, <3>3, DecideAllowed
  <2> QED
    BY <1>4, <2>3, <2>4, <2>5 DEF NewRow
<1> QED
  BY <1>1, <1>3, <1>4

LEMMA EscalateAllowed ==
    ASSUME TypeOK, CallsSound, NEW w \in Workers, Escalate(w)
    PROVE  Allowed
<1> DEFINE c == current[w]
<1>1. /\ Sound(w) /\ pc[w] = "escalate"
      /\ UNCHANGED <<rows, records, files>>
      /\ escalated' = escalated \cup {c}
      /\ durable /\ rows[c] # None /\ rows[c].state = "FAILED_FINAL"
  BY EscalateSound
<1>2. c \in Cases /\ UNCHANGED <<mode, durable>>
  BY <1>1 DEF CallsSound, CallSound, Sound, Shared
<1>3. \A d \in Cases : Decided(d)' = Decided(d) /\ Reporting(d)' = Reporting(d)
  BY <1>1, <1>2 DEF Decided, Reporting, Said, IsFinal
<1>4. Decided(c) = "failed"
  BY <1>1 DEF Decided, IsFinal, Final
<1>5. Contract!Alarm(c)
  BY <1>1, <1>2, <1>3, <1>4 DEF Contract!Alarm, Reporting
<1> QED
  BY <1>2, <1>5 DEF Allowed, Contract!CNext

(* A file put once, which says what the verdict is, or is the verdict. *)
LEMMA PutAllowed ==
    ASSUME TypeOK, NEW c \in Cases, NEW file \in File, Put(c, file),
           UNCHANGED <<mode, durable, rows, records, escalated>>,
           durable => /\ IsFinal(c)
                      /\ file.status \in {"linked", "skipped"} <=> rows[c].state = "LINKED",
           mode = "LIVE" /\ ~durable =>
               /\ file.status # "skipped"
               /\ file.status = "linked" => Backed(c, file.ids)
    PROVE  Allowed
<1>1. /\ \A d \in Cases \ {c} : files'[d] = files[d]
      /\ files'[c] = IF files[c] = None THEN file ELSE files[c]
  BY DEF Put, TypeOK
<1>2. \A d \in Cases \ {c} : Decided(d)' = Decided(d) /\ Reporting(d)' = Reporting(d)
  BY <1>1 DEF Decided, Reporting, Said, IsFinal
<1>3. CASE files[c] # None
  <2>1. \A d \in Cases : Decided(d)' = Decided(d) /\ files'[d] = files[d]
    BY <1>1, <1>2, <1>3 DEF Decided, Said, IsFinal
  <2>2. \A d \in Cases : Reporting(d)' = Reporting(d)
    BY <2>1 DEF Reporting, Said
  <2> QED
    BY <2>1, <2>2 DEF Allowed, Contract!cvars, Reporting
<1>4. CASE files[c] = None
  <2> DEFINE said == IF file.status \in {"linked", "skipped"} THEN "linked" ELSE "failed"
  <2>1. files'[c] = file /\ file # None
    BY <1>1, <1>4, NoneApart
  <2>2. Reporting(c) = None /\ Reporting(c)' = said
    BY <1>4, <2>1 DEF Reporting, Said
  <2>3. CASE durable
    <3>1. Decided(c) = said /\ Decided(c)' = said
      BY <2>3 DEF Decided, IsFinal
    <3>2. \A d \in Cases : Decided(d)' = Decided(d)
      BY <1>2, <3>1
    <3>3. [d \in Cases |-> Reporting(d)]' =
              [[d \in Cases |-> Reporting(d)] EXCEPT ![c] = Decided(c)]
      BY <1>2, <2>2, <3>1, ViewMoves
    <3>4. Contract!Report(c)
      BY <2>2, <3>1, <3>2, <3>3 DEF Contract!Report, Reporting
    <3> QED
      BY <3>4 DEF Allowed, Contract!CNext
  <2>4. CASE ~durable
    <3>1. Decided(c) = "open" /\ Decided(c)' = said
      BY <1>4, <2>1, <2>4 DEF Decided, Said
    <3>2. mode = "LIVE" /\ said = "linked" => \A k \in Keys : records[c][k] > 0
      <4>1. \A k \in Keys : records[c][k] \in Nat
        BY DEF TypeOK
      <4> QED
        BY <2>4, <4>1 DEF Backed
    <3> QED
      BY <1>2, <2>2, <3>1, <3>2, DecideAllowed
  <2> QED
    BY <2>3, <2>4
<1> QED
  BY <1>3, <1>4

LEMMA WriteFileAllowed ==
    ASSUME TypeOK, CallsSound, NEW w \in Workers, WriteFile(w)
    PROVE  Allowed
<1> DEFINE c == current[w]
           file == [status |-> result[w].status, ids |-> result[w].ids, rehydrated |-> FALSE]
<1>1. /\ Put(c, file)
      /\ UNCHANGED <<mode, durable, rows, records, escalated>>
  BY DEF WriteFile, env
<1>2. /\ c \in Cases /\ ResultSound(w) /\ result[w] \in Result
      /\ durable => /\ IsFinal(c)
                    /\ rows[c].state = "LINKED" <=> result[w].status \in {"linked", "skipped"}
  BY WriteFileSound DEF ResultSound, TypeOK
<1>3. file \in File /\ file.status = result[w].status /\ file.ids = result[w].ids
  BY <1>2, WrittenFileTyped
<1> HIDE DEF file
<1> QED
  BY <1>1, <1>2, <1>3, PutAllowed DEF ResultSound

LEMMA RehydrateAllowed ==
    ASSUME TypeOK, NEW w \in Workers, NEW c \in Cases, Rehydrate(w, c)
    PROVE  Allowed
<1> DEFINE said == IF rows[c].state = "LINKED" THEN "linked" ELSE "failed"
           file == [status |-> said, ids |-> rows[c].ids, rehydrated |-> TRUE]
<1>1. /\ durable /\ rows[c] # None /\ rows[c].state \in Final
      /\ Put(c, file)
      /\ UNCHANGED <<mode, durable, rows, records, escalated>>
  BY DEF Rehydrate, env
<1>2. rows[c].ids \in Seq(Nat)
  BY <1>1 DEF TypeOK, Row
<1>3. /\ file \in File
      /\ file.status \in {"linked", "skipped"} <=> rows[c].state = "LINKED"
  BY <1>2 DEF File, Reported
<1> HIDE DEF file
<1> QED
  BY <1>1, <1>3, PutAllowed DEF IsFinal

LEMMA NextAllowed ==
    ASSUME IInv, [Next]_vars
    PROVE  Allowed
<1>1. TypeOK /\ CallsSound /\ RowsDurable
  BY DEF IInv
<1>2. ASSUME NEW w \in Workers, Lookup(w) \/ Update(w) \/ RecordSlo(w)
                                 \/ OneShotOutcome(w) \/ Crash(w)
      PROVE  Allowed
  <2>1. UNCHANGED <<mode, durable, rows, records, files, escalated>>
    BY <1>2 DEF Lookup, Update, RecordSlo, OneShotOutcome, Crash, env
  <2> QED
    BY <2>1, OpenRows, QuietAllowed DEF IsFinal
<1>3. ASSUME NEW w \in Workers, MarkSearchingStep(w) PROVE Allowed
  <2> DEFINE c == current[w]
  <2>1. /\ Sound(w) /\ pc[w] = "mark" /\ UNCHANGED <<records, files, escalated>>
        /\ \/ rows' = rows
           \/ \E got \in Row : got.state = "SEARCHING" /\ rows' = [rows EXCEPT ![c] = got]
    BY <1>1, <1>3, MarkSearchingSound
  <2>2. c \in Cases /\ UNCHANGED <<mode, durable>>
    BY <1>1, <2>1 DEF CallsSound, CallSound, Sound, Shared
  <2>3. \A d \in Cases : IsFinal(d) => rows'[d] = rows[d]
    BY <2>1 DEF Sound, Shared
  <2>4. ASSUME NEW d \in Cases PROVE IsFinal(d)' = IsFinal(d)
    <3>1. rows'[d] = rows[d] \/ (rows'[d] \in Row /\ rows'[d].state = "SEARCHING")
      BY <1>1, <2>1, <2>2 DEF TypeOK
    <3> QED
      BY <2>3, <3>1 DEF IsFinal, Final
  <2> QED
    BY <2>1, <2>2, <2>3, <2>4, OpenRows, QuietAllowed
<1>4. ASSUME NEW w \in Workers, NEW c \in Cases, NEW incident \in BOOLEAN,
             Open(w, c, incident) \/ OneShot(w, c, incident)
      PROVE  Allowed
  <2>1. UNCHANGED <<mode, durable, records, files, escalated>>
    BY <1>4 DEF Open, OneShot, env
  <2>2. rows' = rows \/ rows' = [rows EXCEPT ![c] = IF rows[c] = None THEN PendingRow ELSE rows[c]]
    BY <1>4 DEF Open, OneShot
  <2>3. \A d \in Cases : rows'[d] = rows[d] \/ (rows[d] = None /\ rows'[d] = PendingRow)
    BY <1>1, <2>2 DEF TypeOK
  <2>4. \A d \in Cases : IsFinal(d)' = IsFinal(d) /\ (IsFinal(d) => rows'[d] = rows[d])
    BY <1>1, <2>3, PendingRowTyped DEF IsFinal, Final
  <2> QED
    BY <2>1, <2>4, OpenRows, QuietAllowed
<1>5. ASSUME NEW w \in Workers, CallerStep(w) \/ Crash(w) PROVE Allowed
  BY <1>1, <1>2, <1>3, <1>5, CreateAllowed, OutcomeAllowed, EscalateAllowed, WriteFileAllowed,
     Zenon DEF CallerStep
<1>6. ASSUME NEW w \in Workers, NEW c \in Cases, Call(w, c) PROVE Allowed
  BY <1>1, <1>4, <1>6, RehydrateAllowed, Zenon DEF Call
<1>7. CASE Tick \/ UNCHANGED vars
  <2>1. UNCHANGED <<mode, durable, rows, records, files, escalated>>
    BY <1>7 DEF Tick, vars, env
  <2> QED
    BY <2>1, OpenRows, QuietAllowed DEF IsFinal
<1>8. ASSUME NEW c \in Cases, NEW k \in Keys, ApplyLate(c, k) PROVE Allowed
  BY <1>8, ApplyLateAllowed
<1> QED
  BY <1>5, <1>6, <1>7, <1>8, Zenon DEF Next

\* Durable or one-shot, with any number of callers, crashes, lost answers and retries, the
\* linkage stage gives a case one verdict, backed by its records, writes linkage.json once,
\* as the verdict says, and escalates failures only.
THEOREM LinkageRefinement == Spec => ImplementsLinkageContract
<1>1. IInv /\ [Next]_vars => [Contract!CNext]_(Contract!cvars)
  BY NextAllowed DEF Allowed
<1> QED
  BY <1>1, InitAllowed, LinkageInductive, PTL
     DEF Spec, ImplementsLinkageContract, Contract!CSpec
=============================================================================
