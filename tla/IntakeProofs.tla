---------------------------- MODULE IntakeProofs ----------------------------
(***************************************************************************)
(* Every invariant of Intake, for any registry files, reports, clock and   *)
(* policy: the loader, the outages of Prometheus, the cadence, the         *)
(* streaks, the routing, the types and the peak profile.                   *)
(***************************************************************************)
EXTENDS Intake, RegistryProofs, FiniteSetTheorems, TLAPS

-----------------------------------------------------------------------------
(* The registry snapshot. *)

LoaderTypes ==
    /\ disk \in [text: OnDisk, mtime: 0..MaxEdits]
    /\ edits \in 0..MaxEdits
    /\ edited \in BOOLEAN
    /\ snapshot \in Snapshot \cup {None}
    /\ reading \in Load \cup {None}
    /\ pc \in {"down", "asleep", "read", "stat", "evidence"}
    /\ (pc = "stat") <=> (reading # None)
    /\ pc \in {"asleep", "evidence"} => snapshot # None

\* What was read and has not been written over since is what the file says.
LoaderSound ==
    /\ reading # None => /\ reading.text \in Accepted
                         /\ ~reading.torn => disk.text = reading.text
    /\ snapshot # None /\ snapshot.mtime = disk.mtime /\ ~snapshot.torn =>
          disk.text = snapshot.text

RegistryInv == LoaderTypes /\ LoaderSound /\ RegistryFollowsFile

LEMMA NoneApart == None \notin Texts /\ None \notin Snapshot /\ None \notin Load
  BY IntakeAssumption

LEMMA RegistryInit == Init => RegistryInv
<1> SUFFICES ASSUME Init PROVE RegistryInv
  OBVIOUS
<1>1. /\ disk \in [text: Texts \cup Garbled, mtime: {0}] /\ pc = "down" /\ snapshot = None
      /\ reading = None /\ edited = FALSE /\ edits = 0
  BY DEF Init
<1>2. MaxEdits \in Nat
  BY IntakeAssumption
<1>3. LoaderTypes
  <2>1. edited \in BOOLEAN
    BY <1>1, Zenon
  <2>2. disk \in [text: OnDisk, mtime: 0..MaxEdits] /\ edits \in 0..MaxEdits
    BY <1>1, <1>2 DEF OnDisk
  <2>3. /\ (pc = "stat") <=> (reading # None)
        /\ pc \in {"asleep", "evidence"} => snapshot # None
        /\ pc \in {"down", "asleep", "read", "stat", "evidence"}
    BY <1>1
  <2> QED
    BY <1>1, <2>1, <2>2, <2>3, Zenon DEF LoaderTypes
<1> QED
  BY <1>1, <1>3 DEF RegistryInv, LoaderSound, RegistryFollowsFile

(* The loader and the file stand still. *)
LEMMA RegistryStays ==
    ASSUME RegistryInv, UNCHANGED <<disk, edits, edited, snapshot, reading, pc>>
    PROVE  RegistryInv'
  BY DEF RegistryInv, LoaderTypes, LoaderSound, RegistryFollowsFile

(* Another process writes or removes the file, perhaps in the middle of a load. *)
LEMMA EditRegistry ==
    ASSUME RegistryInv, Edit
    PROVE  RegistryInv'
<1>1. /\ edits < MaxEdits /\ edits' = edits + 1 /\ edited' = TRUE
      /\ disk' \in [text: OnDisk \ {disk.text}, mtime: 0..MaxEdits]
      /\ reading' = IF reading = None THEN None ELSE [reading EXCEPT !.torn = TRUE]
      /\ snapshot' = IF snapshot # None /\ disk'.mtime = snapshot.mtime
                     THEN [snapshot EXCEPT !.torn = TRUE] ELSE snapshot
      /\ UNCHANGED pc
  BY DEF Edit
<1>2. MaxEdits \in Nat
  BY IntakeAssumption
<1>3. disk' \in [text: OnDisk, mtime: 0..MaxEdits] /\ edits' \in 0..MaxEdits
  <2>1. disk' \in [text: OnDisk, mtime: 0..MaxEdits]
    BY <1>1
  <2> QED
    BY <1>1, <1>2, <2>1 DEF RegistryInv, LoaderTypes
<1>4. /\ reading' \in Load \cup {None} /\ (reading' # None <=> reading # None)
      /\ reading # None => reading'.text = reading.text /\ reading'.torn = TRUE
  BY <1>1, NoneApart DEF RegistryInv, LoaderTypes, Load
<1>5. /\ snapshot' \in Snapshot \cup {None} /\ (snapshot' # None <=> snapshot # None)
      /\ snapshot # None => /\ snapshot'.text = snapshot.text
                            /\ snapshot'.mtime = snapshot.mtime
                            /\ disk'.mtime = snapshot.mtime => snapshot'.torn = TRUE
  <2>1. CASE snapshot # None /\ disk'.mtime = snapshot.mtime
    <3>1. snapshot \in Snapshot
      BY <2>1 DEF RegistryInv, LoaderTypes
    <3>2. snapshot' = [snapshot EXCEPT !.torn = TRUE]
      BY <1>1, <2>1
    <3>3. /\ snapshot' \in Snapshot /\ snapshot'.text = snapshot.text
          /\ snapshot'.mtime = snapshot.mtime /\ snapshot'.torn = TRUE
      BY <3>1, <3>2 DEF Snapshot
    <3> QED
      BY <2>1, <3>3, NoneApart
  <2>2. CASE ~(snapshot # None /\ disk'.mtime = snapshot.mtime)
    BY <1>1, <2>2 DEF RegistryInv, LoaderTypes
  <2> QED
    BY <2>1, <2>2
<1>6. LoaderTypes' /\ LoaderSound'
  <2>1. LoaderTypes'
    BY <1>1, <1>3, <1>4, <1>5 DEF RegistryInv, LoaderTypes
  <2>2. LoaderSound'
    BY <1>4, <1>5 DEF RegistryInv, LoaderSound
  <2> QED
    BY <2>1, <2>2
<1>7. RegistryFollowsFile'
  BY <1>1, <1>5 DEF RegistryInv, RegistryFollowsFile
<1> QED
  BY <1>6, <1>7 DEF RegistryInv

(* Nothing is loaded. *)
LEMMA FreshRegistry ==
    ASSUME RegistryInv, Fresh, UNCHANGED <<disk, edits>>, edited' \in BOOLEAN,
           pc' \in {"down", "read"}
    PROVE  RegistryInv'
  BY DEF RegistryInv, LoaderTypes, LoaderSound, RegistryFollowsFile, Fresh

LEMMA AbandonRegistry ==
    ASSUME RegistryInv, Abandon, UNCHANGED <<disk, edits, snapshot>>, edited' \in BOOLEAN
    PROVE  RegistryInv'
  BY DEF RegistryInv, LoaderTypes, LoaderSound, RegistryFollowsFile, Abandon

(* reload_if_changed compares the times. *)
LEMMA BeginRegistry ==
    ASSUME RegistryInv, Begin
    PROVE  RegistryInv'
<1>1. pc = "asleep" /\ edited' = FALSE /\ UNCHANGED <<disk, edits, snapshot>>
  BY DEF Begin
<1>2. CASE Abandon
  BY <1>1, <1>2, AbandonRegistry
<1>3. CASE /\ disk.text # Gone /\ UNCHANGED reading
           /\ pc' = IF disk.mtime = snapshot.mtime THEN "evidence" ELSE "read"
  <2>1. LoaderTypes' /\ LoaderSound'
    BY <1>1, <1>3 DEF RegistryInv, LoaderTypes, LoaderSound
  <2>2. RegistryFollowsFile'
    BY <1>1, <1>3 DEF RegistryInv, LoaderTypes, LoaderSound, RegistryFollowsFile
  <2> QED
    BY <2>1, <2>2 DEF RegistryInv
<1> QED
  BY <1>2, <1>3 DEF Begin

LEMMA ReadRegistry ==
    ASSUME RegistryInv, ReadText
    PROVE  RegistryInv'
<1>1. pc = "read" /\ UNCHANGED <<disk, edits, edited, snapshot>> /\ edited' \in BOOLEAN
  BY DEF ReadText, RegistryInv, LoaderTypes
<1>2. CASE Abandon
  BY <1>1, <1>2, AbandonRegistry
<1>3. CASE /\ disk.text \in Accepted
           /\ reading' = [text |-> disk.text, torn |-> FALSE] /\ pc' = "stat"
  <2>1. reading' \in Load /\ reading' # None /\ reading'.text = disk.text
    <3>1. disk.text \in Texts
      BY <1>3 DEF Accepted
    <3>2. reading' \in Load
      BY <1>3, <3>1, Zenon DEF Load
    <3>3. reading'.text = disk.text
      BY <1>3, Zenon
    <3> QED
      BY <3>2, <3>3, NoneApart
  <2>2. LoaderTypes'
    BY <1>1, <1>3, <2>1 DEF RegistryInv, LoaderTypes
  <2>3. LoaderSound'
    BY <1>1, <1>3, <2>1 DEF RegistryInv, LoaderSound
  <2>4. RegistryFollowsFile'
    BY <1>1, <1>3 DEF RegistryInv, RegistryFollowsFile
  <2> QED
    BY <2>2, <2>3, <2>4 DEF RegistryInv
<1>4. CASE /\ disk.text \in Texts \ Accepted /\ UNCHANGED reading
           /\ pc' = IF snapshot = None THEN "down" ELSE "evidence"
  BY <1>1, <1>4 DEF RegistryInv, LoaderTypes, LoaderSound, RegistryFollowsFile
<1> QED
  BY <1>2, <1>3, <1>4 DEF ReadText

LEMMA StatRegistry ==
    ASSUME RegistryInv, StatText
    PROVE  RegistryInv'
<1>1. pc = "stat" /\ UNCHANGED <<disk, edits, edited>> /\ edited' \in BOOLEAN
  BY DEF StatText, RegistryInv, LoaderTypes
<1>2. CASE Abandon /\ UNCHANGED snapshot
  BY <1>1, <1>2, AbandonRegistry
<1>3. CASE /\ disk.text # Gone
           /\ snapshot' = [text |-> reading.text, mtime |-> disk.mtime, torn |-> reading.torn]
           /\ reading' = None
           /\ pc' = IF snapshot = None THEN "asleep" ELSE "evidence"
  <2>1. /\ reading \in Load /\ reading.text \in Accepted
        /\ ~reading.torn => disk.text = reading.text
    BY <1>1 DEF RegistryInv, LoaderTypes, LoaderSound
  <2>2. /\ snapshot' \in Snapshot /\ snapshot' # None /\ snapshot'.text = reading.text
        /\ snapshot'.mtime = disk.mtime /\ snapshot'.torn = reading.torn
    BY <1>3, <2>1, NoneApart DEF RegistryInv, LoaderTypes, Load, Snapshot
  <2>3. disk.mtime \in Int
    BY DEF RegistryInv, LoaderTypes
  <2> QED
    BY <1>1, <1>3, <2>1, <2>2, <2>3 DEF RegistryInv, LoaderTypes, LoaderSound, RegistryFollowsFile
<1> QED
  BY <1>2, <1>3 DEF StatText

LEMMA RegistryStep == RegistryInv /\ [Next]_vars => RegistryInv'
<1> SUFFICES ASSUME RegistryInv, [Next]_vars PROVE RegistryInv'
  OBVIOUS
<1>1. CASE Tick
  BY <1>1, RegistryStays DEF Tick, memory
<1>2. CASE Start
  BY <1>2, FreshRegistry DEF Start
<1>3. CASE EvaluateStep
  BY <1>3 DEF EvaluateStep, RegistryInv, LoaderTypes, LoaderSound, RegistryFollowsFile
<1>6. CASE FailStep
  BY <1>6, AbandonRegistry DEF FailStep, RegistryInv, LoaderTypes
<1>4. CASE Crash
  BY <1>4, FreshRegistry DEF Crash, RegistryInv, LoaderTypes
<1>5. CASE UNCHANGED vars
  BY <1>5, RegistryStays DEF vars, memory
<1> QED
  BY <1>1, <1>2, <1>3, <1>4, <1>5, <1>6, EditRegistry, BeginRegistry, ReadRegistry, StatRegistry DEF Next

(* A cycle works with a valid registry, and with the newest valid text of the file unless  *)
(* the mtime does not tell of a write: reload_if_changed loses no other edit and never     *)
(* swaps in a text it has refused, however edits, removals and failing loads interleave.   *)
THEOREM RegistryFollowsFileHolds == Spec => []RegistryFollowsFile
<1>1. Init => RegistryInv
  BY RegistryInit
<1>2. RegistryInv /\ [Next]_vars => RegistryInv'
  BY RegistryStep
<1>3. RegistryInv => RegistryFollowsFile
  BY DEF RegistryInv
<1> QED
  BY <1>1, <1>2, <1>3, PTL DEF Spec

-----------------------------------------------------------------------------
(* The outage telemetry. *)

Out(i) == i \in DOMAIN outcomes /\ outcomes[i] = "outage"
Changes == {i \in DOMAIN outcomes : Out(i) # Out(i - 1)}
Lasts(i) == (\A j \in (i - Activation + 1)..i : Out(j)) /\ ~Out(i - Activation)
Lasting == {i \in DOMAIN outcomes : Lasts(i)}

\* outages is the length of the outage that the last evaluation belongs to.
StreakSound ==
    /\ \E E : outcomes \in Seq(E)
    /\ outages \in 0..Len(outcomes)
    /\ \A j \in (Len(outcomes) - outages + 1)..Len(outcomes) : Out(j)
    /\ ~Out(Len(outcomes) - outages)
    /\ prometheus = "UNAVAILABLE" <=> Out(Len(outcomes))

OutageInv ==
    /\ StreakSound
    /\ events = Cardinality(Changes)
    /\ alerts = Cardinality(Lasting)

LEMMA OutageReported == OutageInv => OutageReportedOnce
<1> SUFFICES ASSUME OutageInv PROVE OutageReportedOnce
  OBVIOUS
<1>1. (prometheus = "UNAVAILABLE") = Out(Len(outcomes))
  BY Zenon DEF OutageInv, StreakSound, Out
<1>2. events = Cardinality(Changes) /\ alerts = Cardinality(Lasting)
  BY DEF OutageInv
<1> QED
  BY <1>1, <1>2, Zenon DEF OutageReportedOnce, Changes, Lasting, Lasts, Out

(* Nothing has been evaluated yet. *)
LEMMA NothingEvaluated ==
    ASSUME outcomes = <<>>, outages = 0, alerts = 0, events = 0, prometheus = "unreported"
    PROVE  OutageInv
<1>1. outcomes \in Seq({}) /\ Len(outcomes) = 0 /\ DOMAIN outcomes = {}
  OBVIOUS
<1>2. \A i : ~Out(i)
  BY <1>1 DEF Out
<1>3. StreakSound
  BY <1>1, <1>2 DEF StreakSound
<1>4. Changes = {} /\ Lasting = {}
  BY <1>1 DEF Changes, Lasting
<1> QED
  BY <1>3, <1>4, FS_EmptySet DEF OutageInv

LEMMA NothingEvaluatedNow ==
    ASSUME Fresh
    PROVE  OutageInv'
<1>1. /\ outcomes' = <<>> /\ outages' = 0 /\ alerts' = 0 /\ events' = 0
      /\ prometheus' = "unreported"
  BY DEF Fresh
<1>2. outcomes' \in Seq({}) /\ Len(outcomes') = 0 /\ DOMAIN outcomes' = {}
  BY <1>1
<1>3. \A i : ~Out(i)'
  BY <1>2 DEF Out
<1>4. StreakSound'
  BY <1>1, <1>2, <1>3 DEF StreakSound, Out
<1>5. Changes' = {} /\ Lasting' = {}
  BY <1>2 DEF Changes, Lasting
<1> QED
  BY <1>1, <1>4, <1>5, FS_EmptySet DEF OutageInv

LEMMA OutageStays ==
    ASSUME OutageInv, UNCHANGED <<outcomes, outages, alerts, events, prometheus>>
    PROVE  OutageInv'
  BY DEF OutageInv, StreakSound, Changes, Lasting, Lasts, Out

(* What was evaluated before does not change. *)
LEMMA OutKept ==
    ASSUME NEW E, outcomes \in Seq(E), NEW e, outcomes' = Append(outcomes, e), NEW n, n = Len(outcomes)
    PROVE  /\ n \in Nat /\ DOMAIN outcomes = 1..n
           /\ Len(outcomes') = n + 1 /\ DOMAIN outcomes' = 1..(n + 1)
           /\ \A i \in Int : i <= n => (Out(i)' <=> Out(i))
           /\ Out(n + 1)' <=> e = "outage"
<1>1. /\ n \in Nat /\ DOMAIN outcomes = 1..n
      /\ Len(outcomes') = n + 1 /\ DOMAIN outcomes' = 1..(n + 1)
      /\ outcomes'[n + 1] = e /\ \A i \in 1..n : outcomes'[i] = outcomes[i]
  OBVIOUS
<1>2. ASSUME NEW i \in Int, i <= n PROVE Out(i)' <=> Out(i)
  <2>1. i \in 1..(n + 1) <=> i \in 1..n
    BY <1>1, <1>2
  <2> QED
    BY <1>1, <2>1 DEF Out
<1>3. Out(n + 1)' <=> e = "outage"
  BY <1>1 DEF Out
<1> QED
  BY <1>1, <1>2, <1>3

(* The streak and the health entry follow the evaluation. *)
LEMMA StreakKept ==
    ASSUME OutageInv, NEW outage \in BOOLEAN, NEW e, e = "outage" <=> outage,
           outcomes' = Append(outcomes, e), Telemetry(outage)
    PROVE  StreakSound'
<1>1. PICK E : outcomes \in Seq(E)
  BY DEF OutageInv, StreakSound
<1>2. PICK n : n = Len(outcomes)
  OBVIOUS
<1>3. /\ n \in Nat /\ DOMAIN outcomes = 1..n
      /\ Len(outcomes') = n + 1 /\ DOMAIN outcomes' = 1..(n + 1)
      /\ \A i \in Int : i <= n => (Out(i)' <=> Out(i))
      /\ Out(n + 1)' <=> e = "outage"
  BY <1>1, <1>2, OutKept
<1>4. \E F : outcomes' \in Seq(F)
  <2>1. outcomes' \in Seq(E \cup {e})
    BY <1>1
  <2> QED
    BY <2>1
<1>5. /\ outages \in 0..n
      /\ \A j \in (n - outages + 1)..n : Out(j)
      /\ ~Out(n - outages)
  BY <1>2 DEF OutageInv, StreakSound
<1>6. /\ outages' = IF outage THEN outages + 1 ELSE 0
      /\ prometheus' = IF outage THEN "UNAVAILABLE"
                       ELSE IF prometheus = "UNAVAILABLE" THEN "HEALTHY" ELSE prometheus
  BY DEF Telemetry
<1>7. outages' \in 0..(n + 1)
  BY <1>3, <1>5, <1>6
<1>8. ASSUME NEW j \in (n + 1 - outages' + 1)..(n + 1) PROVE Out(j)'
  <2>1. CASE ~outage
    BY <1>3, <1>6, <2>1
  <2>2. CASE outage /\ j = n + 1
    BY <1>3, <2>2
  <2>3. CASE outage /\ j # n + 1
    <3>1. j \in (n - outages + 1)..n /\ j \in Int /\ j <= n
      BY <1>3, <1>5, <1>6, <2>3
    <3> QED
      BY <1>3, <1>5, <3>1
  <2> QED
    BY <2>1, <2>2, <2>3
<1>9. PICK m : m = n + 1 - outages'
  OBVIOUS
<1>10. ~Out(m)'
  <2>1. CASE ~outage
    <3>1. m = n + 1
      BY <1>3, <1>6, <1>9, <2>1
    <3> QED
      BY <1>3, <2>1, <3>1
  <2>2. CASE outage
    <3>1. m = n - outages /\ m \in Int /\ m <= n
      BY <1>3, <1>5, <1>6, <1>9, <2>2
    <3> QED
      BY <1>3, <1>5, <3>1
  <2> QED
    BY <2>1, <2>2
<1>11. prometheus' = "UNAVAILABLE" <=> outage
  BY <1>6
<1>12. /\ \A j \in (Len(outcomes') - outages' + 1)..Len(outcomes') : Out(j)'
       /\ ~Out(Len(outcomes) - outages)'
       /\ prometheus' = "UNAVAILABLE" <=> Out(Len(outcomes))'
  <2>1. Len(outcomes') - outages' = m
    BY <1>3, <1>7, <1>9
  <2>2. \A j \in (Len(outcomes') - outages' + 1)..Len(outcomes') : Out(j)'
    <3> SUFFICES ASSUME NEW j \in (Len(outcomes') - outages' + 1)..Len(outcomes') PROVE Out(j)'
      OBVIOUS
    <3>1. j \in (n + 1 - outages' + 1)..(n + 1)
      BY <1>1, <1>2, <1>3, <1>7
    <3> QED
      BY <1>8, <3>1
  <2>3. ~Out(Len(outcomes) - outages)'
    BY <1>10, <2>1 DEF Out
  <2>4. Out(Len(outcomes))' <=> outage
    BY <1>3, <2>1 DEF Out
  <2> QED
    BY <1>11, <2>2, <2>3, <2>4
<1> QED
  BY <1>3, <1>4, <1>7, <1>12 DEF StreakSound

(* A set of evaluations after one more. *)
LEMMA GrownByOne ==
    ASSUME NEW n \in Nat, NEW S, NEW T, S \subseteq 1..n, T \subseteq 1..(n + 1),
           \A i \in 1..n : i \in T <=> i \in S
    PROVE  T = IF n + 1 \in T THEN S \cup {n + 1} ELSE S
<1>1. 1..(n + 1) = 1..n \cup {n + 1} /\ n + 1 \notin 1..n
  OBVIOUS
<1>2. CASE n + 1 \in T
  BY <1>1, <1>2
<1>3. CASE n + 1 \notin T
  <2>1. T \subseteq 1..n
    BY <1>1, <1>3
  <2>2. T = S
    BY <2>1
  <2> QED
    BY <1>3, <2>2
<1> QED
  BY <1>2, <1>3

(* Events are counted where the state changes. *)
LEMMA EventsKept ==
    ASSUME OutageInv, NEW outage \in BOOLEAN, NEW e, e = "outage" <=> outage,
           outcomes' = Append(outcomes, e), Telemetry(outage)
    PROVE  events' = Cardinality(Changes')
<1>1. PICK E : outcomes \in Seq(E)
  BY DEF OutageInv, StreakSound
<1>2. PICK n : n = Len(outcomes)
  OBVIOUS
<1>3. /\ n \in Nat /\ DOMAIN outcomes = 1..n /\ DOMAIN outcomes' = 1..(n + 1)
      /\ \A i \in Int : i <= n => (Out(i)' <=> Out(i))
      /\ Out(n + 1)' <=> e = "outage"
  BY <1>1, <1>2, OutKept
<1>4. IsFiniteSet(Changes) /\ n + 1 \notin Changes
  <2>1. Changes \in SUBSET (1..n) /\ n + 1 \notin 1..n
    BY <1>3 DEF Changes
  <2>2. IsFiniteSet(1..n)
    <3>1. 1 \in Int /\ n \in Int
      BY <1>3
    <3> QED
      BY <3>1, FS_Interval
  <2> QED
    BY <2>1, <2>2, FS_Subset, Zenon
<1>5. ASSUME NEW i \in 1..n PROVE i \in Changes' <=> i \in Changes
  <2>1. i \in Int /\ i <= n /\ i - 1 \in Int /\ i - 1 <= n /\ i \in 1..(n + 1)
    BY <1>3
  <2>2. (Out(i)' <=> Out(i)) /\ (Out(i - 1)' <=> Out(i - 1))
    BY <1>3, <2>1
  <2> QED
    BY <1>3, <2>1, <2>2 DEF Changes, Out
<1>6. n + 1 \in Changes' <=> ~(outage <=> prometheus = "UNAVAILABLE")
  <2>1. n + 1 \in 1..(n + 1) /\ (n + 1) - 1 = n /\ n \in Int
    BY <1>3
  <2>2. n + 1 \in Changes' <=> (Out(n + 1)' # Out((n + 1) - 1)')
    BY <1>3, <2>1 DEF Changes
  <2>3. Out((n + 1) - 1)' <=> prometheus = "UNAVAILABLE"
    BY <1>2, <1>3, <2>1 DEF OutageInv, StreakSound
  <2> QED
    BY <1>3, <2>2, <2>3 DEF Out
<1>7. Changes' \subseteq 1..(n + 1)
  BY <1>3 DEF Changes
<1>8. Changes' = IF outage <=> prometheus = "UNAVAILABLE" THEN Changes ELSE Changes \cup {n + 1}
  <2>1. Changes \subseteq 1..n
    BY <1>3 DEF Changes
  <2>2. Changes' = IF n + 1 \in Changes' THEN Changes \cup {n + 1} ELSE Changes
    BY <1>3, <1>5, <1>7, <2>1, GrownByOne
  <2> QED
    BY <1>6, <2>2, Zenon
<1>9. events' = IF outage <=> prometheus = "UNAVAILABLE" THEN events ELSE events + 1
  BY Zenon DEF Telemetry
<1> QED
  BY <1>4, <1>8, <1>9, FS_AddElement DEF OutageInv

(* An alert is raised where an outage has lasted Activation evaluations. *)
LEMMA AlertsKept ==
    ASSUME OutageInv, NEW outage \in BOOLEAN, NEW e, e = "outage" <=> outage,
           outcomes' = Append(outcomes, e), Telemetry(outage)
    PROVE  alerts' = Cardinality(Lasting')
<1>1. PICK E : outcomes \in Seq(E)
  BY DEF OutageInv, StreakSound
<1>2. PICK n : n = Len(outcomes)
  OBVIOUS
<1>3. /\ n \in Nat /\ DOMAIN outcomes = 1..n /\ DOMAIN outcomes' = 1..(n + 1)
      /\ \A i \in Int : i <= n => (Out(i)' <=> Out(i))
      /\ Out(n + 1)' <=> e = "outage"
  BY <1>1, <1>2, OutKept
<1>4. Activation \in Nat /\ Activation > 0
  BY IntakeAssumption
<1>5. /\ outages \in 0..n
      /\ \A j \in (n - outages + 1)..n : Out(j)
      /\ ~Out(n - outages)
  BY <1>2 DEF OutageInv, StreakSound
<1>6. IsFiniteSet(Lasting) /\ n + 1 \notin Lasting
  <2>1. Lasting \in SUBSET (1..n) /\ n + 1 \notin 1..n
    BY <1>3 DEF Lasting
  <2>2. IsFiniteSet(1..n)
    <3>1. 1 \in Int /\ n \in Int
      BY <1>3
    <3> QED
      BY <3>1, FS_Interval
  <2> QED
    BY <2>1, <2>2, FS_Subset, Zenon
<1>7. ASSUME NEW i \in 1..n PROVE i \in Lasting' <=> i \in Lasting
  <2>1. /\ i - Activation \in Int /\ i - Activation <= n /\ i \in 1..(n + 1)
        /\ \A j \in (i - Activation + 1)..i : j \in Int /\ j <= n
    BY <1>3, <1>4
  <2>2. Lasts(i)' <=> Lasts(i)
    BY <1>3, <2>1 DEF Lasts
  <2> QED
    BY <1>3, <2>1, <2>2 DEF Lasting
<1>8. PICK m : m = n + 1
  OBVIOUS
<1>9. m \in Lasting' <=> outage /\ outages + 1 = Activation
  <2>1. m \in Lasting' <=> Lasts(m)'
    BY <1>3, <1>8 DEF Lasting
  <2>2. ASSUME Lasts(m)' PROVE outage /\ outages + 1 = Activation
    <3>1. (\A j \in (m - Activation + 1)..m : Out(j)') /\ ~Out(m - Activation)'
      BY <2>2 DEF Lasts
    <3>2. outage
      BY <1>3, <1>4, <1>8, <3>1
    <3>3. ~(outages + 1 < Activation)
      <4>1. SUFFICES ASSUME outages + 1 < Activation PROVE FALSE
        OBVIOUS
      <4>2. n - outages \in (m - Activation + 1)..m /\ n - outages \in Int /\ n - outages <= n
        BY <1>3, <1>4, <1>5, <1>8, <4>1
      <4> QED
        BY <1>3, <1>5, <3>1, <4>2
    <3>4. ~(outages + 1 > Activation)
      <4>1. SUFFICES ASSUME outages + 1 > Activation PROVE FALSE
        OBVIOUS
      <4>2. /\ m - Activation \in (n - outages + 1)..n
            /\ m - Activation \in Int /\ m - Activation <= n
        BY <1>3, <1>4, <1>5, <1>8, <4>1
      <4> QED
        BY <1>3, <1>5, <3>1, <4>2
    <3> QED
      BY <1>3, <1>4, <1>5, <3>2, <3>3, <3>4
  <2>3. ASSUME outage, outages + 1 = Activation PROVE Lasts(m)'
    <3>1. ASSUME NEW j \in (m - Activation + 1)..m PROVE Out(j)'
      <4>1. CASE j = m
        BY <1>3, <1>8, <2>3, <4>1
      <4>2. CASE j # m
        <5>1. j \in (n - outages + 1)..n /\ j \in Int /\ j <= n
          BY <1>3, <1>4, <1>5, <1>8, <2>3, <4>2
        <5> QED
          BY <1>3, <1>5, <5>1
      <4> QED
        BY <4>1, <4>2
    <3>2. m - Activation = n - outages /\ n - outages \in Int /\ n - outages <= n
      BY <1>3, <1>4, <1>5, <1>8, <2>3
    <3> QED
      BY <1>3, <1>5, <3>1, <3>2 DEF Lasts
  <2> QED
    BY <2>1, <2>2, <2>3
<1>10. Lasting' = IF outage /\ outages + 1 = Activation THEN Lasting \cup {n + 1} ELSE Lasting
  <2>1. Lasting \subseteq 1..n /\ Lasting' \subseteq 1..(n + 1)
    BY <1>3 DEF Lasting
  <2>2. Lasting' = IF n + 1 \in Lasting' THEN Lasting \cup {n + 1} ELSE Lasting
    BY <1>3, <1>7, <2>1, GrownByOne
  <2> QED
    BY <1>8, <1>9, <2>2, Zenon
<1>11. alerts' = IF outage /\ outages + 1 = Activation THEN alerts + 1 ELSE alerts
  BY DEF Telemetry, Alerted
<1> QED
  BY <1>6, <1>10, <1>11, FS_AddElement DEF OutageInv

LEMMA OutageStep == OutageInv /\ [Next]_vars => OutageInv'
<1> SUFFICES ASSUME OutageInv, [Next]_vars PROVE OutageInv'
  OBVIOUS
<1>1. ASSUME NEW outage \in BOOLEAN, Telemetry(outage) PROVE OutageInv'
  <2>1. PICK e : (e = "outage" <=> outage) /\ outcomes' = Append(outcomes, e)
    BY <1>1 DEF Telemetry
  <2> QED
    BY <1>1, <2>1, StreakKept, EventsKept, AlertsKept DEF OutageInv
<1>2. CASE EvaluateStep
  <2>1. PICK outage \in BOOLEAN : Telemetry(outage)
    BY <1>2, Zenon DEF EvaluateStep
  <2> QED
    BY <1>1, <2>1
<1>3. CASE FailStep
  <2>1. CASE \E outage \in BOOLEAN : Telemetry(outage)
    BY <1>1, <2>1
  <2>2. CASE UNCHANGED <<prometheus, outages, alerts, events, outcomes>>
    BY <2>2, OutageStays
  <2> QED
    BY <1>3, <2>1, <2>2, Zenon DEF FailStep
<1>4. CASE Start \/ Crash
  BY <1>4, NothingEvaluatedNow DEF Start, Crash
<1>5. CASE Tick \/ Edit \/ Begin \/ ReadText \/ StatText \/ UNCHANGED vars
  BY <1>5, OutageStays DEF Tick, Edit, Begin, ReadText, StatText, vars, memory
<1> QED
  BY <1>2, <1>3, <1>4, <1>5 DEF Next

(* run_evidence_stage_cycle reports an outage of Prometheus once when it begins and once   *)
(* when it ends, and the alert is raised once for every outage that lasts long enough,     *)
(* whatever its length and however outages and failing cycles follow each other in one     *)
(* life of the process.                                                                    *)
THEOREM OutageReportedOnceHolds == Spec => []OutageReportedOnce
<1>1. Init => OutageInv
  BY NothingEvaluated DEF Init
<1>2. OutageInv /\ [Next]_vars => OutageInv'
  BY OutageStep
<1> QED
  BY <1>1, <1>2, OutageReported, PTL DEF Spec

-----------------------------------------------------------------------------
(* The cadence. *)

Gaps ==
    {b \in 0..Horizon :
        /\ b % CycleInterval = 0
        /\ \E first, last \in cycles : first < b /\ b < last
        /\ b \notin cycles}

\* boundary is the newest boundary at which a cycle began.
CadenceInv ==
    /\ now \in 0..Horizon
    /\ \A c \in cycles : c \in 0..now /\ c % CycleInterval = 0
    /\ \/ boundary = None /\ cycles = {}
       \/ boundary \in cycles /\ \A c \in cycles : c <= boundary
    /\ missed = Cardinality(Gaps)

LEMMA FloorFacts ==
    ASSUME NEW t \in Nat
    PROVE  /\ Floor(t) \in 0..t /\ Floor(t) % CycleInterval = 0
           /\ t < Floor(t) + CycleInterval
<1>1. CycleInterval \in Nat \ {0}
  BY IntakeAssumption
<1>2. t \div CycleInterval \in Nat
  BY <1>1
<1>3. ((t \div CycleInterval) * CycleInterval) % CycleInterval = 0
  BY <1>1, <1>2
<1>4. /\ (t \div CycleInterval) * CycleInterval \in Nat
      /\ (t \div CycleInterval) * CycleInterval <= t
      /\ t < (t \div CycleInterval) * CycleInterval + CycleInterval
  BY <1>1, <1>2
<1> QED
  BY <1>3, <1>4 DEF Floor

(* The boundaries strictly between two boundaries: their number. *)
LEMMA BoundariesBetween ==
    ASSUME NEW lo \in 0..Horizon, NEW hi \in 0..Horizon, lo <= hi,
           lo % CycleInterval = 0, hi % CycleInterval = 0,
           NEW S, S = {b \in 0..Horizon : b % CycleInterval = 0 /\ lo < b /\ b < hi}
    PROVE  /\ IsFiniteSet(S)
           /\ Cardinality(S) = Highest((hi - lo) \div CycleInterval - 1, 0)
<1>1. CycleInterval \in Nat \ {0} /\ Horizon \in Nat
  BY IntakeAssumption
<1> DEFINE C == CycleInterval
           q == lo \div C
           r == hi \div C
           K == (q + 1)..(r - 1)
           f == [k \in K |-> k * C]
<1>2. q \in Nat /\ r \in Nat /\ lo = q * C /\ hi = r * C
  BY <1>1
<1>3. (hi - lo) \div C = r - q
  <2>1. hi - lo = (r - q) * C
    BY <1>1, <1>2
  <2>2. ((r - q) * C) \div C = r - q
    BY <1>1, <1>2
  <2> QED
    BY <2>1, <2>2
<1>4. q <= r
  BY <1>1, <1>2
<1> HIDE DEF q, r
<1>5. f \in Bijection(K, S)
  <2>1. ASSUME NEW k \in K PROVE f[k] \in S
    <3>1. k \in Nat /\ k * C \in Nat
      BY <1>1, <1>2
    <3>2. (k * C) % C = 0
      BY <1>1, <3>1
    <3>3. q < k /\ k < r
      BY <1>2
    <3>4. q * C < k * C /\ k * C < r * C
      BY <1>1, <1>2, <3>1, <3>3
    <3> QED
      BY <1>1, <1>2, <3>1, <3>2, <3>4
  <2>2. ASSUME NEW j \in K, NEW k \in K, f[j] = f[k] PROVE j = k
    <3>1. j \in Nat /\ k \in Nat /\ j * C = k * C
      BY <1>2, <2>2
    <3>2. (j * C) \div C = j /\ (k * C) \div C = k
      BY <1>1, <3>1
    <3> QED
      BY <3>1, <3>2
  <2>3. ASSUME NEW b \in S PROVE \E k \in K : f[k] = b
    <3>1. PICK k : k = b \div C
      OBVIOUS
    <3>2. b \in Nat /\ lo < b /\ b < hi /\ k \in Nat /\ b = k * C
      BY <1>1, <3>1
    <3>3. q < k /\ k < r
      BY <1>1, <1>2, <3>2
    <3> QED
      BY <1>2, <3>2, <3>3
  <2> QED
    BY <2>1, <2>2, <2>3 DEF Bijection, Injection, Surjection, IsInjective
<1>6. ExistsBijection(K, S)
  BY <1>5 DEF ExistsBijection
<1>7. IsFiniteSet(K) /\ Cardinality(K) = IF q + 1 > r - 1 THEN 0 ELSE r - 1 - (q + 1) + 1
  <2>1. q + 1 \in Int /\ r - 1 \in Int
    BY <1>2
  <2> QED
    BY <2>1, FS_Interval
<1>8. IsFiniteSet(S) /\ Cardinality(S) = Cardinality(K)
  BY <1>6, <1>7, FS_Bijection
<1> QED
  BY <1>2, <1>3, <1>4, <1>7, <1>8 DEF Highest

LEMMA GapsFinite == IsFiniteSet(Gaps)
<1>1. Horizon \in Nat
  BY IntakeAssumption
<1>2. IsFiniteSet(0..Horizon)
  BY <1>1, FS_Interval
<1>3. Gaps \in SUBSET (0..Horizon)
  BY DEF Gaps
<1> QED
  BY <1>2, <1>3, FS_Subset

(* No cycle has begun. *)
LEMMA NoCycleYet ==
    ASSUME now \in 0..Horizon, boundary = None, missed = 0, cycles = {}
    PROVE  CadenceInv
<1>1. Gaps = {}
  BY DEF Gaps
<1> QED
  BY <1>1, FS_EmptySet DEF CadenceInv

LEMMA FreshCadence ==
    ASSUME CadenceInv, Fresh, UNCHANGED now
    PROVE  CadenceInv'
<1>1. boundary' = None /\ missed' = 0 /\ cycles' = {} /\ now' \in 0..Horizon
  BY DEF Fresh, CadenceInv
<1>2. Gaps' = {}
  BY <1>1 DEF Gaps
<1> QED
  BY <1>1, <1>2, FS_EmptySet DEF CadenceInv

LEMMA CadenceStays ==
    ASSUME CadenceInv, UNCHANGED <<boundary, missed, cycles>>, now' \in 0..Horizon, now <= now'
    PROVE  CadenceInv'
<1>1. Gaps' = Gaps
  BY DEF Gaps
<1>2. \A c \in cycles' : c \in 0..now' /\ c % CycleInterval = 0
  BY IntakeAssumption DEF CadenceInv
<1> QED
  BY <1>1, <1>2 DEF CadenceInv

(* The tick counts what lies between the boundary it remembers and its own. *)
LEMMA BeginCadence ==
    ASSUME CadenceInv, Begin
    PROVE  CadenceInv'
<1> DEFINE F == Floor(now)
<1>1. /\ missed' = missed + MissedIntervals(boundary, F)
      /\ boundary' = F /\ cycles' = cycles \cup {F} /\ now' = now
  BY DEF Begin
<1>2. CycleInterval \in Nat \ {0} /\ Horizon \in Nat /\ None \notin 0..Horizon
  BY IntakeAssumption
<1>3. now \in 0..Horizon /\ now \in Nat
  BY <1>2 DEF CadenceInv
<1>4. F \in 0..now /\ F % CycleInterval = 0 /\ now < F + CycleInterval
  BY <1>3, FloorFacts
<1> HIDE DEF F
<1>5. \A c \in cycles : c \in 0..now /\ c % CycleInterval = 0
  BY DEF CadenceInv
<1>6. \A c \in cycles : c <= F
  <2> SUFFICES ASSUME NEW c \in cycles PROVE c <= F
    OBVIOUS
  <2>1. c \in Nat /\ c <= now /\ c % CycleInterval = 0
    BY <1>3, <1>5
  <2>2. PICK q \in Nat : c = q * CycleInterval
    BY <1>2, <2>1
  <2>3. PICK r \in Nat : F = r * CycleInterval
    BY <1>2, <1>3, <1>4
  <2>4. q * CycleInterval < (r + 1) * CycleInterval
    BY <1>2, <1>3, <1>4, <2>1, <2>2, <2>3
  <2>5. q <= r
    BY <1>2, <2>4
  <2> QED
    BY <1>2, <2>2, <2>3, <2>5
<1>7. \A c \in cycles' : c \in 0..now' /\ c % CycleInterval = 0 /\ c <= boundary'
  BY <1>1, <1>3, <1>4, <1>5, <1>6
<1>8. missed' = Cardinality(Gaps')
  <2>1. CASE boundary = None /\ cycles = {}
    <3>1. Gaps = {}
      BY <2>1 DEF Gaps
    <3>2. Gaps' = {}
      BY <1>1, <1>3, <1>4, <2>1 DEF Gaps
    <3> QED
      BY <1>1, <2>1, <3>1, <3>2, FS_EmptySet DEF CadenceInv, MissedIntervals
  <2>2. CASE boundary \in cycles /\ \A c \in cycles : c <= boundary
    <3> DEFINE S == {b \in 0..Horizon : b % CycleInterval = 0 /\ boundary < b /\ b < F}
    <3>1. /\ boundary \in 0..Horizon /\ boundary % CycleInterval = 0 /\ boundary <= F
          /\ F \in 0..Horizon /\ boundary # None
      BY <1>2, <1>3, <1>4, <1>5, <1>6, <2>2
    <3>2. IsFiniteSet(S) /\ Cardinality(S) = Highest((F - boundary) \div CycleInterval - 1, 0)
      BY <1>4, <3>1, BoundariesBetween
    <3>3. \A c \in cycles : c \in Int /\ c <= boundary
      BY <1>3, <1>5, <2>2
    <3>4. S \cap Gaps = {}
      BY <3>1, <3>3 DEF Gaps
    <3>5. ASSUME NEW b \in Gaps PROVE b \in Gaps'
      <4>1. PICK first \in cycles, last \in cycles : first < b /\ b < last
        BY <3>5 DEF Gaps
      <4>2. b \in 0..Horizon /\ b % CycleInterval = 0 /\ b \notin cycles
        BY <3>5 DEF Gaps
      <4>3. b < F
        BY <3>1, <3>3, <4>1, <4>2
      <4> QED
        BY <1>1, <3>1, <4>1, <4>2, <4>3 DEF Gaps
    <3>6. ASSUME NEW b \in S PROVE b \in Gaps'
      <4>1. b \notin cycles /\ b # F
        BY <3>1, <3>3
      <4> QED
        BY <1>1, <2>2, <4>1 DEF Gaps
    <3>7. ASSUME NEW b \in Gaps' PROVE b \in Gaps \cup S
      <4>1. PICK first \in cycles \cup {F}, last \in cycles \cup {F} : first < b /\ b < last
        BY <1>1, <3>7 DEF Gaps
      <4>2. b \in 0..Horizon /\ b % CycleInterval = 0 /\ b \notin cycles
        BY <1>1, <3>7 DEF Gaps
      <4>3. first \in cycles /\ b < F
        BY <3>1, <3>3, <4>1, <4>2
      <4>4. CASE b < boundary
        BY <2>2, <4>1, <4>2, <4>3, <4>4 DEF Gaps
      <4>5. CASE ~(b < boundary)
        <5>1. boundary < b
          BY <2>2, <3>1, <4>2, <4>5
        <5> QED
          BY <4>2, <4>3, <5>1
      <4> QED
        BY <4>4, <4>5
    <3>8. Gaps' = Gaps \cup S
      BY <3>5, <3>6, <3>7
    <3>9. Cardinality(Gaps') = Cardinality(Gaps) + Cardinality(S)
      <4>1. Cardinality(Gaps \cup S)
              = Cardinality(Gaps) + Cardinality(S) - Cardinality(Gaps \cap S)
        BY <3>2, GapsFinite, FS_Union
      <4>2. Cardinality(Gaps \cap S) = 0
        BY <3>4, FS_EmptySet
      <4>3. Cardinality(Gaps) \in Nat /\ Cardinality(S) \in Nat
        BY <3>2, GapsFinite, FS_CardinalityType
      <4> QED
        BY <3>8, <4>1, <4>2, <4>3
    <3> QED
      BY <1>1, <3>1, <3>2, <3>9 DEF CadenceInv, MissedIntervals
  <2> QED
    BY <2>1, <2>2 DEF CadenceInv
<1> QED
  BY <1>1, <1>3, <1>7, <1>8 DEF CadenceInv

LEMMA CadenceStep == CadenceInv /\ [Next]_vars => CadenceInv'
<1> SUFFICES ASSUME CadenceInv, [Next]_vars PROVE CadenceInv'
  OBVIOUS
<1>1. now \in 0..Horizon /\ Horizon \in Nat
  BY IntakeAssumption DEF CadenceInv
<1>2. CASE Start \/ Crash
  BY <1>2, FreshCadence DEF Start, Crash
<1>3. CASE Tick
  BY <1>1, <1>3, CadenceStays DEF Tick, memory
<1>4. CASE Edit \/ ReadText \/ StatText \/ EvaluateStep \/ FailStep \/ UNCHANGED vars
  <2>1. UNCHANGED <<now, boundary, missed, cycles>>
    BY <1>4 DEF Edit, ReadText, StatText, EvaluateStep, FailStep, vars, memory
  <2>2. now' \in 0..Horizon /\ now <= now'
    BY <1>1, <2>1
  <2> QED
    BY <2>1, <2>2, CadenceStays
<1> QED
  BY <1>2, <1>3, <1>4, BeginCadence DEF Next

LEMMA CadenceAlways == Spec => []CadenceInv
<1>1. Init => CadenceInv
  <2>1. Init => now \in 0..Horizon /\ boundary = None /\ missed = 0 /\ cycles = {}
    BY IntakeAssumption DEF Init
  <2> QED
    BY <2>1, NoCycleYet
<1> QED
  BY <1>1, CadenceStep, PTL DEF Spec

(* The missed intervals a process has reported are exactly the boundaries between its      *)
(* first and its last cycle at which none began, whatever the interval and however late    *)
(* its cycles were (evaluate_scheduler_tick).                                              *)
THEOREM MissedIntervalsCountedHolds == Spec => []MissedIntervalsCounted
<1>1. CadenceInv => MissedIntervalsCounted
  BY DEF CadenceInv, MissedIntervalsCounted, Gaps
<1> QED
  BY <1>1, CadenceAlways, PTL

-----------------------------------------------------------------------------
(* The streaks. *)

Saw(h, k, i) == k \in h[i].hot \ h[i].blind
Covered(h, k, i) == Saw(h, k, i) \/ k \in h[i].blind
Unbroken(h, k, s) ==
    /\ \A i \in s..Len(h) : Covered(h, k, i)
    /\ \A i \in (s + 1)..Len(h) : h[i].at = h[i - 1].at + 1
Sightings(h, k, s) == {i \in s..Len(h) : Saw(h, k, i)}

Count(h, k, s) == Cardinality(Sightings(h, k, s))

\* An evaluation in the interval after the last one of h.
Follows(h, e) == e.at = h[Len(h)].at + 1

\* The longest unbroken run of evaluations up to the last one begins at s.
Longest(h, k, s) ==
    /\ s \in 1..(Len(h) + 1)
    /\ Unbroken(h, k, s)
    /\ s > 1 => ~Unbroken(h, k, s - 1)

LEMMA SightingsFinite ==
    ASSUME NEW E, NEW h \in Seq(E), NEW k, NEW s \in 1..(Len(h) + 1)
    PROVE  /\ IsFiniteSet(Sightings(h, k, s))
           /\ Cardinality(Sightings(h, k, s)) \in 0..Len(h)
<1>1. Len(h) \in Nat /\ s \in Int /\ 1 \in Int
  OBVIOUS
<1>2. IsFiniteSet(1..Len(h)) /\ Cardinality(1..Len(h)) = Len(h)
  <2>1. ASSUME NEW n \in Nat PROVE IsFiniteSet(1..n) /\ Cardinality(1..n) = n
    <3>1. 1 \in Int /\ n \in Int /\ (1 > n => n = 0) /\ n - 1 + 1 = n
      OBVIOUS
    <3> QED
      BY <3>1, FS_Interval
  <2> QED
    BY <1>1, <2>1
<1>3. Sightings(h, k, s) \in SUBSET (1..Len(h))
  BY <1>1 DEF Sightings
<1>4. /\ IsFiniteSet(Sightings(h, k, s))
      /\ Cardinality(Sightings(h, k, s)) <= Len(h)
  BY <1>2, <1>3, FS_Subset
<1>5. Cardinality(Sightings(h, k, s)) \in Nat
  BY <1>4, FS_CardinalityType
<1> QED
  BY <1>1, <1>4, <1>5

(* The evaluation follows the one before it and has the anomaly, or too little evidence: *)
(* the run goes on.                                                                      *)
LEMMA RunGoesOn ==
    ASSUME NEW E, NEW h \in Seq(E), NEW e, NEW k, NEW s,
           Len(h) > 0, Longest(h, k, s), Follows(h, e), k \in e.hot \cup e.blind
    PROVE  /\ Longest(Append(h, e), k, s)
           /\ k \in e.blind => Count(Append(h, e), k, s) = Count(h, k, s)
           /\ k \notin e.blind => Count(Append(h, e), k, s) = Count(h, k, s) + 1
<1> SUFFICES ASSUME NEW g, g = Append(h, e), NEW n, n = Len(h)
             PROVE  /\ Longest(g, k, s)
                    /\ k \in e.blind => Count(g, k, s) = Count(h, k, s)
                    /\ k \notin e.blind => Count(g, k, s) = Count(h, k, s) + 1
  OBVIOUS
<1>1. /\ n \in Nat /\ Len(g) = n + 1 /\ g[n + 1] = e
      /\ \A i \in 1..n : g[i] = h[i]
  OBVIOUS
<1>2. /\ s \in 1..(n + 1) /\ Unbroken(h, k, s)
      /\ s > 1 => ~Unbroken(h, k, s - 1)
  BY DEF Longest
<1>3. \A i \in 1..n : Covered(g, k, i) = Covered(h, k, i) /\ Saw(g, k, i) = Saw(h, k, i)
  BY <1>1 DEF Covered, Saw
<1>4. Covered(g, k, n + 1) /\ (Saw(g, k, n + 1) <=> k \notin e.blind)
  BY <1>1 DEF Covered, Saw
<1>5. Unbroken(g, k, s)
  <2>1. ASSUME NEW i \in s..(n + 1) PROVE Covered(g, k, i)
    <3>1. CASE i = n + 1
      BY <1>4, <3>1
    <3>2. CASE i # n + 1
      <4>1. i \in s..n /\ i \in 1..n
        BY <1>1, <1>2, <3>2
      <4> QED
        BY <1>2, <1>3, <4>1 DEF Unbroken
    <3> QED
      BY <3>1, <3>2
  <2>2. ASSUME NEW i \in (s + 1)..(n + 1) PROVE g[i].at = g[i - 1].at + 1
    <3>1. CASE i = n + 1
      <4>1. i - 1 = n /\ n \in 1..n
        BY <1>1, <3>1
      <4> QED
        BY <1>1, <3>1, <4>1 DEF Follows
    <3>2. CASE i # n + 1
      <4>1. i \in (s + 1)..n /\ i \in 1..n /\ i - 1 \in 1..n
        BY <1>1, <1>2, <3>2
      <4> QED
        BY <1>1, <1>2, <4>1 DEF Unbroken
    <3> QED
      BY <3>1, <3>2
  <2> QED
    BY <1>1, <2>1, <2>2 DEF Unbroken
<1>6. ASSUME s > 1, Unbroken(g, k, s - 1) PROVE FALSE
  <2>1. ASSUME NEW i \in (s - 1)..n PROVE Covered(h, k, i)
    <3>1. i \in (s - 1)..(n + 1) /\ i \in 1..n
      BY <1>1, <1>2, <1>6
    <3> QED
      BY <1>1, <1>3, <1>6, <3>1 DEF Unbroken
  <2>2. ASSUME NEW i \in (s - 1 + 1)..n PROVE h[i].at = h[i - 1].at + 1
    <3>1. i \in (s - 1 + 1)..(n + 1) /\ i \in 1..n /\ i - 1 \in 1..n
      BY <1>1, <1>2, <1>6
    <3> QED
      BY <1>1, <1>6, <3>1 DEF Unbroken
  <2>3. Unbroken(h, k, s - 1)
    BY <2>1, <2>2 DEF Unbroken
  <2> QED
    BY <1>2, <1>6, <2>3
<1>7. Longest(g, k, s)
  BY <1>1, <1>2, <1>5, <1>6 DEF Longest
<1>8. \A i : i \in Sightings(g, k, s) <=>
               (i \in Sightings(h, k, s) \/ (i = n + 1 /\ k \notin e.blind))
  <2> SUFFICES ASSUME NEW i
               PROVE  i \in Sightings(g, k, s) <=>
                        (i \in Sightings(h, k, s) \/ (i = n + 1 /\ k \notin e.blind))
    OBVIOUS
  <2>1. CASE i = n + 1
    <3>1. i \in s..Len(g) /\ i \notin s..Len(h)
      BY <1>1, <1>2, <2>1
    <3> QED
      BY <1>4, <2>1, <3>1 DEF Sightings
  <2>2. CASE i # n + 1
    <3>1. i \in s..Len(g) <=> i \in s..n
      BY <1>1, <1>2, <2>2
    <3>2. i \in s..n => i \in 1..n
      BY <1>1, <1>2
    <3> QED
      BY <1>3, <2>2, <3>1, <3>2 DEF Sightings
  <2> QED
    BY <2>1, <2>2
<1>9. IsFiniteSet(Sightings(h, k, s)) /\ n + 1 \notin Sightings(h, k, s)
  <2>1. s \in 1..(Len(h) + 1)
    BY <1>2
  <2>2. IsFiniteSet(Sightings(h, k, s))
    BY <2>1, SightingsFinite
  <2>3. n + 1 \notin Sightings(h, k, s)
    BY <1>1, <2>1 DEF Sightings
  <2> QED
    BY <2>2, <2>3
<1>10. CASE k \in e.blind
  <2>1. Sightings(g, k, s) = Sightings(h, k, s)
    BY <1>8, <1>10
  <2> QED
    BY <1>7, <1>10, <2>1 DEF Count
<1>11. CASE k \notin e.blind
  <2>1. Sightings(g, k, s) = Sightings(h, k, s) \cup {n + 1}
    BY <1>8, <1>11
  <2>2. Cardinality(Sightings(h, k, s) \cup {n + 1}) = Cardinality(Sightings(h, k, s)) + 1
    BY <1>9, FS_AddElement
  <2> QED
    BY <1>7, <1>11, <2>1, <2>2 DEF Count
<1> QED
  BY <1>10, <1>11

(* The evaluation does not continue what came before: a run of one begins. *)
LEMMA RunBegins ==
    ASSUME NEW E, NEW h \in Seq(E), NEW e, NEW g, g = Append(h, e), NEW k,
           NEW n, n = Len(h),
           n > 0 => ~Follows(h, e) \/ ~Covered(h, k, n),
           k \in e.hot \cup e.blind
    PROVE  /\ Longest(g, k, n + 1)
           /\ k \in e.blind => Count(g, k, n + 1) = 0
           /\ k \notin e.blind => Count(g, k, n + 1) = 1
<1>1. /\ n \in Nat /\ Len(g) = n + 1 /\ g[n + 1] = e
      /\ \A i \in 1..n : g[i] = h[i]
  OBVIOUS
<1>2. Covered(g, k, n + 1) /\ (Saw(g, k, n + 1) <=> k \notin e.blind)
  BY <1>1 DEF Covered, Saw
<1>3. (n + 1)..(n + 1) = {n + 1} /\ (n + 1 + 1)..(n + 1) = {} /\ n + 1 - 1 = n
  BY <1>1
<1>4. Unbroken(g, k, n + 1)
  BY <1>1, <1>2, <1>3 DEF Unbroken
<1>5. ASSUME n + 1 > 1 PROVE ~Unbroken(g, k, n + 1 - 1)
  <2>1. n > 0 /\ n \in 1..n /\ n \in n..(n + 1) /\ n + 1 \in (n + 1)..(n + 1)
    BY <1>1, <1>5
  <2>2. g[n] = h[n] /\ Covered(g, k, n) = Covered(h, k, n)
    BY <1>1, <2>1 DEF Covered, Saw
  <2>3. SUFFICES ASSUME Unbroken(g, k, n) PROVE FALSE
    BY <1>3
  <2>4. Covered(g, k, n) /\ g[n + 1].at = g[n + 1 - 1].at + 1
    BY <1>1, <2>1, <2>3 DEF Unbroken
  <2> QED
    BY <1>1, <1>3, <2>1, <2>2, <2>4 DEF Follows
<1>6. Longest(g, k, n + 1)
  BY <1>1, <1>4, <1>5 DEF Longest
<1>7. Sightings(g, k, n + 1) = {i \in {n + 1} : Saw(g, k, i)}
  BY <1>1, <1>3 DEF Sightings
<1>8. CASE k \in e.blind
  <2>1. Sightings(g, k, n + 1) = {}
    BY <1>2, <1>7, <1>8
  <2> QED
    BY <1>6, <1>8, <2>1, FS_EmptySet DEF Count
<1>9. CASE k \notin e.blind
  <2>1. Sightings(g, k, n + 1) = {n + 1}
    BY <1>2, <1>7, <1>9
  <2>2. Cardinality({n + 1}) = 1
    BY FS_Singleton
  <2> QED
    BY <1>6, <1>9, <2>1, <2>2 DEF Count
<1> QED
  BY <1>8, <1>9

(* The evaluation has the evidence and not the anomaly: nothing is left of the run. *)
LEMMA RunEnds ==
    ASSUME NEW E, NEW h \in Seq(E), NEW e, NEW g, g = Append(h, e), NEW k,
           NEW n, n = Len(h), k \notin e.hot, k \notin e.blind
    PROVE  Longest(g, k, n + 2) /\ Count(g, k, n + 2) = 0
<1>1. n \in Nat /\ Len(g) = n + 1 /\ g[n + 1] = e
  OBVIOUS
<1>2. (n + 2)..(n + 1) = {} /\ (n + 2 + 1)..(n + 1) = {} /\ n + 2 - 1 = n + 1
  BY <1>1
<1>3. Unbroken(g, k, n + 2) /\ Sightings(g, k, n + 2) = {}
  BY <1>1, <1>2 DEF Unbroken, Sightings
<1>4. ~Unbroken(g, k, n + 1)
  <2>1. ~Covered(g, k, n + 1) /\ n + 1 \in (n + 1)..(n + 1)
    BY <1>1 DEF Covered, Saw
  <2> QED
    BY <1>1, <2>1 DEF Unbroken
<1>5. Count(g, k, n + 2) = 0
  BY <1>3, FS_EmptySet DEF Count
<1> QED
  BY <1>1, <1>2, <1>3, <1>4, <1>5 DEF Longest

\* The time of the cycle is known once its evaluation is near.
StartedSound ==
    /\ now \in 0..Horizon
    /\ started \in (0..now) \cup {None}
    /\ pc = "evidence" => started # None
    /\ pc \in {"read", "stat"} /\ snapshot # None => started # None

\* A streak is the number of sightings in the longest unbroken run that ends with the last
\* evaluation; a key that an evaluation named is not forgotten.
StreaksTrue ==
    /\ \E E : history \in Seq(E)
    /\ prior \in [DOMAIN prior -> WindowState]
    /\ \A i \in 1..Len(history) : history[i].hot \cup history[i].blind \subseteq DOMAIN prior
    /\ \A k \in DOMAIN prior :
        /\ Len(history) > 0 /\ prior[k].at <= now
        /\ Bucket(prior[k].at) = history[Len(history)].at
        /\ \E s : Longest(history, k, s) /\ prior[k].streak = Count(history, k, s)
        /\ prior[k].sustained <=>
                prior[k].streak >= RequiredBuckets /\ k \notin history[Len(history)].blind
    /\ \A x \in inputs :
        LET k == KeyOf(x.scope, x.family)
        IN  /\ k \in DOMAIN prior /\ k \in history[Len(history)].hot
            /\ x.sustained = prior[k].sustained

StreakInv == StartedSound /\ StreaksTrue

LEMMA StreaksObserved == StreakInv => SustainedAsObserved
<1> SUFFICES ASSUME StreakInv, NEW x \in inputs,
                    NEW k, k = KeyOf(x.scope, x.family), NEW n, n = Len(history)
             PROVE  x.sustained <=>
                      /\ k \in history[n].hot \ history[n].blind
                      /\ \E s \in 1..n :
                            /\ \A i \in s..n : k \in history[i].hot \ history[i].blind
                                               \/ k \in history[i].blind
                            /\ \A i \in (s + 1)..n : history[i].at = history[i - 1].at + 1
                            /\ Cardinality({i \in s..n : k \in history[i].hot \ history[i].blind})
                                 >= RequiredBuckets
  BY DEF SustainedAsObserved
<1>1. PICK E : history \in Seq(E)
  BY DEF StreakInv, StreaksTrue
<1>2. /\ k \in DOMAIN prior /\ k \in history[n].hot /\ x.sustained = prior[k].sustained
      /\ n > 0
      /\ prior[k].sustained <=> prior[k].streak >= RequiredBuckets /\ k \notin history[n].blind
  BY DEF StreakInv, StreaksTrue
<1>3. PICK s : Longest(history, k, s) /\ prior[k].streak = Count(history, k, s)
  BY <1>2 DEF StreakInv, StreaksTrue
<1>4. n \in Nat /\ RequiredBuckets \in Nat \ {0} /\ s \in 1..(n + 1)
  BY <1>1, <1>3, PeakAssumption DEF Longest
<1>5. SUFFICES ASSUME k \notin history[n].blind
               PROVE  prior[k].streak >= RequiredBuckets <=>
                      \E t \in 1..n : /\ Unbroken(history, k, t)
                                      /\ Count(history, k, t) >= RequiredBuckets
  BY <1>2 DEF Unbroken, Covered, Count, Sightings, Saw
<1>6. ASSUME prior[k].streak >= RequiredBuckets
      PROVE  \E t \in 1..n : /\ Unbroken(history, k, t)
                             /\ Count(history, k, t) >= RequiredBuckets
  <2>1. s # n + 1
    <3>1. SUFFICES ASSUME s = n + 1 PROVE FALSE
      OBVIOUS
    <3>2. Sightings(history, k, s) = {}
      BY <1>4, <3>1 DEF Sightings
    <3>3. prior[k].streak = 0
      BY <1>3, <3>2, FS_EmptySet DEF Count
    <3> QED
      BY <1>4, <1>6, <3>3
  <2>2. s \in 1..n
    BY <1>4, <2>1
  <2> QED
    BY <1>3, <1>6, <2>2 DEF Longest
<1>7. ASSUME NEW t \in 1..n, Unbroken(history, k, t),
             Count(history, k, t) >= RequiredBuckets
      PROVE  prior[k].streak >= RequiredBuckets
  <2>1. s <= t
    <3>1. SUFFICES ASSUME t < s PROVE FALSE
      BY <1>4
    <3>2. s > 1 /\ t <= s - 1 /\ s - 1 \in 1..n
      BY <1>4, <3>1
    <3>3. Unbroken(history, k, s - 1)
      <4>1. \A i \in (s - 1)..n : i \in t..n
        BY <1>4, <3>2
      <4>2. \A i \in (s - 1 + 1)..n : i \in (t + 1)..n
        BY <1>4, <3>2
      <4> QED
        BY <1>7, <4>1, <4>2 DEF Unbroken
    <3> QED
      BY <1>3, <3>2, <3>3 DEF Longest
  <2>2. Sightings(history, k, t) \in SUBSET Sightings(history, k, s)
    BY <1>4, <2>1 DEF Sightings
  <2>3. IsFiniteSet(Sightings(history, k, s)) /\ Cardinality(Sightings(history, k, s)) \in Nat
    BY <1>1, <1>4, SightingsFinite
  <2>4. /\ IsFiniteSet(Sightings(history, k, t))
        /\ Cardinality(Sightings(history, k, t)) <= Cardinality(Sightings(history, k, s))
    BY <2>2, <2>3, FS_Subset
  <2>5. Cardinality(Sightings(history, k, t)) \in Nat
    BY <2>4, FS_CardinalityType
  <2> QED
    BY <1>3, <1>4, <1>7, <2>3, <2>4, <2>5 DEF Count
<1> QED
  BY <1>6, <1>7

LEMMA StartedStep ==
    ASSUME StartedSound, [Next]_vars
    PROVE  StartedSound'
<1>1. Horizon \in Nat /\ now \in Nat /\ None \notin 0..Horizon
  BY IntakeAssumption DEF StartedSound
<1>2. CASE Tick
  <2>1. now' = now + 1 /\ now < Horizon /\ UNCHANGED <<pc, started, snapshot>>
    BY <1>2 DEF Tick, memory
  <2>2. now' \in 0..Horizon /\ \A t \in 0..now : t \in 0..now'
    BY <1>1, <2>1
  <2> QED
    BY <2>1, <2>2 DEF StartedSound
<1>3. CASE Start \/ Crash
  BY <1>3 DEF Start, Crash, Fresh, StartedSound
<1>4. CASE Begin
  <2>1. started' = now /\ now' = now /\ now \in 0..now /\ now # None
    BY <1>1, <1>4 DEF Begin, StartedSound
  <2> QED
    BY <2>1 DEF StartedSound
<1>5. CASE ReadText
  BY <1>5 DEF ReadText, Abandon, StartedSound
<1>6. CASE StatText
  BY <1>6 DEF StatText, Abandon, StartedSound
<1>7. CASE EvaluateStep \/ FailStep
  BY <1>7 DEF EvaluateStep, FailStep, Abandon, StartedSound
<1>8. CASE Edit \/ UNCHANGED vars
  BY <1>8 DEF Edit, vars, memory, StartedSound
<1> QED
  BY <1>2, <1>3, <1>4, <1>5, <1>6, <1>7, <1>8 DEF Next

(* A gate input carries the status of its key. *)
LEMMA InputsCarryStatus ==
    ASSUME NEW found, NEW status, NEW x \in GateInputs(found, status)
    PROVE  \E y \in found : /\ x.scope = y[1] /\ x.family = y[2]
                            /\ x.sustained = status[KeyOf(y[1], y[2])].sustained
<1>1. PICK y, o :
        /\ y \in found
        /\ x = [scope |-> y[1], family |-> y[2],
                sustained |-> status[KeyOf(y[1], y[2])].sustained, owner |-> o]
  BY DEF GateInputs
<1> QED
  BY <1>1

(* The streak of a key after one more evaluation. *)
LEMMA StreakAdvances ==
    ASSUME StreakInv, NEW e, NEW k, started \in 0..now, history' = Append(history, e),
           e.at = Bucket(started), NEW insufficient \in BOOLEAN,
           k \in e.blind <=> insufficient, k \in e.hot \/ k \in DOMAIN prior,
           NEW streak,
           streak = NextStreak(IF k \in DOMAIN prior THEN prior[k] ELSE None, k \in e.hot,
                               insufficient, started)
    PROVE  \E s : Longest(history', k, s) /\ streak = Count(history', k, s)
<1>1. PICK E : history \in Seq(E)
  BY DEF StreakInv, StreaksTrue
<1>2. PICK n : n = Len(history) /\ n \in Nat
  BY <1>1
<1> DEFINE state == IF k \in DOMAIN prior THEN prior[k] ELSE None
           follows == k \in DOMAIN prior /\ Consecutive(prior[k].at, started)
<1>3. ASSUME k \in DOMAIN prior
      PROVE  prior[k] # None /\ prior[k] \in WindowState /\ n > 0
             /\ Bucket(prior[k].at) = history[n].at
  BY <1>2, <1>3, IntakeAssumption DEF StreakInv, StreaksTrue
<1>4. (state # None /\ Consecutive(state.at, started)) <=> follows
  BY <1>3
<1>5. follows => Follows(history, e)
  <2> SUFFICES ASSUME follows PROVE e.at = history[n].at + 1
    BY <1>2 DEF Follows
  <2>1. Bucket(started) \in Int /\ Bucket(prior[k].at) \in Int
    BY <1>3, IntakeAssumption, PeakAssumption DEF Bucket, WindowState, StreakInv, StartedSound
  <2> QED
    BY <1>3, <2>1 DEF Consecutive
<1>6. ASSUME ~follows, n > 0 PROVE ~Follows(history, e) \/ ~Covered(history, k, n)
  <2>1. CASE k \in DOMAIN prior
    <3>1. Bucket(started) \in Int /\ Bucket(prior[k].at) \in Int
      BY <1>3, <2>1, IntakeAssumption, PeakAssumption DEF Bucket, WindowState, StreakInv, StartedSound
    <3> QED
      BY <1>2, <1>3, <1>6, <2>1, <3>1 DEF Consecutive, Follows
  <2>2. CASE k \notin DOMAIN prior
    <3>1. n \in 1..n
      BY <1>2, <1>6
    <3> QED
      BY <1>2, <2>2, <3>1 DEF StreakInv, StreaksTrue, Covered, Saw
  <2> QED
    BY <2>1, <2>2
<1>7. CASE ~insufficient /\ k \notin e.hot
  <2>1. streak = 0
    BY <1>7 DEF NextStreak
  <2>2. Longest(history', k, n + 2) /\ Count(history', k, n + 2) = 0
    BY <1>1, <1>2, <1>7, RunEnds
  <2> QED
    BY <2>1, <2>2
<1>8. CASE (insufficient \/ k \in e.hot) /\ follows
  <2>1. PICK s : Longest(history, k, s) /\ prior[k].streak = Count(history, k, s)
    BY <1>8 DEF StreakInv, StreaksTrue
  <2>2. streak = IF insufficient THEN prior[k].streak ELSE prior[k].streak + 1
    BY <1>3, <1>8 DEF NextStreak
  <2>3. k \in e.hot \cup e.blind /\ n > 0 /\ Follows(history, e)
    BY <1>3, <1>5, <1>8
  <2>4. /\ Longest(history', k, s)
        /\ Count(history', k, s) = IF k \in e.blind THEN Count(history, k, s)
                                   ELSE Count(history, k, s) + 1
    BY <1>1, <1>2, <2>1, <2>3, RunGoesOn
  <2> QED
    BY <2>1, <2>2, <2>4
<1>9. CASE (insufficient \/ k \in e.hot) /\ ~follows
  <2>1. streak = IF insufficient THEN 0 ELSE 1
    BY <1>4, <1>9 DEF NextStreak
  <2>2. k \in e.hot \cup e.blind
    BY <1>9
  <2>3. n > 0 => ~Follows(history, e) \/ ~Covered(history, k, n)
    BY <1>6, <1>9
  <2>4. /\ Longest(history', k, n + 1)
        /\ Count(history', k, n + 1) = IF k \in e.blind THEN 0 ELSE 1
    <3>1. Longest(history', k, n + 1)
      BY <1>1, <1>2, <2>2, <2>3, RunBegins
    <3>2. k \in e.blind => Count(history', k, n + 1) = 0
      BY <1>1, <1>2, <2>2, <2>3, RunBegins
    <3>3. k \notin e.blind => Count(history', k, n + 1) = 1
      BY <1>1, <1>2, <2>2, <2>3, RunBegins
    <3> QED
      BY <3>1, <3>2, <3>3
  <2> QED
    BY <2>1, <2>4
<1> QED
  BY <1>7, <1>8, <1>9

LEMMA EvaluateStreaks ==
    ASSUME StreakInv, EvaluateStep
    PROVE  StreaksTrue'
<1>1. started \in 0..now /\ started \in 0..Horizon /\ now' = now
  BY IntakeAssumption DEF EvaluateStep, StreakInv, StartedSound
<1>2. PICK outage \in BOOLEAN, rows \in Reports, reads, writes, raises \in BOOLEAN :
        /\ outage => rows = {}
        /\ Telemetry(outage)
        /\ faults' = faults + (IF reads /\ writes /\ ~raises THEN 0 ELSE 1)
        /\ faults' <= MaxFaults
        /\ \E detected \in SUBSET Detectable(rows) : Evaluate(rows, detected, reads, writes, raises)
  BY Zenon DEF EvaluateStep
<1>3. PICK detected \in SUBSET Detectable(rows) : Evaluate(rows, detected, reads, writes, raises)
  BY <1>2
<1> DEFINE found == {x \in ScopesOf(rows) \X Families : x[2] \in FindingsOf(x[1], detected, reads)}
           hot == {KeyOf(x[1], x[2]) : x \in found}
           status == Sustain(prior, hot, rows, started)
           blind == {k \in DOMAIN status : Insufficient(k, rows)}
           e == [at |-> Bucket(started), hot |-> hot, blind |-> blind]
<1>4. /\ prior' = status /\ (inputs' = {} \/ inputs' = GateInputs(found, status))
      /\ history' = Append(history, e)
  BY <1>3, Zenon DEF Evaluate
<1>5. /\ DOMAIN status = DOMAIN prior \cup hot
      /\ \A k \in DOMAIN status :
           LET streak == NextStreak(IF k \in DOMAIN prior THEN prior[k] ELSE None, k \in hot,
                                    Insufficient(k, rows), started)
           IN  status[k] = [streak |-> streak, at |-> started,
                            sustained |-> streak >= RequiredBuckets /\ ~Insufficient(k, rows)]
  BY DEF Sustain
<1>6. ASSUME NEW y \in found PROVE KeyOf(y[1], y[2]) \in hot
  BY <1>6
<1>7. e.at = Bucket(started) /\ e.hot = hot /\ e.blind = blind
  OBVIOUS
<1>8. blind \subseteq DOMAIN status /\ \A k \in DOMAIN status : k \in blind <=> Insufficient(k, rows)
  OBVIOUS
<1> HIDE DEF found, hot, status, blind, e
<1>9. PICK E : history \in Seq(E)
  BY DEF StreakInv, StreaksTrue
<1>10. PICK n : n = Len(history) /\ n \in Nat
  BY <1>9
<1>11. /\ history' \in Seq(E \cup {e}) /\ Len(history') = n + 1 /\ history'[n + 1] = e
       /\ \A i \in 1..n : history'[i] = history[i]
  BY <1>4, <1>9, <1>10
<1>12. ASSUME NEW k \in DOMAIN status
       PROVE  /\ status[k] \in WindowState /\ status[k].at = started
              /\ \E s : Longest(history', k, s) /\ status[k].streak = Count(history', k, s)
              /\ status[k].sustained <=> status[k].streak >= RequiredBuckets /\ k \notin e.blind
  <2>1. PICK streak :
          /\ streak = NextStreak(IF k \in DOMAIN prior THEN prior[k] ELSE None, k \in hot,
                                 Insufficient(k, rows), started)
          /\ status[k] = [streak |-> streak, at |-> started,
                          sustained |-> streak >= RequiredBuckets /\ ~Insufficient(k, rows)]
    BY <1>5
  <2>2. PICK insufficient \in BOOLEAN : insufficient <=> Insufficient(k, rows)
    BY Zenon
  <2>3. /\ streak = NextStreak(IF k \in DOMAIN prior THEN prior[k] ELSE None, k \in e.hot,
                               insufficient, started)
        /\ k \in e.blind <=> insufficient
        /\ k \in e.hot \/ k \in DOMAIN prior
    BY <1>5, <1>7, <1>8, <2>1, <2>2 DEF NextStreak
  <2>4. \E s : Longest(history', k, s) /\ streak = Count(history', k, s)
    BY <1>1, <1>4, <1>7, <2>3, StreakAdvances
  <2>5. streak \in Nat
    <3>1. PICK s : Longest(history', k, s) /\ streak = Count(history', k, s)
      BY <2>4
    <3>2. s \in 1..(Len(history') + 1)
      BY <3>1 DEF Longest
    <3>3. Len(history') \in Nat /\ Count(history', k, s) \in 0..Len(history')
      BY <1>10, <1>11, <3>2, SightingsFinite DEF Count
    <3> QED
      BY <3>1, <3>3
  <2>6. PICK b \in BOOLEAN : b = (streak >= RequiredBuckets /\ ~Insufficient(k, rows))
    BY Zenon
  <2>7. status[k] = [streak |-> streak, at |-> started, sustained |-> b]
    BY <2>1, <2>6
  <2>8. /\ status[k] \in WindowState /\ status[k].streak = streak /\ status[k].at = started
        /\ status[k].sustained = b
    BY <1>1, <2>5, <2>7 DEF WindowState
  <2>9. status[k].sustained <=> status[k].streak >= RequiredBuckets /\ k \notin e.blind
    BY <2>2, <2>3, <2>6, <2>8, Zenon
  <2> QED
    BY <2>4, <2>8, <2>9
<1>13. prior' \in [DOMAIN prior' -> WindowState]
  <2>1. status = [k \in DOMAIN status |-> status[k]]
    BY DEF status, Sustain
  <2> QED
    BY <1>4, <1>12, <2>1
<1>14. ASSUME NEW i \in 1..Len(history')
       PROVE  history'[i].hot \cup history'[i].blind \subseteq DOMAIN prior'
  <2>1. CASE i = n + 1
    <3>1. history'[i] = e /\ hot \subseteq DOMAIN status
      BY <1>5, <1>11, <2>1
    <3> QED
      BY <1>4, <1>7, <1>8, <3>1
  <2>2. CASE i # n + 1
    <3>1. i \in 1..n
      BY <1>10, <1>11, <2>2
    <3>2. history[i].hot \cup history[i].blind \subseteq DOMAIN prior
      BY <1>10, <3>1 DEF StreakInv, StreaksTrue
    <3> QED
      BY <1>4, <1>5, <1>11, <3>1, <3>2
  <2> QED
    BY <2>1, <2>2
<1>15. ASSUME NEW k \in DOMAIN prior'
       PROVE  /\ Len(history') > 0 /\ prior'[k].at <= now'
              /\ Bucket(prior'[k].at) = history'[Len(history')].at
              /\ \E s : Longest(history', k, s) /\ prior'[k].streak = Count(history', k, s)
              /\ prior'[k].sustained <=>
                    prior'[k].streak >= RequiredBuckets /\ k \notin history'[Len(history')].blind
  <2>1. Len(history') > 0 /\ history'[Len(history')] = e /\ started <= now'
    BY <1>1, <1>10, <1>11
  <2> QED
    BY <1>4, <1>7, <1>12, <2>1
<1>16. ASSUME NEW x \in inputs'
       PROVE  LET k == KeyOf(x.scope, x.family)
              IN  /\ k \in DOMAIN prior' /\ k \in history'[Len(history')].hot
                  /\ x.sustained = prior'[k].sustained
  <2>1. PICK y \in found : /\ x.scope = y[1] /\ x.family = y[2]
                           /\ x.sustained = status[KeyOf(y[1], y[2])].sustained
    BY <1>4, InputsCarryStatus
  <2> QED
    BY <1>4, <1>5, <1>6, <1>7, <1>11, <2>1
<1> QED
  BY <1>11, <1>13, <1>14, <1>15, <1>16 DEF StreaksTrue, Bucket

LEMMA StreakStep == StreakInv /\ [Next]_vars => StreakInv'
<1> SUFFICES ASSUME StreakInv, [Next]_vars PROVE StreakInv'
  OBVIOUS
<1>1. StartedSound'
  BY StartedStep DEF StreakInv
<1>2. now \in Nat /\ now' \in Nat /\ now <= now'
  <2>1. now \in Nat /\ Horizon \in Nat
    BY IntakeAssumption DEF StreakInv, StartedSound
  <2>2. now' = now \/ now' = now + 1
    BY DEF Next, Tick, Edit, Start, Begin, ReadText, StatText, EvaluateStep, FailStep, Crash, vars
  <2> QED
    BY <2>1, <2>2
<1>3. CASE EvaluateStep
  BY <1>1, <1>3, EvaluateStreaks DEF StreakInv
<1>4. CASE Start \/ Crash
  <2>1. prior' = Empty /\ inputs' = {} /\ history' = <<>>
    BY <1>4 DEF Start, Crash, Fresh
  <2>2. DOMAIN prior' = {} /\ prior' \in [DOMAIN prior' -> WindowState]
    BY <2>1 DEF Empty
  <2>3. history' \in Seq({}) /\ Len(history') = 0
    BY <2>1
  <2> QED
    BY <1>1, <2>1, <2>2, <2>3 DEF StreakInv, StreaksTrue
<1>5. CASE Tick \/ Edit \/ Begin \/ ReadText \/ StatText \/ FailStep \/ UNCHANGED vars
  <2>1. UNCHANGED <<prior, history>> /\ (inputs' = {} \/ inputs' = inputs)
    BY <1>5 DEF Tick, Edit, Begin, ReadText, StatText, FailStep, Abandon, vars, memory
  <2>2. \A k \in DOMAIN prior : prior[k].at <= now'
    <3> SUFFICES ASSUME NEW k \in DOMAIN prior PROVE prior[k].at <= now'
      OBVIOUS
    <3>1. prior[k].at <= now /\ prior[k] \in WindowState
      BY DEF StreakInv, StreaksTrue
    <3>2. prior[k].at \in Nat
      BY <3>1, IntakeAssumption DEF WindowState
    <3> QED
      BY <1>2, <3>1, <3>2
  <2>3. StreaksTrue'
    BY <2>1, <2>2 DEF StreakInv, StreaksTrue
  <2> QED
    BY <1>1, <2>3 DEF StreakInv
<1> QED
  BY <1>3, <1>4, <1>5 DEF Next

LEMMA StreakAlways == Spec => []StreakInv
<1>1. ASSUME Init PROVE StreakInv
  <2>1. /\ now = 0 /\ started = None /\ pc = "down" /\ prior = Empty /\ inputs = {}
        /\ history = <<>>
    BY <1>1 DEF Init
  <2>2. StartedSound
    BY <2>1, IntakeAssumption DEF StartedSound
  <2>3. DOMAIN prior = {} /\ prior \in [DOMAIN prior -> WindowState]
    BY <2>1 DEF Empty
  <2>4. history \in Seq({}) /\ Len(history) = 0
    BY <2>1
  <2> QED
    BY <2>1, <2>2, <2>3, <2>4 DEF StreakInv, StreaksTrue
<1> QED
  BY <1>1, StreakStep, PTL DEF Spec

(* compute_sustained_status_by_key, fed with its own state of the cycle before, calls an   *)
(* anomaly sustained exactly when the evaluations since the start of the process say so,   *)
(* whatever the number of buckets required and however cycles are late, fail, lack         *)
(* evidence or are lost to a restart.                                                      *)
THEOREM SustainedAsObservedHolds == Spec => []SustainedAsObserved
  BY StreakAlways, StreaksObserved, PTL

-----------------------------------------------------------------------------
(* Routing. *)

\* What the gate inputs are made of.
InputType ==
    [scope: Observed, family: Families, sustained: BOOLEAN, owner: Keys \cup {None}]

Routed ==
    /\ snapshot = None => inputs = {}
    /\ pc = "asleep" => \A x \in inputs : x.owner \in Elements(Contents[snapshot.text].directory)

RoutingInv == RegistryInv /\ Routed

LEMMA AcceptedFacts ==
    ASSUME NEW t \in Accepted
    PROVE  /\ t \in Texts /\ Contents[t] \in RegistryText /\ Valid(Contents[t])
           /\ \A s \in Scope : Resolution[t][s] = Resolve(Canonical(Contents[t]), s)
<1>1. t \in Texts /\ Valid(Contents[t])
  BY DEF Accepted
<1>2. Contents[t] \in RegistryText
  BY <1>1, IntakeAssumption
<1>3. Loaded[t] = Canonical(Contents[t])
  BY <1>1 DEF Loaded
<1>4. Resolution[t] = [s \in Scope |-> Resolve(Loaded[t], s)]
  BY DEF Resolution
<1> QED
  BY <1>1, <1>2, <1>3, <1>4

(* Every gate input has an owner that its file lists: where only the context of the topic  *)
(* was looked for, the group's own was there.                                              *)
LEMMA InputsRouted ==
    ASSUME NEW rows \in Reports, NEW found, found \subseteq ScopesOf(rows) \X Families,
           NEW status, snapshot.text \in Accepted, NEW x \in GateInputs(found, status)
    PROVE  /\ x.owner \in Elements(Contents[snapshot.text].directory) /\ x.owner \in Keys
           /\ \E y \in found : \E o : x = [scope |-> y[1], family |-> y[2],
                sustained |-> status[KeyOf(y[1], y[2])].sustained, owner |-> o]
<1> DEFINE scopes == {z[1] : z \in found}
           contexts == ContextOf(scopes)
<1>1. PICK y, o :
        /\ y \in found
        /\ HasContext(y[1], contexts)
        /\ o = IF y[1] \in contexts THEN Resolution[snapshot.text][y[1]].owner ELSE None
        /\ x = [scope |-> y[1], family |-> y[2],
                sustained |-> status[KeyOf(y[1], y[2])].sustained, owner |-> o]
  BY DEF GateInputs
<1>2. scopes \subseteq Scope /\ y[1] \in scopes
  <2>1. ScopesOf(rows) \subseteq Scope
    BY IntakeAssumption DEF ScopesOf
  <2> QED
    BY <1>1, <2>1
<1>3. PICK text : text = Contents[snapshot.text]
  OBVIOUS
<1>4. /\ text \in RegistryText /\ Valid(text)
      /\ \A s \in Scope : Resolution[snapshot.text][s] = Resolve(Canonical(text), s)
  BY <1>3, AcceptedFacts
<1>5. \A s : s \in contexts <=> s \in scopes /\ Resolve(Canonical(text), s).status = "resolved"
  BY <1>2, <1>4 DEF ContextOf
<1>6. y[1] \in contexts
  <2>1. CASE [y[1] EXCEPT !.group = None] \in contexts
    BY <1>2, <1>4, <1>5, <2>1, GroupFollowsTopic
  <2> QED
    BY <1>1, <2>1 DEF HasContext
<1>7. o = Resolve(Canonical(text), y[1]).owner
  BY <1>1, <1>2, <1>4, <1>6
<1>8. o \in Elements(text.directory) /\ o \in Keys
  BY <1>2, <1>4, <1>5, <1>6, <1>7, ResolvedOwnerListed
<1>9. x.owner = o
  BY <1>1
<1> QED
  BY <1>1, <1>3, <1>8, <1>9

LEMMA RoutingStep == RoutingInv /\ [Next]_vars => RoutingInv'
<1> SUFFICES ASSUME RoutingInv, [Next]_vars PROVE RoutingInv'
  OBVIOUS
<1>1. RegistryInv'
  BY RegistryStep DEF RoutingInv
<1>2. CASE EvaluateStep
  <2>1. /\ pc = "evidence" /\ UNCHANGED snapshot /\ snapshot # None
        /\ snapshot.text \in Accepted
    BY <1>2 DEF EvaluateStep, RoutingInv, RegistryInv, LoaderTypes, RegistryFollowsFile
  <2>2. PICK outage \in BOOLEAN, rows \in Reports, reads, writes, raises \in BOOLEAN :
          /\ outage => rows = {}
          /\ Telemetry(outage)
          /\ faults' = faults + (IF reads /\ writes /\ ~raises THEN 0 ELSE 1)
          /\ faults' <= MaxFaults
          /\ \E detected \in SUBSET Detectable(rows) : Evaluate(rows, detected, reads, writes, raises)
    BY <1>2, Zenon DEF EvaluateStep
  <2>3. PICK found, status : /\ found \subseteq ScopesOf(rows) \X Families
                             /\ inputs' = {} \/ inputs' = GateInputs(found, status)
    <3>1. PICK detected : Evaluate(rows, detected, reads, writes, raises)
      BY <2>2
    <3> DEFINE found == {x \in ScopesOf(rows) \X Families :
                            x[2] \in FindingsOf(x[1], detected, reads)}
               hot == {KeyOf(x[1], x[2]) : x \in found}
               status == Sustain(prior, hot, rows, started)
    <3>2. (inputs' = {} \/ inputs' = GateInputs(found, status)) /\ found \subseteq ScopesOf(rows) \X Families
      BY <3>1, Zenon DEF Evaluate
    <3> HIDE DEF found, status
    <3> QED
      BY <3>2
  <2>4. \A x \in inputs' : x.owner \in Elements(Contents[snapshot.text].directory)
    BY <2>1, <2>3, InputsRouted
  <2> QED
    BY <1>1, <2>1, <2>4 DEF RoutingInv, Routed
<1>3. CASE Start \/ Crash
  BY <1>1, <1>3 DEF Start, Crash, Fresh, RoutingInv, Routed
<1>4. CASE Begin
  BY <1>1, <1>4 DEF Begin, Abandon, RoutingInv, Routed
<1>5. CASE ReadText
  BY <1>1, <1>5 DEF ReadText, Abandon, RoutingInv, Routed
<1>6. CASE StatText
  <2>1. CASE snapshot = None
    <3>1. inputs' = {}
      BY <1>6, <2>1 DEF StatText, Abandon, RoutingInv, Routed
    <3> QED
      BY <1>1, <3>1 DEF RoutingInv, Routed
  <2>2. CASE snapshot # None /\ disk.text # Gone
    <3>1. pc' = "evidence" /\ snapshot' # None
      <4>1. pc' = "evidence"
        BY <1>6, <2>2 DEF StatText, Abandon
      <4> QED
        BY <1>1, <4>1 DEF RegistryInv, LoaderTypes, RegistryFollowsFile
    <3> QED
      BY <1>1, <3>1 DEF RoutingInv, Routed
  <2>3. CASE snapshot # None /\ disk.text = Gone
    <3>1. inputs' = {}
      BY <1>6, <2>3 DEF StatText, Abandon
    <3> QED
      BY <1>1, <3>1 DEF RoutingInv, Routed
  <2> QED
    BY <2>1, <2>2, <2>3
<1>7. CASE Tick \/ UNCHANGED vars
  <2>1. UNCHANGED <<pc, snapshot, inputs>>
    BY <1>7 DEF Tick, vars, memory
  <2> QED
    BY <1>1, <2>1 DEF RoutingInv, Routed
<1>8. CASE Edit
  <2>1. /\ UNCHANGED <<pc, inputs>>
        /\ snapshot' = IF snapshot # None /\ disk'.mtime = snapshot.mtime
                       THEN [snapshot EXCEPT !.torn = TRUE] ELSE snapshot
    BY <1>8 DEF Edit
  <2>2. snapshot # None => snapshot'.text = snapshot.text
    BY <2>1 DEF RoutingInv, RegistryInv, LoaderTypes, Snapshot
  <2>3. snapshot' = None => snapshot = None
    BY <2>1, NoneApart DEF RoutingInv, RegistryInv, LoaderTypes, Snapshot
  <2> QED
    BY <1>1, <2>1, <2>2, <2>3 DEF RoutingInv, Routed, RegistryInv, LoaderTypes
<1>9. CASE FailStep
  BY <1>1, <1>9 DEF FailStep, Abandon, RoutingInv, Routed
<1> QED
  BY <1>2, <1>3, <1>4, <1>5, <1>6, <1>7, <1>8, <1>9 DEF Next

LEMMA RoutingAlways == Spec => []RoutingInv
<1>1. Init => RoutingInv
  BY RegistryInit DEF RoutingInv, Routed, Init
<1> QED
  BY <1>1, RoutingStep, PTL DEF Spec

(* However files, edits, failed loads and cycles follow each other, the resolver answers   *)
(* in every cycle as the loaded file says and every gate input goes to a routing key of    *)
(* that file: the fallback of _resolve_context_for_scope to the topic's context never      *)
(* leaves an input without an owner.                                                       *)
THEOREM RoutedAsWrittenHolds == Spec => []RoutedAsWritten
<1>1. RoutingInv => RoutedAsWritten
  <2> SUFFICES ASSUME RoutingInv PROVE RoutedAsWritten
    OBVIOUS
  <2>1. pc = "asleep" => \A x \in inputs : x.owner \in Elements(Contents[snapshot.text].directory)
    BY DEF RoutingInv, Routed
  <2>2. ASSUME pc = "evidence", NEW scope \in Scope
        PROVE  AsWritten(Contents[snapshot.text], scope, Resolution[snapshot.text][scope])
    <3>1. snapshot.text \in Accepted
      BY <2>2 DEF RoutingInv, RegistryInv, LoaderTypes, RegistryFollowsFile
    <3>2. PICK text : text = Contents[snapshot.text]
      OBVIOUS
    <3>3. /\ text \in RegistryText /\ Valid(text)
          /\ Resolution[snapshot.text][scope] = Resolve(Canonical(text), scope)
      BY <3>1, <3>2, AcceptedFacts
    <3>4. AsWritten(text, scope, Resolve(Canonical(text), scope))
      BY <3>3, ResolvedAsWritten
    <3> QED
      BY <3>2, <3>3, <3>4
  <2> QED
    BY <2>1, <2>2 DEF RoutedAsWritten
<1> QED
  BY <1>1, RoutingAlways, PTL

(* Whatever registry a load has read, and however the file is rewritten meanwhile, its     *)
(* compatibility view of any place loads and keeps the topics of that place.               *)
THEOREM CompatViewLoadsHolds == Spec => []CompatViewLoads
<1>1. RoutingInv => CompatViewLoads
  <2> SUFFICES ASSUME RoutingInv, reading # None, NEW p \in Places
               PROVE  CompatLoads(Loaded[reading.text], p)
    BY DEF CompatViewLoads
  <2>1. reading.text \in Accepted
    BY DEF RoutingInv, RegistryInv, LoaderSound
  <2>2. PICK t \in Accepted : t = reading.text
    BY <2>1
  <2>3. t \in Texts /\ Contents[t] \in RegistryText /\ Valid(Contents[t])
    BY AcceptedFacts
  <2>4. CompatLoads(Canonical(Contents[t]), p)
    BY <2>3, CompatViewFaithful
  <2>5. Loaded[t] = Canonical(Contents[t])
    BY <2>3 DEF Loaded
  <2> QED
    BY <2>2, <2>4, <2>5
<1> QED
  BY <1>1, RoutingAlways, PTL

-----------------------------------------------------------------------------
(* Types. *)

CacheTyped ==
    /\ cache.at \in 0..Horizon /\ DOMAIN cache.found \subseteq Observed
    /\ \A s \in DOMAIN cache.found : cache.found[s] \subseteq Families

\* What the invariants above do not say of the types.
RestTyped ==
    /\ CacheTyped
    /\ DOMAIN prior \subseteq SustainedKeys
    /\ prometheus \in {"unreported", "HEALTHY", "UNAVAILABLE"}
    /\ inputs \subseteq InputType
    /\ crashes \in 0..MaxCrashes /\ faults \in 0..MaxFaults

TypesInv == StreakInv /\ RoutingInv /\ RestTyped

LEMMA CacheBucketBounded ==
    ASSUME started \in 0..Horizon
    PROVE  CacheBucket \in 0..Horizon
<1>1. started \in Nat /\ Horizon \in Nat /\ CacheInterval \in Nat /\ CacheInterval > 0
  BY IntakeAssumption
<1>2. started \div CacheInterval \in Nat /\ started \div CacheInterval <= started
  BY <1>1
<1> QED
  BY <1>1, <1>2 DEF CacheBucket

LEMMA RowsObserved ==
    ASSUME NEW rows \in Reports
    PROVE  ScopesOf(rows) \subseteq Observed
  BY DEF ScopesOf, Observed

LEMMA FindingsTyped ==
    ASSUME CacheTyped, NEW s, NEW detected, NEW reads
    PROVE  FindingsOf(s, detected, reads) \subseteq Families
  BY DEF CacheTyped, FindingsOf, Cached

LEMMA RememberTyped ==
    ASSUME CacheTyped, started \in 0..Horizon, NEW rows, ScopesOf(rows) \subseteq Observed,
           NEW detected, NEW reads, cache' = Remember(rows, detected, reads)
    PROVE  CacheTyped'
<1> DEFINE kept == IF cache.at = CacheBucket THEN cache.found ELSE Empty
<1>1. /\ cache'.at = CacheBucket
      /\ cache'.found = [s \in DOMAIN kept \cup ScopesOf(rows) |->
            IF s \in ScopesOf(rows) THEN FindingsOf(s, detected, reads) ELSE kept[s]]
  BY DEF Remember
<1>2. DOMAIN kept \subseteq Observed /\ \A s \in DOMAIN kept : kept[s] \subseteq Families
  BY DEF CacheTyped, Empty
<1> HIDE DEF kept
<1>3. DOMAIN cache'.found \subseteq Observed
  BY <1>1, <1>2
<1>4. \A s \in DOMAIN cache'.found : cache'.found[s] \subseteq Families
  BY <1>1, <1>2, FindingsTyped
<1> QED
  BY <1>1, <1>3, <1>4, CacheBucketBounded DEF CacheTyped

LEMMA EvaluateTyped ==
    ASSUME TypesInv, StreaksTrue', EvaluateStep
    PROVE  RestTyped'
<1>1. started \in 0..Horizon /\ snapshot.text \in Accepted
  <2>1. pc = "evidence"
    BY DEF EvaluateStep
  <2>2. started \in 0..Horizon
    BY <2>1, IntakeAssumption DEF TypesInv, StreakInv, StartedSound
  <2>3. snapshot # None /\ snapshot.text \in Accepted
    BY <2>1 DEF TypesInv, RoutingInv, RegistryInv, LoaderTypes, RegistryFollowsFile
  <2> QED
    BY <2>2, <2>3
<1>2. PICK outage \in BOOLEAN, rows \in Reports, reads, writes, raises \in BOOLEAN :
        /\ outage => rows = {}
        /\ Telemetry(outage)
        /\ faults' = faults + (IF reads /\ writes /\ ~raises THEN 0 ELSE 1)
        /\ faults' <= MaxFaults
        /\ \E detected \in SUBSET Detectable(rows) : Evaluate(rows, detected, reads, writes, raises)
  BY ZenonT(60) DEF EvaluateStep
<1>3. PICK detected : Evaluate(rows, detected, reads, writes, raises)
  BY <1>2
<1> DEFINE found == {x \in ScopesOf(rows) \X Families : x[2] \in FindingsOf(x[1], detected, reads)}
           hot == {KeyOf(x[1], x[2]) : x \in found}
           status == Sustain(prior, hot, rows, started)
<1>4. /\ prior' = status /\ (inputs' = {} \/ inputs' = GateInputs(found, status))
      /\ cache' = IF writes THEN Remember(rows, detected, reads) ELSE cache
  BY <1>3, Zenon DEF Evaluate
<1>5. CacheTyped'
  <2>1. CASE writes
    BY <1>1, <1>4, <2>1, RowsObserved, RememberTyped DEF TypesInv, RestTyped
  <2>2. CASE ~writes
    BY <1>4, <2>2 DEF TypesInv, RestTyped, CacheTyped
  <2> QED
    BY <2>1, <2>2
<1>6. found \subseteq ScopesOf(rows) \X Families
  OBVIOUS
<1>7. hot \subseteq SustainedKeys
  <2>1. ASSUME NEW x \in found PROVE KeyOf(x[1], x[2]) \in SustainedKeys
    BY RowsObserved DEF SustainedKeys
  <2> QED
    BY <2>1
<1>8. DOMAIN status = DOMAIN prior \cup hot
  BY DEF Sustain
<1>9. \A y \in found : KeyOf(y[1], y[2]) \in hot
  OBVIOUS
<1> HIDE DEF found, hot, status
<1>10. DOMAIN prior' \subseteq SustainedKeys
  BY <1>4, <1>7, <1>8 DEF TypesInv, RestTyped
<1>11. prometheus' \in {"unreported", "HEALTHY", "UNAVAILABLE"}
  BY <1>2 DEF Telemetry, TypesInv, RestTyped
<1>12. ASSUME NEW x \in inputs' PROVE x \in InputType
  <2>1. x.owner \in Keys
    BY <1>1, <1>4, <1>6, <1>12, InputsRouted
  <2>2. PICK y, o : y \in found /\ x = [scope |-> y[1], family |-> y[2],
                        sustained |-> status[KeyOf(y[1], y[2])].sustained, owner |-> o]
    BY <1>1, <1>4, <1>6, <1>12, InputsRouted
  <2>3. y[1] \in Observed /\ y[2] \in Families
    BY <1>6, <2>2, RowsObserved
  <2>4. status[KeyOf(y[1], y[2])].sustained \in BOOLEAN
    <3>1. KeyOf(y[1], y[2]) \in DOMAIN prior'
      BY <1>4, <1>8, <1>9, <2>2
    <3>2. prior'[KeyOf(y[1], y[2])] \in WindowState
      BY <3>1 DEF StreaksTrue
    <3> QED
      BY <1>4, <3>2 DEF WindowState
  <2>5. o \in Keys
    BY <2>1, <2>2
  <2> QED
    BY <2>2, <2>3, <2>4, <2>5 DEF InputType
<1>13. crashes' \in 0..MaxCrashes /\ faults' \in 0..MaxFaults
  <2>1. crashes' = crashes
    BY DEF EvaluateStep
  <2> QED
    BY <1>2, <2>1, IntakeAssumption DEF TypesInv, RestTyped
<1> QED
  BY <1>5, <1>10, <1>11, <1>12, <1>13 DEF RestTyped

LEMMA FailTyped ==
    ASSUME TypesInv, FailStep
    PROVE  RestTyped'
<1>1. started \in 0..Horizon
  BY IntakeAssumption DEF FailStep, TypesInv, StreakInv, StartedSound
<1>2. /\ UNCHANGED <<prior, crashes>> /\ inputs' = {} /\ faults' = faults + 1
      /\ faults < MaxFaults
  BY DEF FailStep, Abandon
<1>3. faults' \in 0..MaxFaults
  BY <1>2, IntakeAssumption DEF TypesInv, RestTyped
<1>4. CASE UNCHANGED <<cache, prometheus>>
  BY <1>2, <1>3, <1>4 DEF TypesInv, RestTyped, CacheTyped
<1>5. CASE \E outage \in BOOLEAN, rows \in Reports :
             /\ Telemetry(outage)
             /\ \E done \in SUBSET ScopesOf(rows), detected \in SUBSET Detectable(rows) :
                    cache' = Remember({x \in rows : x.scope \in done}, detected, TRUE)
  <2>1. PICK outage \in BOOLEAN, rows \in Reports :
          /\ Telemetry(outage)
          /\ \E done \in SUBSET ScopesOf(rows), detected \in SUBSET Detectable(rows) :
                 cache' = Remember({x \in rows : x.scope \in done}, detected, TRUE)
    BY <1>5
  <2> PICK done \in SUBSET ScopesOf(rows), detected \in SUBSET Detectable(rows) :
          cache' = Remember({x \in rows : x.scope \in done}, detected, TRUE)
    BY <2>1
  <2>2. ScopesOf({x \in rows : x.scope \in done}) \subseteq Observed
    BY RowsObserved DEF ScopesOf
  <2>3. CacheTyped'
    BY <1>1, <2>1, <2>2, RememberTyped DEF TypesInv, RestTyped
  <2>4. prometheus' \in {"unreported", "HEALTHY", "UNAVAILABLE"}
    BY <2>1 DEF Telemetry, TypesInv, RestTyped
  <2> QED
    BY <1>2, <1>3, <2>3, <2>4 DEF TypesInv, RestTyped
<1> QED
  BY <1>4, <1>5, Zenon DEF FailStep

LEMMA TypesStep == TypesInv /\ [Next]_vars => TypesInv'
<1> SUFFICES ASSUME TypesInv, [Next]_vars PROVE TypesInv'
  OBVIOUS
<1>1. StreakInv' /\ RoutingInv'
  BY StreakStep, RoutingStep DEF TypesInv
<1>2. CASE EvaluateStep
  BY <1>1, <1>2, EvaluateTyped DEF TypesInv, StreakInv
<1>5. CASE FailStep
  BY <1>1, <1>5, FailTyped DEF TypesInv
<1>3. CASE Start \/ Crash
  <2>1. /\ UNCHANGED <<cache, faults>> /\ prior' = Empty /\ prometheus' = "unreported"
        /\ inputs' = {}
    BY <1>3 DEF Start, Crash, Fresh
  <2>2. crashes' \in 0..MaxCrashes
    BY <1>3, IntakeAssumption DEF Start, Crash, TypesInv, RestTyped
  <2>3. DOMAIN prior' = {}
    BY <2>1 DEF Empty
  <2> QED
    BY <1>1, <2>1, <2>2, <2>3 DEF TypesInv, RestTyped, CacheTyped
<1>4. CASE Tick \/ Edit \/ Begin \/ ReadText \/ StatText \/ UNCHANGED vars
  <2>1. /\ UNCHANGED <<cache, prior, prometheus, crashes, faults>>
        /\ inputs' = {} \/ inputs' = inputs
    BY <1>4 DEF Tick, Edit, Begin, ReadText, StatText, Abandon, vars, memory
  <2> QED
    BY <1>1, <2>1 DEF TypesInv, RestTyped, CacheTyped
<1> QED
  BY <1>2, <1>3, <1>4, <1>5 DEF Next

(* The streak of a key and the number of missed intervals are bounded by what happened. *)
LEMMA TypesBounded ==
    ASSUME TypesInv, CadenceInv, OutageInv
    PROVE  TypeOK
<1>1. Horizon \in Nat /\ MaxEdits \in Nat
  BY IntakeAssumption
<1>2. now \in 0..Horizon /\ started \in (0..Horizon) \cup {None}
  <2>1. now \in 0..Horizon /\ started \in (0..now) \cup {None}
    BY DEF TypesInv, StreakInv, StartedSound
  <2> QED
    BY <1>1, <2>1
<1>3. boundary \in 0..Horizon \cup {None}
  <2>1. boundary = None \/ boundary \in 0..now
    BY DEF CadenceInv
  <2> QED
    BY <1>1, <1>2, <2>1
<1>4. missed \in 0..Horizon
  <2>1. Gaps \in SUBSET (1..Horizon)
    <3>1. ASSUME NEW b \in Gaps PROVE b \in 1..Horizon
      <4>1. PICK first \in cycles : first < b
        BY DEF Gaps
      <4>2. first \in 0..now /\ b \in 0..Horizon
        BY DEF CadenceInv, Gaps
      <4> QED
        BY <1>1, <1>2, <4>1, <4>2
    <3> QED
      BY <3>1
  <2>2. IsFiniteSet(1..Horizon) /\ Cardinality(1..Horizon) = Horizon
    BY <1>1, FS_Interval
  <2>3. IsFiniteSet(Gaps) /\ Cardinality(Gaps) <= Horizon
    BY <2>1, <2>2, FS_Subset
  <2>4. Cardinality(Gaps) \in Nat
    BY <2>3, FS_CardinalityType
  <2> QED
    BY <1>1, <2>3, <2>4 DEF CadenceInv
<1>5. /\ disk \in [text: OnDisk, mtime: 0..MaxEdits]
      /\ pc \in {"down", "asleep", "read", "stat", "evidence"}
      /\ snapshot \in Snapshot \cup {None} /\ reading \in Load \cup {None}
      /\ (pc = "stat") <=> (reading # None)
      /\ pc \in {"asleep", "evidence"} => snapshot # None
      /\ edits \in 0..MaxEdits
  BY DEF TypesInv, RoutingInv, RegistryInv, LoaderTypes
<1>6. ASSUME NEW k \in DOMAIN prior PROVE prior[k].streak \in 0..Len(history) /\ prior[k].at <= now
  <2>1. PICK E : history \in Seq(E)
    BY DEF TypesInv, StreakInv, StreaksTrue
  <2>2. PICK s : Longest(history, k, s) /\ prior[k].streak = Count(history, k, s)
    BY DEF TypesInv, StreakInv, StreaksTrue
  <2>3. s \in 1..(Len(history) + 1)
    BY <2>2 DEF Longest
  <2>4. Count(history, k, s) \in 0..Len(history)
    BY <2>1, <2>3, SightingsFinite DEF Count
  <2> QED
    BY <2>2, <2>4 DEF TypesInv, StreakInv, StreaksTrue
<1>7. outages \in 0..Len(outcomes)
  BY DEF OutageInv, StreakSound
<1> QED
  BY <1>2, <1>3, <1>4, <1>5, <1>6, <1>7 DEF TypeOK, TypesInv, RestTyped, CacheTyped, InputType

(* Type correctness; with it, no streak is longer than the history of the process and no   *)
(* more intervals are counted as missed than the clock has had.                            *)
THEOREM TypeOKHolds == Spec => []TypeOK
<1>1. ASSUME Init, StreakInv, RoutingInv PROVE TypesInv
  <2>1. /\ cache = [at |-> 0, found |-> Empty] /\ prior = Empty /\ prometheus = "unreported"
        /\ inputs = {} /\ crashes = 0 /\ faults = 0
    BY <1>1 DEF Init
  <2>2. CacheTyped
    BY <2>1, IntakeAssumption DEF CacheTyped, Empty
  <2>3. DOMAIN prior = {}
    BY <2>1 DEF Empty
  <2> QED
    BY <1>1, <2>1, <2>2, <2>3, IntakeAssumption DEF TypesInv, RestTyped
<1>2. Init => OutageInv
  BY NothingEvaluated DEF Init
<1>3. TypesInv /\ CadenceInv /\ OutageInv => TypeOK
  BY TypesBounded
<1> QED
  BY <1>1, <1>2, <1>3, TypesStep, OutageStep, StreakAlways, RoutingAlways, CadenceAlways, PTL DEF Spec

-----------------------------------------------------------------------------
(* The peak profile. *)

\* The order in which a stable sort leaves the positions of a history.
Before(h, j, i) == h[j] < h[i] \/ (h[j] = h[i] /\ j <= i)
UpTo(h, i) == {j \in DOMAIN h : Before(h, j, i)}

\* A history arranged in order.
InOrder(h, n, p, s) ==
    /\ p \in Bijection(1..n, 1..n) /\ s \in [1..n -> Int]
    /\ \A k \in 1..n : s[k] = h[p[k]]
    /\ \A k, l \in 1..n : k <= l => s[k] <= s[l]

LEMMA UpToFacts ==
    ASSUME NEW n \in Nat, NEW h \in [1..n -> Int]
    PROVE  /\ \A i \in 1..n : Cardinality(UpTo(h, i)) \in 1..n
           /\ \A i, j \in 1..n : i # j /\ Before(h, i, j) =>
                Cardinality(UpTo(h, i)) < Cardinality(UpTo(h, j))
<1>1. DOMAIN h = 1..n /\ IsFiniteSet(1..n) /\ Cardinality(1..n) = n
  <2>1. 1 \in Int /\ n \in Int /\ (1 > n => n = 0) /\ n - 1 + 1 = n
    OBVIOUS
  <2> QED
    BY <2>1, FS_Interval
<1>2. ASSUME NEW i \in 1..n
      PROVE  /\ IsFiniteSet(UpTo(h, i)) /\ Cardinality(UpTo(h, i)) \in Nat
             /\ Cardinality(UpTo(h, i)) <= n /\ Cardinality(UpTo(h, i)) # 0
  <2>1. UpTo(h, i) \in SUBSET (1..n) /\ i \in UpTo(h, i)
    BY <1>1 DEF UpTo, Before
  <2>2. IsFiniteSet(UpTo(h, i)) /\ Cardinality(UpTo(h, i)) <= n
    BY <1>1, <2>1, FS_Subset
  <2>3. Cardinality(UpTo(h, i)) # 0
    BY <2>1, <2>2, FS_EmptySet
  <2>4. Cardinality(UpTo(h, i)) \in Nat
    BY <2>2, FS_CardinalityType
  <2> QED
    BY <2>2, <2>3, <2>4
<1>3. ASSUME NEW i \in 1..n, NEW j \in 1..n, i # j, Before(h, i, j)
      PROVE  Cardinality(UpTo(h, i)) < Cardinality(UpTo(h, j))
  <2>1. \A k \in 1..n : h[k] \in Int /\ k \in Int
    OBVIOUS
  <2>2. \A k \in 1..n : Before(h, k, i) => Before(h, k, j)
    BY <1>3, <2>1 DEF Before
  <2>3. ~Before(h, j, i) /\ Before(h, j, j)
    BY <1>3, <2>1 DEF Before
  <2>4. UpTo(h, i) \in SUBSET UpTo(h, j) /\ UpTo(h, i) # UpTo(h, j)
    BY <1>1, <2>2, <2>3, Zenon DEF UpTo
  <2>5. /\ Cardinality(UpTo(h, i)) <= Cardinality(UpTo(h, j))
        /\ Cardinality(UpTo(h, i)) # Cardinality(UpTo(h, j))
    BY <1>2, <2>4, FS_Subset
  <2> QED
    BY <1>2, <2>5
<1>4. ASSUME NEW i \in 1..n PROVE Cardinality(UpTo(h, i)) \in 1..n
  <2>1. PICK r \in Nat : r = Cardinality(UpTo(h, i))
    BY <1>2
  <2>2. r <= n /\ r # 0
    BY <1>2, <2>1
  <2> QED
    BY <2>1, <2>2
<1> QED
  BY <1>3, <1>4

(* Every history can be sorted: its positions by their rank. *)
LEMMA Sortable ==
    ASSUME NEW n \in Nat, NEW h \in [1..n -> Int]
    PROVE  \E p, s : InOrder(h, n, p, s)
<1> DEFINE r == [i \in 1..n |-> Cardinality(UpTo(h, i))]
<1>1. r \in [1..n -> 1..n]
  BY UpToFacts
<1>2. ASSUME NEW i \in 1..n, NEW j \in 1..n PROVE Before(h, i, j) \/ Before(h, j, i)
  BY DEF Before
<1>3. \A i, j \in 1..n : i # j /\ Before(h, i, j) => r[i] < r[j]
  BY UpToFacts
<1> HIDE DEF r
<1>4. \A i, j \in 1..n : r[i] = r[j] => i = j
  <2> SUFFICES ASSUME NEW i \in 1..n, NEW j \in 1..n, r[i] = r[j], i # j PROVE FALSE
    OBVIOUS
  <2>1. r[i] \in Int /\ r[j] \in Int
    BY <1>1
  <2> QED
    BY <1>2, <1>3, <2>1
<1>5. r \in Injection(1..n, 1..n)
  BY <1>1, <1>4 DEF Injection, IsInjective
<1>6. IsFiniteSet(1..n)
  BY FS_Interval
<1>7. r \in Surjection(1..n, 1..n)
  BY <1>5, <1>6, FS_Injection
<1> DEFINE p == [k \in 1..n |-> CHOOSE i \in 1..n : r[i] = k]
           s == [k \in 1..n |-> h[p[k]]]
<1>8. ASSUME NEW k \in 1..n PROVE p[k] \in 1..n /\ r[p[k]] = k
  <2>1. \E i \in 1..n : r[i] = k
    BY <1>7 DEF Surjection
  <2> QED
    BY <2>1
<1>9. p \in [1..n -> 1..n]
  BY <1>8
<1>10. \A k \in 1..n : s[k] = h[p[k]]
  OBVIOUS
<1>11. s \in [1..n -> Int]
  BY <1>9
<1> HIDE DEF p, s
<1>12. p \in Bijection(1..n, 1..n)
  <2>1. \A k, l \in 1..n : p[k] = p[l] => k = l
    BY <1>8
  <2>2. ASSUME NEW i \in 1..n PROVE \E k \in 1..n : p[k] = i
    <3>1. r[i] \in 1..n
      BY <1>1
    <3>2. p[r[i]] = i
      BY <1>4, <1>8, <3>1
    <3> QED
      BY <3>1, <3>2
  <2> QED
    BY <1>9, <2>1, <2>2 DEF Bijection, Injection, Surjection, IsInjective
<1>13. ASSUME NEW k \in 1..n, NEW l \in 1..n, k <= l PROVE s[k] <= s[l]
  <2>1. p[k] \in 1..n /\ p[l] \in 1..n /\ r[p[k]] = k /\ r[p[l]] = l
    BY <1>8
  <2>2. Before(h, p[k], p[l])
    <3>1. SUFFICES ASSUME ~Before(h, p[k], p[l]) PROVE FALSE
      OBVIOUS
    <3>2. Before(h, p[l], p[k])
      BY <1>2, <2>1, <3>1
    <3>3. p[k] # p[l]
      BY <3>1, <3>2
    <3>4. r[p[l]] < r[p[k]]
      BY <1>3, <2>1, <3>2, <3>3
    <3> QED
      BY <1>13, <2>1, <3>4
  <2>3. h[p[k]] <= h[p[l]]
    <3>1. h[p[k]] \in Int /\ h[p[l]] \in Int
      BY <2>1
    <3> QED
      BY <2>2, <3>1 DEF Before
  <2> QED
    BY <1>10, <2>3
<1>14. InOrder(h, n, p, s)
  BY <1>10, <1>11, <1>12, <1>13 DEF InOrder
<1> QED
  BY <1>14

LEMMA SortedInOrder ==
    ASSUME NEW n \in Nat, NEW h \in [1..n -> Int]
    PROVE  \E p : InOrder(h, n, p, Sorted(h))
<1> DEFINE all == {[i \in DOMAIN h |-> h[p[i]]] : p \in Arrangements(h)}
<1>1. DOMAIN h = 1..n
  OBVIOUS
<1>2. \E s \in all : \A i, j \in DOMAIN h : i <= j => s[i] <= s[j]
  <2>1. PICK p, s : InOrder(h, n, p, s)
    BY Sortable
  <2>2. p \in Arrangements(h)
    BY <1>1, <2>1 DEF InOrder, Bijection, Injection, IsInjective, Arrangements
  <2>3. s = [i \in DOMAIN h |-> h[p[i]]]
    BY <1>1, <2>1 DEF InOrder
  <2> QED
    BY <1>1, <2>1, <2>2, <2>3 DEF InOrder
<1>3. Sorted(h) \in all /\ \A i, j \in DOMAIN h : i <= j => Sorted(h)[i] <= Sorted(h)[j]
  BY <1>2 DEF Sorted
<1>4. PICK p \in Arrangements(h) : Sorted(h) = [i \in DOMAIN h |-> h[p[i]]]
  BY <1>3
<1>5. p \in Injection(1..n, 1..n)
  BY <1>1, <1>4 DEF Arrangements, Injection, IsInjective
<1>6. IsFiniteSet(1..n)
  BY FS_Interval
<1>7. p \in Surjection(1..n, 1..n)
  BY <1>5, <1>6, FS_Injection
<1>8. p \in Bijection(1..n, 1..n) /\ p \in [1..n -> 1..n]
  BY <1>5, <1>7 DEF Bijection, Injection
<1>9. Sorted(h) \in [1..n -> Int] /\ \A k \in 1..n : Sorted(h)[k] = h[p[k]]
  BY <1>1, <1>4, <1>8
<1> QED
  BY <1>1, <1>3, <1>8, <1>9 DEF InOrder

(* A value is at least the k-th lowest exactly when it reaches k of the history. *)
LEMMA ReachesRank ==
    ASSUME NEW n \in Nat, NEW h \in [1..n -> Int], NEW v \in Int, NEW k \in 1..n
    PROVE  /\ IsFiniteSet({i \in 1..n : h[i] <= v})
           /\ Cardinality({i \in 1..n : h[i] <= v}) \in Nat
           /\ v >= Sorted(h)[k] <=> k <= Cardinality({i \in 1..n : h[i] <= v})
<1>1. PICK p, s : InOrder(h, n, p, s) /\ s = Sorted(h)
  BY SortedInOrder
<1> DEFINE N == {i \in 1..n : h[i] <= v}
           M == {l \in 1..n : s[l] <= v}
<1>2. IsFiniteSet(1..n)
  BY FS_Interval
<1>3. IsFiniteSet(N) /\ IsFiniteSet(M)
  <2>1. N \in SUBSET (1..n) /\ M \in SUBSET (1..n)
    OBVIOUS
  <2> QED
    BY <1>2, <2>1, FS_Subset
<1>4. Cardinality(N) \in Nat /\ Cardinality(M) \in Nat
  BY <1>3, FS_CardinalityType
<1>5. Cardinality(M) = Cardinality(N)
  <2> DEFINE q == [l \in M |-> p[l]]
  <2>1. /\ p \in [1..n -> 1..n] /\ \A l \in 1..n : s[l] = h[p[l]]
        /\ \A l, m \in 1..n : p[l] = p[m] => l = m
        /\ \A i \in 1..n : \E l \in 1..n : p[l] = i
    BY <1>1 DEF InOrder, Bijection, Injection, Surjection, IsInjective
  <2>2. q \in [M -> N] /\ \A l, m \in M : q[l] = q[m] => l = m
    BY <2>1
  <2>3. ASSUME NEW i \in N PROVE \E l \in M : q[l] = i
    <3>1. PICK l \in 1..n : p[l] = i
      BY <2>1
    <3>2. l \in M
      BY <2>1, <3>1
    <3> QED
      BY <3>1, <3>2
  <2>4. q \in Bijection(M, N)
    BY <2>2, <2>3 DEF Bijection, Injection, Surjection, IsInjective
  <2>5. ExistsBijection(M, N)
    BY <2>4 DEF ExistsBijection
  <2> QED
    BY <1>3, <2>5, FS_Bijection
<1>6. \A l, m \in 1..n : l <= m => s[l] <= s[m] /\ s[l] \in Int /\ s[m] \in Int
  BY <1>1 DEF InOrder
<1>7. ASSUME k \in M PROVE k <= Cardinality(M)
  <2>1. 1..k \in SUBSET M
    BY <1>6, <1>7
  <2>2. Cardinality(1..k) = k
    BY FS_Interval
  <2> HIDE DEF M
  <2> QED
    BY <1>3, <2>1, <2>2, FS_Subset
<1>8. ASSUME k \notin M PROVE ~(k <= Cardinality(M))
  <2>1. M \in SUBSET (1..(k - 1))
    <3>1. ASSUME NEW l \in M PROVE l \in 1..(k - 1)
      <4>1. s[k] \in Int /\ ~(s[k] <= v)
        BY <1>6, <1>8
      <4>2. l < k
        BY <1>6, <4>1
      <4> QED
        BY <4>2
    <3> QED
      BY <3>1
  <2>2. IsFiniteSet(1..(k - 1)) /\ Cardinality(1..(k - 1)) = k - 1
    <3>1. /\ 1 \in Int /\ k - 1 \in Int
          /\ (IF 1 > k - 1 THEN 0 ELSE (k - 1) - 1 + 1) = k - 1
      OBVIOUS
    <3> QED
      BY <3>1, FS_Interval
  <2> HIDE DEF M
  <2>3. Cardinality(M) <= k - 1
    <3>1. Cardinality(M) <= Cardinality(1..(k - 1))
      BY <2>1, <2>2, FS_Subset
    <3> QED
      BY <2>2, <3>1
  <2> QED
    BY <1>4, <2>3
<1>9. k \in M <=> v >= s[k]
  BY <1>6
<1> HIDE DEF M, N
<1>10. v >= Sorted(h)[k] <=> k <= Cardinality(N)
  BY <1>1, <1>5, <1>7, <1>8, <1>9
<1> QED
  BY <1>3, <1>4, <1>10 DEF N

LEMMA Hundreds ==
    ASSUME NEW x \in Nat
    PROVE  \E q \in Nat, r \in 0..99 : x = 100 * q + r
<1>1. x \div 100 \in Nat /\ 100 * (x \div 100) <= x /\ x < 100 * (x \div 100) + 100
  OBVIOUS
<1>2. PICK q \in Nat : 100 * q <= x /\ x < 100 * q + 100
  BY <1>1
<1>3. x - 100 * q \in 0..99 /\ x = 100 * q + (x - 100 * q)
  BY <1>2
<1> QED
  BY <1>3

(* The threshold of a percentile. *)
LEMMA ReachesPercentile ==
    ASSUME NEW n \in Nat \ {0}, NEW h \in [1..n -> Int], NEW v \in Int, NEW percentile \in 0..100
    PROVE  LET reached == 100 * Cardinality({i \in 1..n : h[i] <= v})
               excess == Excess(percentile, n)
           IN  v >= Sorted(h)[Highest(1, (percentile * n + 99) \div 100 + excess)] <=>
                    reached > 0 /\ reached >= percentile * n + excess
<1>1. PICK x \in Nat : x = percentile * n
  OBVIOUS
<1>2. x <= 100 * n
  BY <1>1
<1>3. PICK e : e = Excess(percentile, n)
  OBVIOUS
<1>4. e = 0 \/ (e = 1 /\ x % 100 = 0 /\ x < 100 * n)
  <2>1. CASE <<percentile, n>> \in RoundsUp
    <3>1. percentile \in 1..99 /\ (percentile * n) % 100 = 0
      <4>1. <<percentile, n>> \in {y \in (1..99) \X (Nat \ {0}) : (y[1] * y[2]) % 100 = 0}
        BY <2>1, PeakAssumption, Zenon
      <4> QED
        BY <4>1
    <3>2. percentile * n < 100 * n
      BY <3>1
    <3> QED
      BY <1>1, <1>3, <2>1, <3>1, <3>2 DEF Excess
  <2>2. CASE <<percentile, n>> \notin RoundsUp
    BY <1>3, <2>2 DEF Excess
  <2> QED
    BY <2>1, <2>2
<1>5. PICK k : k = Highest(1, (x + 99) \div 100 + e)
  OBVIOUS
<1>6. k \in 1..n
  BY <1>2, <1>4, <1>5 DEF Highest
<1>7. PICK c : c = Cardinality({i \in 1..n : h[i] <= v})
  OBVIOUS
<1>8. c \in Nat /\ (v >= Sorted(h)[k] <=> k <= c)
  BY <1>6, <1>7, ReachesRank
<1>9. k <= c <=> 100 * c > 0 /\ 100 * c >= x + e
  <2>1. PICK q \in Nat, r \in 0..99 : x = 100 * q + r
    BY Hundreds
  <2>2. (x + 99) \div 100 = (IF r = 0 THEN q ELSE q + 1)
    BY <2>1
  <2>3. e = 0 \/ (e = 1 /\ r = 0)
    BY <1>4, <2>1
  <2>4. CASE r = 0
    <3>1. k = (IF q + e >= 1 THEN q + e ELSE 1)
      BY <1>5, <2>2, <2>3, <2>4 DEF Highest
    <3>2. CASE e = 0
      BY <1>8, <2>1, <2>4, <3>1, <3>2
    <3>3. CASE e = 1
      BY <1>8, <2>1, <2>4, <3>1, <3>3
    <3> QED
      BY <2>3, <3>2, <3>3
  <2>5. CASE r # 0
    <3>1. e = 0 /\ k = q + 1
      BY <1>5, <2>2, <2>3, <2>5 DEF Highest
    <3> QED
      BY <1>8, <2>1, <2>5, <3>1
  <2> QED
    BY <2>4, <2>5
<1> QED
  BY <1>1, <1>3, <1>5, <1>7, <1>8, <1>9

(* _classify_scope over _build_peak_profile puts a value in the zone that its rank in the  *)
(* history says, however long the history, with ties and at the ends, and whichever        *)
(* products floating point makes too large.                                                *)
THEOREM ClassifiedAsRanked ==
    ASSUME NEW h \in Seq(Int), NEW v \in Int, v # None
    PROVE  Ranked(v, h, Classify(v, h))
<1>1. PICK n \in Nat : n = Len(h) /\ h \in [1..n -> Int] /\ DOMAIN h = 1..n
  OBVIOUS
<1>2. h = <<>> <=> n = 0
  BY <1>1
<1>3. CASE n = 0
  <2>1. Classify(v, h) = "UNKNOWN"
    BY <1>2, <1>3 DEF Classify
  <2>2. {i \in DOMAIN h : h[i] <= v} = {}
    BY <1>1, <1>3
  <2>3. Cardinality({i \in DOMAIN h : h[i] <= v}) = 0
    BY <2>2, FS_EmptySet
  <2> QED
    BY <1>2, <1>3, <2>1, <2>3 DEF Ranked
<1>4. CASE n # 0
  <2>1. PICK reached : reached = 100 * Cardinality({i \in 1..n : h[i] <= v})
    OBVIOUS
  <2> DEFINE reaches(percentile) ==
                reached > 0 /\ reached >= percentile * n + Excess(percentile, n)
  <2>2. PeakPercentile \in 0..100 /\ NearPeakPercentile \in 0..100
    BY PeakAssumption
  <2>3. /\ v >= Profile(h).peak <=> reaches(NearPeakPercentile)
        /\ v >= Profile(h).near <=> reaches(PeakPercentile)
    <3>1. /\ Profile(h).peak = NearestRank(Sorted(h), NearPeakPercentile)
          /\ Profile(h).near = NearestRank(Sorted(h), PeakPercentile)
      BY DEF Profile
    <3>2. PICK p : InOrder(h, n, p, Sorted(h))
      BY <1>1, SortedInOrder
    <3>3. Len(Sorted(h)) = n
      <4>1. PICK f \in [1..n -> Int] : f = Sorted(h)
        BY <3>2 DEF InOrder
      <4>2. f \in Seq(Int)
        OBVIOUS
      <4>3. Len(f) = n
        BY <4>2
      <4> QED
        BY <4>1, <4>3
    <3>4. ASSUME NEW percentile \in 0..100
          PROVE  v >= NearestRank(Sorted(h), percentile) <=> reaches(percentile)
      <4>1. NearestRank(Sorted(h), percentile) =
                Sorted(h)[Highest(1, (percentile * n + 99) \div 100 + Excess(percentile, n))]
        BY <3>3 DEF NearestRank
      <4>2. n \in Nat \ {0} /\ h \in [1..n -> Int]
        BY <1>1, <1>4
      <4>3. v >= Sorted(h)[Highest(1, (percentile * n + 99) \div 100 + Excess(percentile, n))] <=>
              /\ 100 * Cardinality({i \in 1..n : h[i] <= v}) > 0
              /\ 100 * Cardinality({i \in 1..n : h[i] <= v}) >=
                    percentile * n + Excess(percentile, n)
        BY <4>2, ReachesPercentile
      <4> QED
        BY <2>1, <4>1, <4>3
    <3> HIDE DEF reaches
    <3> QED
      BY <2>2, <3>1, <3>4
  <2> HIDE DEF reaches
  <2>4. Classify(v, h) = IF reaches(NearPeakPercentile) THEN "PEAK"
                         ELSE IF reaches(PeakPercentile) THEN "NEAR_PEAK" ELSE "OFF_PEAK"
    BY <1>2, <1>4, <2>3 DEF Classify
  <2>5. /\ Classify(v, h) # "UNKNOWN"
        /\ Classify(v, h) = "PEAK" <=> reaches(NearPeakPercentile)
        /\ Classify(v, h) = "NEAR_PEAK" => reaches(PeakPercentile) /\ ~reaches(NearPeakPercentile)
        /\ Classify(v, h) = "OFF_PEAK" => ~reaches(PeakPercentile)
    BY <2>4
  <2> QED
    BY <1>1, <1>2, <1>4, <2>1, <2>5 DEF Ranked, reaches
<1> QED
  BY <1>3, <1>4

(* The traffic class of a gate input is the one the percentiles of the peak policy define, *)
(* for every history and every value.                                                      *)
THEOREM PeakAsRankedHolds == Spec => []PeakAsRanked
<1>1. ASSUME NEW h \in Histories, NEW v \in Volumes PROVE Ranked(v, h, Classify(v, h))
  <2>1. h \in Seq(Volumes) /\ v \in Int /\ v # None
    BY PeakAssumption
  <2>2. h \in Seq(Int)
    <3>1. \A x \in Volumes : x \in Int
      BY PeakAssumption
    <3>2. PICK n \in Nat : h \in [1..n -> Volumes]
      BY <2>1
    <3>3. h \in [1..n -> Int]
      BY <3>1, <3>2
    <3> QED
      BY <3>3
  <2> QED
    BY <2>1, <2>2, ClassifiedAsRanked
<1>2. PeakAsRanked
  BY <1>1 DEF PeakAsRanked
<1> QED
  BY <1>2, PTL
=============================================================================
