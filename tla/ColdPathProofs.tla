--------------------------- MODULE ColdPathProofs ---------------------------
(***************************************************************************)
(* The safety theorems of the casefile store and the cold path, for any    *)
(* finite sets of cases and diagnosis tasks, any number of stage writers,  *)
(* any page and batch size and any alert window.                           *)
(***************************************************************************)
EXTENDS ColdPath, FiniteSetTheorems, SequenceTheorems, TLAPS

-----------------------------------------------------------------------------
(* The inductive invariant: the store. *)

\* The stored triage or diagnosis has the hash h, unless retention has been at the case.
Knows(c, s, h) == c \in swept \/ (Present(c, s) /\ Stored(c, s).hash = h)

\* A file that may be put for stage s: it is sealed, and what it names is in the store.
Fits(c, s, f) ==
    /\ f \in File
    /\ HasValidHash(f)
    /\ s \in Later => Knows(c, "triage", f.triage)
    /\ f.diagnosis # None => s # "diagnosis" /\ Knows(c, "diagnosis", f.diagnosis)
    /\ s = "triage" => f.hash \in TriageHash

\* A running stage writer has checked what its step says it has.
WriterSound(w) ==
    LET c == writer[w].case
        f == writer[w].file
    IN  /\ c \in Cases /\ writer[w].stage \in Later /\ f \in File
        /\ writer[w].stage = "diagnosis" => f.diagnosis = None
        /\ writer[w].step \in {"diagnosis", "put"} => HasValidHash(f) /\ Knows(c, "triage", f.triage)
        /\ writer[w].step = "put" /\ f.diagnosis # None => Knows(c, "diagnosis", f.diagnosis)
WritersSound == \A w \in Writers : writer[w].step # "idle" => WriterSound(w)

TriagesSealed == \A c \in Cases : Present(c, "triage") => Stored(c, "triage").hash \in TriageHash

\* What the lifecycle run has listed of a live case is still there, and the case's triage
\* file is listed or still to come.
TriageKey(c) == <<c, "triage">>
ListedSound(l) ==
    LET c == l.key[1]
    IN  \/ c \in swept
        \/ /\ Present(c, l.key[2])
           /\ objects[c][l.key[2]].at = l.at
           /\ \/ \E m \in sweep.listed : m.key = TriageKey(c)
              \/ \A m \in sweep.listed : KeyNo(m.key) < KeyNo(TriageKey(c))

\* A case that is to be deleted is expired by its triage file.
Doomed(c) == c \in swept \/ (Present(c, "triage") /\ objects[c]["triage"].at <= Cutoff)

SweepSound ==
    /\ sweep.step = "list" => \A l \in sweep.listed : ListedSound(l)
    /\ sweep.step = "delete" => Approved /\ \A k \in sweep.keys : Doomed(k[1])

\* A spawned or waiting task names the stored triage file.
TasksSound ==
    \A t \in Tasks : task[t].at \in {"spawned", "waiting"} =>
        /\ task[t].case \in Cases
        /\ task[t].triage \in TriageHash
        /\ Knows(task[t].case, "triage", task[t].triage)

StoreInv ==
    /\ FilesTypeOK
    /\ ChainHolds
    /\ ConfirmedIsStored
    /\ WritersSound
    /\ TriagesSealed
    /\ SweepSound
    /\ TasksSound

-----------------------------------------------------------------------------
(* The inductive invariant: the gauge and the alert. *)

\* recent holds the last Window results, or all of them while there are fewer.
RecentIsWindow ==
    /\ Len(recent) = IF Len(results) < Window THEN Len(results) ELSE Window
    /\ \A i \in 1..Len(recent) :
          recent[i] = (results[Len(results) - Len(recent) + i] # "success")

AlertState ==
    /\ RecentIsWindow
    /\ alerted = SeverityAfter(Len(results))
    /\ AlertsAtEdges

ColdTypeOK ==
    /\ mode \in Modes
    /\ task \in [Tasks -> [at: {"unused", "spawned", "waiting"} \cup Done,
                           case: Cases \cup {None}, triage: TriageHash \cup {None}]]
    /\ inflight \in Nat
    /\ health \in {"HEALTHY", "DEGRADED", None}
    /\ recent \in Seq(BOOLEAN) /\ Len(recent) <= Window
    /\ alerted \in Severity \cup {None}
    /\ alerts \subseteq (Nat \X Severity)
    /\ results \in Seq({"success", "fallback", "error"})
    /\ crashes \in 0..MaxCrashes

IInv ==
    /\ StoreInv
    /\ ColdTypeOK
    /\ EveryTaskCounted
    /\ HealthTellsLast
    /\ AlertState

-----------------------------------------------------------------------------
(* Files and hashes are well formed. *)

LEMMA NoneApart ==
    /\ None \notin File /\ None \notin Object /\ None \notin Hash /\ None \notin Body
    /\ None \notin Cases /\ None \notin Stages
  BY CaseFilesAssumption

LEMMA BodyOfStage ==
    ASSUME NEW s \in Stages, NEW body \in Bodies[s]
    PROVE  body \in Body
  BY DEF Body

\* The file of a caller that fills in the hash.
Sealed(body, triage, diagnosis) == Seal(body, triage, diagnosis, TRUE)

LEMMA SealedTyped ==
    ASSUME NEW body \in Body, NEW triage \in TriageHash \cup {None},
           NEW diagnosis \in DiagnosisHash \cup {None}
    PROVE  /\ Sealed(body, triage, diagnosis) \in File
           /\ Sealed(body, triage, diagnosis).triage = triage
           /\ Sealed(body, triage, diagnosis).diagnosis = diagnosis
           /\ Sealed(body, triage, diagnosis).hash = <<body, triage, diagnosis>>
           /\ HasValidHash(Sealed(body, triage, diagnosis))
<1> DEFINE blank == [body |-> body, triage |-> triage, diagnosis |-> diagnosis, hash |-> None]
           h == <<body, triage, diagnosis>>
           f == Sealed(body, triage, diagnosis)
<1>1. h \in Hash
  BY DEF Hash
<1>2. Digest(blank) = h
  BY DEF Digest
<1>3. f = [blank EXCEPT !.hash = h]
  BY <1>2, Zenon DEF Seal, Sealed
<1>4. f.triage = triage /\ f.diagnosis = diagnosis /\ f.hash = h /\ f.body = body
  BY <1>3
<1>5. f \in File
  <2> HIDE DEF h
  <2>1. [blank EXCEPT !.hash = h] \in File
    BY <1>1 DEF File
  <2> QED
    BY <1>3, <2>1, Zenon
<1> HIDE DEF f
<1>6. HasValidHash(f)
  BY <1>4 DEF HasValidHash, Digest
<1> QED
  BY <1>4, <1>5, <1>6 DEF f

LEMMA SealTyped ==
    ASSUME NEW body \in Body, NEW triage \in TriageHash \cup {None},
           NEW diagnosis \in DiagnosisHash \cup {None}, NEW sealed \in BOOLEAN
    PROVE  LET f == Seal(body, triage, diagnosis, sealed)
           IN  f \in File /\ f.triage = triage /\ f.diagnosis = diagnosis
<1> DEFINE blank == [body |-> body, triage |-> triage, diagnosis |-> diagnosis, hash |-> None]
           f == Seal(body, triage, diagnosis, sealed)
<1>1. CASE sealed = TRUE
  <2>1. f = Sealed(body, triage, diagnosis)
    BY <1>1, Zenon DEF Sealed
  <2> HIDE DEF f
  <2>2. f \in File /\ f.triage = triage /\ f.diagnosis = diagnosis
    BY <2>1, SealedTyped
  <2> QED
    BY <2>2, Zenon DEF f
<1>2. CASE sealed = FALSE
  <2>1. f = blank
    BY <1>2, Zenon DEF Seal
  <2>2. blank \in File
    BY DEF File
  <2> QED
    BY <2>1, <2>2
<1> QED
  BY <1>1, <1>2, Zenon

-----------------------------------------------------------------------------
(* Files of a live case stay, so what was once known of them stays known. *)

StoreMove ==
    /\ swept \subseteq swept'
    /\ \A c \in Cases \ swept', s \in Stages : Present(c, s) => objects'[c][s] = objects[c][s]

LEMMA KnowsKept ==
    ASSUME StoreMove, NEW c \in Cases, NEW s \in Stages, NEW h, Knows(c, s, h)
    PROVE  Knows(c, s, h)'
  BY DEF StoreMove, Knows, Present, Stored

LEMMA WriterSoundKept ==
    ASSUME StoreMove, NEW w \in Writers, WriterSound(w), writer'[w] = writer[w]
    PROVE  WriterSound(w)'
<1>1. "triage" \in Stages /\ "diagnosis" \in Stages
  BY DEF Stages
<1> QED
  BY <1>1, KnowsKept DEF WriterSound

LEMMA TasksSoundKept ==
    ASSUME StoreMove, TasksSound, UNCHANGED task
    PROVE  TasksSound'
<1>1. "triage" \in Stages
  BY DEF Stages
<1> QED
  BY <1>1, KnowsKept DEF TasksSound

LEMMA DoomedKept ==
    ASSUME StoreMove, NEW c \in Cases, Doomed(c), UNCHANGED clock
    PROVE  Doomed(c)'
<1>1. "triage" \in Stages
  BY DEF Stages
<1> QED
  BY <1>1 DEF StoreMove, Doomed, Present, Cutoff

(* A lifecycle run that does not move keeps its knowledge. *)
LEMMA SweepSoundKept ==
    ASSUME FilesTypeOK, StoreMove, SweepSound, UNCHANGED <<sweep, clock>>
    PROVE  SweepSound'
<1>1. ASSUME sweep.step = "list", NEW l \in sweep.listed PROVE ListedSound(l)'
  <2>1. l.key[1] \in Cases /\ l.key[2] \in Stages
    BY <1>1 DEF FilesTypeOK, Key
  <2>2. ListedSound(l)
    BY <1>1 DEF SweepSound
  <2>3. CASE l.key[1] \in swept'
    BY <2>3 DEF ListedSound
  <2>4. CASE l.key[1] \notin swept'
    <3>1. objects'[l.key[1]][l.key[2]] = objects[l.key[1]][l.key[2]] /\ l.key[1] \notin swept
          /\ Present(l.key[1], l.key[2])
      BY <2>1, <2>2, <2>4 DEF StoreMove, ListedSound
    <3> QED
      BY <2>2, <3>1 DEF ListedSound, Present
  <2> QED
    BY <2>3, <2>4
<1>2. ASSUME sweep.step = "delete", NEW k \in sweep.keys PROVE Approved /\ Doomed(k[1])'
  <2>1. k[1] \in Cases
    BY <1>2 DEF FilesTypeOK, Key
  <2> QED
    BY <1>2, <2>1, DoomedKept DEF SweepSound
<1>3. sweep'.step = "delete" => Approved
  BY DEF SweepSound
<1> QED
  BY <1>1, <1>2, <1>3 DEF SweepSound

-----------------------------------------------------------------------------
(* persist_casefile_*_write_once *)

\* At most one object is new, and it is the file that was put.
Puts(c, s, f) ==
    \A d \in Cases, r \in Stages :
        \/ objects'[d][r] = objects[d][r]
        \/ /\ d = c /\ r = s /\ ~Present(c, s)
           /\ objects'[d][r] = [file |-> f, at |-> clock]

LEMMA PutEffect ==
    ASSUME FilesTypeOK, NEW c \in Cases, NEW s \in Stages, NEW f \in File, PutIfAbsent(c, s, f)
    PROVE  /\ objects' \in [Cases -> [Stages -> Object \cup {None}]]
           /\ Puts(c, s, f)
           /\ objects'[c][s] = IF Present(c, s) THEN objects[c][s] ELSE [file |-> f, at |-> clock]
<1> DEFINE new == [file |-> f, at |-> clock]
<1>1. new \in Object
  BY CaseFilesAssumption DEF FilesTypeOK, Object
<1> HIDE DEF new
<1>2. objects' = IF Present(c, s) THEN objects ELSE [objects EXCEPT ![c][s] = new]
  BY DEF PutIfAbsent, new
<1>3. objects \in [Cases -> [Stages -> Object \cup {None}]]
  BY DEF FilesTypeOK
<1>4. CASE Present(c, s)
  BY <1>2, <1>3, <1>4 DEF Puts
<1>5. CASE ~Present(c, s)
  <2>1. objects' = [objects EXCEPT ![c][s] = new]
    BY <1>2, <1>5
  <2>2. objects' \in [Cases -> [Stages -> Object \cup {None}]] /\ objects'[c][s] = new
    BY <1>1, <1>3, <2>1
  <2>3. \A d \in Cases, r \in Stages : objects'[d][r] = objects[d][r] \/ (d = c /\ r = s)
    BY <1>3, <2>1
  <2> QED
    BY <1>5, <2>2, <2>3 DEF Puts, new
<1> QED
  BY <1>4, <1>5

LEMMA FaultTyped ==
    ASSUME FilesTypeOK, Fault
    PROVE  faults' \in 0..MaxFaults
  BY CaseFilesAssumption DEF FilesTypeOK, Fault

(* A write, confirmed or raised, of a file that fits. *)
LEMMA WriteEffect ==
    ASSUME FilesTypeOK, ConfirmedIsStored, NEW c \in Cases, NEW s \in Stages, NEW f \in File,
           NEW outcome, PersistWriteOnce(c, s, f, outcome), UNCHANGED swept
    PROVE  /\ objects' \in [Cases -> [Stages -> Object \cup {None}]]
           /\ confirmed' \subseteq Cases \X Stages \X File
           /\ faults' \in 0..MaxFaults
           /\ Puts(c, s, f)
           /\ objects' # objects => HasValidHash(f)
           /\ StoreMove
           /\ ConfirmedIsStored'
<1>1. objects' = objects \/ (PutIfAbsent(c, s, f) /\ HasValidHash(f))
  BY DEF PersistWriteOnce
<1>2. /\ objects' \in [Cases -> [Stages -> Object \cup {None}]] /\ Puts(c, s, f)
      /\ objects' # objects => HasValidHash(f)
  <2>1. CASE objects' = objects
    BY <2>1 DEF FilesTypeOK, Puts
  <2> QED
    BY <1>1, <2>1, PutEffect
<1>3. StoreMove
  BY <1>2 DEF StoreMove, Puts
<1>4. \A d \in Cases, r \in Stages : Present(d, r) => objects'[d][r] = objects[d][r]
  BY <1>2 DEF Puts
<1>5. faults' \in 0..MaxFaults
  BY FaultTyped DEF PersistWriteOnce, FilesTypeOK
<1>6. \/ confirmed' = confirmed
      \/ /\ confirmed' = confirmed \cup {<<c, s, f>>}
         /\ Idempotent(c, s, f) /\ PutIfAbsent(c, s, f)
  BY DEF PersistWriteOnce
<1>7. confirmed' \subseteq Cases \X Stages \X File
  <2>1. <<c, s, f>> \in Cases \X Stages \X File /\ confirmed \subseteq Cases \X Stages \X File
    BY DEF FilesTypeOK
  <2> QED
    BY <1>6, <2>1, Zenon
<1>8. ASSUME NEW x \in confirmed'
      PROVE  objects'[x[1]][x[2]] # None /\ objects'[x[1]][x[2]].file = x[3]
  <2>1. CASE x \in confirmed
    <3>1. x[1] \in Cases /\ x[2] \in Stages
      BY <2>1 DEF FilesTypeOK
    <3> QED
      BY <1>4, <2>1, <3>1 DEF ConfirmedIsStored, Present, Stored
  <2>2. CASE x \notin confirmed
    <3>1. x = <<c, s, f>> /\ Idempotent(c, s, f) /\ PutIfAbsent(c, s, f)
      BY <1>6, <1>8, <2>2
    <3>2. x[1] = c /\ x[2] = s /\ x[3] = f
      BY <3>1
    <3>3. objects'[c][s] = IF Present(c, s) THEN objects[c][s] ELSE [file |-> f, at |-> clock]
      BY <3>1, PutEffect
    <3>4. [file |-> f, at |-> clock] # None /\ [file |-> f, at |-> clock].file = f
      BY NoneApart, CaseFilesAssumption DEF FilesTypeOK, Object
    <3> QED
      BY <3>1, <3>2, <3>3, <3>4 DEF Present, Idempotent
  <2> QED
    BY <2>1, <2>2
<1>9. ConfirmedIsStored'
  BY <1>8 DEF ConfirmedIsStored, Present, Stored
<1> QED
  BY <1>2, <1>3, <1>5, <1>7, <1>9

(* A file that fits extends the chain. *)
LEMMA ChainExtended ==
    ASSUME FilesTypeOK, ChainHolds, TriagesSealed, NEW c \in Cases, NEW s \in Stages, NEW f,
           objects' # objects => Fits(c, s, f), Puts(c, s, f), UNCHANGED swept
    PROVE  ChainHolds' /\ TriagesSealed'
<1>1. CASE objects' = objects
  BY <1>1 DEF ChainHolds, TriagesSealed, Present, Stored
<1>2. CASE objects' # objects
  <2>1. Fits(c, s, f)
    BY <1>2
  <2> DEFINE new == [file |-> f, at |-> clock]
  <2>2. new.file = f
    OBVIOUS
  <2>3. \A d \in Cases, r \in Stages :
            \/ objects'[d][r] = objects[d][r]
            \/ d = c /\ r = s /\ ~Present(c, s) /\ objects'[d][r] = new
    BY DEF Puts
  <2> HIDE DEF new
  <2>4. \A d \in Cases, r \in Stages : Present(d, r) => objects'[d][r] = objects[d][r]
    BY <2>3
  <2>5. "triage" \in Stages /\ "diagnosis" \in Stages
    BY DEF Stages
  <2>6. ASSUME NEW d \in Cases \ swept, NEW r \in Stages, objects'[d][r] # None
        PROVE  LET g == objects'[d][r].file
               IN  /\ HasValidHash(g)
                   /\ r \in Later => /\ objects'[d]["triage"] # None
                                     /\ g.triage = objects'[d]["triage"].file.hash
                   /\ g.diagnosis # None =>
                         /\ objects'[d]["diagnosis"] # None
                         /\ g.diagnosis = objects'[d]["diagnosis"].file.hash
    <3>1. CASE Present(d, r)
      <4>1. objects'[d][r] = objects[d][r]
        BY <2>4, <2>6, <3>1
      <4>2. LET g == objects[d][r].file
            IN  /\ HasValidHash(g)
                /\ r \in Later => /\ Present(d, "triage")
                                  /\ g.triage = objects[d]["triage"].file.hash
                /\ g.diagnosis # None =>
                      /\ Present(d, "diagnosis")
                      /\ g.diagnosis = objects[d]["diagnosis"].file.hash
        BY <2>6, <3>1 DEF ChainHolds, Stored
      <4> QED
        BY <2>4, <2>5, <2>6, <4>1, <4>2 DEF Present
    <3>2. CASE ~Present(d, r)
      <4>1. d = c /\ r = s /\ objects'[d][r] = new /\ d \notin swept
        BY <2>3, <2>6, <3>2 DEF Present
      <4>2. s \in Later => Present(c, "triage") /\ objects[c]["triage"].file.hash = f.triage
        BY <2>1, <4>1 DEF Fits, Knows, Stored
      <4>3. f.diagnosis # None => /\ Present(c, "diagnosis")
                                  /\ objects[c]["diagnosis"].file.hash = f.diagnosis
        BY <2>1, <4>1 DEF Fits, Knows, Stored
      <4>4. HasValidHash(f)
        BY <2>1 DEF Fits
      <4> QED
        BY <2>2, <2>4, <2>5, <4>1, <4>2, <4>3, <4>4 DEF Present
    <3> QED
      BY <3>1, <3>2
  <2>7. ChainHolds'
    BY <2>6 DEF ChainHolds, Present, Stored
  <2>8. TriagesSealed'
    <3> SUFFICES ASSUME NEW d \in Cases, objects'[d]["triage"] # None
                 PROVE  objects'[d]["triage"].file.hash \in TriageHash
      BY DEF TriagesSealed, Present, Stored
    <3>1. CASE objects'[d]["triage"] = objects[d]["triage"]
      BY <3>1 DEF TriagesSealed, Present, Stored
    <3>2. CASE s = "triage" /\ objects'[d]["triage"] = new
      BY <2>1, <2>2, <3>2 DEF Fits
    <3> QED
      BY <2>3, <2>5, <3>1, <3>2
  <2> QED
    BY <2>7, <2>8
<1> QED
  BY <1>1, <1>2

(* The write of a file that fits, by whoever makes it. *)
LEMMA FittingWrite ==
    ASSUME StoreInv, NEW c \in Cases, NEW s \in Stages, NEW f \in File, NEW outcome,
           PersistWriteOnce(c, s, f, outcome), HasValidHash(f) => Fits(c, s, f),
           UNCHANGED <<swept, sweep, clock>>
    PROVE  /\ objects' \in [Cases -> [Stages -> Object \cup {None}]]
           /\ confirmed' \subseteq Cases \X Stages \X File
           /\ faults' \in 0..MaxFaults
           /\ StoreMove
           /\ ConfirmedIsStored' /\ ChainHolds' /\ TriagesSealed' /\ SweepSound'
<1>1. FilesTypeOK /\ ConfirmedIsStored /\ ChainHolds /\ TriagesSealed /\ SweepSound
  BY DEF StoreInv
<1>2. /\ objects' \in [Cases -> [Stages -> Object \cup {None}]]
      /\ confirmed' \subseteq Cases \X Stages \X File
      /\ faults' \in 0..MaxFaults
      /\ Puts(c, s, f)
      /\ objects' # objects => HasValidHash(f)
      /\ StoreMove
      /\ ConfirmedIsStored'
  BY <1>1, WriteEffect
<1>3. ChainHolds' /\ TriagesSealed'
  BY <1>1, <1>2, ChainExtended
<1>4. SweepSound'
  BY <1>1, <1>2, SweepSoundKept
<1> QED
  BY <1>2, <1>3, <1>4

(* persist_casefile_triage_write_once by the hot path *)
LEMMA PersistTriageSound ==
    ASSUME StoreInv, NEW c \in Cases, NEW body \in Bodies["triage"], PersistTriage(c, body),
           UNCHANGED task
    PROVE  StoreInv'
<1> DEFINE f == Seal(body, None, None, TRUE)
<1>1. "triage" \in Stages /\ "triage" \notin Later
  BY DEF Stages, Later
<1>2. body \in Body
  BY <1>1, BodyOfStage
<1>3. /\ f \in File /\ f.diagnosis = None /\ HasValidHash(f)
      /\ f.hash = <<body, None, None>>
  <2>1. None \in TriageHash \cup {None} /\ None \in DiagnosisHash \cup {None}
    OBVIOUS
  <2>2. f = Sealed(body, None, None)
    BY Zenon DEF Sealed
  <2> HIDE DEF f
  <2> QED
    BY <1>2, <2>1, <2>2, SealedTyped
<1>4. f.hash \in TriageHash
  <2> HIDE DEF f
  <2> QED
    BY <1>3 DEF TriageHash
<1>5. PICK outcome \in {"confirmed", "raised"} : PersistWriteOnce(c, "triage", f, outcome)
  BY DEF PersistTriage
<1>6. UNCHANGED <<writer, sweep, swept, clock>>
  BY DEF PersistTriage
<1> HIDE DEF f
<1>7. Fits(c, "triage", f)
  BY <1>1, <1>3, <1>4 DEF Fits
<1>8. /\ objects' \in [Cases -> [Stages -> Object \cup {None}]]
      /\ confirmed' \subseteq Cases \X Stages \X File
      /\ faults' \in 0..MaxFaults
      /\ StoreMove
      /\ ConfirmedIsStored' /\ ChainHolds' /\ TriagesSealed' /\ SweepSound'
  BY <1>1, <1>3, <1>5, <1>6, <1>7, FittingWrite
<1>9. FilesTypeOK'
  BY <1>6, <1>8 DEF StoreInv, FilesTypeOK
<1>10. WritersSound'
  BY <1>6, <1>8, WriterSoundKept DEF StoreInv, WritersSound
<1>11. TasksSound'
  BY <1>8, TasksSoundKept DEF StoreInv
<1> QED
  BY <1>8, <1>9, <1>10, <1>11 DEF StoreInv

-----------------------------------------------------------------------------
(* The stage writers. *)

\* What a step that leaves the store alone must show.
LEMMA WriterMoves ==
    ASSUME StoreInv, NEW w \in Writers,
           UNCHANGED <<objects, sweep, confirmed, swept, clock, task>>,
           faults' \in 0..MaxFaults,
           NEW next \in [step: {"idle", "triage", "diagnosis", "put"}, case: Cases \cup {None},
                         stage: Later \cup {None}, file: File \cup {None}],
           SetWriter(w, next), next.step # "idle" => WriterSound(w)'
    PROVE  StoreInv'
<1>1. /\ writer' = [writer EXCEPT ![w] = next]
      /\ writer \in [Writers -> [step: {"idle", "triage", "diagnosis", "put"},
                                 case: Cases \cup {None}, stage: Later \cup {None},
                                 file: File \cup {None}]]
  BY DEF SetWriter, StoreInv, FilesTypeOK
<1>2. /\ writer' \in [Writers -> [step: {"idle", "triage", "diagnosis", "put"},
                                 case: Cases \cup {None}, stage: Later \cup {None},
                                 file: File \cup {None}]]
      /\ writer'[w] = next /\ \A v \in Writers \ {w} : writer'[v] = writer[v]
  BY <1>1
<1>3. FilesTypeOK'
  BY <1>2 DEF StoreInv, FilesTypeOK
<1>4. StoreMove
  BY DEF StoreMove
<1>5. WritersSound'
  <2> SUFFICES ASSUME NEW v \in Writers, writer'[v].step # "idle" PROVE WriterSound(v)'
    BY DEF WritersSound
  <2>1. CASE v = w
    BY <1>2, <2>1
  <2>2. CASE v # w
    BY <1>2, <1>4, <2>2, WriterSoundKept DEF StoreInv, WritersSound
  <2> QED
    BY <2>1, <2>2
<1>6. ChainHolds' /\ ConfirmedIsStored' /\ TriagesSealed'
  BY DEF StoreInv, ChainHolds, ConfirmedIsStored, TriagesSealed, Present, Stored
<1>7. SweepSound' /\ TasksSound'
  BY <1>4, SweepSoundKept, TasksSoundKept DEF StoreInv
<1> QED
  BY <1>3, <1>5, <1>6, <1>7 DEF StoreInv

LEMMA IdleTyped ==
    /\ Idle \in [step: {"idle", "triage", "diagnosis", "put"}, case: Cases \cup {None},
                 stage: Later \cup {None}, file: File \cup {None}]
    /\ Idle.step = "idle"
  BY DEF Idle

LEMMA AssembleSound ==
    ASSUME StoreInv, NEW w \in Writers, NEW c \in Cases, NEW s \in Later, NEW body \in Bodies[s],
           NEW triage \in TriageHash, NEW sealed \in BOOLEAN,
           Assemble(w, c, s, body, triage, sealed), UNCHANGED task
    PROVE  StoreInv'
<1>1. PICK diagnosis \in DiagnosisHash \cup {None} :
          /\ s = "diagnosis" => diagnosis = None
          /\ SetWriter(w, [step |-> "triage", case |-> c, stage |-> s,
                           file |-> Seal(body, triage, diagnosis, sealed)])
  BY DEF Assemble
<1>2. UNCHANGED <<objects, sweep, confirmed, swept, faults, clock>>
  BY DEF Assemble
<1> DEFINE f == Seal(body, triage, diagnosis, sealed)
           next == [step |-> "triage", case |-> c, stage |-> s, file |-> f]
<1>3. f \in File /\ f.diagnosis = diagnosis
  <2>1. s \in Stages
    BY DEF Later
  <2> QED
    BY <2>1, BodyOfStage, SealTyped
<1>4. SetWriter(w, next)
  BY <1>1
<1> HIDE DEF f
<1>5. next \in [step: {"idle", "triage", "diagnosis", "put"}, case: Cases \cup {None},
                stage: Later \cup {None}, file: File \cup {None}]
  BY <1>3
<1>6. writer'[w] = next
  BY <1>4 DEF SetWriter, StoreInv, FilesTypeOK
<1>7. WriterSound(w)'
  BY <1>1, <1>3, <1>6 DEF WriterSound
<1>8. faults' \in 0..MaxFaults
  BY <1>2 DEF StoreInv, FilesTypeOK
<1> HIDE DEF next
<1> QED
  BY <1>2, <1>4, <1>5, <1>7, <1>8, WriterMoves

LEMMA ValidateTriageSound ==
    ASSUME StoreInv, NEW w \in Writers, ValidateTriage(w), UNCHANGED task
    PROVE  StoreInv'
<1> DEFINE c == writer[w].case
           f == writer[w].file
           next == [writer[w] EXCEPT !.step = IF f.diagnosis = None THEN "put" ELSE "diagnosis"]
<1>1. /\ writer[w].step = "triage"
      /\ UNCHANGED <<objects, sweep, confirmed, swept, clock>>
      /\ \/ MatchesTriage(c, f) /\ SetWriter(w, next) /\ UNCHANGED faults
         \/ SetWriter(w, Idle) /\ (UNCHANGED faults \/ Fault)
  BY DEF ValidateTriage, Raise
<1>2. faults' \in 0..MaxFaults
  BY <1>1, FaultTyped DEF StoreInv, FilesTypeOK
<1>3. CASE SetWriter(w, Idle)
  BY <1>1, <1>2, <1>3, IdleTyped, WriterMoves
<1>4. CASE MatchesTriage(c, f) /\ SetWriter(w, next)
  <2>1. WriterSound(w) /\ c \in Cases /\ f \in File /\ writer[w].stage \in Later
    BY <1>1 DEF StoreInv, WritersSound, WriterSound
  <2>2. /\ next \in [step: {"idle", "triage", "diagnosis", "put"}, case: Cases \cup {None},
                     stage: Later \cup {None}, file: File \cup {None}]
        /\ next.case = c /\ next.file = f /\ next.stage = writer[w].stage
        /\ next.step = IF f.diagnosis = None THEN "put" ELSE "diagnosis"
    BY DEF StoreInv, FilesTypeOK
  <2>3. writer'[w] = next
    BY <1>4 DEF SetWriter, StoreInv, FilesTypeOK
  <2> HIDE DEF next
  <2>4. HasValidHash(f) /\ Knows(c, "triage", f.triage)
    <3>1. HasValidHash(f) /\ Present(c, "triage") /\ f.triage = Digest(Stored(c, "triage"))
      BY <1>4 DEF MatchesTriage, Stored
    <3>2. c \notin swept => HasValidHash(Stored(c, "triage"))
      BY <2>1, <3>1 DEF StoreInv, ChainHolds, Stages
    <3> QED
      BY <3>1, <3>2 DEF Knows, HasValidHash
  <2>5. Knows(c, "triage", f.triage)'
    <3>1. c' \in {c, next.case} /\ StoreMove
      BY <1>1, <2>2, <2>3 DEF StoreMove
    <3> QED
      BY <1>1, <2>2, <2>3, <2>4 DEF Knows, Present, Stored
  <2>6. WriterSound(w)'
    BY <2>1, <2>2, <2>3, <2>4, <2>5 DEF WriterSound
  <2> QED
    BY <1>1, <1>2, <1>4, <2>2, <2>6, WriterMoves
<1> QED
  BY <1>1, <1>3, <1>4

LEMMA ValidateDiagnosisSound ==
    ASSUME StoreInv, NEW w \in Writers, ValidateDiagnosis(w), UNCHANGED task
    PROVE  StoreInv'
<1> DEFINE c == writer[w].case
           f == writer[w].file
           next == [writer[w] EXCEPT !.step = "put"]
<1>1. /\ writer[w].step = "diagnosis"
      /\ UNCHANGED <<objects, sweep, confirmed, swept, clock>>
      /\ \/ MatchesDiagnosis(c, f) /\ SetWriter(w, next) /\ UNCHANGED faults
         \/ SetWriter(w, Idle) /\ (UNCHANGED faults \/ Fault)
  BY DEF ValidateDiagnosis, Raise
<1>2. faults' \in 0..MaxFaults
  BY <1>1, FaultTyped DEF StoreInv, FilesTypeOK
<1>3. CASE SetWriter(w, Idle)
  BY <1>1, <1>2, <1>3, IdleTyped, WriterMoves
<1>4. CASE MatchesDiagnosis(c, f) /\ SetWriter(w, next)
  <2>1. WriterSound(w) /\ c \in Cases /\ f \in File /\ writer[w].stage \in Later
    BY <1>1 DEF StoreInv, WritersSound, WriterSound
  <2>2. /\ next \in [step: {"idle", "triage", "diagnosis", "put"}, case: Cases \cup {None},
                     stage: Later \cup {None}, file: File \cup {None}]
        /\ next.case = c /\ next.file = f /\ next.stage = writer[w].stage /\ next.step = "put"
    BY DEF StoreInv, FilesTypeOK
  <2>3. writer'[w] = next
    BY <1>4 DEF SetWriter, StoreInv, FilesTypeOK
  <2> HIDE DEF next
  <2>4. Knows(c, "diagnosis", f.diagnosis)
    <3>1. Present(c, "diagnosis") /\ f.diagnosis = Digest(Stored(c, "diagnosis"))
      BY <1>4 DEF MatchesDiagnosis, Stored
    <3>2. c \notin swept => HasValidHash(Stored(c, "diagnosis"))
      BY <2>1, <3>1 DEF StoreInv, ChainHolds, Stages
    <3> QED
      BY <3>1, <3>2 DEF Knows, HasValidHash
  <2>5. Knows(c, "diagnosis", f.diagnosis)' /\ Knows(c, "triage", f.triage)'
    BY <1>1, <2>1, <2>2, <2>3, <2>4 DEF WriterSound, Knows, Present, Stored
  <2>6. WriterSound(w)'
    BY <1>1, <2>1, <2>2, <2>3, <2>5 DEF WriterSound
  <2> QED
    BY <1>1, <1>2, <1>4, <2>2, <2>6, WriterMoves
<1> QED
  BY <1>1, <1>3, <1>4

LEMMA PersistStageSound ==
    ASSUME StoreInv, NEW w \in Writers, PersistStage(w), UNCHANGED task
    PROVE  StoreInv'
<1> DEFINE c == writer[w].case
           s == writer[w].stage
           f == writer[w].file
<1>1. /\ writer[w].step = "put"
      /\ SetWriter(w, Idle)
      /\ UNCHANGED <<sweep, swept, clock>>
  BY DEF PersistStage
<1>2. PICK outcome \in {"confirmed", "raised"} : PersistWriteOnce(c, s, f, outcome)
  BY DEF PersistStage
<1>3. WriterSound(w) /\ c \in Cases /\ s \in Later /\ s \in Stages /\ f \in File /\ s # "triage"
  BY <1>1 DEF StoreInv, WritersSound, WriterSound, Later
<1>4. Fits(c, s, f)
  BY <1>1, <1>3 DEF WriterSound, Fits
<1> HIDE DEF c, s, f
<1>5. /\ objects' \in [Cases -> [Stages -> Object \cup {None}]]
      /\ confirmed' \subseteq Cases \X Stages \X File
      /\ faults' \in 0..MaxFaults
      /\ StoreMove
      /\ ConfirmedIsStored' /\ ChainHolds' /\ TriagesSealed' /\ SweepSound'
  BY <1>1, <1>2, <1>3, <1>4, FittingWrite
<1>6. /\ writer' \in [Writers -> [step: {"idle", "triage", "diagnosis", "put"},
                                 case: Cases \cup {None}, stage: Later \cup {None},
                                 file: File \cup {None}]]
      /\ writer'[w] = Idle /\ \A v \in Writers \ {w} : writer'[v] = writer[v]
  BY <1>1, IdleTyped DEF StoreInv, FilesTypeOK, SetWriter
<1>7. FilesTypeOK'
  BY <1>1, <1>5, <1>6 DEF StoreInv, FilesTypeOK
<1>8. WritersSound'
  BY <1>5, <1>6, IdleTyped, WriterSoundKept DEF StoreInv, WritersSound
<1>9. TasksSound'
  BY <1>5, TasksSoundKept DEF StoreInv
<1> QED
  BY <1>5, <1>7, <1>8, <1>9 DEF StoreInv

-----------------------------------------------------------------------------
(* The order in which the store lists its keys. *)

LEMMA KeyNumbers ==
    ASSUME NEW k \in Key
    PROVE  /\ k[1] \in Cases /\ k[2] \in Stages /\ k = <<k[1], k[2]>>
           /\ KeyNo(k) \in Nat
           /\ TriageKey(k[1]) \in Key
           /\ KeyNo(k) <= KeyNo(TriageKey(k[1]))
<1>1. k[1] \in Cases /\ k[2] \in Stages /\ k = <<k[1], k[2]>> /\ k[1] \in Nat
  <2>1. k[1] \in Cases /\ k[2] \in Stages
    BY DEF Key
  <2>2. k = <<k[1], k[2]>>
    <3>1. PICK c \in Cases, s \in Stages : k = <<c, s>>
      BY DEF Key
    <3> QED
      BY <3>1
  <2> QED
    BY <2>1, <2>2, CaseFilesAssumption
<1>2. StageNo[k[2]] \in 1..4 /\ StageNo["triage"] = 4
  <2>1. /\ StageNo["diagnosis"] = 1 /\ StageNo["labels"] = 2
        /\ StageNo["linkage"] = 3 /\ StageNo["triage"] = 4
    BY DEF StageNo
  <2>2. k[2] \in {"diagnosis", "labels", "linkage", "triage"}
    BY <1>1 DEF Stages
  <2> HIDE DEF StageNo
  <2> QED
    BY <2>1, <2>2
<1>3. TriageKey(k[1]) \in Key /\ TriageKey(k[1])[1] = k[1] /\ TriageKey(k[1])[2] = "triage"
  BY <1>1 DEF TriageKey, Key, Stages
<1>4. /\ KeyNo(k) = 4 * k[1] + StageNo[k[2]]
      /\ KeyNo(TriageKey(k[1])) = 4 * k[1] + 4
  BY <1>2, <1>3, Zenon DEF KeyNo
<1> DEFINE n == StageNo[k[2]]
           c == k[1]
           no == KeyNo(k)
           last == KeyNo(TriageKey(k[1]))
<1>5. c \in Nat /\ n \in 1..4 /\ no = 4 * c + n /\ last = 4 * c + 4
  BY <1>1, <1>2, <1>4
<1> HIDE DEF n, c, no, last
<1>6. no \in Nat /\ no <= last
  BY <1>5
<1> QED
  BY <1>1, <1>3, <1>6 DEF no, last

LEMMA KeyFinite == IsFiniteSet(Key)
<1>1. IsFiniteSet(Stages)
  <2>1. Stages = ((({} \cup {"diagnosis"}) \cup {"labels"}) \cup {"linkage"}) \cup {"triage"}
    BY DEF Stages
  <2> QED
    BY <2>1, FS_EmptySet, FS_AddElement
<1>2. IsFiniteSet(Cases)
  BY CaseFilesAssumption
<1> QED
  BY <1>1, <1>2, FS_Product DEF Key

(* A page holds the first keys: whatever precedes one of them is on it too. *)
LEMMA FirstDownClosed ==
    ASSUME NEW n \in Nat, NEW keys \in SUBSET Key, NEW k \in First(n, keys), NEW j \in keys,
           KeyNo(j) <= KeyNo(k)
    PROVE  j \in First(n, keys)
<1> DEFINE upto(x) == {i \in keys : KeyNo(i) <= KeyNo(x)}
<1>1. k \in keys /\ Cardinality(upto(k)) <= n
  BY DEF First
<1>2. \A i \in keys : KeyNo(i) \in Nat
  BY KeyNumbers
<1>3. upto(j) \in SUBSET upto(k) /\ upto(k) \in SUBSET Key
  BY <1>1, <1>2
<1> HIDE DEF upto
<1>4. IsFiniteSet(upto(k))
  BY <1>3, KeyFinite, FS_Subset
<1>5. IsFiniteSet(upto(j)) /\ Cardinality(upto(j)) <= Cardinality(upto(k))
  BY <1>3, <1>4, FS_Subset
<1>6. Cardinality(upto(j)) <= n
  BY <1>1, <1>4, <1>5, FS_CardinalityType
<1> QED
  BY <1>6 DEF First, upto

-----------------------------------------------------------------------------
(* The lifecycle run. *)

\* What a step of the run that leaves the store alone must show.
LEMMA SweepMoves ==
    ASSUME StoreInv, UNCHANGED <<objects, writer, confirmed, swept, task>>,
           faults' \in 0..MaxFaults, clock' \in 0..Horizon,
           sweep' \in [step: {"idle", "list", "delete"},
                       listed: SUBSET [key: Key, at: Nat], keys: SUBSET Key],
           SweepSound'
    PROVE  StoreInv'
<1>1. FilesTypeOK'
  BY DEF StoreInv, FilesTypeOK
<1>2. StoreMove
  BY DEF StoreMove
<1>3. WritersSound'
  BY <1>2, WriterSoundKept DEF StoreInv, WritersSound
<1>4. ChainHolds' /\ ConfirmedIsStored' /\ TriagesSealed'
  BY DEF StoreInv, ChainHolds, ConfirmedIsStored, TriagesSealed, Present, Stored
<1>5. TasksSound'
  BY <1>2, TasksSoundKept DEF StoreInv
<1> QED
  BY <1>1, <1>3, <1>4, <1>5 DEF StoreInv

LEMMA RestingTyped ==
    /\ Resting \in [step: {"idle", "list", "delete"},
                    listed: SUBSET [key: Key, at: Nat], keys: SUBSET Key]
    /\ Resting.step = "idle"
  BY DEF Resting

LEMMA RestingSound ==
    ASSUME sweep' = Resting
    PROVE  SweepSound'
  BY RestingTyped DEF SweepSound

LEMMA StartSweepSound ==
    ASSUME StoreInv, StartSweep, UNCHANGED task
    PROVE  StoreInv'
<1>1. /\ UNCHANGED <<objects, writer, confirmed, swept, faults, clock>>
      /\ sweep' = [Resting EXCEPT !.step = "list"]
  BY DEF StartSweep
<1>2. sweep' = [step |-> "list", listed |-> {}, keys |-> {}]
  BY <1>1 DEF Resting
<1>3. /\ sweep' \in [step: {"idle", "list", "delete"},
                     listed: SUBSET [key: Key, at: Nat], keys: SUBSET Key]
      /\ sweep'.step = "list" /\ sweep'.listed = {}
  BY <1>2
<1>4. SweepSound'
  BY <1>3 DEF SweepSound
<1>5. faults' \in 0..MaxFaults /\ clock' \in 0..Horizon
  BY <1>1 DEF StoreInv, FilesTypeOK
<1> QED
  BY <1>1, <1>3, <1>4, <1>5, SweepMoves

\* What is still to be listed, the next page of it, and the listing with that page.
Rest == {k \in Existing : \A l \in sweep.listed : KeyNo(l.key) < KeyNo(k)}
Page == First(PageSize, Rest)
Listing == sweep.listed \cup {[key |-> k, at |-> AtEnd(k)] : k \in Page}

(* Every live case with a listed file has its triage file listed, or in what is to come. *)
LEMMA TriageToCome ==
    ASSUME StoreInv, sweep.step = "list",
           NEW c \in Cases \ swept,
           (\E l \in sweep.listed : l.key[1] = c) \/ (\E k \in Rest : k[1] = c)
    PROVE  (\E m \in sweep.listed : m.key = TriageKey(c)) \/ TriageKey(c) \in Rest
<1>1. ASSUME NEW s \in Stages, Present(c, s) PROVE TriageKey(c) \in Existing
  <2>1. Present(c, "triage")
    BY <1>1 DEF StoreInv, ChainHolds, Later
  <2>2. TriageKey(c) \in Key /\ TriageKey(c)[1] = c /\ TriageKey(c)[2] = "triage"
    BY DEF TriageKey, Key, Stages
  <2> QED
    BY <2>1, <2>2 DEF Existing
<1>2. ASSUME NEW l \in sweep.listed, l.key[1] = c
      PROVE  (\E m \in sweep.listed : m.key = TriageKey(c)) \/ TriageKey(c) \in Rest
  <2>1. l.key \in Key
    BY <1>2 DEF StoreInv, FilesTypeOK
  <2>2. ListedSound(l)
    BY <1>2 DEF StoreInv, SweepSound
  <2>3. l.key[2] \in Stages /\ Present(c, l.key[2])
    BY <1>2, <2>1, <2>2, KeyNumbers DEF ListedSound
  <2>4. TriageKey(c) \in Existing
    BY <1>1, <2>3
  <2> QED
    BY <1>2, <2>2, <2>4 DEF ListedSound, Rest
<1>3. ASSUME NEW k \in Rest, k[1] = c PROVE TriageKey(c) \in Rest
  <2>1. k \in Key /\ Present(c, k[2]) /\ \A l \in sweep.listed : KeyNo(l.key) < KeyNo(k)
    BY <1>3 DEF Existing, Rest
  <2>2. TriageKey(c) \in Existing
    BY <1>1, <2>1, KeyNumbers
  <2>3. KeyNo(k) \in Nat /\ KeyNo(TriageKey(c)) \in Nat /\ KeyNo(k) <= KeyNo(TriageKey(c))
    <3>1. TriageKey(c) \in Key
      BY <2>2 DEF Existing
    <3> QED
      BY <1>3, <2>1, <3>1, KeyNumbers
  <2>4. \A l \in sweep.listed : KeyNo(l.key) \in Nat
    <3>1. \A l \in sweep.listed : l.key \in Key
      BY DEF StoreInv, FilesTypeOK
    <3> QED
      BY <3>1, KeyNumbers
  <2> QED
    BY <2>1, <2>2, <2>3, <2>4 DEF Rest
<1> QED
  BY <1>2, <1>3

\* The listing is true of the live cases, and each has its triage file listed or ahead.
ListingSound(all, ahead) ==
    \A l \in all : l.key[1] \notin swept =>
        /\ Present(l.key[1], l.key[2])
        /\ objects[l.key[1]][l.key[2]].at = l.at
        /\ \/ \E m \in all : m.key = TriageKey(l.key[1])
           \/ /\ TriageKey(l.key[1]) \in ahead
              /\ \A m \in all : KeyNo(m.key) < KeyNo(TriageKey(l.key[1]))

(* The listing after one more page. *)
LEMMA PageSound ==
    ASSUME StoreInv, sweep.step = "list"
    PROVE  Listing \in SUBSET [key: Key, at: Nat] /\ ListingSound(Listing, Rest \ Page)
<1>1. Page \subseteq Rest /\ Rest \subseteq Existing /\ Rest \in SUBSET Key /\ Existing \subseteq Key
  BY DEF First, Existing, Page, Rest
<1>2. \A k \in Page : AtEnd(k) \in Nat /\ Present(k[1], k[2]) /\ AtEnd(k) = objects[k[1]][k[2]].at
  <2>1. ASSUME NEW k \in Page PROVE objects[k[1]][k[2]] \in Object
    <3>1. k \in Key /\ Present(k[1], k[2])
      BY <1>1, <2>1 DEF Existing
    <3>2. k[1] \in Cases /\ k[2] \in Stages
      BY <3>1, KeyNumbers
    <3> QED
      BY <3>1, <3>2 DEF StoreInv, FilesTypeOK, Present
  <2> QED
    BY <1>1, <2>1 DEF AtEnd, Existing, Object
<1>3. \A l \in Listing : l \in sweep.listed \/ (l.key \in Page /\ l.at = AtEnd(l.key))
  BY DEF Listing
<1>4. ASSUME NEW k \in Page PROVE \E m \in Listing : m.key = k
  <2>1. [key |-> k, at |-> AtEnd(k)] \in Listing /\ [key |-> k, at |-> AtEnd(k)].key = k
    BY DEF Listing
  <2> QED
    BY <2>1
<1>5. Listing \in SUBSET [key: Key, at: Nat]
  <2>1. sweep.listed \in SUBSET [key: Key, at: Nat]
    BY DEF StoreInv, FilesTypeOK
  <2>2. \A k \in Page : [key |-> k, at |-> AtEnd(k)] \in [key: Key, at: Nat]
    BY <1>1, <1>2
  <2> QED
    BY <2>1, <2>2 DEF Listing
<1>6. sweep.listed \subseteq Listing
  BY DEF Listing
<1>7. ASSUME NEW l \in Listing, l.key[1] \notin swept
      PROVE  LET c == l.key[1]
             IN  /\ Present(c, l.key[2]) /\ objects[c][l.key[2]].at = l.at
                 /\ \/ \E m \in Listing : m.key = TriageKey(c)
                    \/ /\ TriageKey(c) \in Rest \ Page
                       /\ \A m \in Listing : KeyNo(m.key) < KeyNo(TriageKey(c))
  <2> DEFINE c == l.key[1]
             tr == TriageKey(c)
  <2>1. l.key \in Key /\ c \in Cases /\ c \in Cases \ swept
    BY <1>5, <1>7, KeyNumbers
  <2>2. Present(c, l.key[2]) /\ objects[c][l.key[2]].at = l.at
    <3>1. CASE l \in sweep.listed
      BY <1>7, <3>1 DEF StoreInv, SweepSound, ListedSound
    <3>2. CASE l.key \in Page /\ l.at = AtEnd(l.key)
      BY <1>2, <3>2
    <3> QED
      BY <1>3, <3>1, <3>2
  <2>3. (\E m \in sweep.listed : m.key = tr) \/ tr \in Rest
    BY <1>1, <1>3, <2>1, TriageToCome
  <2>4. CASE \E m \in sweep.listed : m.key = tr
    BY <1>6, <2>2, <2>4
  <2>5. CASE tr \in Page
    BY <1>4, <2>2, <2>5
  <2>6. CASE tr \in Rest \ Page
    <3>1. ASSUME NEW m \in Listing PROVE KeyNo(m.key) < KeyNo(tr)
      <4>1. m.key \in Key /\ KeyNo(m.key) \in Nat /\ KeyNo(tr) \in Nat
        BY <1>1, <1>5, <2>6, KeyNumbers
      <4>2. CASE m \in sweep.listed
        BY <2>6, <4>2 DEF Rest
      <4>3. CASE m.key \in Page
        <5>1. ~(KeyNo(tr) <= KeyNo(m.key))
          BY <1>1, <2>6, <4>3, FirstDownClosed, CaseFilesAssumption DEF Page
        <5> QED
          BY <4>1, <5>1
      <4> QED
        BY <1>3, <4>2, <4>3
    <3> QED
      BY <2>2, <2>6, <3>1
  <2> QED
    BY <2>3, <2>4, <2>5, <2>6
<1> QED
  BY <1>5, <1>7 DEF ListingSound

(* After the last page the age of a live case is that of its triage file. *)
LEMMA EligibleDoomed ==
    ASSUME StoreInv, NEW all \in SUBSET [key: Key, at: Nat],
           ListingSound(all, {})
    PROVE  Eligible(all) \in SUBSET Key /\ \A k \in Eligible(all) : Doomed(k[1])
<1>1. Eligible(all) \in SUBSET Key
  BY DEF Eligible
<1>2. ASSUME NEW l \in all, l.key[1] \notin swept
      PROVE  /\ Present(l.key[1], "triage")
             /\ CreatedAt(l.key[1], all) = objects[l.key[1]]["triage"].at
  <2> DEFINE c == l.key[1]
             a == objects[c]["triage"].at
             mine == {x \in all : x.key[1] = c}
             triage == {x \in mine : x.key[2] = "triage"}
             among == IF triage # {} THEN triage ELSE mine
  <2>1. PICK m \in all : m.key = TriageKey(c)
    BY <1>2 DEF ListingSound
  <2>2. m.key[1] = c /\ m.key[2] = "triage"
    BY <2>1 DEF TriageKey
  <2>3. Present(c, "triage")
    BY <1>2, <2>2 DEF ListingSound
  <2>4. m \in triage
    BY <2>2
  <2>5. \A x \in triage : x.at = a
    BY <1>2 DEF ListingSound
  <2>6. a \in Nat
    BY <2>4, <2>5
  <2>7. among = triage
    BY <2>4
  <2> DEFINE old == CHOOSE x \in among : \A y \in among : x.at <= y.at
  <2>8. CreatedAt(c, all) = old.at
    BY DEF CreatedAt
  <2> HIDE DEF triage, a
  <2>9. \E x \in triage : \A y \in triage : x.at <= y.at
    BY <2>4, <2>5, <2>6
  <2>10. old \in triage
    <3> HIDE DEF among
    <3> QED
      BY <2>7, <2>9
  <2> HIDE DEF old
  <2> QED
    BY <2>3, <2>5, <2>8, <2>10 DEF a
<1>3. ASSUME NEW k \in Eligible(all) PROVE Doomed(k[1])
  <2>1. PICK l \in all : k = l.key /\ CreatedAt(l.key[1], all) <= Cutoff
    BY <1>3 DEF Eligible
  <2> QED
    BY <1>2, <2>1 DEF Doomed
<1> QED
  BY <1>1, <1>3

LEMMA ListPageSound ==
    ASSUME StoreInv, ListPage, UNCHANGED task
    PROVE  StoreInv'
<1> DEFINE more == [sweep EXCEPT !.listed = Listing]
           due == [Resting EXCEPT !.step = "delete", !.keys = Eligible(Listing)]
<1>1. sweep.step = "list" /\ UNCHANGED <<objects, writer, confirmed, swept, clock>>
  BY DEF ListPage
<1>2. \/ /\ UNCHANGED faults
         /\ sweep' = IF Page # Rest THEN more
                     ELSE IF Approved /\ Eligible(Listing) # {} THEN due ELSE Resting
      \/ Fault /\ sweep' = Resting
  BY Zenon DEF ListPage, Rest, Page, Listing
<1>3. Listing \in SUBSET [key: Key, at: Nat] /\ ListingSound(Listing, Rest \ Page)
  BY <1>1, PageSound
<1>4. faults' \in 0..MaxFaults /\ clock' \in 0..Horizon
  BY <1>1, <1>2, FaultTyped DEF StoreInv, FilesTypeOK
<1>5. CASE sweep' = Resting
  BY <1>1, <1>4, <1>5, RestingTyped, RestingSound, SweepMoves
<1>6. CASE Page # Rest /\ sweep' = more
  <2>1. /\ sweep' \in [step: {"idle", "list", "delete"},
                       listed: SUBSET [key: Key, at: Nat], keys: SUBSET Key]
        /\ sweep'.listed = Listing /\ sweep'.step = "list"
    BY <1>1, <1>3, <1>6 DEF StoreInv, FilesTypeOK
  <2>2. ASSUME NEW l \in Listing PROVE ListedSound(l)'
    BY <1>1, <1>3, <2>1, <2>2 DEF ListingSound, ListedSound, Present
  <2>3. SweepSound'
    BY <2>1, <2>2 DEF SweepSound
  <2> QED
    BY <1>1, <1>4, <2>1, <2>3, SweepMoves
<1>7. CASE Page = Rest /\ Approved /\ sweep' = due
  <2>1. Eligible(Listing) \in SUBSET Key /\ \A k \in Eligible(Listing) : Doomed(k[1])
    <3>1. Rest \ Page = {}
      BY <1>7
    <3> QED
      BY <1>3, <3>1, EligibleDoomed
  <2> DEFINE keys == Eligible(Listing)
  <2> HIDE DEF keys
  <2>2. due = [step |-> "delete", listed |-> {}, keys |-> keys]
    <3>1. due = [Resting EXCEPT !.step = "delete", !.keys = keys]
      BY Zenon DEF keys
    <3> HIDE DEF due
    <3> QED
      BY <3>1 DEF Resting
  <2>3. /\ sweep' \in [step: {"idle", "list", "delete"},
                       listed: SUBSET [key: Key, at: Nat], keys: SUBSET Key]
        /\ sweep'.keys = keys /\ sweep'.step = "delete"
    BY <1>7, <2>1, <2>2 DEF keys
  <2>4. SweepSound'
    BY <1>1, <1>7, <2>1, <2>3 DEF SweepSound, Doomed, Present, Cutoff, keys
  <2> QED
    BY <1>1, <1>4, <2>3, <2>4, SweepMoves
<1> QED
  <2> HIDE DEF more, due
  <2> QED
    BY <1>2, <1>5, <1>6, <1>7

(* A deletion takes keys of doomed cases only, and marks them. *)
LEMMA DeleteBatchEffect ==
    ASSUME StoreInv, DeleteBatch
    PROVE  \E gone \in SUBSET sweep.keys :
               /\ Delete(gone)
               /\ Approved /\ \A k \in gone : k \in Key /\ Doomed(k[1])
               /\ \/ sweep' = Resting
                  \/ \E left \in SUBSET sweep.keys : sweep' = [sweep EXCEPT !.keys = left]
               /\ faults' \in 0..MaxFaults
               /\ sweep.step = "delete" /\ UNCHANGED <<writer, clock>>
<1>1. sweep.step = "delete" /\ UNCHANGED <<writer, clock>>
  BY DEF DeleteBatch
<1>2. First(BatchSize, sweep.keys) \subseteq sweep.keys
  BY DEF First
<1>3. PICK gone \in SUBSET First(BatchSize, sweep.keys) :
          /\ Delete(gone)
          /\ LET left == sweep.keys \ First(BatchSize, sweep.keys) IN
              \/ /\ IF gone = First(BatchSize, sweep.keys) THEN UNCHANGED faults ELSE Fault
                 /\ sweep' = IF left = {} THEN Resting ELSE [sweep EXCEPT !.keys = left]
              \/ Fault /\ sweep' = Resting
  BY DEF DeleteBatch
<1>4. faults' \in 0..MaxFaults
  BY <1>3, FaultTyped DEF StoreInv, FilesTypeOK
<1>5. \/ sweep' = Resting
      \/ \E left \in SUBSET sweep.keys : sweep' = [sweep EXCEPT !.keys = left]
  <2> DEFINE left == sweep.keys \ First(BatchSize, sweep.keys)
  <2>1. left \in SUBSET sweep.keys
    OBVIOUS
  <2>2. sweep' = Resting \/ sweep' = [sweep EXCEPT !.keys = left]
    BY <1>3
  <2> QED
    BY <2>1, <2>2
<1>6. gone \in SUBSET sweep.keys /\ Approved /\ \A k \in gone : k \in Key /\ Doomed(k[1])
  BY <1>1, <1>2 DEF StoreInv, SweepSound, FilesTypeOK
<1> QED
  BY <1>1, <1>3, <1>4, <1>5, <1>6

LEMMA DeleteBatchSound ==
    ASSUME StoreInv, DeleteBatch, UNCHANGED task
    PROVE  StoreInv'
<1>1. PICK gone \in SUBSET sweep.keys :
          /\ Delete(gone)
          /\ Approved /\ \A k \in gone : k \in Key /\ Doomed(k[1])
          /\ \/ sweep' = Resting
             \/ \E left \in SUBSET sweep.keys : sweep' = [sweep EXCEPT !.keys = left]
          /\ faults' \in 0..MaxFaults
          /\ sweep.step = "delete" /\ UNCHANGED <<writer, clock>>
  BY DeleteBatchEffect
<1>2. /\ objects' \in [Cases -> [Stages -> Object \cup {None}]]
      /\ \A c \in Cases, s \in Stages :
            objects'[c][s] = IF <<c, s>> \in gone THEN None ELSE objects[c][s]
  BY <1>1 DEF Delete, StoreInv, FilesTypeOK
<1>3. /\ swept \subseteq swept' /\ swept' \subseteq Cases
      /\ \A c \in Cases \ swept', s \in Stages : <<c, s>> \notin gone
  <2>1. swept' = swept \cup {k[1] : k \in gone}
    BY <1>1 DEF Delete
  <2>2. \A k \in gone : k[1] \in Cases
    BY <1>1, KeyNumbers
  <2>3. ASSUME NEW c \in Cases, NEW s \in Stages, <<c, s>> \in gone PROVE c \in swept'
    <3>1. <<c, s>>[1] = c
      OBVIOUS
    <3> QED
      BY <2>1, <2>3, <3>1
  <2> QED
    BY <2>1, <2>2, <2>3 DEF StoreInv, FilesTypeOK
<1>4. \A c \in Cases \ swept', s \in Stages : objects'[c][s] = objects[c][s]
  BY <1>2, <1>3
<1>5. StoreMove
  BY <1>3, <1>4 DEF StoreMove
<1>6. ConfirmedIsStored' /\ confirmed' \subseteq confirmed
  <2>1. confirmed' = {x \in confirmed : <<x[1], x[2]>> \notin gone}
    BY <1>1 DEF Delete
  <2>2. \A x \in confirmed : x[1] \in Cases /\ x[2] \in Stages
    BY DEF StoreInv, FilesTypeOK
  <2>3. \A x \in confirmed' : objects'[x[1]][x[2]] = objects[x[1]][x[2]] /\ x \in confirmed
    BY <1>2, <2>1, <2>2
  <2> QED
    BY <2>1, <2>3 DEF StoreInv, ConfirmedIsStored, Present, Stored
<1>7. ChainHolds'
  <2>1. "triage" \in Stages /\ "diagnosis" \in Stages
    BY DEF Stages
  <2> QED
    BY <1>3, <1>4, <2>1 DEF StoreInv, ChainHolds, Present, Stored
<1>8. TriagesSealed'
  <2>1. "triage" \in Stages
    BY DEF Stages
  <2> QED
    BY <1>2, <2>1 DEF StoreInv, TriagesSealed, Present, Stored
<1>9. sweep' \in [step: {"idle", "list", "delete"},
                  listed: SUBSET [key: Key, at: Nat], keys: SUBSET Key]
      /\ SweepSound'
  <2>1. CASE sweep' = Resting
    BY <2>1, RestingTyped, RestingSound
  <2>2. ASSUME NEW left \in SUBSET sweep.keys, sweep' = [sweep EXCEPT !.keys = left]
        PROVE  sweep' \in [step: {"idle", "list", "delete"},
                           listed: SUBSET [key: Key, at: Nat], keys: SUBSET Key]
               /\ SweepSound'
    <3>1. left \in SUBSET Key
      BY DEF StoreInv, FilesTypeOK
    <3>2. /\ sweep' \in [step: {"idle", "list", "delete"},
                         listed: SUBSET [key: Key, at: Nat], keys: SUBSET Key]
          /\ sweep'.keys = left /\ sweep'.step = "delete"
      BY <1>1, <2>2, <3>1 DEF StoreInv, FilesTypeOK
    <3>3. ASSUME NEW k \in left PROVE Doomed(k[1])'
      <4>1. Doomed(k[1]) /\ k[1] \in Cases
        BY <1>1, <3>1, KeyNumbers DEF StoreInv, SweepSound
      <4> QED
        BY <1>1, <1>5, <4>1, DoomedKept
    <3> QED
      BY <1>1, <3>2, <3>3 DEF SweepSound
  <2> QED
    BY <1>1, <2>1, <2>2
<1>10. FilesTypeOK'
  BY <1>1, <1>2, <1>3, <1>6, <1>9 DEF StoreInv, FilesTypeOK
<1>11. WritersSound'
  BY <1>1, <1>5, WriterSoundKept DEF StoreInv, WritersSound
<1>12. TasksSound'
  BY <1>5, TasksSoundKept DEF StoreInv
<1> QED
  BY <1>6, <1>7, <1>8, <1>9, <1>10, <1>11, <1>12 DEF StoreInv

LEMMA MonthSound ==
    ASSUME StoreInv, Month, UNCHANGED task
    PROVE  StoreInv'
<1>1. /\ sweep.step = "idle" /\ clock < Horizon /\ clock' = clock + 1
      /\ UNCHANGED <<objects, writer, sweep, confirmed, swept, faults>>
  BY DEF Month
<1>2. SweepSound'
  BY <1>1 DEF SweepSound
<1>3. faults' \in 0..MaxFaults /\ clock' \in 0..Horizon
  BY <1>1, CaseFilesAssumption DEF StoreInv, FilesTypeOK
<1>4. sweep' \in [step: {"idle", "list", "delete"},
                  listed: SUBSET [key: Key, at: Nat], keys: SUBSET Key]
  BY <1>1 DEF StoreInv, FilesTypeOK
<1> QED
  BY <1>1, <1>2, <1>3, <1>4, SweepMoves

LEMMA FilesStepSound ==
    ASSUME StoreInv, FilesStep, UNCHANGED task
    PROVE  StoreInv'
<1>1. ASSUME NEW w \in Writers, StageStep(w) PROVE StoreInv'
  BY <1>1, AssembleSound, ValidateTriageSound, ValidateDiagnosisSound, PersistStageSound, Zenon
     DEF StageStep
<1> QED
  BY <1>1, PersistTriageSound, StartSweepSound, ListPageSound, DeleteBatchSound, Zenon
     DEF FilesStep

(* What a step may do to a stored file: nothing, or an approved removal from a case that is *)
(* past its retention or has lost a file already.                                           *)
LEMMA RemovalsJustified ==
    ASSUME StoreInv, DeleteBatch, NEW c \in Cases, NEW s \in Stages, Present(c, s),
           objects'[c][s] # objects[c][s]
    PROVE  objects'[c][s] = None /\ Approved /\ (c \in swept \/ Expired(c))
<1>1. PICK gone \in SUBSET sweep.keys :
          Delete(gone) /\ Approved /\ \A k \in gone : k \in Key /\ Doomed(k[1])
  BY DeleteBatchEffect
<1>2. objects'[c][s] = IF <<c, s>> \in gone THEN None ELSE objects[c][s]
  BY <1>1 DEF Delete
<1>3. <<c, s>> \in gone
  BY <1>2
<1>4. Doomed(<<c, s>>[1]) /\ <<c, s>>[1] = c
  BY <1>1, <1>3
<1>5. c \in swept \/ Expired(c)
  BY <1>4 DEF Doomed, Expired
<1> QED
  BY <1>1, <1>2, <1>3, <1>5

-----------------------------------------------------------------------------
(* The error-rate alert. *)

(* The severity after a result of the past does not change. *)
LEMMA PastSeverity ==
    ASSUME NEW result \in {"success", "fallback", "error"},
           results \in Seq({"success", "fallback", "error"}),
           results' = Append(results, result), NEW n \in 0..Len(results)
    PROVE  SeverityAfter(n)' = SeverityAfter(n)
<1>1. Len(results) \in Nat /\ Window \in Nat /\ n \in Nat
  BY ColdPathAssumption
<1>2. CASE n < Window
  BY <1>2 DEF SeverityAfter
<1>3. CASE ~(n < Window)
  <2>1. ASSUME NEW i \in 1..Window PROVE results'[n - Window + i] = results[n - Window + i]
    <3>1. n - Window + i \in 1..Len(results)
      BY <1>1, <1>3
    <3> QED
      BY <3>1
  <2> DEFINE before == [i \in 1..Window |-> results[n - Window + i] # "success"]
             after == [i \in 1..Window |-> results'[n - Window + i] # "success"]
  <2>2. after = before
    BY <2>1
  <2>3. SeverityAfter(n) = SeverityOf(before)
    BY <1>3 DEF SeverityAfter
  <2>4. SeverityAfter(n)' = SeverityOf(after)
    BY <1>3 DEF SeverityAfter, SeverityOf, Exceeds
  <2> HIDE DEF before, after
  <2> QED
    BY <2>2, <2>3, <2>4
<1> QED
  BY <1>2, <1>3

(* The deque holds the last results after one more. *)
LEMMA PushIsWindow ==
    ASSUME NEW result \in {"success", "fallback", "error"},
           results \in Seq({"success", "fallback", "error"}), recent \in Seq(BOOLEAN),
           RecentIsWindow, results' = Append(results, result),
           recent' = Push(result # "success")
    PROVE  /\ recent' \in Seq(BOOLEAN) /\ Len(recent') <= Window
           /\ RecentIsWindow'
<1> DEFINE n == Len(results)
           failed == result # "success"
           all == Append(recent, failed)
<1>1. n \in Nat /\ Window \in Nat /\ Window > 0 /\ Len(results') = n + 1
  BY ColdPathAssumption
<1>2. failed \in BOOLEAN
  OBVIOUS
<1>3. recent' = IF Len(all) > Window THEN Tail(all) ELSE all
  BY DEF Push
<1>4. results'[n + 1] = result /\ \A i \in 1..n : results'[i] = results[i]
  OBVIOUS
<1>5. (results'[n + 1] # "success") = failed
  BY <1>4, Zenon
<1> HIDE DEF failed
<1>6. /\ all \in Seq(BOOLEAN) /\ Len(all) = Len(recent) + 1
      /\ all[Len(recent) + 1] = failed
      /\ \A i \in 1..Len(recent) : all[i] = recent[i]
  BY <1>2
<1> HIDE DEF all
<1>7. /\ Len(recent) = IF n < Window THEN n ELSE Window
      /\ \A i \in 1..Len(recent) : recent[i] = (results[n - Len(recent) + i] # "success")
  BY DEF RecentIsWindow
<1>8. CASE n < Window
  <2>1. Len(recent) = n /\ recent' = all /\ Len(all) = n + 1
    BY <1>1, <1>3, <1>6, <1>7, <1>8
  <2>2. ASSUME NEW i \in 1..(n + 1) PROVE recent'[i] = (results'[n + 1 - (n + 1) + i] # "success")
    <3>0. n + 1 - (n + 1) + i = i /\ n - n + i = i
      BY <1>1
    <3>1. CASE i = n + 1
      BY <1>5, <1>6, <2>1, <3>0, <3>1
    <3>2. CASE i # n + 1
      <4>1. i \in 1..n
        BY <1>1, <3>2
      <4>2. recent[i] = (results[i] # "success")
        BY <1>7, <2>1, <3>0, <4>1
      <4> QED
        BY <1>4, <1>6, <2>1, <3>0, <4>1, <4>2
    <3> QED
      BY <3>1, <3>2
  <2>3. Len(recent') = n + 1 /\ recent' \in Seq(BOOLEAN) /\ n + 1 <= Window
    BY <1>1, <1>6, <1>8, <2>1
  <2>4. Len(recent') = IF Len(results') < Window THEN Len(results') ELSE Window
    BY <1>1, <1>8, <2>3
  <2>5. ASSUME NEW i \in 1..Len(recent')
        PROVE  recent'[i] = (results'[Len(results') - Len(recent') + i] # "success")
    <3>0. i \in Int /\ n + 1 \in Nat
      BY <1>1, <2>3
    <3>1. i \in 1..(n + 1)
      BY <2>3
    <3>2. recent'[i] = (results'[n + 1 - (n + 1) + i] # "success")
      BY <3>1, <2>2
    <3>3. Len(results') - Len(recent') + i = n + 1 - (n + 1) + i
      <4>1. Len(results') = n + 1 /\ Len(recent') = n + 1
        BY <1>1, <2>3
      <4>2. Len(results') - Len(recent') = n + 1 - (n + 1)
        BY <4>1, <1>1
      <4> QED
        BY <4>2, <3>0
    <3> QED
      BY <3>2, <3>3, Zenon
  <2>6. RecentIsWindow'
    BY <2>4, <2>5, Zenon DEF RecentIsWindow
  <2> QED
    BY <2>3, <2>6
<1>9. CASE ~(n < Window)
  <2>1. Len(recent) = Window /\ recent' = Tail(all) /\ Len(all) = Window + 1
    BY <1>1, <1>3, <1>6, <1>7, <1>9
  <2>2. /\ recent' \in Seq(BOOLEAN) /\ Len(recent') = Window
        /\ \A i \in 1..Window : recent'[i] = all[i + 1]
    <3>1. all # <<>> /\ Len(all) - 1 = Window
      BY <1>1, <1>6, <2>1
    <3>2. /\ Tail(all) \in Seq(BOOLEAN) /\ Len(Tail(all)) = Len(all) - 1
          /\ \A i \in 1..Len(Tail(all)) : Tail(all)[i] = all[i + 1]
      BY <1>6, <3>1, HeadTailProperties
    <3> QED
      BY <2>1, <3>1, <3>2, Zenon
  <2>3. ASSUME NEW i \in 1..Window PROVE recent'[i] = (results'[n + 1 - Window + i] # "success")
    <3>1. CASE i = Window
      <4>1. n + 1 - Window + i = n + 1
        BY <1>1, <3>1
      <4>2. recent'[i] = failed
        BY <1>6, <2>1, <2>2, <3>1
      <4> QED
        BY <1>5, <4>1, <4>2
    <3>2. CASE i # Window
      <4>1. i + 1 \in 1..Window /\ n + 1 - Window + i = n - Window + (i + 1)
            /\ n - Window + (i + 1) \in 1..n
        BY <1>1, <1>9, <3>2
      <4>2. recent[i + 1] = (results[n - Window + (i + 1)] # "success")
        BY <1>7, <2>1, <4>1
      <4>3. recent'[i] = recent[i + 1]
        BY <1>6, <2>1, <2>2, <4>1
      <4>4. results'[n + 1 - Window + i] = results[n - Window + (i + 1)]
        BY <1>4, <4>1
      <4> QED
        BY <4>2, <4>3, <4>4, Zenon
    <3> QED
      BY <3>1, <3>2
  <2>4. Len(recent') = IF Len(results') < Window THEN Len(results') ELSE Window
    BY <1>1, <1>9, <2>2
  <2>5. ASSUME NEW i \in 1..Len(recent')
        PROVE  recent'[i] = (results'[Len(results') - Len(recent') + i] # "success")
    <3>0. i \in Int
      BY <1>1, <2>2
    <3>1. i \in 1..Window
      BY <2>2
    <3>2. recent'[i] = (results'[n + 1 - Window + i] # "success")
      BY <3>1, <2>3
    <3>3. Len(results') - Len(recent') + i = n + 1 - Window + i
      <4>1. Len(results') = n + 1 /\ Len(recent') = Window
        BY <1>1, <2>2
      <4>2. Len(results') - Len(recent') = (n + 1) - Window
        BY <4>1, Zenon
      <4>3. (n + 1) - Window + i = n + 1 - Window + i
        BY <1>1, <3>0
      <4> QED
        BY <4>2, <4>3, Zenon
    <3> QED
      BY <3>2, <3>3, Zenon
  <2>6. RecentIsWindow'
    BY <2>4, <2>5, Zenon DEF RecentIsWindow
  <2> QED
    BY <1>1, <2>2, <2>6
<1> QED
  BY <1>8, <1>9

LEMMA SeverityTyped ==
    ASSUME NEW w
    PROVE  SeverityOf(w) \in Severity \cup {None}
  BY DEF SeverityOf, Severity

\* The severity the code sets after the window w.
NextSeverity(w) == IF Len(w) < Window THEN alerted ELSE SeverityOf(w)

(* The code's severity after one more result is the severity of the last results. *)
LEMMA SeverityNow ==
    ASSUME NEW result \in {"success", "fallback", "error"}, NEW m,
           results \in Seq({"success", "fallback", "error"}),
           results' = Append(results, result), m = Len(results'),
           recent' \in Seq(BOOLEAN), RecentIsWindow',
           alerted = SeverityAfter(Len(results))
    PROVE  SeverityAfter(m)' = NextSeverity(recent')
<1>1. /\ m \in Nat /\ Len(results) \in Nat /\ m = Len(results) + 1 /\ Window \in Nat
  BY ColdPathAssumption
<1>2. /\ Len(recent') = IF m < Window THEN m ELSE Window
      /\ \A i \in 1..Len(recent') : recent'[i] = (results'[m - Len(recent') + i] # "success")
  BY DEF RecentIsWindow
<1>3. CASE m < Window
  <2>1. SeverityAfter(m)' = None
    BY <1>3 DEF SeverityAfter
  <2>2. alerted = None
    BY <1>1, <1>3 DEF SeverityAfter
  <2>3. NextSeverity(recent') = alerted
    BY <1>2, <1>3 DEF NextSeverity
  <2> QED
    BY <2>1, <2>2, <2>3
<1>4. CASE ~(m < Window)
  <2> DEFINE after == [i \in 1..Window |-> results'[m - Window + i] # "success"]
  <2>1. Len(recent') = Window
    BY <1>2, <1>4
  <2>2. recent' = [i \in 1..Window |-> recent'[i]]
    BY <2>1
  <2>3. recent' = after
    BY <1>2, <2>1, <2>2
  <2>4. SeverityAfter(m)' = SeverityOf(after)
    BY <1>4 DEF SeverityAfter, SeverityOf, Exceeds
  <2>5. NextSeverity(recent') = SeverityOf(recent')
    BY <1>1, <2>1 DEF NextSeverity
  <2> HIDE DEF after
  <2> QED
    BY <2>3, <2>4, <2>5
<1> QED
  BY <1>3, <1>4

Edge(a) == SeverityAfter(a[1]) = a[2] /\ SeverityAfter(a[1] - 1) # a[2]
Edges == {a \in (1..Len(results)) \X Rules : Edge(a)}

LEMMA EdgeFacts ==
    ASSUME NEW result \in {"success", "fallback", "error"},
           results \in Seq({"success", "fallback", "error"}),
           results' = Append(results, result),
           alerted = SeverityAfter(Len(results)),
           recent' \in Seq(BOOLEAN), RecentIsWindow',
           NEW a \in (1..(Len(results) + 1)) \X Rules
    PROVE  /\ a[1] \in 1..Len(results) => (Edge(a)' <=> Edge(a))
           /\ a[1] = Len(results) + 1 =>
                (Edge(a)' <=> NextSeverity(recent') = a[2] /\ alerted # a[2])
<1>1. a[1] \in 1..(Len(results) + 1) /\ Len(results) \in Nat
  OBVIOUS
<1>2. a[1] - 1 \in 0..Len(results)
  BY <1>1
<1>3. SeverityAfter(a[1] - 1)' = SeverityAfter(a[1] - 1)
  BY <1>2, PastSeverity
<1>4. ASSUME a[1] \in 1..Len(results) PROVE Edge(a)' <=> Edge(a)
  <2>1. a[1] \in 0..Len(results)
    BY <1>1, <1>4
  <2>2. SeverityAfter(a[1])' = SeverityAfter(a[1])
    BY <2>1, PastSeverity
  <2> QED
    BY <1>3, <2>2 DEF Edge
<1>5. ASSUME a[1] = Len(results) + 1
      PROVE  Edge(a)' <=> NextSeverity(recent') = a[2] /\ alerted # a[2]
  <2>1. a[1] = Len(results') /\ a[1] - 1 = Len(results)
    BY <1>1, <1>5
  <2>2. SeverityAfter(a[1])' = NextSeverity(recent')
    BY <2>1, SeverityNow
  <2>3. SeverityAfter(a[1] - 1)' = alerted
    BY <1>3, <2>1
  <2> QED
    BY <2>2, <2>3 DEF Edge
<1> QED
  BY <1>4, <1>5

(* Recording a result keeps the alert state. *)
LEMMA RecordResultSound ==
    ASSUME ColdTypeOK, AlertState, NEW result \in {"success", "fallback", "error"},
           RecordResult(result)
    PROVE  /\ recent' \in Seq(BOOLEAN) /\ Len(recent') <= Window
           /\ alerted' \in Severity \cup {None}
           /\ alerts' \subseteq (Nat \X Severity)
           /\ results' \in Seq({"success", "fallback", "error"})
           /\ Len(results') = Len(results) + 1 /\ results'[Len(results')] = result
           /\ AlertState'
<1> DEFINE n == Len(results)
           sev == NextSeverity(recent')
<1>1. /\ results \in Seq({"success", "fallback", "error"}) /\ recent \in Seq(BOOLEAN)
      /\ alerted \in Severity \cup {None} /\ alerts \subseteq (Nat \X Severity)
  BY DEF ColdTypeOK
<1>2. RecentIsWindow /\ alerted = SeverityAfter(n) /\ alerts = Edges
  BY DEF AlertState, AlertsAtEdges, Edges, Edge
<1>3. results' = Append(results, result) /\ recent' = Push(result # "success") /\ AlertOn(sev)
  BY Zenon DEF RecordResult, RecordLlmResult, NextSeverity
<1>4. recent' \in Seq(BOOLEAN) /\ Len(recent') <= Window /\ RecentIsWindow'
  BY <1>1, <1>2, <1>3, PushIsWindow
<1>5. /\ results' \in Seq({"success", "fallback", "error"})
      /\ n \in Nat /\ Len(results') = n + 1 /\ results'[Len(results')] = result
  BY <1>1, <1>3
<1>6. sev \in Severity \cup {None}
  BY <1>1, SeverityTyped DEF NextSeverity
<1> HIDE DEF sev
<1>7. /\ alerted' = sev
      /\ alerts' = IF sev \in {None, alerted} \/ sev \notin Rules THEN alerts
                   ELSE alerts \cup {<<n + 1, sev>>}
  BY <1>3 DEF AlertOn
<1>8. alerts' \subseteq (Nat \X Severity)
  BY <1>1, <1>5, <1>6, <1>7
<1>9. alerted' = SeverityAfter(Len(results))'
  <2>1. PICK m : m = Len(results')
    OBVIOUS
  <2>2. SeverityAfter(m)' = sev
    BY <1>1, <1>2, <1>3, <1>4, <2>1, SeverityNow DEF sev
  <2>3. SeverityAfter(m)' = SeverityAfter(Len(results))'
    BY <2>1 DEF SeverityAfter
  <2> QED
    BY <1>7, <2>2, <2>3
<1>10. None \notin Rules
  BY ColdPathAssumption
<1>11. ASSUME NEW a \in (1..(n + 1)) \X Rules
       PROVE  Edge(a)' <=> a \in alerts'
  <2>1. a = <<a[1], a[2]>> /\ a[1] \in 1..(n + 1) /\ a[2] \in Rules
    OBVIOUS
  <2>2. /\ a[1] \in 1..n => (Edge(a)' <=> Edge(a))
        /\ a[1] = n + 1 => (Edge(a)' <=> sev = a[2] /\ alerted # a[2])
    BY <1>1, <1>2, <1>3, <1>4, EdgeFacts DEF sev
  <2>3. CASE a[1] \in 1..n
    <3>1. a # <<n + 1, sev>>
      BY <1>5, <2>1, <2>3
    <3>2. a \in alerts' <=> a \in alerts
      BY <1>7, <3>1
    <3>3. a \in alerts <=> Edge(a)
      BY <1>2, <2>1, <2>3 DEF Edges
    <3> QED
      BY <2>2, <2>3, <3>2, <3>3
  <2>4. CASE a[1] = n + 1
    <3>1. a \notin alerts
      BY <1>2, <1>5, <2>4 DEF Edges
    <3>2. a \in alerts' <=> sev = a[2] /\ alerted # a[2]
      BY <1>7, <1>10, <2>1, <2>4, <3>1
    <3> QED
      BY <2>2, <2>4, <3>2
  <2> QED
    BY <1>5, <2>1, <2>3, <2>4
<1>12. alerts' \subseteq (1..(n + 1)) \X Rules
  BY <1>2, <1>5, <1>6, <1>7 DEF Edges
<1>13. alerts' = {a \in (1..(n + 1)) \X Rules : Edge(a)'}
  BY <1>11, <1>12
<1>14. AlertsAtEdges'
  BY <1>5, <1>13 DEF AlertsAtEdges, Edge
<1> QED
  BY <1>4, <1>5, <1>6, <1>7, <1>8, <1>9, <1>14 DEF AlertState

-----------------------------------------------------------------------------
(* The tasks. *)

TaskRecord == [at: {"unused", "spawned", "waiting"} \cup Done,
               case: Cases \cup {None}, triage: TriageHash \cup {None}]

At(ats) == {t \in Tasks : task[t].at \in ats}

LEMMA AtFinite ==
    ASSUME NEW ats
    PROVE  IsFiniteSet(At(ats)) /\ Count(ats) = Cardinality(At(ats)) /\ Count(ats) \in Nat
<1>1. At(ats) \in SUBSET Tasks /\ IsFiniteSet(Tasks)
  BY ColdPathAssumption DEF At
<1>2. IsFiniteSet(At(ats))
  BY <1>1, FS_Subset
<1>3. Cardinality(At(ats)) \in Nat
  BY <1>2, FS_CardinalityType
<1> QED
  BY <1>2, <1>3 DEF Count, At

(* One task moves: how many tasks are in a set of places. *)
LEMMA CountMoves ==
    ASSUME NEW t \in Tasks, NEW ats,
           \A u \in Tasks \ {t} : task'[u].at = task[u].at
    PROVE  /\ (task[t].at \in ats <=> task'[t].at \in ats) => Count(ats)' = Count(ats)
           /\ task[t].at \notin ats /\ task'[t].at \in ats => Count(ats)' = Count(ats) + 1
           /\ task[t].at \in ats /\ task'[t].at \notin ats => Count(ats)' = Count(ats) - 1
<1>1. Count(ats)' = Cardinality(At(ats)') /\ Count(ats) = Cardinality(At(ats))
  BY DEF Count, At
<1>2. IsFiniteSet(At(ats))
  BY AtFinite
<1>3. ASSUME task[t].at \in ats <=> task'[t].at \in ats PROVE At(ats)' = At(ats)
  BY <1>3 DEF At
<1>4. ASSUME task[t].at \notin ats, task'[t].at \in ats
      PROVE  Cardinality(At(ats)') = Cardinality(At(ats)) + 1
  <2>1. At(ats)' = At(ats) \cup {t} /\ t \notin At(ats)
    BY <1>4 DEF At
  <2> QED
    BY <1>2, <2>1, FS_AddElement
<1>5. ASSUME task[t].at \in ats, task'[t].at \notin ats
      PROVE  Cardinality(At(ats)') = Cardinality(At(ats)) - 1
  <2>1. At(ats)' = At(ats) \ {t} /\ t \in At(ats)
    BY <1>5 DEF At
  <2> QED
    BY <1>2, <2>1, FS_RemoveElement
<1> QED
  BY <1>1, <1>3, <1>4, <1>5

(* Moving a task on changes nothing but its place. *)
LEMMA TaskMoves ==
    ASSUME task \in [Tasks -> TaskRecord], NEW t \in Tasks,
           NEW place \in {"unused", "spawned", "waiting"} \cup Done,
           task' = [task EXCEPT ![t].at = place]
    PROVE  /\ task' \in [Tasks -> TaskRecord]
           /\ task'[t].at = place /\ task'[t].case = task[t].case
           /\ task'[t].triage = task[t].triage
           /\ \A u \in Tasks \ {t} : task'[u] = task[u]
  BY DEF TaskRecord

(* The store does not change. *)
LEMMA StoreStays ==
    ASSUME StoreInv, UNCHANGED fileVars, TasksSound'
    PROVE  StoreInv'
<1>1. UNCHANGED <<objects, writer, sweep, confirmed, swept, faults, clock>>
  BY DEF fileVars
<1>2. FilesTypeOK'
  BY <1>1 DEF StoreInv, FilesTypeOK
<1>3. ChainHolds' /\ ConfirmedIsStored' /\ TriagesSealed'
  BY <1>1 DEF StoreInv, ChainHolds, ConfirmedIsStored, TriagesSealed, Present, Stored
<1>4. WritersSound'
  BY <1>1 DEF StoreInv, WritersSound, WriterSound, Knows, Present, Stored
<1>5. SweepSound'
  BY <1>1 DEF StoreInv, SweepSound, ListedSound, Doomed, Present, Cutoff
<1> QED
  BY <1>2, <1>3, <1>4, <1>5 DEF StoreInv

(* What the alert and the results say does not change with them. *)
LEMMA AlertStateStays ==
    ASSUME AlertState, UNCHANGED <<recent, alerted, alerts, results>>
    PROVE  AlertState'
<1>1. /\ recent' = recent /\ alerted' = alerted /\ alerts' = alerts /\ results' = results
      /\ RecentIsWindow /\ alerted = SeverityAfter(Len(results)) /\ alerts = Edges
  BY DEF AlertState, AlertsAtEdges, Edges, Edge
<1>2. RecentIsWindow'
  BY <1>1, Zenon DEF RecentIsWindow
<1>3. ASSUME NEW m PROVE SeverityAfter(m)' = SeverityAfter(m)
  BY <1>1, Zenon DEF SeverityAfter, SeverityOf, Exceeds
<1>4. alerted' = SeverityAfter(Len(results))'
  BY <1>1, Zenon DEF SeverityAfter, SeverityOf, Exceeds
<1>5. ASSUME NEW a PROVE Edge(a)' <=> Edge(a)
  BY <1>3 DEF Edge
<1>6. AlertsAtEdges'
  <2>1. alerts' = {a \in (1..Len(results')) \X Rules : Edge(a)'}
    BY <1>1, <1>5 DEF Edges
  <2> QED
    BY <2>1 DEF AlertsAtEdges, Edge
<1> QED
  BY <1>2, <1>4, <1>6 DEF AlertState

(* spawn_cold_path_diagnosis_task *)
LEMMA SpawnSound ==
    ASSUME IInv, NEW t \in Tasks, NEW c \in Cases, Spawn(t, c)
    PROVE  IInv'
<1> DEFINE new == [at |-> "spawned", case |-> c, triage |-> objects[c]["triage"].file.hash]
<1>1. /\ task[t].at = "unused" /\ Present(c, "triage")
      /\ task' = [task EXCEPT ![t] = new]
      /\ UNCHANGED <<objects, swept, mode, inflight, health, recent, alerted, alerts, results, crashes>>
      /\ UNCHANGED fileVars
  BY DEF Spawn, fileVars, taskVars
<1>2. new.triage \in TriageHash /\ Knows(c, "triage", new.triage)
  BY <1>1 DEF IInv, StoreInv, TriagesSealed, Knows, Stored
<1>3. new \in TaskRecord
  BY <1>2 DEF TaskRecord
<1>4. new.at = "spawned" /\ new.case = c
  OBVIOUS
<1> HIDE DEF new
<1>5. task \in [Tasks -> TaskRecord]
  BY DEF IInv, ColdTypeOK, TaskRecord
<1>6. /\ task' \in [Tasks -> TaskRecord] /\ task'[t] = new
      /\ \A u \in Tasks \ {t} : task'[u] = task[u]
  BY <1>1, <1>3, <1>5
<1>7. TasksSound'
  <2> SUFFICES ASSUME NEW u \in Tasks, task'[u].at \in {"spawned", "waiting"}
               PROVE  /\ task'[u].case \in Cases
                      /\ task'[u].triage \in TriageHash
                      /\ Knows(task[u].case, "triage", task[u].triage)'
    BY DEF TasksSound
  <2>1. CASE u = t
    BY <1>1, <1>2, <1>4, <1>6, <2>1 DEF Knows, Present, Stored
  <2>2. CASE u # t
    BY <1>1, <1>6, <2>2 DEF IInv, StoreInv, TasksSound, Knows, Present, Stored
  <2> QED
    BY <2>1, <2>2
<1>8. StoreInv'
  BY <1>1, <1>7, StoreStays DEF IInv
<1>9. ColdTypeOK'
  BY <1>1, <1>6 DEF IInv, ColdTypeOK, TaskRecord
<1>10. \A u \in Tasks \ {t} : task'[u].at = task[u].at
  BY <1>6
<1>11. EveryTaskCounted'
  <2>1. Count({"waiting"})' = Count({"waiting"})
    BY <1>1, <1>4, <1>6, <1>10, CountMoves
  <2>2. Count({"success", "fallback", "error"})' = Count({"success", "fallback", "error"})
    BY <1>1, <1>4, <1>6, <1>10, CountMoves
  <2> QED
    BY <1>1, <2>1, <2>2 DEF IInv, EveryTaskCounted
<1>12. HealthTellsLast'
  BY <1>1 DEF IInv, HealthTellsLast
<1>13. AlertState'
  BY <1>1, AlertStateStays DEF IInv
<1> QED
  BY <1>8, <1>9, <1>11, <1>12, <1>13 DEF IInv

(* The head of run_cold_path_diagnosis *)
LEMMA StartSound ==
    ASSUME IInv, NEW t \in Tasks, Start(t)
    PROVE  IInv'
<1>1. /\ task[t].at = "spawned"
      /\ UNCHANGED <<objects, swept, mode, recent, alerted, alerts, results, crashes>>
      /\ UNCHANGED fileVars
  BY DEF Start, fileVars
<1>2. PICK place \in {"waiting", "unsafe"} :
        /\ task' = [task EXCEPT ![t].at = place]
        /\ IF place = "waiting" THEN health' = "HEALTHY" /\ inflight' = inflight + 1
           ELSE UNCHANGED <<health, inflight>>
  BY DEF Start, UpdateHealth
<1>3. task \in [Tasks -> TaskRecord] /\ inflight \in Nat
  BY DEF IInv, ColdTypeOK, TaskRecord
<1>4. /\ task' \in [Tasks -> TaskRecord]
      /\ task'[t].at = place /\ task'[t].case = task[t].case
      /\ task'[t].triage = task[t].triage
      /\ \A u \in Tasks \ {t} : task'[u] = task[u]
  BY <1>2, <1>3, TaskMoves DEF Done
<1>5. TasksSound'
  BY <1>1, <1>4 DEF IInv, StoreInv, TasksSound, Knows, Present, Stored
<1>6. StoreInv'
  BY <1>1, <1>5, StoreStays DEF IInv
<1>7. ColdTypeOK'
  BY <1>1, <1>2, <1>3, <1>4 DEF IInv, ColdTypeOK, TaskRecord
<1>8. \A u \in Tasks \ {t} : task'[u].at = task[u].at
  BY <1>4
<1>9. EveryTaskCounted'
  <2>1. Count({"success", "fallback", "error"})' = Count({"success", "fallback", "error"})
    BY <1>1, <1>4, <1>8, CountMoves
  <2>2. Count({"waiting"})' = IF place = "waiting" THEN Count({"waiting"}) + 1
                              ELSE Count({"waiting"})
    BY <1>1, <1>4, <1>8, CountMoves
  <2> QED
    BY <1>1, <1>2, <2>1, <2>2 DEF IInv, EveryTaskCounted
<1>10. HealthTellsLast'
  BY <1>1, <1>2, <1>3 DEF IInv, HealthTellsLast
<1>11. AlertState'
  BY <1>1, AlertStateStays DEF IInv
<1> QED
  BY <1>6, <1>7, <1>9, <1>10, <1>11 DEF IInv

(* The end of a task: it is counted, once, and the gauge goes down. *)
LEMMA EndSound ==
    ASSUME ColdTypeOK, EveryTaskCounted, AlertState, NEW t \in Tasks, Running(t),
           NEW result \in {"success", "fallback", "error"},
           NEW place \in {"success", "fallback", "error"},
           NEW status \in {"HEALTHY", "DEGRADED"}, (status = "DEGRADED") <=> (result # "success"),
           End(t, place), RecordResult(result), UpdateHealth(status), UNCHANGED <<mode, crashes>>
    PROVE  /\ ColdTypeOK' /\ EveryTaskCounted' /\ HealthTellsLast' /\ AlertState'
           /\ \A u \in Tasks : task'[u].at \in {"spawned", "waiting"} => task'[u] = task[u]
<1>1. /\ task[t].at = "waiting" /\ task' = [task EXCEPT ![t].at = place]
      /\ inflight' = inflight - 1 /\ health' = status /\ UNCHANGED <<mode, crashes>>
  BY DEF Running, End, UpdateHealth
<1>2. task \in [Tasks -> TaskRecord] /\ inflight \in Nat /\ results \in Seq({"success", "fallback", "error"})
  BY DEF ColdTypeOK, TaskRecord
<1>3. /\ task' \in [Tasks -> TaskRecord]
      /\ task'[t].at = place
      /\ \A u \in Tasks \ {t} : task'[u] = task[u]
  BY <1>1, <1>2, TaskMoves DEF Done
<1>4. /\ recent' \in Seq(BOOLEAN) /\ Len(recent') <= Window
      /\ alerted' \in Severity \cup {None}
      /\ alerts' \subseteq (Nat \X Severity)
      /\ results' \in Seq({"success", "fallback", "error"})
      /\ Len(results') = Len(results) + 1 /\ results'[Len(results')] = result
      /\ AlertState'
  BY RecordResultSound
<1>5. \A u \in Tasks \ {t} : task'[u].at = task[u].at
  BY <1>3
<1>6. inflight' = Count({"waiting"})' /\ inflight' \in Nat
  <2>1. Count({"waiting"})' = Count({"waiting"}) - 1
    BY <1>1, <1>3, <1>5, CountMoves
  <2>2. inflight' = Count({"waiting"})'
    BY <1>1, <2>1 DEF EveryTaskCounted
  <2>3. t \in At({"waiting"}) /\ IsFiniteSet(At({"waiting"}))
        /\ inflight = Cardinality(At({"waiting"}))
    BY <1>1, AtFinite DEF At, EveryTaskCounted
  <2>4. inflight # 0
    BY <2>3, FS_EmptySet
  <2> QED
    BY <1>1, <1>2, <2>2, <2>4
<1>7. Len(results') = Count({"success", "fallback", "error"})'
  <2>1. Count({"success", "fallback", "error"})' = Count({"success", "fallback", "error"}) + 1
    BY <1>1, <1>3, <1>5, CountMoves
  <2> QED
    BY <1>4, <2>1 DEF EveryTaskCounted
<1>8. EveryTaskCounted'
  BY <1>6, <1>7 DEF EveryTaskCounted
<1>9. HealthTellsLast'
  BY <1>1, <1>4 DEF HealthTellsLast
<1>10. ColdTypeOK'
  BY <1>1, <1>3, <1>4, <1>6 DEF ColdTypeOK, TaskRecord
<1>11. \A u \in Tasks : task'[u].at \in {"spawned", "waiting"} => task'[u] = task[u]
  BY <1>3
<1> QED
  BY <1>4, <1>8, <1>9, <1>10, <1>11

(* diagnosis.json as a running task writes it *)
LEMMA TaskWriteSound ==
    ASSUME IInv, NEW t \in Tasks, Running(t), NEW body \in Bodies["diagnosis"], NEW outcome,
           Write(t, body, outcome), UNCHANGED <<writer, sweep, swept, clock>>,
           \A u \in Tasks : task'[u].at \in {"spawned", "waiting"} => task'[u] = task[u]
    PROVE  StoreInv'
<1> DEFINE c == task[t].case
           h == task[t].triage
           f == Seal(body, h, None, TRUE)
<1>1. "diagnosis" \in Stages /\ "diagnosis" \in Later /\ "triage" \in Stages
      /\ "diagnosis" # "triage"
  BY DEF Stages, Later
<1>2. body \in Body
  BY <1>1, BodyOfStage
<1>3. c \in Cases /\ h \in TriageHash /\ Knows(c, "triage", h)
  BY DEF IInv, StoreInv, TasksSound, Running
<1>4. f \in File /\ f.triage = h /\ f.diagnosis = None /\ HasValidHash(f)
  <2>1. h \in TriageHash \cup {None} /\ None \in DiagnosisHash \cup {None}
    BY <1>3
  <2>2. f = Sealed(body, h, None)
    BY Zenon DEF Sealed
  <2> HIDE DEF f, h
  <2> QED
    BY <1>2, <2>1, <2>2, SealedTyped
<1>5. PersistWriteOnce(c, "diagnosis", f, outcome)
  BY DEF Write
<1> HIDE DEF c, h, f
<1>6. Fits(c, "diagnosis", f)
  BY <1>1, <1>3, <1>4 DEF Fits
<1>7. /\ objects' \in [Cases -> [Stages -> Object \cup {None}]]
      /\ confirmed' \subseteq Cases \X Stages \X File
      /\ faults' \in 0..MaxFaults
      /\ StoreMove
      /\ ConfirmedIsStored' /\ ChainHolds' /\ TriagesSealed' /\ SweepSound'
  BY <1>1, <1>3, <1>4, <1>5, <1>6, FittingWrite DEF IInv
<1>8. FilesTypeOK'
  BY <1>7 DEF IInv, StoreInv, FilesTypeOK
<1>9. WritersSound'
  BY <1>7, WriterSoundKept DEF IInv, StoreInv, WritersSound
<1>10. TasksSound'
  <2> SUFFICES ASSUME NEW u \in Tasks, task'[u].at \in {"spawned", "waiting"}
               PROVE  /\ task'[u].case \in Cases
                      /\ task'[u].triage \in TriageHash
                      /\ Knows(task[u].case, "triage", task[u].triage)'
    BY DEF TasksSound
  <2>1. task'[u] = task[u]
    OBVIOUS
  <2>2. /\ task[u].case \in Cases /\ task[u].triage \in TriageHash
        /\ Knows(task[u].case, "triage", task[u].triage)
    BY <2>1 DEF IInv, StoreInv, TasksSound
  <2>3. PICK d \in Cases, g \in TriageHash : d = task[u].case /\ g = task[u].triage
    BY <2>2
  <2>4. Knows(d, "triage", g)'
    BY <1>1, <1>7, <2>2, <2>3, KnowsKept
  <2> QED
    BY <2>1, <2>2, <2>3, <2>4 DEF Knows
<1> QED
  BY <1>7, <1>8, <1>9, <1>10 DEF StoreInv

(* The tail of run_cold_path_diagnosis, one step of the event loop *)
LEMMA FinishSound ==
    ASSUME IInv, NEW t \in Tasks, Finish(t)
    PROVE  IInv'
<1>1. Running(t) /\ UNCHANGED <<writer, sweep, swept, clock, mode, crashes>>
  BY DEF Finish
<1>2. PICK body \in Answers(mode) :
         IF body \in Reasons THEN WriteFallback(t, body) ELSE WriteReport(t, body)
  BY DEF Finish
<1>3. body \in Bodies["diagnosis"]
  BY ColdPathAssumption DEF IInv, ColdTypeOK
<1>4. \E outcome \in {"confirmed", "raised"}, result \in {"success", "fallback", "error"},
         place \in {"success", "fallback", "error"}, status \in {"HEALTHY", "DEGRADED"} :
            /\ (status = "DEGRADED") <=> (result # "success")
            /\ Write(t, body, outcome) /\ End(t, place)
            /\ RecordResult(result) /\ UpdateHealth(status)
  <2>1. CASE body \in Reasons
    <3>1. WriteFallback(t, body)
      BY <1>2, <2>1
    <3>2. PICK outcome \in {"confirmed", "raised"} :
             Write(t, body, outcome) /\ End(t, IF outcome = "confirmed" THEN "fallback" ELSE "error")
      BY <3>1 DEF WriteFallback
    <3>3. UpdateHealth("DEGRADED") /\ RecordResult("fallback")
      BY <3>1 DEF WriteFallback
    <3>4. PICK place \in {"success", "fallback", "error"} : End(t, place)
      BY <3>2
    <3> QED
      BY <3>2, <3>3, <3>4
  <2>2. CASE body \notin Reasons
    <3>1. WriteReport(t, body)
      BY <1>2, <2>2
    <3>2. CASE /\ Write(t, body, "confirmed") /\ UpdateHealth("HEALTHY")
               /\ RecordResult("success") /\ End(t, "success")
      BY <3>2
    <3>3. CASE /\ Write(t, body, "raised") /\ UpdateHealth("DEGRADED")
               /\ RecordResult("error") /\ End(t, "error")
      BY <3>3
    <3> QED
      BY <3>1, <3>2, <3>3 DEF WriteReport
  <2> QED
    BY <2>1, <2>2
<1>5. PICK outcome \in {"confirmed", "raised"}, result \in {"success", "fallback", "error"},
           place \in {"success", "fallback", "error"}, status \in {"HEALTHY", "DEGRADED"} :
            /\ (status = "DEGRADED") <=> (result # "success")
            /\ Write(t, body, outcome) /\ End(t, place)
            /\ RecordResult(result) /\ UpdateHealth(status)
  BY <1>4
<1>6. ColdTypeOK /\ EveryTaskCounted /\ AlertState
  BY DEF IInv
<1>7. /\ ColdTypeOK' /\ EveryTaskCounted' /\ HealthTellsLast' /\ AlertState'
      /\ \A u \in Tasks : task'[u].at \in {"spawned", "waiting"} => task'[u] = task[u]
  BY <1>1, <1>5, <1>6, EndSound
<1>8. StoreInv'
  BY <1>1, <1>3, <1>5, <1>7, TaskWriteSound
<1> QED
  BY <1>7, <1>8 DEF IInv

(* No task and no record of one changes. *)
LEMMA ColdStays ==
    ASSUME IInv, UNCHANGED coldVars
    PROVE  ColdTypeOK' /\ EveryTaskCounted' /\ HealthTellsLast' /\ AlertState'
<1>1. UNCHANGED <<mode, task, inflight, health, recent, alerted, alerts, results, crashes>>
  BY DEF coldVars
<1>2. ColdTypeOK'
  BY <1>1 DEF IInv, ColdTypeOK
<1>3. EveryTaskCounted'
  BY <1>1 DEF IInv, EveryTaskCounted, Count
<1>4. HealthTellsLast'
  BY <1>1 DEF IInv, HealthTellsLast
<1>5. AlertState'
  BY <1>1, AlertStateStays DEF IInv
<1> QED
  BY <1>2, <1>3, <1>4, <1>5

(* No result has been recorded: nothing is alerted. *)
LEMMA NoResultsYet ==
    ASSUME recent = <<>>, alerted = None, alerts = {}, results = <<>>
    PROVE  AlertState
<1>1. Window \in Nat /\ Window > 0 /\ Len(results) = 0 /\ Len(recent) = 0
  BY ColdPathAssumption
<1>2. RecentIsWindow
  BY <1>1 DEF RecentIsWindow
<1>3. alerted = SeverityAfter(Len(results))
  BY <1>1 DEF SeverityAfter
<1>4. (1..Len(results)) \X Rules = {}
  BY <1>1
<1>5. AlertsAtEdges
  BY <1>4 DEF AlertsAtEdges
<1> QED
  BY <1>2, <1>3, <1>5 DEF AlertState

(* No task is in any of these places. *)
LEMMA NobodyAt ==
    ASSUME NEW ats, \A t \in Tasks : task[t].at \notin ats
    PROVE  Count(ats) = 0
<1>1. At(ats) = {}
  BY DEF At
<1> QED
  BY <1>1, FS_EmptySet DEF Count, At

LEMMA CrashSound ==
    ASSUME IInv, Crash
    PROVE  IInv'
<1>1. /\ crashes < MaxCrashes /\ crashes' = crashes + 1
      /\ inflight' = 0 /\ health' = None /\ recent' = <<>> /\ alerted' = None
      /\ alerts' = {} /\ results' = <<>>
      /\ UNCHANGED fileVars /\ UNCHANGED mode
  BY DEF Crash
<1>2. \A t \in Tasks : task'[t] \in TaskRecord /\ task'[t].at \in {"unused", "lost"}
  BY DEF Crash, NoTask, TaskRecord, Done
<1>3. task' \in [Tasks -> TaskRecord]
  BY <1>2 DEF Crash
<1>4. ColdTypeOK'
  BY <1>1, <1>3, ColdPathAssumption DEF IInv, ColdTypeOK, TaskRecord
<1>5. TasksSound'
  BY <1>2 DEF TasksSound
<1>6. StoreInv'
  BY <1>1, <1>5, StoreStays DEF IInv
<1>7. EveryTaskCounted'
  <2>1. \A t \in Tasks : task'[t].at \notin {"waiting"} /\ task'[t].at \notin {"success", "fallback", "error"}
    BY <1>2
  <2>2. At({"waiting"})' = {} /\ At({"success", "fallback", "error"})' = {}
    BY <2>1 DEF At
  <2>3. Count({"waiting"})' = 0 /\ Count({"success", "fallback", "error"})' = 0
    BY <2>2, FS_EmptySet DEF Count, At
  <2> QED
    BY <1>1, <2>3 DEF EveryTaskCounted
<1>8. HealthTellsLast'
  BY <1>1 DEF HealthTellsLast
<1>9. AlertState'
  <2>1. Window \in Nat /\ Window > 0 /\ Len(results') = 0 /\ Len(recent') = 0
    BY <1>1, ColdPathAssumption
  <2>2. RecentIsWindow'
    BY <2>1 DEF RecentIsWindow
  <2>3. alerted' = SeverityAfter(Len(results))'
    BY <1>1, <2>1 DEF SeverityAfter
  <2>4. AlertsAtEdges'
    BY <1>1, <2>1 DEF AlertsAtEdges
  <2> QED
    BY <2>2, <2>3, <2>4 DEF AlertState
<1> QED
  BY <1>4, <1>6, <1>7, <1>8, <1>9 DEF IInv

-----------------------------------------------------------------------------
(* The theorems. *)

LEMMA InitSound == Init => IInv
<1> SUFFICES ASSUME Init PROVE IInv
  OBVIOUS
<1>1. FilesInit /\ task = [t \in Tasks |-> NoTask] /\ mode \in Modes
      /\ inflight = 0 /\ health = None /\ recent = <<>> /\ alerted = None /\ alerts = {}
      /\ results = <<>> /\ crashes = 0
  BY DEF Init
<1>2. /\ \A c \in Cases, s \in Stages : ~Present(c, s)
      /\ objects \in [Cases -> [Stages -> Object \cup {None}]]
      /\ \A w \in Writers : writer[w] = Idle
      /\ sweep = Resting /\ confirmed = {} /\ swept = {} /\ faults = 0 /\ clock = 0
      /\ writer = [w \in Writers |-> Idle]
  BY <1>1 DEF FilesInit, Present
<1>3. "triage" \in Stages
  BY DEF Stages
<1>4. FilesTypeOK
  BY <1>2, IdleTyped, RestingTyped, CaseFilesAssumption DEF FilesTypeOK
<1>5. ChainHolds /\ ConfirmedIsStored /\ TriagesSealed
  BY <1>2, <1>3 DEF ChainHolds, ConfirmedIsStored, TriagesSealed
<1>6. WritersSound
  BY <1>2, IdleTyped DEF WritersSound
<1>7. SweepSound
  BY <1>2, RestingTyped DEF SweepSound, Resting
<1>8. \A t \in Tasks : task[t] \in TaskRecord /\ task[t].at = "unused"
  BY <1>1 DEF NoTask, TaskRecord
<1>9. TasksSound
  BY <1>8 DEF TasksSound
<1>10. ColdTypeOK
  BY <1>1, <1>8, ColdPathAssumption DEF ColdTypeOK, TaskRecord
<1>11. EveryTaskCounted
  <2>1. \A t \in Tasks : task[t].at \notin {"waiting"} /\ task[t].at \notin {"success", "fallback", "error"}
    BY <1>8
  <2>2. Count({"waiting"}) = 0 /\ Count({"success", "fallback", "error"}) = 0
    BY <2>1, NobodyAt
  <2> QED
    BY <1>1, <2>2 DEF EveryTaskCounted
<1>12. HealthTellsLast
  BY <1>1 DEF HealthTellsLast
<1>13. AlertState
  BY <1>1, NoResultsYet
<1> QED
  BY <1>4, <1>5, <1>6, <1>7, <1>9, <1>10, <1>11, <1>12, <1>13 DEF IInv, StoreInv

LEMMA StepSound == IInv /\ [Next]_vars => IInv'
<1> SUFFICES ASSUME IInv, [Next]_vars PROVE IInv'
  OBVIOUS
<1>1. ASSUME FilesStep, UNCHANGED coldVars PROVE IInv'
  <2>1. UNCHANGED task
    BY <1>1 DEF coldVars
  <2>2. StoreInv'
    BY <1>1, <2>1, FilesStepSound DEF IInv
  <2> QED
    BY <1>1, <2>2, ColdStays DEF IInv
<1>2. ASSUME Tick PROVE IInv'
  <2>1. Month /\ UNCHANGED coldVars /\ UNCHANGED task
    BY <1>2 DEF Tick, coldVars
  <2>2. StoreInv'
    BY <2>1, MonthSound DEF IInv
  <2> QED
    BY <2>1, <2>2, ColdStays DEF IInv
<1>3. ASSUME UNCHANGED vars PROVE IInv'
  <2>1. UNCHANGED fileVars /\ UNCHANGED coldVars /\ UNCHANGED <<task, objects, swept>>
    BY <1>3 DEF vars, fileVars, coldVars
  <2>2. TasksSound'
    BY <2>1 DEF IInv, StoreInv, TasksSound, Knows, Present, Stored
  <2>3. StoreInv'
    BY <2>1, <2>2, StoreStays DEF IInv
  <2> QED
    BY <2>1, <2>3, ColdStays DEF IInv
<1> QED
  BY <1>1, <1>2, <1>3, SpawnSound, StartSound, FinishSound, CrashSound, Zenon
     DEF Next, TaskStep

(* The strengthened invariant: beside the properties below, every writer and every task    *)
(* knows the files its file names, and the lifecycle run holds only what it has really     *)
(* seen of a live case.                                                                    *)
THEOREM ColdPathInductive == Spec => []IInv
<1>1. Init => IInv
  BY InitSound
<1>2. IInv /\ [Next]_vars => IInv'
  BY StepSound
<1> QED
  BY <1>1, <1>2, PTL DEF Spec

(* Every variable of the store and of the cold path keeps its type. *)
THEOREM ColdPathTypeCorrect == Spec => []TypeOK
<1>1. IInv => TypeOK
  BY DEF IInv, StoreInv, ColdTypeOK, TypeOK
<1> QED
  BY <1>1, ColdPathInductive, PTL

(* The hash chain of a case holds whoever writes its files in whatever order, until        *)
(* retention has been at the case: casefile.py's checks before every write and the         *)
(* write-once store are enough, although nothing is locked between check and write.        *)
THEOREM ChainHoldsAlways == Spec => []ChainHolds
<1>1. IInv => ChainHolds
  BY DEF IInv, StoreInv
<1> QED
  BY <1>1, ColdPathInductive, PTL

(* Two callers are never both told that they persisted two different files of one stage.   *)
THEOREM ConfirmedIsStoredAlways == Spec => []ConfirmedIsStored
<1>1. IInv => ConfirmedIsStored
  BY DEF IInv, StoreInv
<1> QED
  BY <1>1, ColdPathInductive, PTL

(* The gauge counts the tasks that wait and the counters the tasks that ended, however     *)
(* they ended.                                                                             *)
THEOREM EveryTaskCountedAlways == Spec => []EveryTaskCounted
<1>1. IInv => EveryTaskCounted
  BY DEF IInv
<1> QED
  BY <1>1, ColdPathInductive, PTL

(* Once nobody waits for the LLM its health entry tells how the last call ended.           *)
THEOREM HealthTellsLastAlways == Spec => []HealthTellsLast
<1>1. IInv => HealthTellsLast
  BY DEF IInv
<1> QED
  BY <1>1, ColdPathInductive, PTL

(* The error-rate alert is edge triggered for every window size and every threshold.       *)
THEOREM AlertsAtEdgesAlways == Spec => []AlertsAtEdges
<1>1. IInv => AlertsAtEdges
  BY DEF IInv, AlertState
<1> QED
  BY <1>1, ColdPathInductive, PTL

(* A put never replaces a file. *)
LEMMA WriteKeeps ==
    ASSUME FilesTypeOK, NEW d \in Cases, NEW r \in Stages, NEW f, NEW outcome,
           PersistWriteOnce(d, r, f, outcome), NEW c \in Cases, NEW s \in Stages, Present(c, s)
    PROVE  objects'[c][s] = objects[c][s]
<1> DEFINE new == [file |-> f, at |-> clock]
<1>1. objects' = objects \/ objects' = IF Present(d, r) THEN objects ELSE [objects EXCEPT ![d][r] = new]
  BY DEF PersistWriteOnce, PutIfAbsent
<1> HIDE DEF new
<1>2. CASE objects' = objects
  BY <1>2
<1>3. CASE ~Present(d, r) /\ objects' = [objects EXCEPT ![d][r] = new]
  <2>1. ~(c = d /\ s = r)
    BY <1>3
  <2>2. objects \in [Cases -> [Stages -> Object \cup {None}]]
    BY DEF FilesTypeOK
  <2> QED
    BY <1>3, <2>1, <2>2
<1> QED
  BY <1>1, <1>2, <1>3

AppendStep ==
    \A c \in Cases, s \in Stages :
        Present(c, s) => \/ objects'[c][s] = objects[c][s]
                         \/ /\ objects'[c][s] = None
                            /\ Approved
                            /\ c \in swept \/ Expired(c)

LEMMA AppendStepHolds == IInv /\ [Next]_vars => AppendStep
<1> SUFFICES ASSUME IInv, [Next]_vars, NEW c \in Cases, NEW s \in Stages, Present(c, s),
                    objects'[c][s] # objects[c][s]
             PROVE  objects'[c][s] = None /\ Approved /\ (c \in swept \/ Expired(c))
  BY DEF AppendStep
<1>1. FilesTypeOK /\ StoreInv
  BY DEF IInv, StoreInv
<1>2. "triage" \in Stages /\ "diagnosis" \in Stages
  BY DEF Stages
<1>3. ASSUME NEW d \in Cases, NEW body \in Bodies["triage"], PersistTriage(d, body) PROVE FALSE
  BY <1>1, <1>2, <1>3, WriteKeeps DEF PersistTriage
<1>4. ASSUME NEW w \in Writers, StageStep(w) PROVE FALSE
  <2>1. objects' # objects
    OBVIOUS
  <2>2. PersistStage(w)
    BY <1>4, <2>1 DEF StageStep, Assemble, ValidateTriage, ValidateDiagnosis
  <2>3. writer[w].case \in Cases /\ writer[w].stage \in Stages
    BY <1>1, <2>2 DEF PersistStage, StoreInv, WritersSound, WriterSound, Later
  <2> QED
    BY <1>1, <2>2, <2>3, WriteKeeps DEF PersistStage
<1>5. ASSUME NEW t \in Tasks, Finish(t) PROVE FALSE
  <2>1. PICK body, outcome : Write(t, body, outcome)
    BY <1>5 DEF Finish, WriteFallback, WriteReport
  <2>2. task[t].case \in Cases
    BY <1>1, <1>5 DEF Finish, Running, StoreInv, TasksSound
  <2> QED
    BY <1>1, <1>2, <2>1, <2>2, WriteKeeps DEF Write
<1>6. ASSUME UNCHANGED objects PROVE FALSE
  BY <1>6
<1>7. (StartSweep \/ ListPage \/ Month) => UNCHANGED objects
  BY DEF StartSweep, ListPage, Month
<1>8. \A t \in Tasks : (\E d \in Cases : Spawn(t, d)) \/ Start(t) => UNCHANGED objects
  BY DEF Spawn, Start, fileVars
<1>9. Crash \/ Tick \/ UNCHANGED vars => UNCHANGED objects
  BY DEF Crash, Tick, Month, vars, fileVars
<1>10. DeleteBatch
  BY <1>3, <1>4, <1>5, <1>6, <1>7, <1>8, <1>9, Zenon DEF Next, FilesStep, TaskStep
<1> QED
  BY <1>1, <1>10, RemovalsJustified

(* The store is append only but for retention, and the lifecycle job takes the first file  *)
(* of a case only when the case is past its retention at that moment, however long ago it  *)
(* listed it and whatever was written in between.                                          *)
THEOREM AppendOnlyHolds == Spec => AppendOnly
<1>1. IInv /\ [Next]_vars => [AppendStep]_fileVars
  BY AppendStepHolds
<1>2. Spec => [][AppendStep]_fileVars
  BY <1>1, ColdPathInductive, PTL DEF Spec
<1> QED
  BY <1>2 DEF AppendOnly, AppendStep
=============================================================================
