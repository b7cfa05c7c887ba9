----------------------------- MODULE CaseFiles ------------------------------
(***************************************************************************)
(* The stage files of a case in the object store: triage.json, written by  *)
(* the hot path, and diagnosis.json, linkage.json and labels.json, written *)
(* later by stage writers that check the hash chain first.  Every file is  *)
(* created once and never replaced.  The lifecycle job lists the store     *)
(* page by page and deletes expired cases batch by batch.                  *)
(*                                                                         *)
(* A file is what its hash covers: a body standing for everything the      *)
(* payload says, and the hashes of the files it depends on.  The clock     *)
(* counts months, so nothing that is under way outlives a tick.            *)
(***************************************************************************)
EXTENDS Integers, Sequences, FiniteSets

CONSTANTS
    Cases,       \* case ids, as the numbers 1..N in the order of their object keys
    Bodies,      \* per stage: what two assemblies of its payload can differ in
    Writers,     \* callers of the persist_casefile_*_stage functions
    Retention,   \* retention_months of the environment
    Approved,    \* whether a governance approval is configured
    PageSize,    \* list_page_size
    BatchSize,   \* delete_batch_size
    MaxFaults,   \* bound on failing store requests
    Horizon,     \* bound on the clock
    None         \* Python's None

Stages == {"diagnosis", "labels", "linkage", "triage"}
Later == Stages \ {"triage"}

\* The stages in the order of their object keys.
StageNo == [diagnosis |-> 1, labels |-> 2, linkage |-> 3, triage |-> 4]

\* Hashes are values of their own kind: tuples of what the digest covers.
TriageHash == Bodies["triage"] \X {None} \X {None}
DiagnosisHash == Bodies["diagnosis"] \X TriageHash \X {None}
Body == UNION {Bodies[s] : s \in Stages}
Hash == Body \X (TriageHash \cup {None}) \X (DiagnosisHash \cup {None})

File == [body: Body, triage: TriageHash \cup {None},
         diagnosis: DiagnosisHash \cup {None}, hash: Hash \cup {None}]
Object == [file: File, at: Nat]
Key == Cases \X Stages

ASSUME CaseFilesAssumption ==
    /\ Cases \subseteq Nat \ {0}
    /\ IsFiniteSet(Cases)
    /\ Retention \in Nat \ {0}
    /\ Approved \in BOOLEAN
    /\ PageSize \in Nat \ {0}
    /\ BatchSize \in Nat \ {0}
    /\ MaxFaults \in Nat
    /\ Horizon \in Nat
    /\ DOMAIN Bodies = Stages
    /\ None \notin File \cup Object \cup Hash \cup Body \cup Cases \cup Stages

VARIABLES
    objects,    \* object store: case -> stage -> object, or None
    writer,     \* per stage writer: its next step, case, stage and casefile
    sweep,      \* the lifecycle run: its next step, the keys listed so far, keys to delete
    confirmed,  \* history: <<case, stage, file>> acknowledged to a caller, not purged since
    swept,      \* history: cases that lost a file to the lifecycle job
    faults,
    clock

fileVars == <<objects, writer, sweep, confirmed, swept, faults, clock>>

Idle == [step |-> "idle", case |-> None, stage |-> None, file |-> None]
Resting == [step |-> "idle", listed |-> {}, keys |-> {}]

(* The type invariant of this module's part of the state. *)
FilesTypeOK ==
    /\ objects \in [Cases -> [Stages -> Object \cup {None}]]
    /\ writer \in [Writers -> [step: {"idle", "triage", "diagnosis", "put"},
                               case: Cases \cup {None}, stage: Later \cup {None},
                               file: File \cup {None}]]
    /\ sweep \in [step: {"idle", "list", "delete"},
                  listed: SUBSET [key: Key, at: Nat], keys: SUBSET Key]
    /\ confirmed \subseteq Cases \X Stages \X File
    /\ swept \subseteq Cases
    /\ faults \in 0..MaxFaults
    /\ clock \in 0..Horizon

FilesInit ==
    /\ objects = [c \in Cases |-> [s \in Stages |-> None]]
    /\ writer = [w \in Writers |-> Idle]
    /\ sweep = Resting
    /\ confirmed = {}
    /\ swept = {}
    /\ faults = 0
    /\ clock = 0

-----------------------------------------------------------------------------
(* storage/casefile_io.py *)

\* _compute_casefile_hash: the digest of the payload with its own hash field blanked out.
Digest(f) == <<f.body, f.triage, f.diagnosis>>

\* A caller fills in the computed hash; a caller that does not is refused everywhere.
Seal(body, triage, diagnosis, sealed) ==
    LET blank == [body |-> body, triage |-> triage, diagnosis |-> diagnosis, hash |-> None]
    IN IF sealed THEN [blank EXCEPT !.hash = Digest(blank)] ELSE blank

\* has_valid_casefile_*_hash
HasValidHash(f) == f.hash = Digest(f)

\* read_casefile_stage_json_or_none: absence is an answer, an invalid file is an error.
Present(c, s) == objects[c][s] # None

\* put_if_absent, and what it leaves when the object exists
PutIfAbsent(c, s, f) ==
    objects' = IF Present(c, s) THEN objects
               ELSE [objects EXCEPT ![c][s] = [file |-> f, at |-> clock]]

\* Mutant: EXISTS is taken for success without reading the object back.
IdempotentWithoutReadback(c, s, f) == TRUE

\* EXISTS: the stored payload is read back and must equal this one.
Idempotent(c, s, f) == Present(c, s) => objects[c][s].file = f

Fault == faults < MaxFaults /\ faults' = faults + 1

\* persist_casefile_*_write_once and _persist_casefile_payload_write_once; outcome is
\* whether the call returns.  A put that creates the object is the whole call.  One that
\* finds the object there changes nothing, so the call is told at its second request, the
\* read-back: it compares what is stored by then, or fails because the lifecycle job has
\* deleted it in between.  A request that fails may have been carried out.
PersistWriteOnce(c, s, f, outcome) ==
    \/ /\ outcome = "confirmed"
       /\ HasValidHash(f)
       /\ Idempotent(c, s, f)
       /\ PutIfAbsent(c, s, f)
       /\ confirmed' = confirmed \cup {<<c, s, f>>}
       /\ UNCHANGED faults
    \/ /\ outcome = "raised"
       /\ HasValidHash(f) => ~Idempotent(c, s, f)
       /\ UNCHANGED <<objects, confirmed, faults>>
    \/ /\ outcome = "raised"
       /\ HasValidHash(f)
       /\ c \in swept /\ ~Present(c, s)
       /\ UNCHANGED <<objects, confirmed, faults>>
    \/ /\ outcome = "raised"
       /\ HasValidHash(f)
       /\ Fault
       /\ UNCHANGED objects \/ PutIfAbsent(c, s, f)
       /\ UNCHANGED confirmed

\* The hot path persists triage.json; persist_casefile_triage_write_once.
PersistTriage(c, body) ==
    /\ \E outcome \in {"confirmed", "raised"} :
          PersistWriteOnce(c, "triage", Seal(body, None, None, TRUE), outcome)
    /\ UNCHANGED <<writer, sweep, swept, clock>>

-----------------------------------------------------------------------------
(* pipeline/stages/casefile.py: the stage functions, every request a step. *)

SetWriter(w, next) == writer' = [writer EXCEPT ![w] = next]

\* A caller assembles a casefile against a triage and, for the later stages, perhaps a
\* diagnosis that it has loaded (load_casefile_*_stage_if_present) or made itself; either
\* may have lost the race for the store.
Assemble(w, c, s, body, triage, sealed) ==
    /\ writer[w].step = "idle"
    /\ \E diagnosis \in DiagnosisHash \cup {None} :
          /\ s = "diagnosis" => diagnosis = None
          /\ SetWriter(w, [step |-> "triage", case |-> c, stage |-> s,
                           file |-> Seal(body, triage, diagnosis, sealed)])
    /\ UNCHANGED <<objects, sweep, confirmed, swept, faults, clock>>

\* The validation raises, or the request does: the call ends.
Raise(w) == SetWriter(w, Idle)

\* Mutant: the hash of the stored triage is not compared.
MatchesTriageByPresence(c, f) == HasValidHash(f) /\ Present(c, "triage")

\* The first half of _validate_*_stage_hashes
MatchesTriage(c, f) ==
    /\ HasValidHash(f)
    /\ Present(c, "triage")
    /\ f.triage = Digest(objects[c]["triage"].file)

ValidateTriage(w) ==
    /\ writer[w].step = "triage"
    /\ LET f == writer[w].file IN
        \/ /\ MatchesTriage(writer[w].case, f)
           /\ SetWriter(w, [writer[w] EXCEPT
                 !.step = IF f.diagnosis = None THEN "put" ELSE "diagnosis"])
           /\ UNCHANGED faults
        \/ ~MatchesTriage(writer[w].case, f) /\ Raise(w) /\ UNCHANGED faults
        \/ Fault /\ Raise(w)
    /\ UNCHANGED <<objects, sweep, confirmed, swept, clock>>

\* The second half, of _validate_linkage_stage_hashes and _validate_labels_stage_hashes
MatchesDiagnosis(c, f) ==
    /\ Present(c, "diagnosis")
    /\ f.diagnosis = Digest(objects[c]["diagnosis"].file)

ValidateDiagnosis(w) ==
    /\ writer[w].step = "diagnosis"
    /\ \/ /\ MatchesDiagnosis(writer[w].case, writer[w].file)
          /\ SetWriter(w, [writer[w] EXCEPT !.step = "put"])
          /\ UNCHANGED faults
       \/ /\ ~MatchesDiagnosis(writer[w].case, writer[w].file)
          /\ Raise(w)
          /\ UNCHANGED faults
       \/ Fault /\ Raise(w)
    /\ UNCHANGED <<objects, sweep, confirmed, swept, clock>>

PersistStage(w) ==
    /\ writer[w].step = "put"
    /\ \E outcome \in {"confirmed", "raised"} :
          PersistWriteOnce(writer[w].case, writer[w].stage, writer[w].file, outcome)
    /\ SetWriter(w, Idle)
    /\ UNCHANGED <<sweep, swept, clock>>

StageStep(w) ==
    \/ \E c \in Cases, s \in Later, triage \in TriageHash, sealed \in BOOLEAN :
          \E body \in Bodies[s] : Assemble(w, c, s, body, triage, sealed)
    \/ ValidateTriage(w)
    \/ ValidateDiagnosis(w)
    \/ PersistStage(w)

-----------------------------------------------------------------------------
(* storage/lifecycle.py, run_once: one page or one batch a step. *)

KeyNo(k) == 4 * k[1] + StageNo[k[2]]
Existing == {k \in Key : Present(k[1], k[2])}
First(n, keys) == {k \in keys : Cardinality({j \in keys : KeyNo(j) <= KeyNo(k)}) <= n}
AtEnd(k) == objects[k[1]][k[2]].at

\* _resolve_case_created_at: the triage file's time, else the earliest of the others'.
CreatedAt(c, listed) ==
    LET mine == {l \in listed : l.key[1] = c}
        triage == {l \in mine : l.key[2] = "triage"}
        among == IF triage # {} THEN triage ELSE mine
    IN (CHOOSE l \in among : \A m \in among : l.at <= m.at).at

\* resolve_retention_cutoff
Cutoff == clock - Retention

\* Mutant: a case expires one month early.
EligibleEarly(listed) ==
    {l.key : l \in {m \in listed : CreatedAt(m.key[1], listed) <= Cutoff + 1}}

\* The keys of the cases created at or before the cutoff
Eligible(listed) ==
    {l.key : l \in {m \in listed : CreatedAt(m.key[1], listed) <= Cutoff}}

StartSweep ==
    /\ sweep.step = "idle"
    /\ sweep' = [Resting EXCEPT !.step = "list"]
    /\ UNCHANGED <<objects, writer, confirmed, swept, faults, clock>>

\* The next page starts after the last key listed.  After the last page: nothing to do, no
\* approval, or the batches follow.
ListPage ==
    /\ sweep.step = "list"
    /\ \/ LET rest == {k \in Existing : \A l \in sweep.listed : KeyNo(l.key) < KeyNo(k)}
              page == First(PageSize, rest)
              all == sweep.listed \cup {[key |-> k, at |-> AtEnd(k)] : k \in page}
          IN /\ sweep' = IF page # rest THEN [sweep EXCEPT !.listed = all]
                         ELSE IF Approved /\ Eligible(all) # {}
                         THEN [Resting EXCEPT !.step = "delete", !.keys = Eligible(all)]
                         ELSE Resting
             /\ UNCHANGED faults
       \/ Fault /\ sweep' = Resting
    /\ UNCHANGED <<objects, writer, confirmed, swept, clock>>

\* What a request of delete_objects_batch does to the store.
Delete(gone) ==
    /\ objects' = [c \in Cases |-> [s \in Stages |->
                       IF <<c, s>> \in gone THEN None ELSE objects[c][s]]]
    /\ confirmed' = {x \in confirmed : <<x[1], x[2]>> \notin gone}
    /\ swept' = swept \cup {k[1] : k \in gone}

\* The store deletes some keys of a batch and reports the others as failed; a request that
\* raises ends the run, whatever it deleted.
DeleteBatch ==
    /\ sweep.step = "delete"
    /\ \E gone \in SUBSET First(BatchSize, sweep.keys) :
          /\ Delete(gone)
          /\ LET left == sweep.keys \ First(BatchSize, sweep.keys) IN
              \/ /\ IF gone = First(BatchSize, sweep.keys) THEN UNCHANGED faults ELSE Fault
                 /\ sweep' = IF left = {} THEN Resting ELSE [sweep EXCEPT !.keys = left]
              \/ Fault /\ sweep' = Resting
    /\ UNCHANGED <<writer, clock>>

\* A month passes while nobody is at work.
Month ==
    /\ clock < Horizon
    /\ sweep.step = "idle"
    /\ \A w \in Writers : writer[w].step = "idle"
    /\ clock' = clock + 1
    /\ UNCHANGED <<objects, writer, sweep, confirmed, swept, faults>>

FilesStep ==
    \/ \E c \in Cases, body \in Bodies["triage"] : PersistTriage(c, body)
    \/ \E w \in Writers : StageStep(w)
    \/ StartSweep \/ ListPage \/ DeleteBatch

-----------------------------------------------------------------------------
(* Properties. *)

Stored(c, s) == objects[c][s].file

(* The hash chain of a case, whoever wrote its files in whatever order: a stored file's    *)
(* hash is its own, the triage it names is the stored one and so is the diagnosis it       *)
(* names, until retention has removed part of the case.                                    *)
ChainHolds ==
    \A c \in Cases \ swept, s \in Stages :
        Present(c, s) =>
            /\ HasValidHash(Stored(c, s))
            /\ s \in Later => /\ Present(c, "triage")
                              /\ Stored(c, s).triage = Stored(c, "triage").hash
            /\ Stored(c, s).diagnosis # None =>
                  /\ Present(c, "diagnosis")
                  /\ Stored(c, s).diagnosis = Stored(c, "diagnosis").hash

(* A caller that was told its file is persisted finds exactly that file in the store for   *)
(* as long as retention leaves it there: two callers are never both told so of two         *)
(* different files.                                                                        *)
ConfirmedIsStored ==
    \A x \in confirmed : Present(x[1], x[2]) /\ Stored(x[1], x[2]) = x[3]

\* The case is past its retention: by its triage file, else by its oldest file.
Expired(c) ==
    LET of == IF Present(c, "triage") THEN {"triage"} ELSE {s \in Stages : Present(c, s)}
    IN \E s \in of : objects[c][s].at <= Cutoff

(* Append only: a stored file is never replaced, and the first file a case loses it loses  *)
(* to an approved run when the case, not merely the file, is past its retention: a listing *)
(* that has become stale never costs a live case a file.                                   *)
AppendOnly ==
    [][\A c \in Cases, s \in Stages :
         Present(c, s) => \/ objects'[c][s] = objects[c][s]
                          \/ /\ objects'[c][s] = None
                             /\ Approved
                             /\ c \in swept \/ Expired(c)]_fileVars
=============================================================================
