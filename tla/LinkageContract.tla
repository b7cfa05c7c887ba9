-------------------------- MODULE LinkageContract ---------------------------
(***************************************************************************)
(* What the linkage promises of a case, without rows, callers, retries or  *)
(* requests: records are created and never taken back, there is one        *)
(* verdict, given once, linkage.json repeats it and is written once, and   *)
(* only a failed verdict is escalated.                                     *)
(***************************************************************************)
EXTENDS Naturals

CONSTANTS Cases, Keys, None

VARIABLES
    live,      \* whether requests reach ServiceNow
    made,      \* case -> external id -> number of records with it
    verdict,   \* case -> "open", "linked" or "failed"
    report,    \* case -> what linkage.json says, or None
    alarmed    \* cases whose failure was escalated

cvars == <<live, made, verdict, report, alarmed>>

CInit ==
    /\ live \in BOOLEAN
    /\ made = [c \in Cases |-> [k \in Keys |-> 0]]
    /\ verdict = [c \in Cases |-> "open"]
    /\ report = [c \in Cases |-> None]
    /\ alarmed = {}

Create(c, k) ==
    /\ live
    /\ made' = [made EXCEPT ![c][k] = @ + 1]
    /\ UNCHANGED <<live, verdict, report, alarmed>>

\* Linked needs a record for every external id.  Who keeps no row gives the verdict by
\* writing the file.
Decide(c, v) ==
    /\ verdict[c] = "open"
    /\ v = "linked" /\ live => \A k \in Keys : made[c][k] > 0
    /\ verdict' = [verdict EXCEPT ![c] = v]
    /\ report' \in {report, [report EXCEPT ![c] = v]}
    /\ UNCHANGED <<live, made, alarmed>>

Report(c) ==
    /\ verdict[c] # "open"
    /\ report[c] = None
    /\ report' = [report EXCEPT ![c] = verdict[c]]
    /\ UNCHANGED <<live, made, verdict, alarmed>>

Alarm(c) ==
    /\ verdict[c] = "failed"
    /\ alarmed' = alarmed \cup {c}
    /\ UNCHANGED <<live, made, verdict, report>>

CNext ==
    \E c \in Cases :
        \/ \E k \in Keys : Create(c, k)
        \/ \E v \in {"linked", "failed"} : Decide(c, v)
        \/ Report(c)
        \/ Alarm(c)

CSpec == CInit /\ [][CNext]_cvars
=============================================================================
