---------------------------- MODULE AtLeastOnce -----------------------------
(***************************************************************************)
(* What the outbox promises, without rows, workers or transactions: a      *)
(* casefile is written once, a case is accepted for delivery after that,   *)
(* only events of an accepted case reach the bus, and a case is settled    *)
(* once: as sent only when its events, or a header that a caller supplied  *)
(* for it, are on the bus, or as dead.                                     *)
(***************************************************************************)
CONSTANTS Cases, Hashes, Kinds, None

VARIABLES
    casefile,   \* case -> hash of the stored casefile, or None
    accepted,   \* cases the outbox has taken responsibility for
    bus,        \* events delivered
    settled     \* case -> "open", "sent" or "dead"

avars == <<casefile, accepted, bus, settled>>

AInit ==
    /\ casefile = [c \in Cases |-> None]
    /\ accepted = {}
    /\ bus = {}
    /\ settled = [c \in Cases |-> "open"]

EventOf(c, k) == [case |-> c, kind |-> k, hash |-> casefile[c]]

Persist(c, h) ==
    /\ casefile[c] = None
    /\ casefile' = [casefile EXCEPT ![c] = h]
    /\ UNCHANGED <<accepted, bus, settled>>

Accept(c) ==
    /\ casefile[c] # None
    /\ accepted' = accepted \cup {c}
    /\ UNCHANGED <<casefile, bus, settled>>

\* One flush may deliver events of several accepted cases.
Deliver ==
    /\ bus \subseteq bus'
    /\ \A m \in bus' \ bus :
         m.case \in accepted /\ (m.kind \in Kinds => m = EventOf(m.case, m.kind))
    /\ UNCHANGED <<casefile, accepted, settled>>

Settle(c, outcome) ==
    /\ c \in accepted
    /\ settled[c] = "open"
    /\ outcome = "sent" => \/ \A k \in Kinds : EventOf(c, k) \in bus
                           \/ \E m \in bus : m.case = c /\ m.kind \notin Kinds
    /\ settled' = [settled EXCEPT ![c] = outcome]
    /\ UNCHANGED <<casefile, accepted, bus>>

ANext ==
    \/ \E c \in Cases, h \in Hashes : Persist(c, h)
    \/ \E c \in Cases : Accept(c)
    \/ Deliver
    \/ \E c \in Cases, outcome \in {"sent", "dead"} : Settle(c, outcome)

ASpec == AInit /\ [][ANext]_avars
=============================================================================
