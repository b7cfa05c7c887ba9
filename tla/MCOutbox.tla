------------------------------ MODULE MCOutbox ------------------------------
(* Model-checking instances of Outbox: the role of each producer. *)
EXTENDS Outbox, TLC

AllInsert == [p \in Producers |-> "insert"]
AllReady == [p \in Producers |-> "ready"]
\* One producer of each kind that goes on after the insert.
ReadyAndHeader ==
    CHOOSE f \in [Producers -> {"ready", "header"}] :
        \A r \in {"ready", "header"} : \E p \in Producers : f[p] = r

\* Producers, too, keep running.
WiredSpec == LiveSpec /\ \A p \in Producers : WF_vars(ProducerStep(p))

Symmetric == Permutations(Workers) \cup Permutations(Hashes)
=============================================================================
