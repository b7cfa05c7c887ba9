----------------------------- MODULE MCLinkage ------------------------------
(* Model-checking instances of Linkage: what a failing request reports. *)
EXTENDS Linkage, TLC

(* The lasting errors come from the model itself: a duplicate, a missing id, no incident. *)
TimeoutOrThrottled == {[code |-> "timeout", after |-> None], [code |-> "http_429", after |-> 3]}
AllModes == {"OFF", "LOG", "MOCK", "LIVE", "LIVE_WITHOUT_URL"}
Symmetric == Permutations(Workers)
=============================================================================
