-------------------------- MODULE MCBreakerHistory ---------------------------
(* Small instances of BreakerHistory for TLC. *)
EXTENDS BreakerHistory, TLC

(* Requests are interchangeable. *)
Symmetry == Permutations(Requests)
=============================================================================
