------------------------------- MODULE MCKeys -------------------------------
(* Small instances of a subject's keys and of the denylist re-sync for TLC. *)
(* The two models share no variable: a behaviour of this module moves one   *)
(* of them.                                                                 *)
EXTENDS RevocationSync, SelfKeys, TLC

VARIABLE part

KeysInit == part \in {"keys", "sync"} /\ Init /\ KInit

KeysNext ==
    /\ UNCHANGED part
    /\ \/ part = "keys" /\ KNext /\ UNCHANGED vars
       \/ part = "sync" /\ Next /\ UNCHANGED kvars

KeysSpec == KeysInit /\ [][KeysNext]_<<part, vars, kvars>>

(* Requests are interchangeable, and so are the reads' tasks. *)
Symmetry ==
    {[x \in Callers \cup Slots |-> IF x \in Callers THEN p[x] ELSE q[x]] :
        p \in Permutations(Callers), q \in Permutations(Slots)}
=============================================================================
