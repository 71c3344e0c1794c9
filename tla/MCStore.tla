------------------------------- MODULE MCStore -------------------------------
(* Small instances of the two parts of the in-memory store for TLC.  The    *)
(* cells and the accumulators share no variable in these models, so what is *)
(* said of one holds of their interleaving if it holds while the other      *)
(* stands still: a behaviour of this module moves one of them.              *)
EXTENDS LaneCells, SwrrSelect, TLC

VARIABLE part

(* Three lanes that take turns, and one that is drained.  With two the     *)
(* accumulators mirror each other but for the zeroings; with three a       *)
(* selection can find any two of them, or all.                             *)
MCWeight == 1 :> 1 @@ 2 :> 1 @@ 3 :> 1 @@ 4 :> 0

StoreInit ==
    /\ part \in {"cells", "accumulators"}
    /\ Init /\ SInit

StoreNext ==
    /\ UNCHANGED part
    /\ \/ part = "cells" /\ Next /\ UNCHANGED svars
       \/ part = "accumulators" /\ SNext /\ UNCHANGED vars

StoreSpec == StoreInit /\ [][StoreNext]_<<part, vars, svars>>

(* Requests are interchangeable, and so are pools. *)
Symmetry == Permutations(Requests) \cup Permutations(Pools) \cup Permutations(Selectors)
=============================================================================
