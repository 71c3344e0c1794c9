------------------------------ MODULE MCConfig ------------------------------
(* ConfigPlane for TLC: clients are interchangeable. *)
EXTENDS ConfigPlane, TLC

ClientSymmetry == Permutations(Clients)
=============================================================================
