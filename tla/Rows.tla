-------------------------------- MODULE Rows ---------------------------------
(* Rows kept in a sequence, oldest first. *)
EXTENDS Integers, Sequences, Functions

(* The rows of q that are in S, in their order (retain). *)
Kept(q, S) ==
    LET kept[i \in 0 .. Len(q)] ==
            IF i = 0 THEN <<>>
            ELSE IF q[i] \in S THEN Append(kept[i - 1], q[i]) ELSE kept[i - 1]
    IN  kept[Len(q)]
=============================================================================
