------------------------------- MODULE MCWalk -------------------------------
(* Three pools that share lanes, one member blocklisted, one untagged.     *)
EXTENDS FailoverWalk, TLC

CONSTANTS A, B, C, l1, l2, l3, l4

MCMembers    == (A :> {l1, l2, l4}) @@ (B :> {l1, l2, l3}) @@ (C :> {l3, l4})
MCExclusions == (A :> {}) @@ (B :> {l2}) @@ (C :> {l4})
MCTagged     == (A :> {l1, l2}) @@ (B :> {l2, l3}) @@ (C :> {l3, l4})

(* Every map, rings of fallback pools included: config_validate refuses    *)
(* those, and the walk does not rely on it.                                *)
AnyConfig == [Pools -> Pools \cup {"reject", "least_bad", "queue"}]

MCContextMax == (l1 :> 1) @@ (l2 :> 1) @@ (l3 :> 1) @@ (l4 :> Unset)
=============================================================================
