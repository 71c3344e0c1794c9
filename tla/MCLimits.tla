------------------------------ MODULE MCLimits ------------------------------
(* A small group tree for TLC. *)
EXTENDS GroupLimits, TLC

(* A leaf with an hourly requests cap and a budget for pool p1 that          *)
(* downgrades to p2, under a root with all-time token and budget caps.       *)
MCParent == "leaf" :> "root" @@ "root" :> "none"
MCBuckets == {"leaf@hour", "leaf@total#p1", "root@total"}
MCGroupBuckets == "leaf" :> <<"leaf@hour", "leaf@total#p1">> @@ "root" :> <<"root@total">>
MCUncapped == [per |-> "total", requests |-> NoCap, tokens |-> NoCap, budget |-> NoCap,
               scope |-> "any", downgrade |-> "any"]
MCLimit ==
    "leaf@hour"     :> [MCUncapped EXCEPT !.per = "hour", !.requests = 1] @@
    "leaf@total#p1" :> [MCUncapped EXCEPT !.budget = 1, !.scope = "p1", !.downgrade = "p2"] @@
    "root@total"    :> [MCUncapped EXCEPT !.tokens = 2, !.budget = 4]
MCConcurrentCap == "leaf" :> 2 @@ "root" :> 2
MCMayUse == "k1" :> {"p1", "p2"} @@ "k2" :> {"p1"}

(* The two keys' chains meet the shards in opposite orders. *)
MCShardOf == "k1" :> 1 @@ "k2" :> 0 @@
             "leaf@hour" :> 0 @@ "leaf@total#p1" :> 1 @@ "root@total" :> 1

(* What is explored together: three requests over one boundary, two over two *)
(* (when the sweep finds something), two while the operator edits.           *)
Busy == Cardinality({r \in Requests : req[r].pc # "new"})
Explored ==
    \/ edits = 0 /\ (clock <= 2 \/ Busy <= 2)
    \/ clock = 1 /\ Busy <= 2

MCInit == Init /\ bound["k2"] = "root"
MCSpec == MCInit /\ [][Next /\ Explored']_vars

(* Requests are interchangeable. *)
Symmetry == Permutations(Requests)
=============================================================================
