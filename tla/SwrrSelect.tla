----------------------------- MODULE SwrrSelect ------------------------------
(***************************************************************************)
(* Smooth weighted round-robin over the lanes of one pool                  *)
(* (store/in_memory/mod.rs: select_weighted_for and reset_swrr_for).  A    *)
(* selection looks at the candidates one by one without a lock, then moves *)
(* the accumulators of those it found ready under the pool's shard lock.   *)
(* Between the two, cells trip and cool down, and a cell that closes has   *)
(* its accumulator zeroed by whoever closed it, after the close.           *)
(*                                                                         *)
(* Of a cell only its readiness is kept; BreakerCell has its transitions.  *)
(***************************************************************************)
EXTENDS Integers, FiniteSets, FiniteSetsExt

CONSTANTS Selectors,      \* requests
          Members,        \* the pool's lanes, in the order of their indices
          Weight          \* Weight[l]; 0 drains the lane

ASSUME SwrrAssumption ==
    /\ Members \subseteq Nat /\ IsFiniteSet(Members)
    /\ Weight \in [Members -> Nat]

VARIABLES
    ready,      \* the lanes a selection may use
    cw,         \* current_weight of each cell
    resets,     \* lanes whose cell closed and whose zeroing is still to come
    sel,        \* sel[r]: candidates left to look at, and those found ready
    wait        \* history: selections in a row that found l and left it,
                \* since l was last suppressed or zeroed

svars == <<ready, cw, resets, sel, wait>>

NotSelecting == [todo |-> {}, healthy |-> {}]

SInit ==
    /\ ready = Members
    /\ cw = [l \in Members |-> 0]
    /\ resets = {}
    /\ sel = [r \in Selectors |-> NotSelecting]
    /\ wait = [l \in Members |-> 0]

Drained == {l \in Members : Weight[l] = 0}
Sum(S)  == MapThenSumSet(LAMBDA l : Weight[l], S)

(* A member of weight 0 is never selected. *)
Candidates == Members \ Drained

Begin(r) ==
    /\ sel[r] = NotSelecting
    /\ sel' = [sel EXCEPT ![r].todo = Candidates]
    /\ UNCHANGED <<ready, cw, resets, wait>>

(* The next candidate's cell, as it is now. *)
Look(r) ==
    /\ sel[r].todo # {}
    /\ LET l == Min(sel[r].todo)
       IN  sel' = [sel EXCEPT ![r].todo = @ \ {l},
                              ![r].healthy = IF l \in ready THEN @ \cup {l} ELSE @]
    /\ UNCHANGED <<ready, cw, resets, wait>>

(* The first of the candidates whose accumulator is the largest. *)
Picked(w) == Min({l \in DOMAIN w : \A k \in DOMAIN w : w[l] >= w[k]})

\* Mutant: the winner pays the weight of the lanes that are not ready too.
MutMoved(S, b) ==
    [l \in Members |-> IF l \notin S THEN cw[l]
                     ELSE IF l = b THEN cw[l] + Weight[l] - Sum(Members)
                     ELSE cw[l] + Weight[l]]

(* Each found ready gains its weight, the winner loses their total. *)
Moved(S, b) ==
    [l \in Members |-> IF l \notin S THEN cw[l]
                     ELSE IF l = b THEN cw[l] + Weight[l] - Sum(S)
                     ELSE cw[l] + Weight[l]]

Turn(r) ==
    LET S == sel[r].healthy
        b == Picked([l \in S |-> cw[l] + Weight[l]])
    IN  /\ sel[r].todo = {} /\ S # {}
        /\ cw' = Moved(S, b)
        /\ sel' = [sel EXCEPT ![r] = NotSelecting]
        /\ wait' = [l \in Members |-> IF l \in S \ {b} THEN wait[l] + 1 ELSE 0]
        /\ UNCHANGED <<ready, resets>>

(* A lane trips, cools down, dies or hands out its half-open probe. *)
Suppress(l) ==
    /\ l \in ready
    /\ ready' = ready \ {l}
    /\ wait' = [wait EXCEPT ![l] = 0]
    /\ UNCHANGED <<cw, resets, sel>>

(* A cooldown runs out: the Open cell is ready for a probe, and its        *)
(* accumulator is what it was when it tripped.                             *)
CoolsOff(l) ==
    /\ l \notin ready
    /\ ready' = ready \cup {l}
    /\ UNCHANGED <<cw, resets, sel, wait>>

(* record_success_for and recover_lane: the cell closes first,  *)
Closed(l) ==
    /\ l \notin ready
    /\ ready' = ready \cup {l}
    /\ resets' = resets \cup {l}
    /\ UNCHANGED <<cw, sel, wait>>

(* and is zeroed under the shard lock whenever the closer gets there.      *)
ResetSwrr(l) ==
    /\ l \in resets
    /\ cw' = [cw EXCEPT ![l] = 0]
    /\ resets' = resets \ {l}
    /\ wait' = [wait EXCEPT ![l] = 0]
    /\ UNCHANGED <<ready, sel>>

SNext ==
    \/ \E r \in Selectors : Begin(r) \/ Look(r) \/ Turn(r)
    \/ \E l \in Members : Suppress(l) \/ CoolsOff(l) \/ Closed(l) \/ ResetSwrr(l)

SSpec == SInit /\ [][SNext]_svars

-----------------------------------------------------------------------------
(* The shape of the state; no selection ever sees a drained lane. *)
STypeOK ==
    /\ ready \subseteq Members /\ resets \subseteq Members
    /\ cw \in [Members -> Int]
    /\ wait \in [Members -> Nat]
    /\ \A r \in Selectors : /\ sel[r].todo \subseteq Members
                           /\ sel[r].healthy \subseteq Members \ Drained

(* The most that two candidates weigh together. *)
Pairs    == {p \in Candidates \X Candidates : p[1] # p[2]}
Heaviest == Max({0} \cup {Weight[p[1]] + Weight[p[2]] : p \in Pairs})

Swing == (Cardinality(Candidates) - 1) * Heaviest

(* A recovery zeroes an accumulator between any two selections, after      *)
(* which they no longer sum to zero, and as selections use different sets  *)
(* of lanes one may pass the total weight of the pool.  All the same       *)
(* recoveries starve nobody: no accumulator leaves the Swing, and the      *)
(* selections in a row that pass over a lane that stays ready are bounded  *)
(* by it and the lane's weight, however often lanes trip and recover.      *)
FairShare ==
    \A l \in Members : /\ cw[l] \in -Swing..Swing
                       /\ wait[l] * Weight[l] <= 2 * Swing
=============================================================================
