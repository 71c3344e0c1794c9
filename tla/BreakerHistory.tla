--------------------------- MODULE BreakerHistory ----------------------------
(***************************************************************************)
(* BreakerCell with two history variables.  They record what happened to   *)
(* the cell and are never read by its actions, so this specification has   *)
(* the behaviours of BreakerCell and no others.                            *)
(***************************************************************************)
EXTENDS BreakerCell

VARIABLES
    fit,     \* fit[r]: the cell was ready for r since r began to acquire it
    tripped  \* the clock that whoever tripped the cell last had read

hvars == <<vars, fit, tripped>>

Acquiring == {"acquire", "acqClosed", "acqOpen", "acqLock"}

(* The cell before or after the transition in progress would admit at t. *)
Fit(r) == cell_ready(cell, t[r]) \/ cell_ready(old, t[r])

(* a's outcome trips the cell, or parks it anew. *)
Trips(a) ==
    /\ Records(a, "fail") \/ Records(a, "harddown")
    /\ cell'.state = "Open"
    /\ cell.state # "Open" \/ cell'.cooldown # cell.cooldown

HInit ==
    /\ Init
    /\ fit = [r \in Requests |-> FALSE]
    /\ tripped = 0

HNext ==
    /\ Next
    /\ fit' = [r \in Requests |->
                 \/ Fit(r)' /\ pc'[r] \in Acquiring
                 \/ fit[r] /\ pc[r] \in Acquiring]
    /\ tripped' = IF \E a \in Actors : Trips(a)
                  THEN t[CHOOSE a \in Actors : Trips(a)] ELSE tripped

HSpec == HInit /\ [][HNext]_hvars

-----------------------------------------------------------------------------
(* An admission is sound although cell_acquire_breaker decides a Closed    *)
(* cell from two loads without the lock: at one instant between its first  *)
(* load and its last, the cell as a whole would have admitted the request. *)
(* (A torn pair of loads never lets a request through, and neither does    *)
(* the verdict that try_admit took before.)                                *)
AdmissionSound ==
    [][\A r \in Requests :
          pc[r] \in Acquiring /\ pc'[r] = "token" => fit[r]]_hvars

(* A trip lasts: whatever the streak, the jitter, the Retry-After and the  *)
(* age of the recorder's clock, no request probes the lane in the second   *)
(* in which it tripped, and none finds it parked for longer than the       *)
(* largest of the three caps, soft cooldowns included.                     *)
TripLasts ==
    [][/\ \A r \in Requests :
             pc[r] = "acqLock" /\ pc'[r] = "token" => t[r] > tripped
       /\ cell'.cooldown <= now' + MaxPark]_hvars
=============================================================================
