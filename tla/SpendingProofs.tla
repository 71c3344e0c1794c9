--------------------------- MODULE SpendingProofs ---------------------------
(***************************************************************************)
(* Proofs about what is spent: by a request on its lane (LaneLedger), by a *)
(* key, through the write-behind of its counters (UsageFlush), and by the  *)
(* lane that wins a selection (SwrrSelect).                                *)
(*                                                                         *)
(* LaneLedger, for any number of requests, any max_concurrent and any      *)
(* max_requests: permits and budget units are conserved, and tokens are    *)
(* billed at most once.  The invariant adds to those three properties who  *)
(* may stand in the semaphore's line, who may hold a permit, and where in  *)
(* its life a request may carry a charge.                                  *)
(*                                                                         *)
(* UsageFlush, for any nodes, windows and number of counts, store errors   *)
(* and restarts.  Every conjunct of its invariant but one is about one     *)
(* node: the steps of the others leave its cell and its writers alone, and *)
(* the slips only grow.  The fleet total is a sum over the nodes, of which *)
(* a step moves one term.                                                  *)
(*                                                                         *)
(* SwrrSelect, for any pool and any weights.  A bound on each accumulator  *)
(* is not inductive, so the invariant bounds the sum of every set of       *)
(* candidates by a quadratic of its size.  A selection raises the sum of a *)
(* set that its winner is not in; the winner is above those it raises, so  *)
(* the set cannot have stood high both with the winner and without them.   *)
(***************************************************************************)
EXTENDS LaneLedger, UsageFlush, SwrrSelect, FiniteSetTheorems, WellFoundedInduction, TLAPS

(* A request on its lane. *)

(* Places at which a request may hold a permit. *)
Placed == InLane \cup {"parked"}

(* Those who stand in line are parked without a permit, each once. *)
LineOK ==
    /\ \A i \in 1 .. Len(waiting) :
          waiting[i] \notin holds /\ pc[waiting[i]] = "parked"
    /\ \A i, j \in 1 .. Len(waiting) : waiting[i] = waiting[j] => i = j

PermitInv ==
    /\ free \in Nat /\ holds \in SUBSET Requests /\ waiting \in Seq(Requests)
    /\ pc \in [Requests -> PCs]
    /\ PermitsConserved
    /\ LineOK
    /\ \A r \in holds : pc[r] \in Placed

(* A charge is made on the way into the body and settled at its end. *)
ChargeOK ==
    \A r \in Requests :
        /\ pc[r] \notin {"body"} \cup Ends => charge[r] = "none"
        /\ pc[r] = "body" => charge[r] # "kept"
        /\ pc[r] \notin Ends => billed[r] = 0

ChargeInv ==
    /\ budget \in Int /\ reg \in [Requests -> Int]
    /\ charge \in [Requests -> {"none", "armed", "kept"}]
    /\ billed \in [Requests -> Nat]
    /\ kind \in [Requests -> Kinds \cup {"none"}]
    /\ begun \in SUBSET Requests
    /\ BudgetConserved
    /\ BillingSettled
    /\ ChargeOK

LedgerInv == PermitInv /\ ChargeInv

(* The three groups of program locations do not overlap. *)
LEMMA PlacesDisjoint ==
    /\ Placed \subseteq PCs /\ Ends \subseteq PCs
    /\ Placed \cap Ends = {} /\ "body" \in Placed
    /\ {"new", "permit", "exhausted", "full"} \subseteq PCs
    /\ {"new", "permit", "exhausted", "full"} \cap (Placed \cup Ends) = {}
BY DEF Placed, Ends, InLane, PCs

-----------------------------------------------------------------------------
(* Permits. *)

(* A request outside the semaphore takes a free permit (try_acquire). *)
LEMMA TakeStep ==
    ASSUME PermitInv, NEW r \in Requests, NEW l \in Placed,
           pc[r] \notin Placed, Take(r), Goto(r, l)
    PROVE  PermitInv'
<1>1. r \notin holds /\ IsFiniteSet(holds)
  BY FS_Subset, LimitsValid DEF PermitInv
<1>2. Cardinality(holds') = Cardinality(holds) + 1 /\ Cardinality(holds) \in Nat
  BY <1>1, FS_AddElement, FS_CardinalityType DEF Take
<1>3. \A i \in 1 .. Len(waiting) : waiting[i] # r /\ waiting[i] \in Requests
  BY DEF PermitInv, LineOK, Placed
<1>4. LineOK'
  BY <1>3 DEF PermitInv, LineOK, Take, Goto
<1>5. PermitsConserved'
  <2>1. free' + Cardinality(holds') = MaxConcurrent
    BY <1>2 DEF PermitInv, PermitsConserved, Take
  <2>2. \A q \in Requests : pc'[q] \in InLane => q \in holds'
    BY DEF PermitInv, PermitsConserved, Take, Goto
  <2> QED
    BY <2>1, <2>2 DEF PermitsConserved
<1>6. pc' \in [Requests -> PCs]
  BY PlacesDisjoint DEF PermitInv, Goto
<1>7. \A q \in holds' : pc'[q] \in Placed
  BY DEF PermitInv, Take, Goto
<1> QED
  BY <1>4, <1>5, <1>6, <1>7 DEF PermitInv, Take

(* A holder gives its permit back, or on to the first of the line. *)
LEMMA ReleaseStep ==
    ASSUME PermitInv, NEW r \in holds, NEW l \in PCs \ Placed,
           Release(r), Goto(r, l)
    PROVE  PermitInv'
<1>0. r \in Requests /\ pc[r] \in Placed /\ IsFiniteSet(holds)
  BY FS_Subset, LimitsValid DEF PermitInv
<1>1. /\ Cardinality(holds \ {r}) = Cardinality(holds) - 1
      /\ Cardinality(holds) \in Nat /\ IsFiniteSet(holds \ {r})
  BY <1>0, FS_RemoveElement, FS_CardinalityType
<1>2. pc' \in [Requests -> PCs]
  BY DEF PermitInv, Goto
<1>3. \A i \in 1 .. Len(waiting) : waiting[i] # r /\ waiting[i] \in Requests
  BY DEF PermitInv, LineOK
<1>4. "parked" \in Placed
  BY DEF Placed
<1>5. CASE waiting = <<>>
  <2>1. /\ holds' = holds \ {r} /\ free' = free + 1 /\ waiting' = waiting
    BY <1>5 DEF Release
  <2>2. LineOK'
    BY <1>3, <2>1 DEF PermitInv, LineOK, Goto
  <2>3. \A q \in Requests : pc'[q] \in InLane => q \in holds'
    BY <1>0, <2>1 DEF PermitInv, PermitsConserved, Goto, Placed
  <2>4. \A q \in holds' : pc'[q] \in Placed
    BY <2>1 DEF PermitInv, Goto
  <2>5. free' + Cardinality(holds') = MaxConcurrent /\ free' \in Nat
    BY <1>1, <2>1 DEF PermitInv, PermitsConserved
  <2> QED
    BY <1>2, <2>1, <2>2, <2>3, <2>4, <2>5 DEF PermitInv, PermitsConserved
<1>6. CASE waiting # <<>>
  <2> DEFINE h == Head(waiting)
  <2>1. /\ holds' = (holds \ {r}) \cup {h} /\ free' = free
        /\ waiting' = Tail(waiting)
    BY <1>6 DEF Release
  <2>2. /\ h = waiting[1] /\ Len(waiting) >= 1
        /\ waiting' \in Seq(Requests) /\ Len(waiting') = Len(waiting) - 1
        /\ \A i \in 1 .. Len(waiting') : waiting'[i] = waiting[i + 1]
    BY <1>6, <2>1 DEF PermitInv
  <2>3. h \in Requests /\ h \notin holds /\ pc[h] = "parked" /\ h # r
    BY <1>3, <2>2 DEF PermitInv, LineOK
  <2>4. Cardinality(holds') = Cardinality(holds)
    <3>1. h \notin holds \ {r}
      BY <2>3
    <3>2. Cardinality((holds \ {r}) \cup {h}) = Cardinality(holds \ {r}) + 1
      BY ONLY <1>1, <3>1, FS_AddElement
    <3> QED
      BY <1>1, <2>1, <3>2
  <2>5. LineOK'
    <3>1. \A i \in 1 .. Len(waiting') :
             waiting'[i] # h /\ waiting'[i] \notin holds /\ waiting'[i] # r
             /\ pc[waiting'[i]] = "parked" /\ waiting'[i] \in Requests
      BY <1>3, <2>2 DEF PermitInv, LineOK
    <3>2. \A i, j \in 1 .. Len(waiting') : waiting'[i] = waiting'[j] => i = j
      BY <2>2 DEF PermitInv, LineOK
    <3> QED
      BY <2>1, <3>1, <3>2 DEF LineOK, PermitInv, Goto
  <2>6. \A q \in Requests : pc'[q] \in InLane => q \in holds'
    BY <1>0, <2>1 DEF PermitInv, PermitsConserved, Goto, Placed
  <2>7. \A q \in holds' : pc'[q] \in Placed
    BY <1>4, <2>1, <2>3 DEF PermitInv, Goto
  <2> QED
    BY <1>2, <2>1, <2>2, <2>3, <2>4, <2>5, <2>6, <2>7
       DEF PermitInv, PermitsConserved
<1> QED
  BY <1>5, <1>6

(* A request joins the line (acquire_owned without a free permit). *)
LEMMA ParkStep ==
    ASSUME PermitInv, NEW r \in Requests, pc[r] \notin Placed,
           waiting' = Append(waiting, r), UNCHANGED <<free, holds>>,
           Goto(r, "parked")
    PROVE  PermitInv'
<1>0. "parked" \in Placed /\ "parked" \in PCs /\ "parked" \notin InLane
  BY DEF Placed, PCs, InLane
<1>1. r \notin holds
  BY DEF PermitInv
<1>2. \A i \in 1 .. Len(waiting) : waiting[i] # r /\ waiting[i] \in Requests
  BY <1>0 DEF PermitInv, LineOK
<1>3. /\ waiting' \in Seq(Requests) /\ Len(waiting') = Len(waiting) + 1
      /\ \A i \in 1 .. Len(waiting) : waiting'[i] = waiting[i]
      /\ waiting'[Len(waiting) + 1] = r
  BY DEF PermitInv
<1>4. LineOK'
  <2>1. \A i \in 1 .. Len(waiting') :
           waiting'[i] \notin holds' /\ pc'[waiting'[i]] = "parked"
    BY <1>1, <1>2, <1>3 DEF PermitInv, LineOK, Goto
  <2>2. \A i, j \in 1 .. Len(waiting') : waiting'[i] = waiting'[j] => i = j
    BY <1>2, <1>3 DEF PermitInv, LineOK
  <2> QED
    BY <2>1, <2>2 DEF LineOK
<1>5. PermitsConserved'
  BY <1>0 DEF PermitInv, PermitsConserved, Goto
<1> QED
  BY <1>0, <1>3, <1>4, <1>5 DEF PermitInv, Goto

(* A waiter leaves the line at its deadline. *)
LEMMA LeaveStep ==
    ASSUME PermitInv, NEW r \in Requests, NEW l \in PCs \ Placed,
           r \notin holds, Leave(r), Goto(r, l)
    PROVE  PermitInv'
<1>1. PICK i \in 1 .. Len(waiting) :
         /\ waiting[i] = r
         /\ waiting' = [j \in 1 .. Len(waiting) - 1 |->
                          IF j < i THEN waiting[j] ELSE waiting[j + 1]]
  BY DEF Leave
<1> DEFINE n == Len(waiting)
<1>2. n \in Nat /\ waiting \in [1 .. n -> Requests]
  BY DEF PermitInv
<1>3. waiting' \in [1 .. n - 1 -> Requests] /\ n - 1 \in Nat
  BY <1>1, <1>2
<1>4. waiting' \in Seq(Requests) /\ Len(waiting') = n - 1
  BY <1>3
<1>5. \A j \in 1 .. n - 1 :
         \E k \in 1 .. n : waiting'[j] = waiting[k] /\ k # i
                           /\ k = IF j < i THEN j ELSE j + 1
  BY <1>1, <1>2
<1>6. \A j \in 1 .. n - 1 : waiting'[j] # r
  BY <1>1, <1>2, <1>5 DEF PermitInv, LineOK
<1>7. LineOK'
  <2>1. \A j \in 1 .. n - 1 :
           waiting'[j] \notin holds /\ pc[waiting'[j]] = "parked"
    BY <1>5 DEF PermitInv, LineOK
  <2>2. \A j, k \in 1 .. n - 1 : waiting'[j] = waiting'[k] => j = k
    BY <1>1, <1>2, <1>5 DEF PermitInv, LineOK
  <2> QED
    BY <1>3, <1>4, <1>6, <2>1, <2>2 DEF LineOK, PermitInv, Goto, Leave
<1>8. l \notin InLane
  BY DEF Placed
<1>9. PermitsConserved'
  BY <1>8 DEF PermitInv, PermitsConserved, Goto, Leave
<1> QED
  BY <1>4, <1>7, <1>9 DEF PermitInv, Goto, Leave

(* A step that leaves the semaphore alone. *)
LEMMA StayStep ==
    ASSUME PermitInv, NEW r \in Requests, NEW l \in PCs, UNCHANGED permits,
           Goto(r, l),
           \/ pc[r] \notin Placed /\ l \notin Placed
           \/ r \in holds /\ l \in InLane
    PROVE  PermitInv'
<1>1. "parked" \in Placed /\ InLane \subseteq Placed
  BY DEF Placed
<1>2. \A i \in 1 .. Len(waiting) : waiting[i] # r /\ waiting[i] \in Requests
  BY <1>1 DEF PermitInv, LineOK
<1>3. LineOK'
  BY <1>2 DEF PermitInv, LineOK, permits, Goto
<1>4. PermitsConserved'
  BY <1>1 DEF PermitInv, PermitsConserved, permits, Goto
<1> QED
  BY <1>1, <1>3, <1>4 DEF PermitInv, permits, Goto

-----------------------------------------------------------------------------
(* Charges and bills. *)

(* A step of one request that moves neither its charge nor its bill, and   *)
(* does not come to an end with a charge in hand.                          *)
LEMMA QuietStep ==
    ASSUME ChargeInv, NEW r \in Requests, NEW l \in PCs \ Ends,
           pc \in [Requests -> PCs], Goto(r, l),
           UNCHANGED <<budget, charge, billed>>,
           reg' \in [Requests -> Int],
           kind' \in [Requests -> Kinds \cup {"none"}], begun' \in SUBSET Requests,
           pc[r] \notin {"body"} \cup Ends
    PROVE  ChargeInv'
<1>1. charge[r] = "none" /\ billed[r] = 0
  BY DEF ChargeInv, ChargeOK
<1>2. Charged' = Charged
  BY DEF Charged
<1>3. BudgetConserved'
  BY <1>2 DEF ChargeInv, BudgetConserved
<1>4. BillingSettled'
  BY <1>1 DEF ChargeInv, BillingSettled, Goto
<1>5. ChargeOK'
  BY <1>1 DEF ChargeInv, ChargeOK, Goto
<1> QED
  BY <1>3, <1>4, <1>5 DEF ChargeInv

(* A request that ends before it reaches its body owes nothing. *)
LEMMA EndEarlyStep ==
    ASSUME ChargeInv, NEW r \in Requests, NEW l \in {"refused", "failed"},
           pc \in [Requests -> PCs], Goto(r, l),
           UNCHANGED <<spends, bodies>>,
           pc[r] \notin {"body"} \cup Ends
    PROVE  ChargeInv'
<1>1. charge[r] = "none" /\ billed[r] = 0
  BY DEF ChargeInv, ChargeOK
<1>2. l \in Ends /\ l # "body"
  BY DEF Ends
<1>3. BudgetConserved'
  BY DEF ChargeInv, BudgetConserved, Charged, spends
<1>4. BillingSettled'
  BY <1>1 DEF ChargeInv, BillingSettled, Goto, spends, bodies
<1>5. ChargeOK'
  BY <1>1, <1>2 DEF ChargeInv, ChargeOK, Goto, spends, bodies
<1> QED
  BY <1>3, <1>4, <1>5 DEF ChargeInv, spends, bodies

(* The number of charged requests after one of them gained or lost its     *)
(* charge.                                                                 *)
LEMMA ChargedStep ==
    ASSUME ChargeInv, NEW r \in Requests, NEW c \in {"none", "armed", "kept"},
           charge' = [charge EXCEPT ![r] = c]
    PROVE  /\ charge' \in [Requests -> {"none", "armed", "kept"}]
           /\ Cardinality(Charged) \in Nat
           /\ (charge[r] = "none") = (c = "none")
                => Cardinality(Charged') = Cardinality(Charged)
           /\ charge[r] = "none" /\ c # "none"
                => Cardinality(Charged') = Cardinality(Charged) + 1
           /\ charge[r] # "none" /\ c = "none"
                => Cardinality(Charged') = Cardinality(Charged) - 1
<1>1. IsFiniteSet(Charged) /\ Cardinality(Charged) \in Nat
  <2>1. Charged \subseteq Requests
    BY DEF Charged
  <2> QED
    BY <2>1, FS_Subset, FS_CardinalityType, LimitsValid
<1>2. charge' \in [Requests -> {"none", "armed", "kept"}]
  BY DEF ChargeInv
<1>3. ASSUME (charge[r] = "none") = (c = "none")
      PROVE  Charged' = Charged
  BY <1>3 DEF ChargeInv, Charged
<1>4. ASSUME charge[r] = "none", c # "none"
      PROVE  Cardinality(Charged') = Cardinality(Charged) + 1
  <2>1. r \notin Charged
    BY <1>4 DEF Charged
  <2>2. Charged' = Charged \cup {r}
    BY <1>4 DEF ChargeInv, Charged
  <2> QED
    BY <1>1, <2>1, <2>2, FS_AddElement
<1>5. ASSUME charge[r] # "none", c = "none"
      PROVE  Cardinality(Charged') = Cardinality(Charged) - 1
  <2>1. r \in Charged
    BY <1>5 DEF Charged
  <2>2. Charged' = Charged \ {r}
    BY <1>5 DEF ChargeInv, Charged
  <2> QED
    BY <1>1, <2>1, <2>2, FS_RemoveElement
<1> QED
  BY <1>1, <1>2, <1>3, <1>4, <1>5

(* spend_budget's compare-and-swap succeeds: a unit becomes a charge. *)
LEMMA SpendStep ==
    ASSUME ChargeInv, NEW r \in Requests, pc \in [Requests -> PCs],
           pc[r] = "cas", budget > 0, budget' = budget - 1,
           charge' = [charge EXCEPT ![r] = "armed"], Goto(r, "body"),
           UNCHANGED <<reg, bodies>>
    PROVE  ChargeInv'
<1>1. charge[r] = "none" /\ billed[r] = 0 /\ "body" \notin Ends /\ "cas" \notin Ends
  BY DEF ChargeInv, ChargeOK, Ends
<1>2. /\ charge' \in [Requests -> {"none", "armed", "kept"}]
      /\ Cardinality(Charged') = Cardinality(Charged) + 1
      /\ Cardinality(Charged) \in Nat
  BY <1>1, ChargedStep
<1>3. BudgetConserved'
  BY <1>2 DEF ChargeInv, BudgetConserved
<1>4. BillingSettled'
  BY <1>1 DEF ChargeInv, BillingSettled, Goto, bodies
<1>5. ChargeOK'
  BY <1>1 DEF ChargeInv, ChargeOK, Goto, bodies
<1> QED
  BY <1>2, <1>3, <1>4, <1>5 DEF ChargeInv, bodies

(* A body ends: its charge is refunded or kept, and its tokens are billed  *)
(* at most once, and not at all if it broke off or was cut.                *)
LEMMA EndBodyStep ==
    ASSUME ChargeInv, NEW r \in Requests, NEW l \in Ends,
           pc \in [Requests -> PCs], pc[r] = "body", Goto(r, l),
           RefundBudget(r) \/ Keep(r),
           \/ UNCHANGED billed
           \/ l \in {"delivered", "gone"} /\ Bill(r),
           UNCHANGED <<kind, begun>>
    PROVE  ChargeInv'
<1>1. billed[r] = 0 /\ charge[r] \in {"none", "armed"} /\ "body" \notin Ends
  BY DEF ChargeInv, ChargeOK, Ends
<1>2. /\ BudgetConserved' /\ budget' \in Int /\ reg' = reg
      /\ charge' \in [Requests -> {"none", "armed", "kept"}]
      /\ charge'[r] # "armed"
      /\ \A q \in Requests \ {r} : charge'[q] = charge[q]
  <2>1. CASE RefundBudget(r)
    <3>1. charge' = [charge EXCEPT ![r] = "none"] /\ reg' = reg
      BY <2>1 DEF RefundBudget
    <3>2. /\ charge' \in [Requests -> {"none", "armed", "kept"}]
          /\ Cardinality(Charged) \in Nat
          /\ Cardinality(Charged') = IF charge[r] = "armed"
                THEN Cardinality(Charged) - 1 ELSE Cardinality(Charged)
      BY <1>1, <3>1, ChargedStep
    <3>3. budget' = IF charge[r] = "armed" THEN budget + 1 ELSE budget
      BY <2>1 DEF RefundBudget
    <3>4. BudgetConserved' /\ budget' \in Int
      BY <3>2, <3>3 DEF ChargeInv, BudgetConserved
    <3> QED
      BY <3>1, <3>2, <3>4 DEF ChargeInv
  <2>2. CASE Keep(r)
    <3> DEFINE c == IF charge[r] = "armed" THEN "kept" ELSE charge[r]
    <3>1. charge' = [charge EXCEPT ![r] = c] /\ budget' = budget /\ reg' = reg
      BY <2>2 DEF Keep
    <3>2. c \in {"none", "kept"} /\ ((charge[r] = "none") = (c = "none"))
      BY <1>1
    <3>3. /\ charge' \in [Requests -> {"none", "armed", "kept"}]
          /\ Cardinality(Charged') = Cardinality(Charged)
      BY <3>1, <3>2, ChargedStep
    <3>4. BudgetConserved' /\ budget' \in Int
      BY <3>1, <3>3 DEF ChargeInv, BudgetConserved
    <3> QED
      BY <3>1, <3>2, <3>3, <3>4 DEF ChargeInv
  <2> QED
    BY <2>1, <2>2
<1>3. /\ billed' \in [Requests -> Nat]
      /\ billed'[r] <= 1 /\ (billed'[r] = 1 => l \in {"delivered", "gone"})
      /\ \A q \in Requests \ {r} : billed'[q] = billed[q]
  BY <1>1 DEF ChargeInv, Bill
<1>4. pc'[r] = l /\ \A q \in Requests \ {r} : pc'[q] = pc[q]
  BY DEF Goto
<1>5. BillingSettled'
  <2> SUFFICES ASSUME NEW q \in Requests
               PROVE  /\ pc'[q] \in Ends => charge'[q] # "armed"
                      /\ billed'[q] <= 1
                      /\ billed'[q] = 1 => pc'[q] \in {"delivered", "gone"}
    BY DEF BillingSettled
  <2>1. CASE q = r
    BY <1>2, <1>3, <1>4, <2>1
  <2>2. CASE q # r
    BY <1>2, <1>3, <1>4, <2>2 DEF ChargeInv, BillingSettled
  <2> QED
    BY <2>1, <2>2
<1>6. ChargeOK'
  <2> SUFFICES ASSUME NEW q \in Requests
               PROVE  /\ pc'[q] \notin {"body"} \cup Ends => charge'[q] = "none"
                      /\ pc'[q] = "body" => charge'[q] # "kept"
                      /\ pc'[q] \notin Ends => billed'[q] = 0
    BY DEF ChargeOK
  <2>1. CASE q = r
    BY <1>1, <1>4, <2>1
  <2>2. CASE q # r
    BY <1>2, <1>3, <1>4, <2>2 DEF ChargeInv, ChargeOK
  <2> QED
    BY <2>1, <2>2
<1> QED
  BY <1>2, <1>3, <1>5, <1>6 DEF ChargeInv

-----------------------------------------------------------------------------
(* The invariant. *)

(* A fresh lane: all permits free, the whole budget left, nobody billed. *)
LEMMA LedgerStarts == LedgerInit => LedgerInv
<1> SUFFICES ASSUME LedgerInit PROVE LedgerInv
  OBVIOUS
<1>1. PermitInv
  <2>1. Cardinality(holds) = 0
    BY FS_EmptySet DEF LedgerInit
  <2>2. pc \in [Requests -> PCs] /\ "new" \notin InLane
    BY DEF LedgerInit, PCs, InLane
  <2>3. PermitsConserved
    BY <2>1, <2>2, LimitsValid DEF LedgerInit, PermitsConserved
  <2>4. LineOK
    BY DEF LedgerInit, LineOK
  <2> QED
    BY <2>2, <2>3, <2>4, LimitsValid DEF LedgerInit, PermitInv
<1>2. ChargeInv
  <2>1. Charged = {}
    BY DEF LedgerInit, Charged
  <2>2. BudgetConserved
    BY <2>1, FS_EmptySet, LimitsValid DEF LedgerInit, BudgetConserved
  <2>3. BillingSettled /\ ChargeOK
    BY DEF LedgerInit, BillingSettled, ChargeOK, Ends
  <2> QED
    BY <2>2, <2>3, LimitsValid DEF LedgerInit, ChargeInv
<1> QED
  BY <1>1, <1>2 DEF LedgerInv

(* Admission keeps the invariant: try_admit, its permit, its probe. *)
LEMMA AdmissionInv ==
    ASSUME LedgerInv, NEW r \in Requests, Admission(r)
    PROVE  LedgerInv'
<1> USE PlacesDisjoint DEF LedgerInv
<1>0. /\ pc \in [Requests -> PCs] /\ reg \in [Requests -> Int]
      /\ kind \in [Requests -> Kinds \cup {"none"}] /\ begun \in SUBSET Requests
  BY DEF PermitInv, ChargeInv
<1>1. CASE TryAdmit(r)
  <2>1. PICK l \in {"permit", "exhausted"} : Goto(r, l)
    BY <1>1 DEF TryAdmit
  <2>2. pc[r] = "new" /\ UNCHANGED <<permits, spends, bodies>>
    BY <1>1 DEF TryAdmit
  <2>3. PermitInv'
    BY <2>1, <2>2, StayStep
  <2>4. ChargeInv'
    BY <1>0, <2>1, <2>2, QuietStep DEF spends, bodies
  <2> QED
    BY <2>3, <2>4
<1>2. CASE TryAcquire(r)
  <2>0. pc[r] = "permit" /\ UNCHANGED <<spends, bodies>> /\ "probe" \in Placed
    BY <1>2 DEF TryAcquire, Placed, InLane
  <2>1. CASE Take(r) /\ Goto(r, "probe")
    <3>1. PermitInv'
      BY <2>0, <2>1, TakeStep
    <3>2. ChargeInv'
      BY <1>0, <2>0, <2>1, QuietStep DEF spends, bodies
    <3> QED
      BY <3>1, <3>2
  <2>2. CASE UNCHANGED permits /\ Goto(r, "full")
    <3>1. PermitInv'
      BY <2>0, <2>2, StayStep
    <3>2. ChargeInv'
      BY <1>0, <2>0, <2>2, QuietStep DEF spends, bodies
    <3> QED
      BY <3>1, <3>2
  <2> QED
    BY <1>2, <2>1, <2>2 DEF TryAcquire
<1>3. CASE AcquireBreaker(r)
  <2>0. pc[r] = "probe" /\ UNCHANGED <<spends, bodies>> /\ "sent" \in InLane
        /\ "probe" \in InLane /\ "sent" \in Placed
    BY <1>3 DEF AcquireBreaker, InLane, Placed
  <2>1. r \in holds
    BY <2>0 DEF PermitInv, PermitsConserved
  <2>2. CASE UNCHANGED permits /\ Goto(r, "sent")
    <3>1. PermitInv'
      BY <2>0, <2>1, <2>2, StayStep
    <3>2. ChargeInv'
      BY <1>0, <2>0, <2>2, QuietStep DEF spends, bodies, Ends
    <3> QED
      BY <3>1, <3>2
  <2>3. CASE Release(r) /\ Goto(r, "exhausted")
    <3>1. PermitInv'
      BY <2>1, <2>3, ReleaseStep
    <3>2. ChargeInv'
      BY <1>0, <2>0, <2>3, QuietStep DEF spends, bodies, Ends
    <3> QED
      BY <3>1, <3>2
  <2> QED
    BY <1>3, <2>2, <2>3 DEF AcquireBreaker
<1> QED
  BY <1>1, <1>2, <1>3 DEF Admission

(* What an exhausted pool does with the request keeps the invariant. *)
LEMMA OnExhaustedInv ==
    ASSUME LedgerInv, NEW r \in Requests, OnExhausted(r) \/ QueueTimeout(r)
    PROVE  LedgerInv'
<1> USE PlacesDisjoint DEF LedgerInv
<1>0. /\ pc \in [Requests -> PCs] /\ reg \in [Requests -> Int]
      /\ kind \in [Requests -> Kinds \cup {"none"}] /\ begun \in SUBSET Requests
  BY DEF PermitInv, ChargeInv
<1>1. /\ {"sent", "parked"} \subseteq Placed \ Ends /\ "sent" \in InLane
      /\ {"refused", "failed"} \subseteq PCs \ Placed
  BY DEF Placed, InLane, Ends, PCs
<1>2. CASE Shed(r)
  <2>1. PermitInv'
    BY <1>1, <1>2, StayStep DEF Shed
  <2>2. ChargeInv'
    BY <1>0, <1>2, EndEarlyStep DEF Shed, Ends
  <2> QED
    BY <2>1, <2>2
<1>3. CASE LeastBad(r)
  <2>1. PermitInv'
    BY <1>1, <1>3, TakeStep DEF LeastBad
  <2>2. ChargeInv'
    BY <1>0, <1>1, <1>3, QuietStep DEF LeastBad, spends, bodies, Ends
  <2> QED
    BY <2>1, <2>2
<1>4. CASE Queue(r)
  <2>0. pc[r] = "full" /\ Goto(r, "parked") /\ UNCHANGED <<spends, bodies>>
    BY <1>4 DEF Queue
  <2>1. PermitInv'
    <3>1. CASE Take(r)
      BY <1>1, <2>0, <3>1, TakeStep
    <3>2. CASE waiting' = Append(waiting, r) /\ UNCHANGED <<free, holds>>
      BY <2>0, <3>2, ParkStep
    <3> QED
      BY <1>4, <3>1, <3>2 DEF Queue
  <2>2. ChargeInv'
    BY <1>0, <1>1, <2>0, QuietStep DEF spends, bodies, Ends
  <2> QED
    BY <2>1, <2>2
<1>5. CASE QueueAdmit(r)
  <2>0. pc[r] = "parked" /\ r \in holds /\ UNCHANGED <<spends, bodies>>
    BY <1>5 DEF QueueAdmit
  <2>1. CASE UNCHANGED permits /\ Goto(r, "sent")
    <3>1. PermitInv'
      BY <1>1, <2>0, <2>1, StayStep
    <3>2. ChargeInv'
      BY <1>0, <1>1, <2>0, <2>1, QuietStep DEF spends, bodies, Ends
    <3> QED
      BY <3>1, <3>2
  <2>2. CASE Release(r) /\ Goto(r, "refused")
    <3>1. PermitInv'
      BY <1>1, <2>0, <2>2, ReleaseStep
    <3>2. ChargeInv'
      BY <1>0, <2>0, <2>2, EndEarlyStep DEF Ends
    <3> QED
      BY <3>1, <3>2
  <2> QED
    BY <1>5, <2>1, <2>2 DEF QueueAdmit
<1>6. CASE QueueTimeout(r)
  <2>1. PermitInv'
    BY <1>1, <1>6, ReleaseStep, LeaveStep DEF QueueTimeout
  <2>2. ChargeInv'
    BY <1>0, <1>6, EndEarlyStep DEF QueueTimeout, Ends
  <2> QED
    BY <2>1, <2>2
<1> QED
  BY <1>2, <1>3, <1>4, <1>5, <1>6 DEF OnExhausted

(* The call up to the charge keeps the invariant. *)
LEMMA UpstreamInv ==
    ASSUME LedgerInv, NEW r \in Requests, Upstream(r)
    PROVE  LedgerInv'
<1> USE PlacesDisjoint DEF LedgerInv
<1>0. /\ pc \in [Requests -> PCs] /\ reg \in [Requests -> Int] /\ budget \in Int
      /\ kind \in [Requests -> Kinds \cup {"none"}] /\ begun \in SUBSET Requests
  BY DEF PermitInv, ChargeInv
<1>1. /\ {"spend", "cas", "body", "sent"} \subseteq InLane \ Ends
      /\ InLane \subseteq PCs /\ {"refused", "failed"} \subseteq PCs \ Placed
  BY DEF Placed, InLane, Ends, PCs
<1>2. pc[r] \in {"sent", "spend", "cas"} => r \in holds
  BY <1>1 DEF PermitInv, PermitsConserved
<1>3. CASE NoSuccess(r)
  <2>1. PermitInv'
    BY <1>1, <1>2, <1>3, ReleaseStep DEF NoSuccess
  <2>2. ChargeInv'
    BY <1>0, <1>3, EndEarlyStep DEF NoSuccess, Ends
  <2> QED
    BY <2>1, <2>2
<1>4. ASSUME NEW k \in Kinds, Headers(r, k)
      PROVE  LedgerInv'
  <2>1. PermitInv'
    BY <1>1, <1>2, <1>4, StayStep DEF Headers
  <2>2. kind' \in [Requests -> Kinds \cup {"none"}]
    BY <1>0, <1>4 DEF Headers
  <2>3. ChargeInv'
    BY <1>0, <1>1, <1>4, <2>2, QuietStep DEF Headers, spends, Ends
  <2> QED
    BY <2>1, <2>3
<1>5. CASE SpendLoad(r)
  <2>1. PermitInv'
    BY <1>1, <1>2, <1>5, StayStep DEF SpendLoad
  <2>2. reg' \in [Requests -> Int]
    BY <1>0, <1>5 DEF SpendLoad
  <2>3. ChargeInv'
    BY <1>0, <1>1, <1>5, <2>2, QuietStep DEF SpendLoad, bodies, Ends
  <2> QED
    BY <2>1, <2>3
<1>6. CASE SpendCas(r)
  <2>0. pc[r] = "cas" /\ UNCHANGED <<permits, bodies>>
    BY <1>6 DEF SpendCas
  <2>1. CASE Goto(r, "body") /\ UNCHANGED spends
    <3>1. PermitInv'
      BY <1>1, <1>2, <2>0, <2>1, StayStep
    <3>2. ChargeInv'
      BY <1>0, <1>1, <2>0, <2>1, QuietStep DEF spends, bodies, Ends
    <3> QED
      BY <3>1, <3>2
  <2>2. CASE /\ budget > 0 /\ budget' = budget - 1
             /\ charge' = [charge EXCEPT ![r] = "armed"]
             /\ Goto(r, "body") /\ UNCHANGED reg
    <3>1. PermitInv'
      BY <1>1, <1>2, <2>0, <2>2, StayStep
    <3>2. ChargeInv'
      BY <1>0, <2>0, <2>2, SpendStep
    <3> QED
      BY <3>1, <3>2
  <2>3. CASE reg' = [reg EXCEPT ![r] = budget] /\ UNCHANGED <<budget, charge, pc>>
    <3>0. Goto(r, "cas") /\ reg' \in [Requests -> Int]
      BY <1>0, <2>0, <2>3 DEF Goto
    <3>1. PermitInv'
      BY <1>1, <1>2, <2>0, <3>0, StayStep
    <3>2. ChargeInv'
      BY <1>0, <1>1, <2>0, <2>3, <3>0, QuietStep DEF bodies, Ends
    <3> QED
      BY <3>1, <3>2
  <2> QED
    BY <1>0, <1>6, <2>1, <2>2, <2>3 DEF SpendCas
<1> QED
  BY <1>3, <1>4, <1>5, <1>6 DEF Upstream

(* The body, its first byte and each of its ends keep the invariant. *)
LEMMA BodyInv ==
    ASSUME LedgerInv, NEW r \in Requests, FirstByte(r) \/ Body(r)
    PROVE  LedgerInv'
<1> USE PlacesDisjoint DEF LedgerInv
<1>0. pc \in [Requests -> PCs]
  BY DEF PermitInv
<1>1. Ends \subseteq PCs \ Placed /\ "body" \in InLane
  BY DEF InLane
<1>2. CASE FirstByte(r)
  <2>1. PermitInv'
    BY <1>2 DEF FirstByte, PermitInv, PermitsConserved, LineOK, permits
  <2>2. Charged' = Charged
    BY <1>2 DEF FirstByte, Charged, spends
  <2>3. BudgetConserved' /\ BillingSettled' /\ ChargeOK'
    BY <1>2, <2>2 DEF FirstByte, ChargeInv, BudgetConserved, BillingSettled,
                      ChargeOK, spends
  <2>4. ChargeInv'
    BY <1>2, <2>3 DEF FirstByte, ChargeInv, spends
  <2> QED
    BY <2>1, <2>4
<1>3. ASSUME NEW l \in Ends, EndBody(r, l), RefundBudget(r) \/ Keep(r),
             \/ UNCHANGED billed
             \/ l \in {"delivered", "gone"} /\ Bill(r),
             UNCHANGED <<kind, begun>>
      PROVE  LedgerInv'
  <2>0. pc[r] = "body" /\ Release(r) /\ Goto(r, l)
    BY <1>3 DEF EndBody
  <2>1. r \in holds
    BY <1>1, <2>0 DEF PermitInv, PermitsConserved
  <2>2. PermitInv'
    BY <1>1, <2>0, <2>1, ReleaseStep
  <2>3. ChargeInv'
    BY <1>0, <1>3, <2>0, EndBodyStep
  <2> QED
    BY <2>2, <2>3
<1>4. {"delivered", "gone", "broken", "truncated"} \subseteq Ends
  BY DEF Ends
<1>5. CASE BufferedBroken(r) \/ BufferedTruncated(r) \/ BufferedDelivered(r)
           \/ BufferedGone(r)
  BY <1>3, <1>4, <1>5 DEF BufferedBroken, BufferedTruncated, BufferedDelivered,
                          BufferedGone, bodies
<1>6. CASE StreamBroken(r)
  BY <1>3, <1>4, <1>6 DEF StreamBroken, bodies
<1>7. CASE StreamEnded(r)
  BY <1>3, <1>4, <1>7 DEF StreamEnded
<1>8. CASE StreamGone(r)
  BY <1>3, <1>4, <1>8 DEF StreamGone
<1> QED
  BY <1>2, <1>5, <1>6, <1>7, <1>8 DEF Body

(* Every step keeps the invariant. *)
LEMMA LaneStep == LedgerInv /\ [LedgerNext]_ledgerVars => LedgerInv'
<1> SUFFICES ASSUME LedgerInv, [LedgerNext]_ledgerVars PROVE LedgerInv'
  OBVIOUS
<1>1. CASE UNCHANGED ledgerVars
  BY <1>1 DEF ledgerVars, LedgerInv, PermitInv, ChargeInv, PermitsConserved, LineOK,
              BudgetConserved, BillingSettled, ChargeOK, Charged
<1>2. CASE LedgerNext
  <2>1. CASE Finished
    BY <1>1, <2>1 DEF Finished
  <2>2. CASE \E r \in Requests :
               \/ Admission(r) \/ OnExhausted(r) \/ QueueTimeout(r)
               \/ Upstream(r) \/ FirstByte(r) \/ Body(r)
    BY <2>2, AdmissionInv, OnExhaustedInv, UpstreamInv, BodyInv
  <2> QED
    BY <1>2, <2>1, <2>2 DEF LedgerNext
<1> QED
  BY <1>1, <1>2

-----------------------------------------------------------------------------
(* The invariant holds in every reachable state of a lane. *)
THEOREM LedgerInvHolds == LedgerSpec => []LedgerInv
BY LedgerStarts, LaneStep, PTL DEF LedgerSpec

(* The variables keep their types. *)
THEOREM LedgerTypeCorrect == LedgerSpec => []LedgerTypeOK
<1>1. LedgerInv => LedgerTypeOK
  BY DEF LedgerInv, PermitInv, ChargeInv, LedgerTypeOK
<1> QED
  BY <1>1, LedgerInvHolds, PTL

(* max_concurrent bounds the calls in flight: for any number of requests   *)
(* and permits, each call in flight holds one of them, and none is lost or *)
(* forged between try_acquire, the queue, the response bodies and drops.   *)
THEOREM PermitsCorrect == LedgerSpec => []PermitsConserved
<1>1. LedgerInv => PermitsConserved
  BY DEF LedgerInv, PermitInv
<1> QED
  BY <1>1, LedgerInvHolds, PTL

(* spend_budget, refund_budget and the guards that own a charge neither    *)
(* create nor lose a unit of the budget, for any max_requests.             *)
THEOREM BudgetCorrect == LedgerSpec => []BudgetConserved
<1>1. LedgerInv => BudgetConserved
  BY DEF LedgerInv, ChargeInv
<1> QED
  BY <1>1, LedgerInvHolds, PTL

(* Whichever end of a response comes first, its charge is settled and its  *)
(* tokens are billed at most once, and never for a response that broke.    *)
THEOREM BillingCorrect == LedgerSpec => []BillingSettled
<1>1. LedgerInv => BillingSettled
  BY DEF LedgerInv, ChargeInv
<1> QED
  BY <1>1, LedgerInvHolds, PTL

-----------------------------------------------------------------------------
(* A key's counters. *)

\* A cell without a window is the absent entry: nothing to count or send.
CellSane(n) == cell[n].win = -1 => cell[n] = NoCell

LEMMA CellTypes ==
    /\ NoCell \in Cells /\ Idle \in Snapshots
    /\ \A w \in Windows : Fresh(w) \in Cells
BY FlushBounds DEF NoCell, Fresh, Idle, Cells, Snapshots, Windows

LEMMA CellUpdate ==
    ASSUME NEW c \in Cells, NEW v \in Nat, NEW x \in BOOLEAN
    PROVE  /\ [c EXCEPT !.cur = v, !.dirty = x] \in Cells
           /\ [c EXCEPT !.flushed = v] \in Cells
           /\ [c EXCEPT !.dirty = x] \in Cells
BY DEF Cells

\* The fields that such an update leaves alone, and those it sets.
LEMMA CellFields ==
    ASSUME NEW c \in Cells, NEW v \in Nat, NEW x \in BOOLEAN
    PROVE  /\ [c EXCEPT !.cur = v, !.dirty = x].win = c.win
           /\ [c EXCEPT !.cur = v, !.dirty = x].flushed = c.flushed
           /\ [c EXCEPT !.cur = v, !.dirty = x].cur = v
           /\ [c EXCEPT !.flushed = v].win = c.win
           /\ [c EXCEPT !.flushed = v].flushed = v
           /\ [c EXCEPT !.flushed = v].cur = c.cur
           /\ [c EXCEPT !.dirty = x].win = c.win
           /\ [c EXCEPT !.dirty = x].flushed = c.flushed
           /\ [c EXCEPT !.dirty = x].cur = c.cur
BY DEF Cells

\* The flag after such an update.
LEMMA CellFlag ==
    ASSUME NEW c \in Cells, NEW v \in Nat, NEW x \in BOOLEAN
    PROVE  /\ [c EXCEPT !.cur = v, !.dirty = x].dirty = x
           /\ [c EXCEPT !.flushed = v].dirty = c.dirty
           /\ [c EXCEPT !.dirty = x].dirty = x
BY DEF Cells

\* Counting on a cell gives a dirty cell of that window or a newer one.
LEMMA CountedCell ==
    ASSUME NEW c \in Cells, NEW w \in Windows
    PROVE  /\ Counted(c, w) \in Cells
           /\ Counted(c, w).win \in Windows
           /\ Counted(c, w).dirty
           /\ w <= c.win => /\ Counted(c, w).win = c.win
                            /\ Counted(c, w).cur = c.cur + 1
                            /\ Counted(c, w).flushed = c.flushed
           /\ w > c.win  => /\ Counted(c, w).win = w
                            /\ Counted(c, w).cur = 1
                            /\ Counted(c, w).flushed = 0
<1> DEFINE b == CellFor(c, w)
<1>1. b \in Cells /\ b.win \in Windows
  BY CellTypes, FlushBounds DEF CellFor, Cells, Windows, Fresh
<1>2. w <= c.win => b = c
  BY DEF CellFor, Cells, Windows
<1>3. w > c.win => b = Fresh(w)
  BY DEF CellFor
<1>4. Counted(c, w) = [b EXCEPT !.cur = @ + 1, !.dirty = TRUE]
  BY DEF Counted
<1> HIDE DEF b
<1>5. Counted(c, w) \in Cells
  <2>1. b.cur + 1 \in Nat
    BY <1>1 DEF Cells
  <2> QED
    BY <1>1, <1>4, <2>1, CellUpdate
<1>6. Counted(c, w).win = b.win /\ Counted(c, w).flushed = b.flushed
  BY <1>1, <1>4 DEF Cells
<1>7. Counted(c, w).cur = b.cur + 1
  BY <1>1, <1>4 DEF Cells
<1>8. Counted(c, w).dirty = TRUE
  BY <1>1, <1>4 DEF Cells
<1> QED
  BY <1>1, <1>2, <1>3, <1>5, <1>6, <1>7, <1>8 DEF Fresh

\* The snapshots of a dropped cell.
LEMMA StrayTypes ==
    ASSUME NEW f \in [Writers -> Snapshots]
    PROVE  [s \in Writers |-> [f[s] EXCEPT !.stray = (f[s].st # "idle")]] \in [Writers -> Snapshots]
<1>1. ASSUME NEW k \in Snapshots, NEW x \in BOOLEAN PROVE [k EXCEPT !.stray = x] \in Snapshots
  BY DEF Snapshots
<1> QED
  BY <1>1

LEMMA Update ==
    ASSUME NEW S, NEW T, NEW f \in [S -> T], NEW x \in S, NEW v \in T
    PROVE  [f EXCEPT ![x] = v] \in [S -> T]
OBVIOUS

LEMMA Update2 ==
    ASSUME NEW S, NEW R, NEW T, NEW f \in [S -> [R -> T]], NEW x \in S, NEW y \in R, NEW v \in T
    PROVE  [f EXCEPT ![x][y] = v] \in [S -> [R -> T]]
OBVIOUS

-----------------------------------------------------------------------------
(* Each step on the cell and on a writer, as an update of one entry.       *)

\* A count.
LEMMA CountShape ==
    ASSUME TypeOK, NEW n \in Nodes, NEW w \in Windows, CountOn(n, w)
    PROVE  /\ cell' = [cell EXCEPT ![n] = Counted(cell[n], w)]
           /\ cell' \in [Nodes -> Cells]
           /\ spent' \in [Windows -> Int] /\ slips' \subseteq Slips /\ counts' \in Nat
<1> DEFINE c == Counted(cell[n], w)
<1>1. cell \in [Nodes -> Cells] /\ cell[n] \in Cells
  BY DEF TypeOK
<1>2. c \in Cells /\ c.win \in Windows
  BY <1>1, CountedCell
<1>3. /\ cell' = [cell EXCEPT ![n] = c]
      /\ spent' = [spent EXCEPT ![c.win] = @ + 1]
      /\ counts' = counts + 1
      /\ slips' = slips \/ slips' = slips \cup {"rolled"}
  BY DEF CountOn
<1> HIDE DEF c
<1>4. cell' \in [Nodes -> Cells]
  BY <1>1, <1>2, <1>3, Update
<1>5. spent' \in [Windows -> Int] /\ slips' \subseteq Slips /\ counts' \in Nat
  <2>1. spent \in [Windows -> Int] /\ spent[c.win] + 1 \in Int
    BY <1>2 DEF TypeOK
  <2>2. spent' \in [Windows -> Int]
    BY <1>2, <1>3, <2>1, Update
  <2>3. slips' \subseteq Slips
    BY <1>3 DEF TypeOK, Slips
  <2>4. counts' \in Nat
    BY <1>3 DEF TypeOK
  <2> QED
    BY <2>2, <2>3, <2>4
<1> QED
  BY <1>3, <1>4, <1>5 DEF c

\* A refund.
LEMMA RefundShape ==
    ASSUME TypeOK, NEW n \in Nodes, NEW w \in Windows, Refund(n, w)
    PROVE  \/ cell' = cell
           \/ /\ cell[n].win = w
              /\ \E v \in Nat :
                   /\ cell' = [cell EXCEPT ![n] = [cell[n] EXCEPT !.cur = v, !.dirty = TRUE]]
                   /\ v = cell[n].cur \/ v = cell[n].cur - 1
<1> DEFINE v == IF cell[n].cur > 0 THEN cell[n].cur - 1 ELSE 0
<1>1. cell[n] \in Cells /\ v \in Nat /\ (v = cell[n].cur \/ v = cell[n].cur - 1)
  BY DEF TypeOK, Cells
<1>2. \/ cell' = cell
      \/ /\ cell[n].win = w
         /\ cell' = [cell EXCEPT ![n] = [cell[n] EXCEPT !.cur = v, !.dirty = TRUE]]
  BY DEF Refund, TypeOK
<1> HIDE DEF v
<1> QED
  BY <1>1, <1>2

\* A snapshot of a dirty cell; a clean one is passed over.
LEMMA SnapshotShape ==
    ASSUME TypeOK, NEW n \in Nodes, NEW s \in Writers, CellSane(n), Snapshot(n, s)
    PROVE  /\ \/ cell' = cell
              \/ /\ cell[n].win \in Windows
                 /\ cell' = [cell EXCEPT ![n] = [cell[n] EXCEPT !.dirty = FALSE]]
           /\ cell' \in [Nodes -> Cells]
           /\ flight' \in [Nodes -> [Writers -> Snapshots]]
<1> DEFINE c == cell[n]
           f == [st |-> "sent", win |-> c.win, delta |-> c.cur - c.flushed, cur |-> c.cur,
                 stray |-> FALSE]
<1>1. cell \in [Nodes -> Cells] /\ c \in Cells /\ flight \in [Nodes -> [Writers -> Snapshots]]
  BY DEF TypeOK
<1>2. CASE ~c.dirty
  BY <1>1, <1>2 DEF Snapshot
<1>3. CASE c.dirty
  <2>1. /\ cell' = [cell EXCEPT ![n] = [c EXCEPT !.dirty = FALSE]]
        /\ flight' = flight \/ flight' = [flight EXCEPT ![n][s] = f]
    BY <1>3 DEF Snapshot
  <2>2. c.win \in Windows
    <3>1. c # NoCell
      BY <1>3 DEF NoCell, Fresh
    <3> QED
      BY <1>1, <3>1 DEF CellSane, Cells
  <2>3. f \in Snapshots
    BY <1>1, <2>2 DEF Snapshots, Cells
  <2>4. [c EXCEPT !.dirty = FALSE] \in Cells
    BY <1>1 DEF Cells
  <2> HIDE DEF f
  <2>5. flight' \in [Nodes -> [Writers -> Snapshots]]
    <3>1. [flight EXCEPT ![n][s] = f] \in [Nodes -> [Writers -> Snapshots]]
      BY <1>1, <2>3, Update2
    <3> QED
      BY <1>1, <2>1, <3>1
  <2>6. cell' \in [Nodes -> Cells]
    BY <1>1, <2>1, <2>4, Update
  <2> QED
    BY <2>1, <2>2, <2>5, <2>6
<1> QED
  BY <1>2, <1>3

-----------------------------------------------------------------------------
\* Type correctness, with the shape of an absent cell that it needs.
Typed == TypeOK /\ \A n \in Nodes : CellSane(n)

LEMMA TypedInit == Init => Typed
<1> SUFFICES ASSUME Init PROVE Typed
  OBVIOUS
<1>1. cell \in [Nodes -> Cells] /\ flight \in [Nodes -> [Writers -> Snapshots]]
  BY CellTypes DEF Init
<1>2. arm \in [Nodes -> BOOLEAN]
  BY DEF Init
<1>3. /\ window \in Windows /\ mode \in [Nodes -> {"up", "stopping", "exiting", "down"}]
      /\ open \in [Nodes -> [Windows -> Nat]] /\ store \in [Windows -> Nat]
      /\ spent \in [Windows -> Int] /\ slips \subseteq Slips
      /\ counts \in Nat /\ errors \in Nat /\ ends \in Nat /\ drops \in Nat
  BY FlushBounds DEF Init, Windows
<1> QED
  BY <1>1, <1>2, <1>3 DEF Typed, TypeOK, CellSane, Init

\* A cell whose flag is cleared keeps its window.
LEMMA SnapshotSane ==
    ASSUME Typed, NEW n \in Nodes,
           \/ cell' = cell
           \/ /\ cell[n].win \in Windows
              /\ cell' = [cell EXCEPT ![n] = [cell[n] EXCEPT !.dirty = FALSE]]
    PROVE  \A m \in Nodes : CellSane(m)'
<1>1. cell \in [Nodes -> Cells] /\ cell[n] \in Cells
  BY DEF Typed, TypeOK
<1>2. [cell[n] EXCEPT !.dirty = FALSE].win = cell[n].win
  BY <1>1 DEF Cells
<1>3. \A w \in Windows : w # -1
  BY FlushBounds DEF Windows
<1> QED
  BY <1>1, <1>2, <1>3 DEF Typed, CellSane

LEMMA TypedStep ==
    ASSUME Typed, [Next]_vars
    PROVE  Typed'
<1> USE DEF Typed
<1>1. CASE NextWindow
  BY <1>1, FlushBounds DEF NextWindow, TypeOK, CellSane, Windows
<1>2. ASSUME NEW n \in Nodes, NEW w \in Windows, Charge(n, w) PROVE Typed'
  <2>1. /\ cell' = [cell EXCEPT ![n] = Counted(cell[n], w)] /\ cell' \in [Nodes -> Cells]
        /\ spent' \in [Windows -> Int] /\ slips' \subseteq Slips /\ counts' \in Nat
    BY <1>2, CountShape DEF Charge
  <2>2. open' \in [Nodes -> [Windows -> Nat]]
    <3>1. open \in [Nodes -> [Windows -> Nat]] /\ open[n][w] + 1 \in Nat
      BY DEF TypeOK
    <3> QED
      BY <1>2, <3>1, Update2 DEF Charge
  <2>3. TypeOK'
    BY <1>2, <2>1, <2>2 DEF Charge, TypeOK
  <2>4. \A m \in Nodes : CellSane(m)'
    <3>1. cell[n] \in Cells
      BY DEF TypeOK
    <3>2. Counted(cell[n], w).win # -1
      BY <3>1, CountedCell, FlushBounds DEF Windows
    <3> QED
      BY <2>1, <3>2 DEF CellSane, TypeOK
  <2> QED
    BY <2>3, <2>4
<1>3. ASSUME NEW n \in Nodes, NEW w \in Windows, Accrue(n, w) PROVE Typed'
  <2>1. /\ cell' = [cell EXCEPT ![n] = Counted(cell[n], w)] /\ cell' \in [Nodes -> Cells]
        /\ spent' \in [Windows -> Int] /\ slips' \subseteq Slips /\ counts' \in Nat
    BY <1>3, CountShape DEF Accrue
  <2>2. open' \in [Nodes -> [Windows -> Nat]]
    <3>1. open \in [Nodes -> [Windows -> Nat]] /\ open[n][w] - 1 \in Nat
      BY <1>3 DEF TypeOK, Accrue
    <3> QED
      BY <1>3, <3>1, Update2 DEF Accrue
  <2>3. TypeOK'
    BY <1>3, <2>1, <2>2 DEF Accrue, TypeOK
  <2>4. \A m \in Nodes : CellSane(m)'
    <3>1. cell[n] \in Cells
      BY DEF TypeOK
    <3>2. Counted(cell[n], w).win # -1
      BY <3>1, CountedCell, FlushBounds DEF Windows
    <3> QED
      BY <2>1, <3>2 DEF CellSane, TypeOK
  <2> QED
    BY <2>3, <2>4
<1>4. ASSUME NEW n \in Nodes, NEW w \in Windows, Refund(n, w) PROVE Typed'
  <2> DEFINE v == IF cell[n].cur > 0 THEN cell[n].cur - 1 ELSE 0
  <2>1. cell \in [Nodes -> Cells] /\ cell[n] \in Cells /\ v \in Nat
    BY DEF TypeOK, Cells
  <2>2. open' \in [Nodes -> [Windows -> Nat]]
    <3>1. open \in [Nodes -> [Windows -> Nat]] /\ open[n][w] - 1 \in Nat
      BY <1>4 DEF TypeOK, Refund
    <3> QED
      BY <1>4, <3>1, Update2 DEF Refund
  <2>3. \/ cell' = cell /\ spent' = spent
        \/ /\ cell[n].win = w
           /\ cell' = [cell EXCEPT ![n] = [cell[n] EXCEPT !.cur = v, !.dirty = TRUE]]
           /\ spent' = [spent EXCEPT ![w] = @ - 1]
    BY <1>4, <2>1 DEF Refund
  <2> HIDE DEF v
  <2>4. cell' \in [Nodes -> Cells]
    <3>1. [cell[n] EXCEPT !.cur = v, !.dirty = TRUE] \in Cells
      BY <2>1, CellUpdate
    <3> QED
      BY <2>1, <2>3, <3>1, Update
  <2>5. spent' \in [Windows -> Int]
    BY <2>3 DEF TypeOK
  <2>6. TypeOK'
    BY <1>4, <2>2, <2>4, <2>5 DEF Refund, TypeOK
  <2>7. \A m \in Nodes : CellSane(m)'
    <3>1. [cell[n] EXCEPT !.cur = v, !.dirty = TRUE].win = cell[n].win
      BY <2>1 DEF Cells
    <3>2. w # -1
      BY FlushBounds DEF Windows
    <3> QED
      BY <2>1, <2>3, <3>1, <3>2 DEF CellSane
  <2> QED
    BY <2>6, <2>7
<1>5. ASSUME NEW n \in Nodes, Tick(n) PROVE Typed'
  <2>1. Snapshot(n, "gate")
    BY <1>5 DEF Tick
  <2>2. /\ \/ cell' = cell
           \/ /\ cell[n].win \in Windows
              /\ cell' = [cell EXCEPT ![n] = [cell[n] EXCEPT !.dirty = FALSE]]
        /\ cell' \in [Nodes -> Cells] /\ flight' \in [Nodes -> [Writers -> Snapshots]]
    BY <2>1, SnapshotShape DEF Writers
  <2>3. arm' = arm /\ mode' = mode /\ slips' = slips
    BY <1>5 DEF Tick
  <2>4. TypeOK'
    BY <1>5, <2>2, <2>3 DEF Tick, TypeOK
  <2>5. \A m \in Nodes : CellSane(m)'
    BY <2>2, SnapshotSane
  <2> QED
    BY <2>4, <2>5
<1>6. ASSUME NEW n \in Nodes, LastTick(n) PROVE Typed'
  <2>1. Snapshot(n, "gate")
    BY <1>6 DEF LastTick
  <2>2. /\ \/ cell' = cell
           \/ /\ cell[n].win \in Windows
              /\ cell' = [cell EXCEPT ![n] = [cell[n] EXCEPT !.dirty = FALSE]]
        /\ cell' \in [Nodes -> Cells] /\ flight' \in [Nodes -> [Writers -> Snapshots]]
    BY <2>1, SnapshotShape DEF Writers
  <2>3. arm' \in [Nodes -> BOOLEAN]
    BY <1>6 DEF LastTick, TypeOK
  <2>4. TypeOK'
    BY <1>6, <2>2, <2>3 DEF LastTick, TypeOK
  <2>5. \A m \in Nodes : CellSane(m)'
    BY <2>2, SnapshotSane
  <2> QED
    BY <2>4, <2>5
<1>7. ASSUME NEW n \in Nodes, FinalFlush(n) PROVE Typed'
  <2>1. Snapshot(n, "main")
    BY <1>7 DEF FinalFlush
  <2>2. /\ \/ cell' = cell
           \/ /\ cell[n].win \in Windows
              /\ cell' = [cell EXCEPT ![n] = [cell[n] EXCEPT !.dirty = FALSE]]
        /\ cell' \in [Nodes -> Cells] /\ flight' \in [Nodes -> [Writers -> Snapshots]]
    BY <2>1, SnapshotShape DEF Writers
  <2>3. mode' \in [Nodes -> {"up", "stopping", "exiting", "down"}] /\ slips' \subseteq Slips
    BY <1>7 DEF FinalFlush, TypeOK, Slips
  <2>4. TypeOK'
    BY <1>7, <2>2, <2>3 DEF FinalFlush, TypeOK
  <2>5. \A m \in Nodes : CellSane(m)'
    BY <2>2, SnapshotSane
  <2> QED
    BY <2>4, <2>5
<1>8. ASSUME NEW n \in Nodes, NEW s \in Writers, Land(n, s) PROVE Typed'
  <2> DEFINE f == flight[n][s]
             v == IF store[f.win] + f.delta > 0 THEN store[f.win] + f.delta ELSE 0
  <2>1. f \in Snapshots /\ flight \in [Nodes -> [Writers -> Snapshots]] /\ store \in [Windows -> Nat]
    BY DEF TypeOK
  <2>2. v \in Nat /\ f.win \in Windows
    BY <2>1 DEF Snapshots
  <2>3. store' = [store EXCEPT ![f.win] = v] /\ flight' = [flight EXCEPT ![n][s].st = "landed"]
    BY <1>8 DEF Land
  <2>4. store' \in [Windows -> Nat]
    <3> HIDE DEF v
    <3> QED
      BY <2>1, <2>2, <2>3, Update
  <2>5. flight' \in [Nodes -> [Writers -> Snapshots]]
    <3>1. [f EXCEPT !.st = "landed"] \in Snapshots
      BY <2>1 DEF Snapshots
    <3>2. flight' = [flight EXCEPT ![n][s] = [f EXCEPT !.st = "landed"]]
      BY <2>1, <2>3
    <3> HIDE DEF f
    <3> QED
      BY <2>1, <3>1, <3>2, Update2
  <2>6. TypeOK'
    BY <1>8, <2>4, <2>5 DEF Land, TypeOK
  <2>7. \A m \in Nodes : CellSane(m)'
    BY <1>8 DEF Land, CellSane
  <2> QED
    BY <2>6, <2>7
<1>9. ASSUME NEW n \in Nodes, NEW s \in Writers, Ack(n, s) PROVE Typed'
  <2> DEFINE f == flight[n][s]
  <2>1. /\ f \in Snapshots /\ flight \in [Nodes -> [Writers -> Snapshots]]
        /\ cell \in [Nodes -> Cells] /\ cell[n] \in Cells
    BY DEF TypeOK
  <2>2. flight' \in [Nodes -> [Writers -> Snapshots]]
    BY <1>9, <2>1, CellTypes, Update2 DEF Ack
  <2>3. \/ cell' = cell
        \/ /\ cell[n].win = f.win
           /\ cell' = [cell EXCEPT ![n] = [cell[n] EXCEPT !.flushed = f.cur]]
    BY <1>9, <2>1 DEF Ack
  <2>4. f.cur \in Nat /\ f.win # -1
    BY <2>1, FlushBounds DEF Snapshots, Windows
  <2>5. /\ [cell[n] EXCEPT !.flushed = f.cur] \in Cells
        /\ [cell[n] EXCEPT !.flushed = f.cur].win = cell[n].win
    BY <2>1, <2>4 DEF Cells
  <2> HIDE DEF f
  <2>6. cell' \in [Nodes -> Cells]
    BY <2>1, <2>3, <2>5, Update
  <2>7. TypeOK'
    BY <1>9, <2>2, <2>6 DEF Ack, TypeOK
  <2>8. \A m \in Nodes : CellSane(m)'
    BY <2>1, <2>3, <2>4, <2>5 DEF CellSane
  <2> QED
    BY <2>7, <2>8
<1>10. ASSUME NEW n \in Nodes, NEW s \in Writers, Fail(n, s) PROVE Typed'
  <2> DEFINE f == flight[n][s]
  <2>1. /\ f \in Snapshots /\ flight \in [Nodes -> [Writers -> Snapshots]]
        /\ cell \in [Nodes -> Cells] /\ cell[n] \in Cells
    BY DEF TypeOK
  <2>2. flight' \in [Nodes -> [Writers -> Snapshots]]
    BY <1>10, <2>1, CellTypes, Update2 DEF Fail
  <2>3. \/ cell' = cell
        \/ /\ cell[n].win = f.win
           /\ cell' = [cell EXCEPT ![n] = [cell[n] EXCEPT !.dirty = TRUE]]
    BY <1>10, <2>1 DEF Fail
  <2>4. f.win # -1
    BY <2>1, FlushBounds DEF Snapshots, Windows
  <2>5. [cell[n] EXCEPT !.dirty = TRUE] \in Cells
    BY <2>1 DEF Cells
  <2>6. [cell[n] EXCEPT !.dirty = TRUE].win = cell[n].win
    BY <2>1 DEF Cells
  <2>7. errors' \in Nat /\ slips' \subseteq Slips
    <3>1. errors' \in Nat
      BY <1>10 DEF Fail, TypeOK
    <3>2. slips' \subseteq slips \cup {"ack lost", "rolled", "error at stop"}
      BY <1>10 DEF Fail, FailSlips
    <3> QED
      BY <3>1, <3>2 DEF TypeOK, Slips
  <2> HIDE DEF f
  <2>8. cell' \in [Nodes -> Cells]
    BY <2>1, <2>3, <2>5, Update
  <2>9. TypeOK'
    BY <1>10, <2>2, <2>7, <2>8 DEF Fail, TypeOK
  <2>10. \A m \in Nodes : CellSane(m)'
    BY <2>1, <2>3, <2>4, <2>6 DEF CellSane
  <2> QED
    BY <2>9, <2>10
<1>11. ASSUME NEW n \in Nodes, Stop(n) PROVE Typed'
  BY <1>11 DEF Stop, TypeOK, CellSane
<1>12. ASSUME NEW n \in Nodes, Exit(n) \/ Crash(n) PROVE Typed'
  <2>1. Gone(n) /\ UNCHANGED <<window, store, spent, counts, errors, drops>> /\ ends' \in Nat
    BY <1>12 DEF Exit, Crash, TypeOK
  <2>2. cell' \in [Nodes -> Cells]
    BY <2>1, CellTypes, Update DEF Gone, TypeOK
  <2>3. flight' \in [Nodes -> [Writers -> Snapshots]]
    BY <2>1, CellTypes DEF Gone, TypeOK
  <2>4. arm' \in [Nodes -> BOOLEAN]
    BY <2>1 DEF Gone, TypeOK
  <2>5. /\ mode' \in [Nodes -> {"up", "stopping", "exiting", "down"}]
        /\ open' \in [Nodes -> [Windows -> Nat]]
        /\ slips' \subseteq Slips
    BY <2>1 DEF Gone, TypeOK, Slips
  <2>6. TypeOK'
    BY <2>1, <2>2, <2>3, <2>4, <2>5 DEF TypeOK
  <2>7. \A m \in Nodes : CellSane(m)'
    BY <2>1 DEF Gone, CellSane, TypeOK
  <2> QED
    BY <2>6, <2>7
<1>13. ASSUME NEW n \in Nodes, Boot(n) PROVE Typed'
  <2> DEFINE b == [Fresh(window) EXCEPT !.cur = store[window], !.flushed = store[window]]
  <2>1. b \in Cells /\ b.win # -1
    <3>1. window \in Windows /\ store[window] \in Nat /\ window # -1
      BY FlushBounds DEF TypeOK, Windows
    <3> QED
      BY <3>1 DEF Fresh, Cells
  <2>2. cell' = [cell EXCEPT ![n] = NoCell] \/ cell' = [cell EXCEPT ![n] = b]
    BY <1>13 DEF Boot
  <2> HIDE DEF b
  <2>3. cell' \in [Nodes -> Cells]
    BY <2>1, <2>2, CellTypes, Update DEF TypeOK
  <2>4. mode' \in [Nodes -> {"up", "stopping", "exiting", "down"}]
    BY <1>13 DEF Boot, TypeOK
  <2>5. arm' \in [Nodes -> BOOLEAN]
    BY <1>13 DEF Boot, TypeOK
  <2>6. TypeOK'
    BY <1>13, <2>3, <2>4, <2>5 DEF Boot, TypeOK
  <2>7. \A m \in Nodes : CellSane(m)'
    BY <2>1, <2>2 DEF CellSane, TypeOK
  <2> QED
    BY <2>6, <2>7
<1>14. CASE UNCHANGED vars
  BY <1>14 DEF vars, TypeOK, CellSane
<1>15. ASSUME NEW n \in Nodes, Drop(n) PROVE Typed'
  <2>1. cell' \in [Nodes -> Cells]
    BY <1>15, CellTypes, Update DEF Drop, TypeOK
  <2>2. flight' \in [Nodes -> [Writers -> Snapshots]]
    BY <1>15, StrayTypes, Update DEF Drop, TypeOK
  <2>3. slips' \subseteq Slips /\ drops' \in Nat
    <3>1. slips' \subseteq slips \cup {"dropped"} /\ drops' = drops + 1
      BY <1>15 DEF Drop
    <3>2. slips \subseteq Slips /\ "dropped" \in Slips /\ drops \in Nat
      BY DEF TypeOK, Slips
    <3> QED
      BY <3>1, <3>2
  <2>4. TypeOK'
    BY <1>15, <2>1, <2>2, <2>3 DEF Drop, TypeOK
  <2>5. \A m \in Nodes : CellSane(m)'
    BY <1>15 DEF Drop, CellSane, TypeOK
  <2> QED
    BY <2>4, <2>5
<1>16. ASSUME NEW n \in Nodes, DeleteRows(n) PROVE Typed'
  <2>1. slips' \subseteq Slips /\ drops' \in Nat
    <3>1. slips' = slips \cup {"deleted"} /\ drops' = drops + 1
      BY <1>16 DEF DeleteRows
    <3>2. slips \subseteq Slips /\ "deleted" \in Slips /\ drops \in Nat
      BY DEF TypeOK, Slips
    <3> QED
      BY <3>1, <3>2
  <2>2. store' \in [Windows -> Nat]
    BY <1>16 DEF DeleteRows
  <2>3. TypeOK' /\ \A m \in Nodes : CellSane(m)'
    BY <1>16, <2>1, <2>2 DEF DeleteRows, TypeOK, CellSane
  <2> QED
    BY <2>3
<1> QED
  BY <1>1, <1>2, <1>3, <1>4, <1>5, <1>6, <1>7, <1>8, <1>9, <1>10, <1>11, <1>12, <1>13, <1>14,
     <1>15, <1>16
     DEF Next

-----------------------------------------------------------------------------
(* The writers.                                                            *)

Busy(n, s) == flight[n][s].st # "idle"

\* A writer is busy only while its node lives, on the cell's window or an older
\* one, unless the cell it read has been dropped; run()'s own writer only at the
\* end.  While the node serves, what the flusher sends starts at the baseline of
\* the cell it came from.
FlightSane(n) ==
    /\ \A s \in Writers : Busy(n, s) =>
          mode[n] # "down" /\ (flight[n][s].stray \/ flight[n][s].win <= cell[n].win)
    /\ \A s \in Writers : flight[n][s].stray => Busy(n, s)
    /\ Busy(n, "main") => mode[n] = "exiting"
    /\ mode[n] = "down" => cell[n].win = -1
    /\ mode[n] = "up" /\ Busy(n, "gate") /\ ~flight[n]["gate"].stray
       /\ flight[n]["gate"].win = cell[n].win
         => flight[n]["gate"].cur - flight[n]["gate"].delta = cell[n].flushed

\* The steps of other nodes do not matter to FlightSane.
LEMMA FlightFrame ==
    ASSUME NEW m \in Nodes, FlightSane(m),
           mode'[m] = mode[m], cell'[m] = cell[m], flight'[m] = flight[m]
    PROVE  FlightSane(m)'
BY DEF FlightSane, Busy

LEMMA FlightStep ==
    ASSUME Typed, \A n \in Nodes : FlightSane(n), [Next]_vars, NEW m \in Nodes
    PROVE  FlightSane(m)'
<1> USE FlushBounds DEF Typed, Writers, Windows
<1>0. FlightSane(m) /\ cell[m] \in Cells /\ flight[m] \in [Writers -> Snapshots]
  BY DEF TypeOK
<1>1. CASE NextWindow
  BY <1>0, <1>1, FlightFrame DEF NextWindow
<1>2. ASSUME NEW n \in Nodes, NEW w \in Windows, Charge(n, w) \/ Accrue(n, w) PROVE FlightSane(m)'
  <2>1. /\ cell' = [cell EXCEPT ![n] = Counted(cell[n], w)] /\ cell \in [Nodes -> Cells]
        /\ mode' = mode /\ flight' = flight /\ mode[n] # "down"
    BY <1>2, CountShape DEF Charge, Accrue, TypeOK, Alive
  <2>2. CASE m # n
    BY <1>0, <2>1, <2>2, FlightFrame
  <2>3. CASE m = n
    <3> DEFINE c == Counted(cell[n], w)
    <3>1. /\ w <= cell[n].win => c.win = cell[n].win /\ c.flushed = cell[n].flushed
          /\ w > cell[n].win => c.win = w
      BY <1>0, <2>3, CountedCell
    <3>2. cell'[m] = c
      BY <2>1, <2>3
    <3> HIDE DEF c
    <3> QED
      BY <1>0, <2>1, <2>3, <3>1, <3>2 DEF FlightSane, Busy, Cells, Snapshots
  <2> QED
    BY <2>2, <2>3
<1>3. ASSUME NEW n \in Nodes, NEW w \in Windows, Refund(n, w) PROVE FlightSane(m)'
  <2>1. /\ mode' = mode /\ flight' = flight
        /\ cell'[m].win = cell[m].win /\ cell'[m].flushed = cell[m].flushed
    <3>1. mode' = mode /\ flight' = flight /\ cell \in [Nodes -> Cells] /\ cell[n] \in Cells
      BY <1>3 DEF Refund, TypeOK
    <3>2. CASE cell' = cell
      BY <3>1, <3>2
    <3>3. ASSUME NEW v \in Nat,
                 cell' = [cell EXCEPT ![n] = [cell[n] EXCEPT !.cur = v, !.dirty = TRUE]]
          PROVE  cell'[m].win = cell[m].win /\ cell'[m].flushed = cell[m].flushed
      <4>1. m # n => cell'[m] = cell[m]
        BY <3>1, <3>3
      <4>2. m = n => cell'[m] = [cell[n] EXCEPT !.cur = v, !.dirty = TRUE]
        BY <3>1, <3>3
      <4>3. /\ [cell[n] EXCEPT !.cur = v, !.dirty = TRUE].win = cell[n].win
            /\ [cell[n] EXCEPT !.cur = v, !.dirty = TRUE].flushed = cell[n].flushed
        BY <3>1, CellFields
      <4> QED
        BY <4>1, <4>2, <4>3
    <3> QED
      BY <1>3, <3>1, <3>2, <3>3, RefundShape
  <2> QED
    BY <1>0, <2>1 DEF FlightSane, Busy
<1>4. ASSUME NEW n \in Nodes, NEW s \in Writers, Snapshot(n, s),
             \/ s = "gate" /\ mode' = mode /\ mode[n] # "down" /\ flight[n]["gate"] = Idle
             \/ /\ s = "main" /\ mode[n] = "stopping"
                /\ mode' = [mode EXCEPT ![n] = "exiting"]
      PROVE FlightSane(m)'
  <2>1. /\ cell'[m].win = cell[m].win /\ cell'[m].flushed = cell[m].flushed
        /\ cell[m].win \in Int
    <3>1. cell \in [Nodes -> Cells] /\ cell[n] \in Cells
      BY DEF TypeOK
    <3>2. \/ cell' = cell
          \/ cell' = [cell EXCEPT ![n] = [cell[n] EXCEPT !.dirty = FALSE]]
      BY <1>4, SnapshotShape DEF Typed
    <3>3. m = n => cell'[m] = cell[m] \/ cell'[m] = [cell[n] EXCEPT !.dirty = FALSE]
      BY <3>1, <3>2
    <3>4. m # n => cell'[m] = cell[m]
      BY <3>1, <3>2
    <3>5. cell[m].win \in Int
      BY <1>0 DEF Cells
    <3>6. [cell[n] EXCEPT !.dirty = FALSE].win = cell[n].win
          /\ [cell[n] EXCEPT !.dirty = FALSE].flushed = cell[n].flushed
      BY <3>1, CellFields
    <3> QED
      BY <3>3, <3>4, <3>5, <3>6
  <2>2. CASE m # n
    <3>1. flight'[m] = flight[m] /\ mode'[m] = mode[m]
      BY <1>4, <2>2 DEF Snapshot, TypeOK
    <3> QED
      BY <1>0, <2>1, <3>1 DEF FlightSane, Busy
  <2>3. CASE m = n
    <3>1. \A r \in Writers : flight'[n][r] = flight[n][r] \/
             (r = s /\ flight'[n][r] = [st |-> "sent", win |-> cell[n].win,
                                       delta |-> cell[n].cur - cell[n].flushed, cur |-> cell[n].cur,
                                       stray |-> FALSE])
      <4> DEFINE f == [st |-> "sent", win |-> cell[n].win,
                       delta |-> cell[n].cur - cell[n].flushed, cur |-> cell[n].cur, stray |-> FALSE]
      <4>1. flight' = flight \/ flight' = [flight EXCEPT ![n][s] = f]
        BY <1>4 DEF Snapshot
      <4>2. flight \in [Nodes -> [Writers -> Snapshots]]
        BY DEF TypeOK
      <4> HIDE DEF f
      <4>3. \A r \in Writers : flight'[n][r] = flight[n][r] \/ (r = s /\ flight'[n][r] = f)
        BY <4>1, <4>2
      <4> QED
        BY <4>3 DEF f
    <3>2. mode'[n] = IF s = "gate" THEN mode[n] ELSE "exiting"
      BY <1>4 DEF TypeOK
    <3> QED
      BY <1>0, <1>4, <2>1, <2>3, <3>1, <3>2 DEF FlightSane, Busy, Cells, Snapshots
  <2> QED
    BY <2>2, <2>3
<1>5. ASSUME NEW n \in Nodes, Tick(n) \/ LastTick(n) PROVE FlightSane(m)'
  BY <1>4, <1>5 DEF Tick, LastTick, Alive
<1>6. ASSUME NEW n \in Nodes, FinalFlush(n) PROVE FlightSane(m)'
  BY <1>4, <1>6 DEF FinalFlush
<1>7. ASSUME NEW n \in Nodes, NEW s \in Writers, Land(n, s) PROVE FlightSane(m)'
  <2>1. cell' = cell /\ mode' = mode
    BY <1>7 DEF Land
  <2>2. \A r \in Writers : /\ Busy(m, r)' <=> Busy(m, r)
                           /\ flight'[m][r].win = flight[m][r].win
                           /\ flight'[m][r].cur = flight[m][r].cur
                           /\ flight'[m][r].delta = flight[m][r].delta
                           /\ flight'[m][r].stray = flight[m][r].stray
    BY <1>0, <1>7 DEF Land, TypeOK, Snapshots, Busy
  <2> QED
    BY <1>0, <2>1, <2>2 DEF FlightSane
<1>8. ASSUME NEW n \in Nodes, NEW s \in Writers, Ack(n, s) \/ Fail(n, s) PROVE FlightSane(m)'
  <2>1. /\ mode' = mode /\ flight' = [flight EXCEPT ![n][s] = Idle]
        /\ flight \in [Nodes -> [Writers -> Snapshots]]
    BY <1>8 DEF Ack, Fail, TypeOK
  <2>2. /\ cell'[m].win = cell[m].win
        /\ cell'[m].flushed = cell[m].flushed \/ (m = n /\ Busy(n, s))
    BY <1>0, <1>8, SMTT(20) DEF Ack, Fail, TypeOK, Cells, Busy
  <2>3. \A r \in Writers : flight'[m][r] = flight[m][r] \/ (m = n /\ r = s /\ ~Busy(m, r)')
    BY <2>1 DEF Busy, Idle
  <2>4. ~(mode[n] = "up" /\ Busy(n, "main"))
    BY DEF FlightSane
  <2>5. CASE m # n
    BY <1>0, <2>1, <2>2, <2>3, <2>5 DEF FlightSane, Busy
  <2>6. CASE m = n
    <3>1. /\ \A r \in Writers : Busy(m, r)' => Busy(m, r) /\ flight'[m][r] = flight[m][r]
          /\ ~Busy(m, s)' /\ ~flight'[m][s].stray
          /\ \A r \in Writers : r # s => flight'[m][r] = flight[m][r]
      BY <2>1, <2>3, <2>6 DEF Busy, Idle
    <3>2. mode[n] = "up" /\ Busy(m, "gate")' => cell'[m].flushed = cell[m].flushed
      BY <2>2, <2>4, <2>6, <3>1
    <3>3. mode[m] # "down" /\ cell'[m].win = cell[m].win /\ mode'[m] = mode[m]
      BY <1>0, <1>8, <2>1, <2>2, <2>6 DEF FlightSane, Busy, Ack, Fail, Snapshots
    <3>4. \A r \in Writers : Busy(m, r)' =>
             mode'[m] # "down" /\ (flight'[m][r].stray \/ flight'[m][r].win <= cell'[m].win)
      BY <1>0, <3>1, <3>3 DEF FlightSane
    <3>5. \A r \in Writers : flight'[m][r].stray => Busy(m, r)'
      <4> TAKE r \in Writers
      <4>1. CASE r = s
        BY <3>1, <4>1
      <4>2. CASE r # s
        <5>1. flight'[m][r] = flight[m][r]
          BY <3>1, <4>2
        <5> QED
          BY <1>0, <5>1 DEF FlightSane, Busy
      <4> QED
        BY <4>1, <4>2
    <3>6. Busy(m, "main")' => mode'[m] = "exiting"
      BY <1>0, <3>1, <3>3 DEF FlightSane
    <3>7. mode'[m] = "up" /\ Busy(m, "gate")' /\ ~flight'[m]["gate"].stray
          /\ flight'[m]["gate"].win = cell'[m].win
            => flight'[m]["gate"].cur - flight'[m]["gate"].delta = cell'[m].flushed
      BY <1>0, <2>6, <3>1, <3>2, <3>3 DEF FlightSane
    <3> QED
      BY <3>3, <3>4, <3>5, <3>6, <3>7 DEF FlightSane
  <2> QED
    BY <2>5, <2>6
<1>9. ASSUME NEW n \in Nodes, Stop(n) PROVE FlightSane(m)'
  <2>1. cell' = cell /\ flight' = flight /\ mode'[m] \in {mode[m], "stopping"}
        /\ (mode'[m] = mode[m] \/ mode[m] = "up")
    BY <1>9 DEF Stop, TypeOK
  <2> QED
    BY <1>0, <2>1 DEF FlightSane, Busy
<1>10. ASSUME NEW n \in Nodes, Exit(n) \/ Crash(n) PROVE FlightSane(m)'
  <2>1. Gone(n)
    BY <1>10 DEF Exit, Crash
  <2>2. CASE m # n
    BY <1>0, <2>1, <2>2, FlightFrame DEF Gone, TypeOK
  <2>3. CASE m = n
    <3>1. /\ mode'[m] = "down" /\ cell'[m] = NoCell
          /\ \A s \in Writers : ~Busy(m, s)' /\ ~flight'[m][s].stray
      BY <2>1, <2>3 DEF Gone, TypeOK, Idle, Busy
    <3> QED
      BY <3>1 DEF FlightSane, NoCell, Fresh
  <2> QED
    BY <2>2, <2>3
<1>11. ASSUME NEW n \in Nodes, Boot(n) PROVE FlightSane(m)'
  <2>1. flight' = flight /\ mode[n] = "down"
    BY <1>11 DEF Boot
  <2>2. CASE m # n
    BY <1>0, <1>11, <2>1, <2>2, FlightFrame DEF Boot, TypeOK
  <2>3. CASE m = n
    <3>1. /\ mode'[m] = "up"
          /\ \A s \in Writers : ~Busy(m, s) /\ ~Busy(m, s)' /\ ~flight'[m][s].stray
      BY <1>0, <1>11, <2>1, <2>3 DEF Boot, TypeOK, FlightSane, Busy
    <3> QED
      BY <3>1 DEF FlightSane
  <2> QED
    BY <2>2, <2>3
<1>12. CASE UNCHANGED vars
  BY <1>0, <1>12, FlightFrame DEF vars
<1>13. ASSUME NEW n \in Nodes, Drop(n) PROVE FlightSane(m)'
  <2>1. mode' = mode /\ mode[n] # "down"
    BY <1>13 DEF Drop
  <2>2. CASE m # n
    BY <1>0, <1>13, <2>1, <2>2, FlightFrame DEF Drop, TypeOK
  <2>3. CASE m = n
    <3>1. \A s \in Writers : /\ flight'[m][s] = [flight[m][s] EXCEPT !.stray = (flight[m][s].st # "idle")]
                             /\ flight[m][s] \in Snapshots
      BY <1>0, <1>13, <2>3 DEF Drop, TypeOK
    <3>2. ASSUME NEW s \in Writers
          PROVE  /\ Busy(m, s)' <=> Busy(m, s)
                 /\ flight'[m][s].stray <=> Busy(m, s)
      BY <3>1 DEF Snapshots, Busy
    <3> QED
      BY <1>0, <2>1, <2>3, <3>2 DEF FlightSane
  <2> QED
    BY <2>2, <2>3
<1>14. ASSUME NEW n \in Nodes, DeleteRows(n) PROVE FlightSane(m)'
  BY <1>0, <1>14, FlightFrame DEF DeleteRows
<1> QED
  BY <1>1, <1>2, <1>3, <1>5, <1>6, <1>7, <1>8, <1>9, <1>10, <1>11, <1>12, <1>13, <1>14 DEF Next

-----------------------------------------------------------------------------
(* The amounts of the ledger.                                              *)

\* Amounts are integers.
LEMMA Amounts ==
    ASSUME TypeOK, NEW n \in Nodes, NEW w \in Windows
    PROVE  /\ Sent(n, w) \in Int /\ Landed(n, w) \in Int
           /\ Owed(n, w) \in Int /\ Stray(n, w) \in Int
<1>1. \A s \in Writers : /\ \A st \in {"sent", "landed"} : InFlight(n, s, st, w) \in Int
                         /\ OfDropped(n, s, w) \in Int
  BY DEF InFlight, OfDropped, TypeOK, Snapshots
<1>2. Sent(n, w) \in Int /\ Landed(n, w) \in Int /\ Stray(n, w) \in Int
  BY <1>1 DEF Sent, Landed, Stray, Writers
<1>3. cell[n].cur \in Int /\ cell[n].flushed \in Int
  BY DEF TypeOK, Cells
<1> QED
  BY <1>2, <1>3 DEF Owed

\* The amounts of a node depend on its cell and its writers only.
LEMMA AmountFrame ==
    ASSUME NEW m \in Nodes, cell'[m] = cell[m], flight'[m] = flight[m], NEW v \in Windows
    PROVE  /\ Owed(m, v)' = Owed(m, v)
           /\ Sent(m, v)' = Sent(m, v) /\ Landed(m, v)' = Landed(m, v)
BY DEF Owed, Sent, Landed, InFlight, Stray, OfDropped

\* Writers that stand still.
LEMMA FlightFrameAmounts ==
    ASSUME NEW m \in Nodes, flight'[m] = flight[m], NEW v \in Windows
    PROVE  /\ Sent(m, v)' = Sent(m, v) /\ Landed(m, v)' = Landed(m, v)
           /\ Stray(m, v)' = Stray(m, v)
BY DEF Sent, Landed, InFlight, Stray, OfDropped

LEMMA LapsedFrame ==
    ASSUME flight' = flight
    PROVE  Lapsed' = Lapsed
BY DEF Lapsed

\* A charge or an accrual counts in the cell's window or opens a newer one.
LEMMA CountRefines ==
    ASSUME Typed, NEW n \in Nodes, FlightSane(n), NEW w \in Windows,
           Charge(n, w) \/ Accrue(n, w)
    PROVE  \E v \in Windows : Ledger!Count(n, v) \/ Ledger!Roll(n, v)
<1> USE DEF Typed
<1> DEFINE c == Counted(cell[n], w)
<1>1. /\ cell' = [cell EXCEPT ![n] = c] /\ cell \in [Nodes -> Cells] /\ cell[n] \in Cells
      /\ mode' = mode /\ flight' = flight /\ store' = store /\ mode[n] # "down"
  BY CountShape DEF Charge, Accrue, TypeOK, Alive
<1>2. \A m \in Nodes, v \in Windows :
         /\ Sent(m, v)' = Sent(m, v) /\ Landed(m, v)' = Landed(m, v)
         /\ Stray(m, v)' = Stray(m, v)
  BY <1>1, FlightFrameAmounts
<1>a. Lapsed' = Lapsed
  BY <1>1, LapsedFrame
<1>3. \A m \in Nodes, v \in Windows : m # n => Owed(m, v)' = Owed(m, v)
  BY <1>1, AmountFrame
<1>4. \A v \in Windows : /\ Sent(n, v) \in Int /\ Landed(n, v) \in Int
                         /\ Owed(n, v) \in Int /\ Stray(n, v) \in Int
  BY Amounts
<1>5. cell'[n] = c
  BY <1>1
<1>6. CASE w <= cell[n].win
  <2>1. c.win = cell[n].win /\ c.cur = cell[n].cur + 1 /\ c.flushed = cell[n].flushed
    BY <1>1, <1>6, CountedCell
  <2>2. cell[n].win \in Windows /\ cell[n].cur \in Int /\ cell[n].flushed \in Int
    BY <1>1, <1>6, FlushBounds DEF Cells, Windows
  <2> HIDE DEF c
  <2> PICK x \in Windows : x = cell[n].win
    BY <2>2
  <2>3. Owed(n, x)' = Owed(n, x) + 1
    BY <1>2, <1>4, <1>5, <2>1, <2>2 DEF Owed
  <2>4. \A v \in Windows : v # x => Owed(n, v)' = Owed(n, v)
    BY <1>5, <2>1 DEF Owed
  <2>5. Ledger!Count(n, x)
    BY <1>1, <1>2, <1>a, <1>3, <2>3, <2>4
       DEF Ledger!Count, Ledger!OnlyAt, Ledger!Windows, Windows, TypeOK
  <2> QED
    BY <2>5
<1>7. CASE w > cell[n].win
  <2>1. c.win = w /\ c.cur = 1 /\ c.flushed = 0
    BY <1>1, <1>7, CountedCell
  <2>2. Sent(n, w) + Landed(n, w) - Stray(n, w) = 0
    <3>1. ASSUME NEW s \in Writers
          PROVE  /\ InFlight(n, s, "sent", w) + InFlight(n, s, "landed", w) = OfDropped(n, s, w)
                 /\ InFlight(n, s, "sent", w) \in Int /\ InFlight(n, s, "landed", w) \in Int
      <4>1. flight[n][s] \in Snapshots /\ flight[n][s].delta \in Int /\ cell[n].win < w
        BY <1>1, <1>7 DEF TypeOK, Snapshots
      <4>2. Busy(n, s) /\ ~flight[n][s].stray => flight[n][s].win # w
        BY <1>1, <4>1, FlushBounds DEF FlightSane, Snapshots, Cells, Windows
      <4>3. flight[n][s].stray => Busy(n, s)
        BY DEF FlightSane
      <4> QED
        BY <4>1, <4>2, <4>3 DEF InFlight, OfDropped, Busy, Snapshots
    <3>2. "gate" \in Writers /\ "main" \in Writers
      BY DEF Writers
    <3> QED
      BY <3>1, <3>2 DEF Sent, Landed, Stray
  <2> HIDE DEF c
  <2>3. \A v \in Windows : Owed(n, v)' = IF v = w THEN 1 ELSE 0
    BY <1>2, <1>4, <1>5, <2>1, <2>2 DEF Owed
  <2>4. Ledger!Roll(n, w)
    BY <1>1, <1>2, <1>a, <1>3, <2>3
       DEF Ledger!Roll, Ledger!Windows, Windows, TypeOK
  <2> QED
    BY <2>4
<1> QED
  BY <1>1, <1>6, <1>7, FlushBounds DEF Cells, Windows

\* A step of the ledger or none.
LedgerStep == [Ledger!LNext]_(Ledger!lvars)

\* What one writer of n does to the amounts of n.
LEMMA WriterMoves ==
    ASSUME TypeOK, NEW n \in Nodes, NEW s \in Writers, NEW g \in Snapshots,
           flight' = [flight EXCEPT ![n][s] = g], NEW v \in Windows
    PROVE  /\ Sent(n, v)' = Sent(n, v) - InFlight(n, s, "sent", v)
                              + (IF g.st = "sent" /\ g.win = v THEN g.delta ELSE 0)
           /\ Landed(n, v)' = Landed(n, v) - InFlight(n, s, "landed", v)
                              + (IF g.st = "landed" /\ g.win = v THEN g.delta ELSE 0)
           /\ Stray(n, v)' = Stray(n, v) - OfDropped(n, s, v)
                              + (IF g.stray /\ g.win = v THEN g.delta ELSE 0)
<1>1. flight \in [Nodes -> [Writers -> Snapshots]]
  BY DEF TypeOK
<1>2. \A r \in Writers, st \in {"sent", "landed"} :
         /\ InFlight(n, r, st, v) \in Int
         /\ r # s => InFlight(n, r, st, v)' = InFlight(n, r, st, v)
         /\ InFlight(n, s, st, v)' = IF g.st = st /\ g.win = v THEN g.delta ELSE 0
  BY <1>1 DEF InFlight, Snapshots
<1>5. \A r \in Writers :
         /\ OfDropped(n, r, v) \in Int
         /\ r # s => OfDropped(n, r, v)' = OfDropped(n, r, v)
         /\ OfDropped(n, s, v)' = IF g.stray /\ g.win = v THEN g.delta ELSE 0
  BY <1>1 DEF OfDropped, Snapshots
<1>3. g.delta \in Int
  BY DEF Snapshots
<1>4. s = "gate" \/ s = "main"
  BY DEF Writers
<1> QED
  BY <1>2, <1>3, <1>4, <1>5 DEF Sent, Landed, Stray, Writers

\* Steps of n leave the amounts of the other nodes alone.
LEMMA OthersStand ==
    ASSUME TypeOK, NEW n \in Nodes,
           \A m \in Nodes : m # n => cell'[m] = cell[m] /\ flight'[m] = flight[m],
           NEW m \in Nodes, m # n, NEW v \in Windows
    PROVE  /\ Owed(m, v)' = Owed(m, v)
           /\ Sent(m, v)' = Sent(m, v) /\ Landed(m, v)' = Landed(m, v)
BY AmountFrame

\* A refund counts one less, or nothing.
LEMMA RefundRefines ==
    ASSUME Typed, NEW n \in Nodes, NEW w \in Windows, Refund(n, w)
    PROVE  LedgerStep
<1> USE DEF Typed
<1>1. /\ flight' = flight /\ mode' = mode /\ store' = store
      /\ mode[n] # "down" /\ cell \in [Nodes -> Cells] /\ cell[n] \in Cells
  BY DEF Refund, Alive, TypeOK
<1>2. \A m \in Nodes, v \in Windows :
         /\ Sent(m, v)' = Sent(m, v) /\ Landed(m, v)' = Landed(m, v)
         /\ Stray(m, v)' = Stray(m, v)
  BY <1>1, FlightFrameAmounts
<1>a. Lapsed' = Lapsed
  BY <1>1, LapsedFrame
<1>3. CASE cell' = cell
  <2>1. \A m \in Nodes, v \in Windows : Owed(m, v)' = Owed(m, v)
    BY <1>1, <1>3, AmountFrame
  <2> QED
    BY <1>1, <1>2, <1>a, <2>1 DEF LedgerStep, Ledger!lvars
<1>4. ASSUME NEW u \in Nat, cell[n].win = w, u = cell[n].cur \/ u = cell[n].cur - 1,
             cell' = [cell EXCEPT ![n] = [cell[n] EXCEPT !.cur = u, !.dirty = TRUE]]
      PROVE  LedgerStep
  <2>1. cell'[n].win = w /\ cell'[n].flushed = cell[n].flushed /\ cell'[n].cur = u
    BY <1>1, <1>4, CellFields
  <2>2. \A m \in Nodes, v \in Windows : m # n => Owed(m, v)' = Owed(m, v)
    BY <1>1, <1>4, AmountFrame
  <2>3. \A v \in Windows : v # w => Owed(n, v)' = Owed(n, v)
    BY <1>4, <2>1 DEF Owed
  <2>4. Owed(n, w) \in Int /\ Sent(n, w) \in Int /\ Landed(n, w) \in Int /\ Stray(n, w) \in Int
        /\ cell[n].cur \in Int /\ cell[n].flushed \in Int
    BY <1>1, Amounts DEF Cells
  <2>5. Owed(n, w)' = Owed(n, w) \/ Owed(n, w)' = Owed(n, w) - 1
    BY <1>2, <1>4, <2>1, <2>4 DEF Owed
  <2>6. CASE Owed(n, w)' = Owed(n, w)
    <3>1. \A m \in Nodes, v \in Windows : Owed(m, v)' = Owed(m, v)
      BY <2>2, <2>3, <2>6
    <3> QED
      BY <1>1, <1>2, <1>a, <3>1 DEF LedgerStep, Ledger!lvars
  <2>7. CASE Owed(n, w)' = Owed(n, w) - 1
    <3>1. Ledger!Count(n, w)
      BY <1>1, <1>2, <1>a, <2>2, <2>3, <2>7
         DEF Ledger!Count, Ledger!OnlyAt, Ledger!Windows, Windows, TypeOK
    <3> QED
      BY <3>1 DEF LedgerStep, Ledger!LNext, Ledger!Windows, Windows
  <2> QED
    BY <2>5, <2>6, <2>7
<1> QED
  BY <1>3, <1>4, RefundShape

\* The mode that the ledger sees.
Up(n) == IF mode[n] = "exiting" THEN "stopping" ELSE mode[n]

\* A snapshot sends all that is owed, except perhaps at the end.
LEMMA SnapshotRefines ==
    ASSUME Typed, NEW n \in Nodes, FlightSane(n), NEW s \in Writers, Snapshot(n, s),
           ~Busy(n, s), mode[n] # "down", mode[n] = "up" => s = "gate", store' = store,
           \A m \in Nodes : Up(m)' = Up(m)
    PROVE  LedgerStep
<1> USE DEF Typed
<1> DEFINE c == cell[n]
           d == c.cur - c.flushed
           g == [st |-> "sent", win |-> c.win, delta |-> d, cur |-> c.cur, stray |-> FALSE]
<1>1. cell \in [Nodes -> Cells] /\ c \in Cells /\ flight \in [Nodes -> [Writers -> Snapshots]]
  BY DEF TypeOK
<1>2. \A m \in Nodes : m # n => cell'[m] = cell[m]
  BY <1>1, SnapshotShape
<1>3. cell'[n].win = c.win /\ cell'[n].cur = c.cur /\ cell'[n].flushed = c.flushed
  <2>1. cell'[n] = c \/ cell'[n] = [c EXCEPT !.dirty = FALSE]
    BY <1>1, SnapshotShape
  <2> HIDE DEF c
  <2> QED
    BY <1>1, <2>1, CellFields
<1>4. CASE flight' = flight
  <2>1. \A m \in Nodes, v \in Windows :
           /\ Sent(m, v)' = Sent(m, v) /\ Landed(m, v)' = Landed(m, v)
           /\ Stray(m, v)' = Stray(m, v)
    BY <1>4, FlightFrameAmounts
  <2>a. Lapsed' = Lapsed
    BY <1>4, LapsedFrame
  <2>2. \A m \in Nodes, v \in Windows : m # n => Owed(m, v)' = Owed(m, v)
    BY <1>2, <1>4, AmountFrame
  <2>3. \A v \in Windows : Owed(n, v)' = Owed(n, v)
    BY <1>3, <2>1 DEF Owed
  <2>4. \A m \in Nodes, v \in Windows : Owed(m, v)' = Owed(m, v)
    BY <2>2, <2>3
  <2> QED
    BY <2>1, <2>a, <2>4 DEF LedgerStep, Ledger!lvars, Up
<1>5. CASE flight' # flight
  <2>1. c.dirty /\ flight' = [flight EXCEPT ![n][s] = g]
    BY <1>5 DEF Snapshot
  <2>2. c.win \in Windows
    <3>1. c # NoCell
      BY <2>1 DEF NoCell, Fresh
    <3> QED
      BY <1>1, <3>1 DEF CellSane, Cells
  <2>3. g \in Snapshots /\ d \in Int
    BY <1>1, <2>2 DEF Snapshots, Cells
  <2> PICK x \in Windows : x = c.win
    BY <2>2
  <2> PICK e \in Int : e = d
    BY <2>3
  <2> PICK h \in Snapshots : h = g
    BY <2>3
  <2>4. /\ h.st = "sent" /\ h.win = x /\ h.delta = e /\ ~h.stray
        /\ flight' = [flight EXCEPT ![n][s] = h]
    BY <2>1
  <2>5. \A v \in Windows : /\ InFlight(n, s, "sent", v) = 0 /\ InFlight(n, s, "landed", v) = 0
                           /\ OfDropped(n, s, v) = 0
    BY DEF InFlight, OfDropped, Busy, FlightSane
  <2>6. \A v \in Windows : /\ Sent(n, v) \in Int /\ Landed(n, v) \in Int
                           /\ Owed(n, v) \in Int /\ Stray(n, v) \in Int
    BY Amounts
  <2> HIDE DEF g
  <2>w. \A v \in Windows :
          /\ Sent(n, v)' = Sent(n, v) + (IF v = x THEN e ELSE 0)
          /\ Landed(n, v)' = Landed(n, v)
          /\ Stray(n, v)' = Stray(n, v)
    <3> SUFFICES ASSUME NEW v \in Windows
                 PROVE  /\ Sent(n, v)' = Sent(n, v) + (IF v = x THEN e ELSE 0)
                        /\ Landed(n, v)' = Landed(n, v)
                        /\ Stray(n, v)' = Stray(n, v)
      OBVIOUS
    <3>1. /\ Sent(n, v)' = Sent(n, v) - InFlight(n, s, "sent", v)
                              + (IF h.st = "sent" /\ h.win = v THEN h.delta ELSE 0)
          /\ Landed(n, v)' = Landed(n, v) - InFlight(n, s, "landed", v)
                              + (IF h.st = "landed" /\ h.win = v THEN h.delta ELSE 0)
          /\ Stray(n, v)' = Stray(n, v) - OfDropped(n, s, v)
                              + (IF h.stray /\ h.win = v THEN h.delta ELSE 0)
      <4>1. TypeOK /\ flight' = [flight EXCEPT ![n][s] = h]
        BY <2>4
      <4> HIDE DEF Typed, c, d
      <4> QED
        BY ONLY <4>1, n \in Nodes, s \in Writers, h \in Snapshots, v \in Windows, WriterMoves
    <3> QED
      BY <2>4, <2>5, <2>6, <3>1
  <2>7. \A v \in Windows : /\ Landed(n, v)' = Landed(n, v) /\ Stray(n, v)' = Stray(n, v)
                           /\ v # x => Sent(n, v)' = Sent(n, v)
    BY <2>w, <2>6
  <2>a. Lapsed' = Lapsed
    <3>1. ~flight[n][s].stray
      BY DEF FlightSane
    <3>2. \A m \in Nodes, q \in Writers : flight'[m][q].stray <=> flight[m][q].stray
      BY <1>1, <2>4, <3>1
    <3> QED
      BY <3>2 DEF Lapsed
  <2>8. Sent(n, x)' = Sent(n, x) + e
    BY <2>w, <2>6
  <2>9. \A v \in Windows : v # x => Owed(n, v)' = Owed(n, v)
    BY <1>3 DEF Owed
  <2>10. Owed(n, x)' = Owed(n, x) - e
    BY <1>3, <2>3, <2>6, <2>7, <2>8 DEF Owed
  <2>11. Owed(n, x)' = 0 \/ Up(n) = "stopping"
    <3>1. CASE mode[n] # "up"
      BY <3>1 DEF TypeOK, Up
    <3>2. CASE mode[n] = "up"
      <4>1. \A r \in Writers : ~Busy(n, r) \/ r = "gate"
        BY <3>2 DEF FlightSane, Writers
      <4>2. s = "gate"
        BY <3>2
      <4>3. Sent(n, x) = 0 /\ Landed(n, x) = 0 /\ Stray(n, x) = 0
        BY <4>1, <4>2 DEF Sent, Landed, InFlight, Stray, OfDropped, Busy, Writers, FlightSane
      <4> QED
        BY <1>3, <2>3, <2>7, <2>8, <4>3 DEF Owed
    <3> QED
      BY <3>1, <3>2
  <2>12. \A m \in Nodes, v \in Windows : m # n =>
            /\ Owed(m, v)' = Owed(m, v)
            /\ Sent(m, v)' = Sent(m, v) /\ Landed(m, v)' = Landed(m, v)
    BY <1>1, <1>2, <2>1, OthersStand
  <2>13. \A m \in Nodes, v \in Windows : Landed(m, v)' = Landed(m, v)
    BY <2>7, <2>12
  <2>14. Ledger!Send(n, x)
    BY <2>6, <2>7, <2>8, <2>9, <2>10, <2>11, <2>12, <2>13, <2>a
       DEF Ledger!Send, Ledger!OnlyAt, Ledger!Windows, Windows, Up
  <2> QED
    BY <2>14 DEF LedgerStep, Ledger!LNext, Ledger!Windows, Windows
<1> QED
  BY <1>4, <1>5

\* The amounts of n after writer s replaces the snapshot f by g.
LEMMA WriterSwaps ==
    ASSUME TypeOK, NEW n \in Nodes, NEW s \in Writers, NEW g \in Snapshots,
           flight' = [flight EXCEPT ![n][s] = g], NEW x \in Windows, NEW e \in Int,
           flight[n][s].win = x, flight[n][s].delta = e, g.st = "idle" \/ g.win = x,
           g.st = "idle" \/ g.delta = e, g.stray => g.st # "idle"
    PROVE  /\ \A v \in Windows : v # x => Sent(n, v)' = Sent(n, v) /\ Landed(n, v)' = Landed(n, v)
           /\ Sent(n, x)' = Sent(n, x) - (IF flight[n][s].st = "sent" THEN e ELSE 0)
                              + (IF g.st = "sent" THEN e ELSE 0)
           /\ Landed(n, x)' = Landed(n, x) - (IF flight[n][s].st = "landed" THEN e ELSE 0)
                              + (IF g.st = "landed" THEN e ELSE 0)
           /\ \A v \in Windows : v # x => Stray(n, v)' = Stray(n, v)
           /\ Stray(n, x)' = Stray(n, x) - (IF flight[n][s].stray THEN e ELSE 0)
                              + (IF g.stray THEN e ELSE 0)
<1>1. \A v \in Windows : Sent(n, v) \in Int /\ Landed(n, v) \in Int /\ Stray(n, v) \in Int
  BY Amounts
<1>2. \A v \in Windows :
        /\ Sent(n, v)' = Sent(n, v) - InFlight(n, s, "sent", v)
                              + (IF g.st = "sent" /\ g.win = v THEN g.delta ELSE 0)
        /\ Landed(n, v)' = Landed(n, v) - InFlight(n, s, "landed", v)
                              + (IF g.st = "landed" /\ g.win = v THEN g.delta ELSE 0)
        /\ Stray(n, v)' = Stray(n, v) - OfDropped(n, s, v)
                              + (IF g.stray /\ g.win = v THEN g.delta ELSE 0)
  BY WriterMoves
<1>3. \A v \in Windows :
        /\ \A st \in {"sent", "landed"} :
              InFlight(n, s, st, v) = IF flight[n][s].st = st /\ v = x THEN e ELSE 0
        /\ OfDropped(n, s, v) = IF flight[n][s].stray /\ v = x THEN e ELSE 0
  BY DEF InFlight, OfDropped
<1> QED
  BY <1>1, <1>2, <1>3

\* The store's write.
LEMMA LandRefines ==
    ASSUME Typed, NEW n \in Nodes, FlightSane(n), NEW s \in Writers, Land(n, s)
    PROVE  LedgerStep
<1> USE DEF Typed
<1>1. /\ flight \in [Nodes -> [Writers -> Snapshots]] /\ store \in [Windows -> Nat]
      /\ flight[n][s] \in Snapshots /\ flight[n][s].st = "sent"
      /\ cell' = cell /\ mode' = mode
  BY DEF TypeOK, Land
<1>2. mode[n] # "down"
  BY <1>1 DEF FlightSane, Busy
<1> PICK x \in Windows : x = flight[n][s].win
  BY <1>1 DEF Snapshots
<1> PICK e \in Int : e = flight[n][s].delta
  BY <1>1 DEF Snapshots
<1>3. [flight[n][s] EXCEPT !.st = "landed"] \in Snapshots
  BY <1>1 DEF Snapshots
<1> PICK h \in Snapshots : h = [flight[n][s] EXCEPT !.st = "landed"]
  BY <1>3
<1>4. h.st = "landed" /\ h.win = x /\ h.delta = e /\ h.stray = flight[n][s].stray
  BY <1>1 DEF Snapshots
<1>5. flight' = [flight EXCEPT ![n][s] = h]
  BY <1>1 DEF Land
<1>6. \A v \in Windows : /\ Sent(n, v) \in Int /\ Landed(n, v) \in Int
                         /\ Owed(n, v) \in Int /\ Stray(n, v) \in Int
  BY Amounts
<1>a. Lapsed' = Lapsed
  <2>1. \A m \in Nodes, q \in Writers : flight'[m][q].stray = flight[m][q].stray
    BY <1>1, <1>4, <1>5
  <2> QED
    BY <2>1 DEF Lapsed
<1>7. /\ \A v \in Windows : v # x => Sent(n, v)' = Sent(n, v) /\ Landed(n, v)' = Landed(n, v)
      /\ Sent(n, x)' = Sent(n, x) - e
      /\ Landed(n, x)' = Landed(n, x) + e
      /\ \A v \in Windows : Stray(n, v)' = Stray(n, v)
  <2>1. \A v \in Windows :
           /\ Sent(n, v)' = Sent(n, v) - InFlight(n, s, "sent", v)
                              + (IF h.st = "sent" /\ h.win = v THEN h.delta ELSE 0)
           /\ Landed(n, v)' = Landed(n, v) - InFlight(n, s, "landed", v)
                              + (IF h.st = "landed" /\ h.win = v THEN h.delta ELSE 0)
           /\ Stray(n, v)' = Stray(n, v) - OfDropped(n, s, v)
                              + (IF h.stray /\ h.win = v THEN h.delta ELSE 0)
    <3>1. TypeOK
      OBVIOUS
    <3> HIDE DEF Typed
    <3> QED
      BY ONLY <1>5, <3>1, n \in Nodes, s \in Writers, h \in Snapshots, WriterMoves
  <2>2. \A v \in Windows :
          /\ InFlight(n, s, "sent", v) = (IF v = x THEN e ELSE 0)
          /\ InFlight(n, s, "landed", v) = 0
          /\ OfDropped(n, s, v) = (IF h.stray /\ h.win = v THEN h.delta ELSE 0)
    BY <1>1, <1>4 DEF InFlight, OfDropped
  <2> QED
    BY <1>4, <1>6, <2>1, <2>2
<1>8. \A v \in Windows : Owed(n, v)' = Owed(n, v)
  <2>1. cell[n].cur \in Int /\ cell[n].flushed \in Int
    BY DEF TypeOK, Cells
  <2> QED
    BY <1>1, <1>6, <1>7, <2>1 DEF Owed
<1>9. \A m \in Nodes, v \in Windows : m # n =>
        /\ Owed(m, v)' = Owed(m, v)
        /\ Sent(m, v)' = Sent(m, v) /\ Landed(m, v)' = Landed(m, v)
  BY <1>1, <1>5, OthersStand
<1>10. store' = [store EXCEPT ![x] = IF store[x] + e > 0 THEN store[x] + e ELSE 0]
  BY <1>1 DEF Land
<1>11. store[x] + (Sent(n, x) - Sent(n, x)') = store[x] + e /\ store[x] \in Int
  BY <1>1, <1>6, <1>7
<1>12. \A m \in Nodes, v \in Windows : Owed(m, v)' = Owed(m, v)
  BY <1>8, <1>9
<1>13. Sent(n, x)' + Landed(n, x)' = Sent(n, x) + Landed(n, x)
  BY <1>6, <1>7
<1>14. Ledger!Write(n, x)
  BY <1>1, <1>2, <1>a, <1>7, <1>9, <1>10, <1>11, <1>12, <1>13
     DEF Ledger!Write, Ledger!OnlyAt, Ledger!Windows, Windows, TypeOK
<1> QED
  BY <1>14 DEF LedgerStep, Ledger!LNext, Ledger!Windows, Windows

\* What the answer of the store does to the amounts of n: the writer is idle.
LEMMA AnswerMoves ==
    ASSUME TypeOK, NEW n \in Nodes, NEW s \in Writers,
           flight' = [flight EXCEPT ![n][s] = Idle], NEW x \in Windows, NEW e \in Int,
           flight[n][s].win = x, flight[n][s].delta = e
    PROVE  /\ \A v \in Windows : v # x => Sent(n, v)' = Sent(n, v) /\ Landed(n, v)' = Landed(n, v)
           /\ flight[n][s].st = "sent" => Sent(n, x)' = Sent(n, x) - e /\ Landed(n, x)' = Landed(n, x)
           /\ flight[n][s].st = "landed" => Sent(n, x)' = Sent(n, x) /\ Landed(n, x)' = Landed(n, x) - e
           /\ \A v \in Windows : v # x => Stray(n, v)' = Stray(n, v)
           /\ Stray(n, x)' = Stray(n, x) - (IF flight[n][s].stray THEN e ELSE 0)
<1> PICK h \in Snapshots : h = Idle /\ h.st = "idle" /\ ~h.stray
  BY CellTypes DEF Idle
<1>1. /\ flight' = [flight EXCEPT ![n][s] = h] /\ h.st = "idle" /\ ~h.stray
      /\ h \in Snapshots /\ n \in Nodes /\ s \in Writers /\ x \in Windows /\ e \in Int
      /\ TypeOK /\ flight[n][s].win = x /\ flight[n][s].delta = e
  OBVIOUS
<1>2. /\ \A v \in Windows : v # x => Sent(n, v)' = Sent(n, v) /\ Landed(n, v)' = Landed(n, v)
      /\ Sent(n, x)' = Sent(n, x) - (IF flight[n][s].st = "sent" THEN e ELSE 0)
                         + (IF h.st = "sent" THEN e ELSE 0)
      /\ Landed(n, x)' = Landed(n, x) - (IF flight[n][s].st = "landed" THEN e ELSE 0)
                         + (IF h.st = "landed" THEN e ELSE 0)
      /\ \A v \in Windows : v # x => Stray(n, v)' = Stray(n, v)
      /\ Stray(n, x)' = Stray(n, x) - (IF flight[n][s].stray THEN e ELSE 0)
                         + (IF h.stray THEN e ELSE 0)
  BY ONLY <1>1, WriterSwaps, ZenonT(40)
<1>3. Sent(n, x) \in Int /\ Landed(n, x) \in Int /\ Stray(n, x) \in Int
  BY Amounts
<1> QED
  BY <1>1, <1>2, <1>3

\* The cell after the store's answer.
LEMMA AnswerShape ==
    ASSUME Typed, NEW n \in Nodes, NEW s \in Writers, Ack(n, s) \/ Fail(n, s)
    PROVE  /\ \A m \in Nodes : m # n => cell'[m] = cell[m]
           /\ cell'[n].win = cell[n].win /\ cell'[n].cur = cell[n].cur
           /\ cell[n].win # flight[n][s].win => cell'[n] = cell[n]
           /\ Fail(n, s) => cell'[n].flushed = cell[n].flushed
           /\ Ack(n, s) /\ cell[n].win = flight[n][s].win => cell'[n].flushed = flight[n][s].cur
<1> USE DEF Typed
<1>1. cell \in [Nodes -> Cells] /\ cell[n] \in Cells /\ flight[n][s].cur \in Nat
  BY DEF TypeOK, Snapshots
<1>2. CASE Ack(n, s)
  <2>1. /\ cell' = cell \/ cell' = [cell EXCEPT ![n] = [cell[n] EXCEPT !.flushed = flight[n][s].cur]]
        /\ cell[n].win # flight[n][s].win => cell' = cell
        /\ cell[n].win = flight[n][s].win
             => cell' = [cell EXCEPT ![n] = [cell[n] EXCEPT !.flushed = flight[n][s].cur]]
    BY <1>1, <1>2 DEF Ack
  <2>2. ~Fail(n, s)
    BY <1>2 DEF Ack, Fail, TypeOK
  <2>3. cell[n].win # flight[n][s].win => cell'[n] = cell[n]
    BY <2>1
  <2>4. cell[n].win = flight[n][s].win
          => cell'[n] = [cell[n] EXCEPT !.flushed = flight[n][s].cur]
    BY <1>1, <2>1
  <2>5. \A m \in Nodes : m # n => cell'[m] = cell[m]
    BY <1>1, <2>1
  <2>6. ASSUME NEW k \in Cells, NEW v \in Nat
        PROVE  LET k2 == [k EXCEPT !.flushed = v] IN
               k2.win = k.win /\ k2.cur = k.cur /\ k2.flushed = v
    BY DEF Cells
  <2>7. LET k2 == [cell[n] EXCEPT !.flushed = flight[n][s].cur] IN
        k2.win = cell[n].win /\ k2.cur = cell[n].cur /\ k2.flushed = flight[n][s].cur
    BY <1>1, <2>6
  <2> QED
    BY <2>2, <2>3, <2>4, <2>5, <2>7
<1>3. CASE Fail(n, s) /\ ~Ack(n, s)
  <2>1. /\ cell' = cell \/ cell' = [cell EXCEPT ![n] = [cell[n] EXCEPT !.dirty = TRUE]]
        /\ cell[n].win # flight[n][s].win => cell' = cell
    BY <1>1, <1>3 DEF Fail
  <2>2. cell'[n] = cell[n] \/ cell'[n] = [cell[n] EXCEPT !.dirty = TRUE]
    BY <1>1, <2>1
  <2>3. \A m \in Nodes : m # n => cell'[m] = cell[m]
    BY <1>1, <2>1
  <2> QED
    BY <1>1, <1>3, <2>1, <2>2, <2>3, CellFields, ZenonT(40)
<1> QED
  BY <1>2, <1>3

\* The answer: confirmed, refused, or an error after the write.
LEMMA AnswerRefines ==
    ASSUME Typed, NEW n \in Nodes, FlightSane(n), NEW s \in Writers, Ack(n, s) \/ Fail(n, s)
    PROVE  LedgerStep
<1> USE DEF Typed
<1>1. /\ flight[n][s] \in Snapshots /\ flight[n][s].st \in {"sent", "landed"}
      /\ flight' = [flight EXCEPT ![n][s] = Idle] /\ flight \in [Nodes -> [Writers -> Snapshots]]
      /\ mode' = mode /\ store' = store
      /\ Ack(n, s) => flight[n][s].st = "landed"
  BY DEF TypeOK, Ack, Fail, Snapshots
<1>2. mode[n] # "down"
  BY <1>1 DEF FlightSane, Busy
<1> PICK x \in Windows : x = flight[n][s].win
  BY <1>1 DEF Snapshots
<1> PICK e \in Int : e = flight[n][s].delta
  BY <1>1 DEF Snapshots
<1>3. \A v \in Windows : /\ Sent(n, v) \in Int /\ Landed(n, v) \in Int
                         /\ Owed(n, v) \in Int /\ Stray(n, v) \in Int
  BY Amounts
<1>4. /\ \A v \in Windows : v # x => Sent(n, v)' = Sent(n, v) /\ Landed(n, v)' = Landed(n, v)
      /\ flight[n][s].st = "sent" => Sent(n, x)' = Sent(n, x) - e /\ Landed(n, x)' = Landed(n, x)
      /\ flight[n][s].st = "landed" => Sent(n, x)' = Sent(n, x) /\ Landed(n, x)' = Landed(n, x) - e
      /\ \A v \in Windows : v # x => Stray(n, v)' = Stray(n, v)
      /\ Stray(n, x)' = Stray(n, x) - (IF flight[n][s].stray THEN e ELSE 0)
  <2>1. /\ TypeOK /\ flight[n][s].win = x /\ flight[n][s].delta = e
        /\ n \in Nodes /\ s \in Writers /\ x \in Windows /\ e \in Int
    OBVIOUS
  <2> QED
    BY ONLY <1>1, <2>1, AnswerMoves
<1>5. /\ \A m \in Nodes : m # n => cell'[m] = cell[m]
      /\ cell'[n].win = cell[n].win /\ cell'[n].cur = cell[n].cur
      /\ cell[n].win # x => cell'[n].flushed = cell[n].flushed
      /\ Fail(n, s) => cell'[n].flushed = cell[n].flushed
      /\ Ack(n, s) /\ cell[n].win = x => cell'[n].flushed = flight[n][s].cur
  BY AnswerShape
<1>6. cell[n].cur \in Int /\ cell[n].flushed \in Int /\ flight[n][s].cur \in Int
  BY <1>1 DEF TypeOK, Cells, Snapshots
<1>7. \A m \in Nodes, v \in Windows : m # n =>
        /\ Owed(m, v)' = Owed(m, v)
        /\ Sent(m, v)' = Sent(m, v) /\ Landed(m, v)' = Landed(m, v)
  BY <1>1, <1>5, OthersStand
<1>a. Lapsed' \in {Lapsed, Lapsed \ {n}} /\ (flight[n][s].stray => n \in Lapsed)
  <2>1. \A m \in Nodes, q \in Writers : m # n \/ q # s => flight'[m][q] = flight[m][q]
    BY <1>1
  <2>2. ~flight'[n][s].stray
    BY <1>1 DEF Idle
  <2> QED
    BY <2>1, <2>2 DEF Lapsed
<1>8. \A v \in Windows : v # x => Owed(n, v)' = Owed(n, v)
  <2>1. ASSUME NEW v \in Windows, v # x PROVE Owed(n, v)' = Owed(n, v)
    <3>1. CASE cell[n].win = v
      BY <1>4, <1>5, <2>1, <3>1 DEF Owed
    <3>2. CASE cell[n].win # v
      BY <1>5, <3>2 DEF Owed
    <3> QED
      BY <3>1, <3>2
  <2> QED
    BY <2>1
<1>9. CASE Fail(n, s)
  <2>1. Owed(n, x)' \in {Owed(n, x), Owed(n, x) + e}
    <3>1. CASE cell[n].win = x
      BY <1>1, <1>3, <1>4, <1>5, <1>6, <1>9, <3>1 DEF Owed
    <3>2. CASE cell[n].win # x
      BY <1>5, <3>2 DEF Owed
    <3> QED
      BY <3>1, <3>2
  <2>2. CASE flight[n][s].st = "sent"
    <3>1. \A m \in Nodes, v \in Windows : Landed(m, v)' = Landed(m, v)
      BY <1>4, <1>7, <2>2
    <3>2. e = Sent(n, x) - Sent(n, x)'
      BY <1>3, <1>4, <2>2
    <3>3. Ledger!Refuse(n, x)
      BY <1>1, <1>2, <1>4, <1>7, <1>a, <1>8, <2>1, <3>1, <3>2
         DEF Ledger!Refuse, Ledger!Settled, Ledger!OnlyAt, Ledger!Windows, Windows, TypeOK
    <3> QED
      BY <3>3 DEF LedgerStep, Ledger!LNext, Ledger!Windows, Windows
  <2>3. CASE flight[n][s].st = "landed"
    <3>1. \A m \in Nodes, v \in Windows : Sent(m, v)' = Sent(m, v)
      BY <1>4, <1>7, <2>3
    <3>2. e = Landed(n, x) - Landed(n, x)'
      BY <1>3, <1>4, <2>3
    <3>3. Ledger!Repeat(n, x)
      BY <1>1, <1>2, <1>4, <1>7, <1>a, <1>8, <2>1, <3>1, <3>2
         DEF Ledger!Repeat, Ledger!Settled, Ledger!OnlyAt, Ledger!Windows, Windows, TypeOK
    <3> QED
      BY <3>3 DEF LedgerStep, Ledger!LNext, Ledger!Windows, Windows
  <2> QED
    BY <1>1, <2>2, <2>3
<1>10. CASE Ack(n, s)
  <2>1. \A m \in Nodes, v \in Windows : Sent(m, v)' = Sent(m, v)
    BY <1>1, <1>4, <1>7, <1>10
  <2>2. mode[n] = "up" /\ ~flight[n][s].stray => Owed(n, x)' = Owed(n, x)
    <3>1. CASE cell[n].win # x
      BY <1>5, <3>1 DEF Owed
    <3>2. CASE cell[n].win = x
      <4>1. mode[n] = "up" /\ ~flight[n][s].stray => flight[n][s].cur - e = cell[n].flushed
        BY <1>1, <3>2 DEF FlightSane, Busy, Writers
      <4> QED
        BY <1>1, <1>3, <1>4, <1>5, <1>6, <1>10, <3>2, <4>1 DEF Owed
    <3> QED
      BY <3>1, <3>2
  <2>3. Owed(n, x)' = Owed(n, x) \/ Up(n) = "stopping" \/ n \in Lapsed
    BY <1>2, <1>a, <2>2 DEF Up, TypeOK
  <2>4. Ledger!Confirm(n, x)
    BY <1>1, <1>2, <1>4, <1>7, <1>a, <1>8, <2>1, <2>3
       DEF Ledger!Confirm, Ledger!Settled, Ledger!OnlyAt, Ledger!Windows, Windows, TypeOK, Up
  <2> QED
    BY <2>4 DEF LedgerStep, Ledger!LNext, Ledger!Windows, Windows
<1> QED
  BY <1>9, <1>10

\* Stopping changes the mode only.
LEMMA StopRefines ==
    ASSUME Typed, NEW n \in Nodes, Stop(n)
    PROVE  LedgerStep
<1> USE DEF Typed
<1>1. /\ mode' = [mode EXCEPT ![n] = "stopping"] /\ mode[n] = "up" /\ store' = store
      /\ cell' = cell /\ flight' = flight
  BY DEF Stop
<1>2. \A m \in Nodes, v \in Windows :
        /\ Owed(m, v)' = Owed(m, v)
        /\ Sent(m, v)' = Sent(m, v) /\ Landed(m, v)' = Landed(m, v)
  BY <1>1, AmountFrame
<1>a. Lapsed' = Lapsed
  BY <1>1, LapsedFrame
<1>3. Ledger!Stop(n)
  BY <1>1, <1>2, <1>a DEF Ledger!Stop, TypeOK
<1> QED
  BY <1>3 DEF LedgerStep, Ledger!LNext

\* A process that is gone owes nothing and has nothing in flight.
LEMMA GoneRefines ==
    ASSUME Typed, NEW n \in Nodes, Gone(n), mode[n] # "down", store' = store
    PROVE  LedgerStep
<1> USE DEF Typed
<1>1. /\ \A m \in Nodes : m # n => cell'[m] = cell[m] /\ flight'[m] = flight[m]
      /\ cell'[n] = NoCell
      /\ \A s \in Writers : flight'[n][s].st = "idle" /\ ~flight'[n][s].stray
      /\ mode' = [mode EXCEPT ![n] = "down"]
  BY DEF Gone, TypeOK, Idle
<1>2. \A m \in Nodes, v \in Windows : m # n =>
        /\ Owed(m, v)' = Owed(m, v)
        /\ Sent(m, v)' = Sent(m, v) /\ Landed(m, v)' = Landed(m, v)
  BY <1>1, OthersStand
<1>3. \A v \in Windows : Owed(n, v)' = 0 /\ Sent(n, v)' = 0 /\ Landed(n, v)' = 0
  <2>1. \A v \in Windows : Sent(n, v)' = 0 /\ Landed(n, v)' = 0 /\ Stray(n, v)' = 0
    BY <1>1 DEF Sent, Landed, InFlight, Stray, OfDropped, Writers
  <2>2. cell'[n].cur = 0 /\ cell'[n].flushed = 0
    BY <1>1 DEF NoCell, Fresh
  <2> QED
    BY <2>1, <2>2 DEF Owed
<1>a. Lapsed' = Lapsed \ {n}
  BY <1>1 DEF Lapsed
<1>4. Ledger!GoDown(n)
  BY <1>1, <1>2, <1>3, <1>a DEF Ledger!GoDown, Ledger!Windows, Windows, TypeOK
<1> QED
  BY <1>4 DEF LedgerStep, Ledger!LNext

\* A boot starts with a cell that is all written.
LEMMA BootRefines ==
    ASSUME Typed, NEW n \in Nodes, FlightSane(n), Boot(n)
    PROVE  LedgerStep
<1> USE DEF Typed
<1>1. /\ \A m \in Nodes : m # n => cell'[m] = cell[m]
      /\ flight' = flight /\ store' = store
      /\ mode' = [mode EXCEPT ![n] = "up"] /\ mode[n] = "down"
      /\ store[window] \in Nat /\ window \in Windows
  BY DEF Boot, TypeOK
<1>2. cell'[n].cur = cell'[n].flushed /\ cell'[n].cur \in Int
  <2>1. \/ cell'[n] = NoCell
        \/ cell'[n] = [Fresh(window) EXCEPT !.cur = store[window], !.flushed = store[window]]
    BY DEF Boot, TypeOK
  <2>2. CASE cell'[n] = NoCell
    BY <2>2 DEF NoCell, Fresh
  <2>3. CASE cell'[n] = [Fresh(window) EXCEPT !.cur = store[window], !.flushed = store[window]]
    <3>1. ASSUME NEW k \in Cells, NEW u \in Nat
          PROVE  LET k2 == [k EXCEPT !.cur = u, !.flushed = u] IN k2.cur = u /\ k2.flushed = u
      BY DEF Cells
    <3>2. Fresh(window) \in Cells
      BY <1>1, CellTypes
    <3>3. LET k2 == [Fresh(window) EXCEPT !.cur = store[window], !.flushed = store[window]]
          IN  k2.cur = store[window] /\ k2.flushed = store[window]
      BY <1>1, <3>1, <3>2
    <3> QED
      BY <1>1, <2>3, <3>3
  <2> QED
    BY <2>1, <2>2, <2>3
<1>3. \A m \in Nodes, v \in Windows : m # n => Owed(m, v)' = Owed(m, v)
  BY <1>1, AmountFrame
<1>4. \A m \in Nodes, v \in Windows :
         /\ Sent(m, v)' = Sent(m, v) /\ Landed(m, v)' = Landed(m, v)
         /\ Stray(m, v)' = Stray(m, v)
  BY <1>1, FlightFrameAmounts
<1>a. Lapsed' = Lapsed
  BY <1>1, LapsedFrame
<1>5. \A v \in Windows : Sent(n, v) = 0 /\ Landed(n, v) = 0 /\ Stray(n, v) = 0
  BY <1>1 DEF FlightSane, Busy, Sent, Landed, InFlight, Stray, OfDropped, Writers
<1>6. \A v \in Windows : Owed(n, v) = 0 /\ Owed(n, v)' = 0
  <2>1. cell[n].win = -1
    BY <1>1 DEF FlightSane
  <2>2. \A v \in Windows : v # -1
    BY FlushBounds DEF Windows
  <2> QED
    BY <1>2, <1>4, <1>5, <2>1, <2>2 DEF Owed
<1>7. \A m \in Nodes, v \in Windows : Owed(m, v)' = Owed(m, v)
  BY <1>3, <1>6
<1>8. Ledger!Boot(n)
  BY <1>1, <1>4, <1>a, <1>7 DEF Ledger!Boot, TypeOK
<1> QED
  BY <1>8 DEF LedgerStep, Ledger!LNext

\* Steps that touch nothing the ledger sees.
LEMMA StutterRefines ==
    ASSUME cell' = cell, flight' = flight, mode' = mode, store' = store
    PROVE  LedgerStep
<1>1. \A m \in Nodes, v \in Windows :
        /\ Owed(m, v)' = Owed(m, v)
        /\ Sent(m, v)' = Sent(m, v) /\ Landed(m, v)' = Landed(m, v)
  BY AmountFrame
<1>2. Lapsed' = Lapsed
  BY LapsedFrame
<1> QED
  BY <1>1, <1>2 DEF LedgerStep, Ledger!lvars

\* A dropped cell owes nothing more; what was sent of it is on its way.
LEMMA DropRefines ==
    ASSUME Typed, NEW n \in Nodes, FlightSane(n), Drop(n)
    PROVE  LedgerStep
<1> USE DEF Typed
<1>1. /\ \A m \in Nodes : m # n => cell'[m] = cell[m] /\ flight'[m] = flight[m]
      /\ cell'[n] = NoCell /\ mode' = mode /\ mode[n] # "down" /\ store' = store
      /\ flight \in [Nodes -> [Writers -> Snapshots]]
      /\ \A s \in Writers :
            flight'[n][s] = [flight[n][s] EXCEPT !.stray = (flight[n][s].st # "idle")]
  BY DEF Drop, TypeOK
<1>2. ASSUME NEW s \in Writers
      PROVE  /\ flight'[n][s].st = flight[n][s].st /\ flight'[n][s].win = flight[n][s].win
             /\ flight'[n][s].delta = flight[n][s].delta
             /\ flight[n][s].stray => flight'[n][s].stray
  <2>1. flight[n][s] \in Snapshots
    BY <1>1
  <2>2. ASSUME NEW k \in Snapshots, NEW b \in BOOLEAN
        PROVE  LET j == [k EXCEPT !.stray = b] IN
               j.st = k.st /\ j.win = k.win /\ j.delta = k.delta /\ j.stray = b
    BY DEF Snapshots
  <2>3. flight[n][s].stray => flight[n][s].st # "idle"
    BY DEF FlightSane, Busy
  <2>4. LET j == flight'[n][s]
            k == flight[n][s]
        IN  /\ j.st = k.st /\ j.win = k.win /\ j.delta = k.delta
            /\ j.stray = (k.st # "idle")
    BY <1>1, <2>1, <2>2
  <2> QED
    BY <2>3, <2>4
<1>3. \A v \in Windows : Sent(n, v)' = Sent(n, v) /\ Landed(n, v)' = Landed(n, v)
  BY <1>2 DEF Sent, Landed, InFlight, Writers
<1>4. \A v \in Windows : Owed(n, v)' = 0
  <2>1. \A v \in Windows : v # -1
    BY FlushBounds DEF Windows
  <2> QED
    BY <1>1, <2>1 DEF Owed, NoCell, Fresh
<1>5. \A m \in Nodes, v \in Windows : m # n =>
        /\ Owed(m, v)' = Owed(m, v)
        /\ Sent(m, v)' = Sent(m, v) /\ Landed(m, v)' = Landed(m, v)
  BY <1>1, OthersStand
<1>7. Lapsed' \in {Lapsed, Lapsed \cup {n}}
  BY <1>1, <1>2 DEF Lapsed
<1>8. \A m \in Nodes, v \in Windows : Sent(m, v)' = Sent(m, v) /\ Landed(m, v)' = Landed(m, v)
  BY <1>3, <1>5
<1>9. Ledger!Forget(n)
  <2>1. [m \in Nodes |-> [v \in Windows |-> Owed(m, v)']]
          = [[m \in Nodes |-> [v \in Windows |-> Owed(m, v)]] EXCEPT ![n] = [v \in Windows |-> 0]]
    BY <1>4, <1>5
  <2>2. Up(n) # "down" /\ \A m \in Nodes : Up(m)' = Up(m)
    BY <1>1 DEF Up
  <2> QED
    BY <1>1, <1>7, <1>8, <2>1, <2>2 DEF Ledger!Forget, Ledger!Windows, Windows, Up
<1> QED
  BY <1>9 DEF LedgerStep, Ledger!LNext

\* The rows of the bucket are deleted.
LEMMA DeleteRefines ==
    ASSUME NEW n \in Nodes, DeleteRows(n)
    PROVE  LedgerStep
<1>1. cell' = cell /\ flight' = flight /\ mode' = mode /\ store' = [w \in Windows |-> 0]
  BY DEF DeleteRows
<1>2. \A m \in Nodes, v \in Windows :
        /\ Owed(m, v)' = Owed(m, v)
        /\ Sent(m, v)' = Sent(m, v) /\ Landed(m, v)' = Landed(m, v)
  BY <1>1, AmountFrame
<1>3. Lapsed' = Lapsed
  BY <1>1, LapsedFrame
<1>4. Ledger!Erase
  BY <1>1, <1>2, <1>3 DEF Ledger!Erase, Ledger!Windows, Windows
<1> QED
  BY <1>4 DEF LedgerStep, Ledger!LNext

\* Every step of the flush protocol is a step of the ledger or none.
LEMMA StepRefines ==
    ASSUME Typed, \A n \in Nodes : FlightSane(n), [Next]_vars
    PROVE  LedgerStep
<1>1. CASE NextWindow \/ UNCHANGED vars
  BY <1>1, StutterRefines DEF NextWindow, vars
<1>2. ASSUME NEW n \in Nodes, NEW w \in Windows, Charge(n, w) \/ Accrue(n, w) PROVE LedgerStep
  <2>1. \E v \in Windows : Ledger!Count(n, v) \/ Ledger!Roll(n, v)
    BY <1>2, CountRefines
  <2> QED
    BY <2>1 DEF LedgerStep, Ledger!LNext, Ledger!Windows, Windows
<1>3. ASSUME NEW n \in Nodes, NEW w \in Windows, Refund(n, w) PROVE LedgerStep
  BY <1>3, RefundRefines
<1>4. ASSUME NEW n \in Nodes, Tick(n) \/ LastTick(n) PROVE LedgerStep
  <2>1. /\ Snapshot(n, "gate") /\ ~Busy(n, "gate") /\ mode[n] # "down" /\ store' = store
        /\ mode' = mode /\ "gate" \in Writers
    BY <1>4 DEF Tick, LastTick, Alive, Idle, Busy, Writers
  <2>2. \A m \in Nodes : Up(m)' = Up(m)
    BY <2>1 DEF Up
  <2> QED
    BY <2>1, <2>2, SnapshotRefines
<1>5. ASSUME NEW n \in Nodes, FinalFlush(n) PROVE LedgerStep
  <2>1. /\ Snapshot(n, "main") /\ mode[n] = "stopping" /\ store' = store
        /\ mode' = [mode EXCEPT ![n] = "exiting"] /\ "main" \in Writers
    BY <1>5 DEF FinalFlush, Writers
  <2>2. \A m \in Nodes : Up(m)' = Up(m)
    BY <2>1 DEF Up, Typed, TypeOK
  <2>3. ~Busy(n, "main")
    BY <2>1 DEF FlightSane
  <2> QED
    BY <2>1, <2>2, <2>3, SnapshotRefines
<1>6. ASSUME NEW n \in Nodes, NEW s \in Writers, Land(n, s) PROVE LedgerStep
  BY <1>6, LandRefines
<1>7. ASSUME NEW n \in Nodes, NEW s \in Writers, Ack(n, s) \/ Fail(n, s) PROVE LedgerStep
  BY <1>7, AnswerRefines
<1>8. ASSUME NEW n \in Nodes, Stop(n) PROVE LedgerStep
  BY <1>8, StopRefines
<1>9. ASSUME NEW n \in Nodes, Exit(n) \/ Crash(n) PROVE LedgerStep
  BY <1>9, GoneRefines DEF Exit, Crash, Alive
<1>10. ASSUME NEW n \in Nodes, Boot(n) PROVE LedgerStep
  BY <1>10, BootRefines
<1>11. ASSUME NEW n \in Nodes, Drop(n) \/ DeleteRows(n) PROVE LedgerStep
  BY <1>11, DropRefines, DeleteRefines
<1> QED
  BY <1>1, <1>2, <1>3, <1>4, <1>5, <1>6, <1>7, <1>8, <1>9, <1>10, <1>11 DEF Next

LEMMA InitRefines == Init => Ledger!LInit /\ \A n \in Nodes : FlightSane(n)
<1> SUFFICES ASSUME Init PROVE Ledger!LInit /\ \A n \in Nodes : FlightSane(n)
  OBVIOUS
<1>1. \A n \in Nodes, v \in Windows : Sent(n, v) = 0 /\ Landed(n, v) = 0 /\ Owed(n, v) = 0
  BY FlushBounds DEF Init, Sent, Landed, Owed, InFlight, Idle, NoCell, Fresh, Windows, Writers
<1>4. Lapsed = {}
  BY DEF Init, Lapsed, Idle, Writers
<1>2. \A n \in Nodes : FlightSane(n)
  BY DEF Init, FlightSane, Busy, Idle, Writers
<1>3. Ledger!LInit
  BY <1>1, <1>4 DEF Init, Ledger!LInit, Ledger!Windows, Windows
<1> QED
  BY <1>2, <1>3

\* Type correctness of the write-behind: its cells, the snapshots in flight and
\* the durable ledger keep their types (no counter or ledger goes below zero).
THEOREM TypeCorrect == Spec => []TypeOK
<1>1. Init => Typed
  BY TypedInit
<1>2. Typed /\ [Next]_vars => Typed'
  BY TypedStep
<1>3. Typed => TypeOK
  BY DEF Typed
<1> QED
  BY <1>1, <1>2, <1>3, PTL DEF Spec

\* The flush protocol implements the ledger in which amounts only move, for
\* any nodes, windows and numbers of charges, store errors, stops and crashes.
THEOREM Refinement == Spec => ImplementsLedger
<1> DEFINE Sane == Typed /\ \A n \in Nodes : FlightSane(n)
<1>1. Init => Sane /\ Ledger!LInit
  BY TypedInit, InitRefines
<1>2. Sane /\ [Next]_vars => Sane'
  BY TypedStep, FlightStep
<1>3. Sane /\ [Next]_vars => [Ledger!LNext]_(Ledger!lvars)
  BY StepRefines DEF LedgerStep
<1> QED
  BY <1>1, <1>2, <1>3, PTL DEF Spec, ImplementsLedger, Ledger!LSpec

-----------------------------------------------------------------------------
(* The last flush of a stop. *)

\* Neither did two last flushes overlap nor did one fail.
Careful == slips \cap {"overlap", "error at stop"} = {}

\* Writer s has what the cell of n held when it was last read.
Holds(n, s) == Busy(n, s) /\ flight[n][s].win = cell[n].win

\* One writer at a time; a node that is about to exit counts nothing more; what
\* a clean cell has beyond its baseline is with a writer.
Orderly(n) ==
    /\ ~(Busy(n, "gate") /\ Busy(n, "main"))
    /\ mode[n] = "exiting" => ~cell[n].dirty /\ \A w \in Windows : open[n][w] = 0
    /\ ~cell[n].dirty =>
          /\ \A s \in Writers : Holds(n, s) => flight[n][s].cur = cell[n].cur
          /\ (\A s \in Writers : ~Holds(n, s)) => cell[n].cur = cell[n].flushed

\* The steps of other nodes do not matter to Orderly.
LEMMA OrderlyFrame ==
    ASSUME NEW m \in Nodes, Orderly(m),
           mode'[m] = mode[m], cell'[m] = cell[m], flight'[m] = flight[m], open'[m] = open[m]
    PROVE  Orderly(m)'
BY DEF Orderly, Holds, Busy

\* What has slipped once has slipped for good.
LEMMA SlipsGrow ==
    ASSUME [Next]_vars
    PROVE  slips \subseteq slips'
<1>1. CASE UNCHANGED vars
  BY <1>1 DEF vars
<1>2. CASE NextWindow
  BY <1>2 DEF NextWindow
<1>3. ASSUME NEW n \in Nodes, NEW w \in Windows, Charge(n, w) \/ Accrue(n, w) \/ Refund(n, w)
      PROVE  slips \subseteq slips'
  BY <1>3 DEF Charge, Accrue, Refund, CountOn
<1>4. ASSUME NEW n \in Nodes, Tick(n) \/ LastTick(n) \/ FinalFlush(n) \/ Stop(n) \/ Boot(n)
      PROVE  slips \subseteq slips'
  BY <1>4 DEF Tick, LastTick, FinalFlush, Stop, Boot
<1>5. ASSUME NEW n \in Nodes, NEW s \in Writers, Land(n, s) \/ Ack(n, s) \/ Fail(n, s)
      PROVE  slips \subseteq slips'
  BY <1>5 DEF Land, Ack, Fail, FailSlips
<1>6. ASSUME NEW n \in Nodes, Exit(n) \/ Crash(n) PROVE slips \subseteq slips'
  BY <1>6 DEF Exit, Crash, Gone
<1>7. ASSUME NEW n \in Nodes, Drop(n) \/ DeleteRows(n) PROVE slips \subseteq slips'
  BY <1>7 DEF Drop, DeleteRows
<1>. QED  BY <1>1, <1>2, <1>3, <1>4, <1>5, <1>6, <1>7 DEF Next

\* A snapshot, of a writer that was idle while the other one was, too, if there
\* is something to send.
LEMMA SnapshotOrderly ==
    ASSUME Typed, NEW n \in Nodes, FlightSane(n), Orderly(n), NEW s \in Writers, Snapshot(n, s),
           cell[n].dirty => \A r \in Writers : ~Busy(n, r),
           open' = open,
           mode'[n] = mode[n] \/ (mode'[n] = "exiting" /\ \A w \in Windows : open[n][w] = 0)
    PROVE  Orderly(n)'
<1>. DEFINE c == cell[n]
            f == [st |-> "sent", win |-> c.win, delta |-> c.cur - c.flushed, cur |-> c.cur,
                  stray |-> FALSE]
<1>1. cell \in [Nodes -> Cells] /\ c \in Cells /\ flight \in [Nodes -> [Writers -> Snapshots]]
  BY DEF Typed, TypeOK
<1>2. CASE ~c.dirty
  <2>1. cell' = cell /\ flight' = flight
    BY <1>2 DEF Snapshot
  <2>. QED  BY <1>2, <2>1 DEF Orderly, Holds, Busy
<1>3. CASE c.dirty /\ c.cur - c.flushed = 0
  <2>1. cell' = [cell EXCEPT ![n] = [c EXCEPT !.dirty = FALSE]] /\ flight' = flight
    BY <1>3 DEF Snapshot
  <2>2. cell'[n] = [c EXCEPT !.dirty = FALSE]
    BY <1>1, <2>1
  <2>3. /\ cell'[n].win = c.win /\ cell'[n].cur = c.cur /\ cell'[n].flushed = c.flushed
        /\ ~cell'[n].dirty
    BY <1>1, <2>2, CellFields, CellFlag
  <2>4. c.cur = c.flushed
    <3>1. c.cur \in Nat /\ c.flushed \in Nat
      BY <1>1 DEF Cells
    <3>. QED  BY <1>3, <3>1
  <2>5. \A r \in Writers : ~Busy(n, r)'
    BY <1>3, <2>1 DEF Busy
  <2>. QED  BY <2>3, <2>4, <2>5 DEF Orderly, Holds, Writers
<1>4. CASE c.dirty /\ c.cur - c.flushed # 0
  <2>1. cell' = [cell EXCEPT ![n] = [c EXCEPT !.dirty = FALSE]] /\ flight' = [flight EXCEPT ![n][s] = f]
    BY <1>4 DEF Snapshot
  <2>2. cell'[n] = [c EXCEPT !.dirty = FALSE]
    BY <1>1, <2>1
  <2>3. /\ cell'[n].win = c.win /\ cell'[n].cur = c.cur /\ cell'[n].flushed = c.flushed
        /\ ~cell'[n].dirty
    BY <1>1, <2>2, CellFields, CellFlag
  <2>4. /\ flight'[n][s].st = "sent" /\ flight'[n][s].win = c.win /\ flight'[n][s].cur = c.cur
        /\ \A r \in Writers : r # s => flight'[n][r] = flight[n][r]
    BY <1>1, <2>1
  <2>5. \A r \in Writers : Busy(n, r)' <=> r = s
    BY <1>4, <2>4 DEF Busy
  <2>6. Holds(n, s)'
    BY <2>3, <2>4, <2>5 DEF Holds
  <2>. QED  BY <2>3, <2>4, <2>5, <2>6 DEF Orderly, Holds, Writers
<1>. QED  BY <1>2, <1>3, <1>4

LEMMA OrderlyStep ==
    ASSUME Typed, \A n \in Nodes : FlightSane(n) /\ Orderly(n), [Next]_vars, Careful',
           NEW m \in Nodes
    PROVE  Orderly(m)'
<1>. USE FlushBounds DEF Writers, Windows
<1>0. /\ FlightSane(m) /\ Orderly(m) /\ cell[m] \in Cells /\ flight[m] \in [Writers -> Snapshots]
      /\ cell \in [Nodes -> Cells] /\ flight \in [Nodes -> [Writers -> Snapshots]]
      /\ open \in [Nodes -> [Windows -> Nat]]
  BY DEF Typed, TypeOK
<1>1. CASE NextWindow
  BY <1>0, <1>1, OrderlyFrame DEF NextWindow
<1>2. ASSUME NEW n \in Nodes, NEW w \in Windows, Charge(n, w) \/ Accrue(n, w) PROVE Orderly(m)'
  <2>1. /\ cell' = [cell EXCEPT ![n] = Counted(cell[n], w)] /\ mode' = mode /\ flight' = flight
        /\ mode[n] # "exiting" \/ open[n][w] > 0
        /\ \A k \in Nodes : k # n => open'[k] = open[k]
    BY <1>0, <1>2, CountShape DEF Charge, Accrue, Typed
  <2>2. CASE m # n
    BY <1>0, <2>1, <2>2, OrderlyFrame
  <2>3. CASE m = n
    <3>1. cell'[m].dirty
      BY <1>0, <2>1, <2>3, CountedCell
    <3>2. mode[m] # "exiting"
      BY <1>0, <2>1, <2>3 DEF Orderly
    <3>. QED  BY <1>0, <2>1, <3>1, <3>2 DEF Orderly, Busy
  <2>. QED  BY <2>2, <2>3
<1>3. ASSUME NEW n \in Nodes, NEW w \in Windows, Refund(n, w) PROVE Orderly(m)'
  <2>1. /\ mode' = mode /\ flight' = flight /\ open[n][w] > 0
        /\ \A k \in Nodes : k # n => open'[k] = open[k]
    BY <1>0, <1>3 DEF Refund
  <2>2. \/ cell' = cell
        \/ \E v \in Nat : cell' = [cell EXCEPT ![n] = [cell[n] EXCEPT !.cur = v, !.dirty = TRUE]]
    BY <1>3, RefundShape DEF Typed
  <2>3. CASE m # n
    <3>1. cell'[m] = cell[m]
      BY <1>0, <2>2, <2>3
    <3>. QED  BY <1>0, <2>1, <2>3, <3>1, OrderlyFrame
  <2>4. CASE m = n
    <3>1. mode[m] # "exiting"
      BY <1>0, <2>1, <2>4 DEF Orderly
    <3>2. cell'[m] = cell[m] \/ cell'[m].dirty
      <4>1. ASSUME NEW v \in Nat,
                   cell' = [cell EXCEPT ![n] = [cell[n] EXCEPT !.cur = v, !.dirty = TRUE]]
            PROVE  cell'[m].dirty
        <5>1. cell'[m] = [cell[m] EXCEPT !.cur = v, !.dirty = TRUE]
          BY <1>0, <2>4, <4>1
        <5>2. [cell[m] EXCEPT !.cur = v, !.dirty = TRUE].dirty = TRUE
          BY <1>0, CellFlag
        <5>. QED  BY <5>1, <5>2
      <4>. QED  BY <2>2, <2>4, <4>1
    <3>. QED  BY <1>0, <2>1, <3>1, <3>2 DEF Orderly, Holds, Busy
  <2>. QED  BY <2>3, <2>4
<1>4. ASSUME NEW n \in Nodes, Tick(n) \/ LastTick(n) PROVE Orderly(m)'
  <2>1. /\ Snapshot(n, "gate") /\ flight[n]["gate"] = Idle
        /\ mode' = mode /\ open' = open
    BY <1>4 DEF Tick, LastTick
  <2>2. CASE m # n
    <3>1. cell'[m] = cell[m] /\ flight'[m] = flight[m]
      BY <1>0, <2>1, <2>2 DEF Snapshot
    <3>. QED  BY <1>0, <2>1, <3>1, OrderlyFrame
  <2>3. CASE m = n
    <3>1. cell[n].dirty => ~Busy(n, "main") /\ ~Busy(n, "gate")
      BY <1>0, <2>1, <2>3 DEF FlightSane, Orderly, Busy, Idle
    <3>2. Orderly(n)'
      BY <2>1, <3>1, SnapshotOrderly
    <3>. QED  BY <2>3, <3>2
  <2>. QED  BY <2>2, <2>3
<1>5. ASSUME NEW n \in Nodes, FinalFlush(n) PROVE Orderly(m)'
  <2>1. /\ Snapshot(n, "main") /\ open' = open /\ mode[n] = "stopping"
        /\ mode' = [mode EXCEPT ![n] = "exiting"] /\ \A w \in Windows : open[n][w] = 0
    BY <1>5 DEF FinalFlush
  <2>0. mode \in [Nodes -> {"up", "stopping", "exiting", "down"}]
    BY DEF Typed, TypeOK
  <2>2. CASE m # n
    <3>1. cell'[m] = cell[m] /\ flight'[m] = flight[m] /\ mode'[m] = mode[m]
      BY <1>0, <2>0, <2>1, <2>2 DEF Snapshot
    <3>. QED  BY <1>0, <2>1, <3>1, OrderlyFrame
  <2>3. CASE m = n
    <3>1. cell[n].dirty => flight[n]["gate"] = Idle
      BY <1>5 DEF FinalFlush, Careful
    <3>2. cell[n].dirty => ~Busy(n, "main") /\ ~Busy(n, "gate")
      BY <1>0, <2>1, <2>3, <3>1 DEF FlightSane, Busy, Idle
    <3>3. mode'[n] = "exiting"
      BY <2>0, <2>1
    <3>4. Orderly(n)'
      BY <2>1, <3>2, <3>3, SnapshotOrderly
    <3>. QED  BY <2>3, <3>4
  <2>. QED  BY <2>2, <2>3
<1>6. ASSUME NEW n \in Nodes, NEW s \in Writers, Land(n, s) PROVE Orderly(m)'
  <2>1. cell' = cell /\ mode' = mode /\ open' = open
    BY <1>6 DEF Land
  <2>2. \A r \in Writers : /\ Busy(m, r)' <=> Busy(m, r)
                           /\ flight'[m][r].win = flight[m][r].win
                           /\ flight'[m][r].cur = flight[m][r].cur
    BY <1>0, <1>6 DEF Land, Snapshots, Busy
  <2>. QED  BY <1>0, <2>1, <2>2 DEF Orderly, Holds
<1>7. ASSUME NEW n \in Nodes, NEW s \in Writers, Ack(n, s) \/ Fail(n, s) PROVE Orderly(m)'
  <2>1. /\ mode' = mode /\ open' = open /\ flight' = [flight EXCEPT ![n][s] = Idle]
    BY <1>7 DEF Ack, Fail
  <2>2. CASE m # n
    <3>1. cell'[m] = cell[m] /\ flight'[m] = flight[m]
      BY <1>0, <1>7, <2>1, <2>2 DEF Ack, Fail
    <3>. QED  BY <1>0, <2>1, <3>1, OrderlyFrame
  <2>3. CASE m = n
    <3>1. /\ ~Busy(m, s)' /\ Busy(m, s) /\ flight[n][s] \in Snapshots
          /\ \A r \in Writers : r # s => (Busy(m, r)' <=> Busy(m, r)) /\ flight'[m][r] = flight[m][r]
      BY <1>0, <1>7, <2>1, <2>3 DEF Busy, Idle, Ack, Fail
    <3>2. \A r \in Writers : ~Busy(m, r)'
      BY <1>0, <3>1 DEF Orderly
    <3>3. CASE Ack(n, s) /\ cell[n].win = flight[n][s].win
      <4>. DEFINE c == cell[n]
                  v == flight[n][s].cur
      <4>1. cell' = [cell EXCEPT ![n] = [c EXCEPT !.flushed = v]] /\ v \in Nat
        BY <1>0, <3>1, <3>3 DEF Ack, Snapshots
      <4>2. cell'[n] = [c EXCEPT !.flushed = v]
        BY <1>0, <4>1
      <4>3. /\ cell'[n].win = c.win /\ cell'[n].cur = c.cur /\ cell'[n].flushed = v
            /\ cell'[n].dirty = c.dirty
        BY <1>0, <2>3, <4>1, <4>2, CellFields, CellFlag
      <4>4. ~c.dirty => v = c.cur
        BY <1>0, <2>3, <3>1, <3>3 DEF Orderly, Holds
      <4>. QED  BY <1>0, <2>1, <2>3, <3>2, <4>3, <4>4 DEF Orderly, Holds
    <3>4. CASE cell[n].win # flight[n][s].win
      <4>1. cell' = cell
        BY <1>7, <3>4 DEF Ack, Fail
      <4>2. \A r \in Writers : ~Holds(m, r)
        BY <1>0, <2>3, <3>1, <3>4 DEF Holds, Orderly
      <4>. QED  BY <1>0, <2>1, <2>3, <3>2, <4>1, <4>2 DEF Orderly, Holds
    <3>5. CASE Fail(n, s) /\ cell[n].win = flight[n][s].win
      <4>1. cell' = [cell EXCEPT ![n] = [cell[n] EXCEPT !.dirty = TRUE]]
        BY <1>0, <3>5 DEF Fail
      <4>2. cell'[n].dirty
        BY <1>0, <2>3, <4>1, CellFlag
      <4>3. mode[n] # "exiting"
        BY <3>5 DEF Fail, FailSlips, Careful
      <4>. QED  BY <1>0, <2>1, <2>3, <3>2, <4>2, <4>3 DEF Orderly
    <3>. QED  BY <1>7, <3>3, <3>4, <3>5
  <2>. QED  BY <2>2, <2>3
<1>8. ASSUME NEW n \in Nodes, Stop(n) PROVE Orderly(m)'
  <2>1. cell' = cell /\ flight' = flight /\ open' = open /\ (mode'[m] = mode[m] \/ mode'[m] = "stopping")
    BY <1>8 DEF Stop, Typed, TypeOK
  <2>. QED  BY <1>0, <2>1 DEF Orderly, Holds, Busy
<1>9. ASSUME NEW n \in Nodes, Exit(n) \/ Crash(n) PROVE Orderly(m)'
  <2>1. Gone(n)
    BY <1>9 DEF Exit, Crash
  <2>2. CASE m # n
    BY <1>0, <2>1, <2>2, OrderlyFrame DEF Gone, Typed, TypeOK
  <2>3. CASE m = n
    <3>1. mode'[m] = "down" /\ cell'[m] = NoCell /\ \A s \in Writers : ~Busy(m, s)'
      BY <2>1, <2>3 DEF Gone, Typed, TypeOK, Idle, Busy
    <3>2. cell'[m].cur = cell'[m].flushed
      BY <3>1 DEF NoCell, Fresh
    <3>. QED  BY <3>1, <3>2 DEF Orderly, Holds
  <2>. QED  BY <2>2, <2>3
<1>10. ASSUME NEW n \in Nodes, Boot(n) PROVE Orderly(m)'
  <2>1. flight' = flight /\ open' = open /\ mode[n] = "down" /\ mode' = [mode EXCEPT ![n] = "up"]
    BY <1>10 DEF Boot
  <2>2. CASE m # n
    BY <1>0, <1>10, <2>1, <2>2, OrderlyFrame DEF Boot, Typed, TypeOK
  <2>3. CASE m = n
    <3>1. mode'[m] = "up" /\ \A s \in Writers : ~Busy(m, s)'
      BY <1>0, <2>1, <2>3 DEF Typed, TypeOK, FlightSane, Busy
    <3>2. cell'[m].cur = cell'[m].flushed
      BY <1>0, <1>10, <2>3 DEF Boot, NoCell, Fresh
    <3>. QED  BY <3>1, <3>2 DEF Orderly, Holds
  <2>. QED  BY <2>2, <2>3
<1>11. CASE UNCHANGED vars
  BY <1>0, <1>11, OrderlyFrame DEF vars
<1>12. ASSUME NEW n \in Nodes, Drop(n) PROVE Orderly(m)'
  <2>1. /\ mode' = mode /\ open' = open /\ mode[n] # "exiting"
        /\ cell' = [cell EXCEPT ![n] = NoCell]
        /\ flight' = [flight EXCEPT ![n] = [s \in Writers |->
              [flight[n][s] EXCEPT !.stray = (flight[n][s].st # "idle")]]]
    BY <1>12 DEF Drop
  <2>2. CASE m # n
    BY <1>0, <2>1, <2>2, OrderlyFrame
  <2>3. CASE m = n
    <3>1. cell'[m] = NoCell
      BY <1>0, <2>1, <2>3
    <3>2. \A s \in Writers : /\ flight[m][s] \in Snapshots
                             /\ flight'[m][s] = [flight[m][s] EXCEPT !.stray = (flight[m][s].st # "idle")]
      BY <1>0, <2>1, <2>3
    <3>3. \A s \in Writers : /\ flight'[m][s].win = flight[m][s].win
                             /\ flight'[m][s].st = flight[m][s].st
                             /\ flight[m][s].win \in Windows
      BY <3>2 DEF Snapshots
    <3>4. \A s \in Writers : (Busy(m, s)' <=> Busy(m, s)) /\ ~Holds(m, s)'
      BY <3>1, <3>3 DEF Busy, Holds, NoCell, Fresh
    <3>5. cell'[m].cur = cell'[m].flushed /\ ~cell'[m].dirty
      BY <3>1 DEF NoCell, Fresh
    <3>. QED  BY <1>0, <2>1, <2>3, <3>4, <3>5 DEF Orderly
  <2>. QED  BY <2>2, <2>3
<1>13. ASSUME NEW n \in Nodes, DeleteRows(n) PROVE Orderly(m)'
  BY <1>0, <1>13, OrderlyFrame DEF DeleteRows
<1>. QED  BY <1>1, <1>2, <1>3, <1>4, <1>5, <1>6, <1>7, <1>8, <1>9, <1>10, <1>11, <1>12, <1>13 DEF Next

\* No writer of n has a snapshot of a cell that n has dropped since.
NoStray(n) == \A s \in Writers : ~flight[n][s].stray

\* It takes a cell dropped while it is being written for one to have it.
LEMMA StrayStep ==
    ASSUME Typed, "dropped" \notin slips => \A n \in Nodes : NoStray(n), [Next]_vars,
           "dropped" \notin slips', NEW m \in Nodes
    PROVE  NoStray(m)'
<1>0. /\ NoStray(m) /\ flight \in [Nodes -> [Writers -> Snapshots]] /\ ~Idle.stray
  BY SlipsGrow DEF Typed, TypeOK, Idle
<1>1. CASE flight' = flight
  BY <1>0, <1>1 DEF NoStray
<1>2. ASSUME NEW n \in Nodes, Tick(n) \/ LastTick(n) \/ FinalFlush(n) PROVE NoStray(m)'
  <2>. DEFINE f == [st |-> "sent", win |-> cell[n].win, delta |-> cell[n].cur - cell[n].flushed,
                    cur |-> cell[n].cur, stray |-> FALSE]
  <2>1. PICK s \in Writers : flight' = flight \/ flight' = [flight EXCEPT ![n][s] = f]
    BY <1>2 DEF Tick, LastTick, FinalFlush, Snapshot, Writers
  <2>2. ~f.stray
    OBVIOUS
  <2>. HIDE DEF f
  <2>. QED  BY <1>0, <2>1, <2>2 DEF NoStray
<1>3. ASSUME NEW n \in Nodes, NEW s \in Writers, Land(n, s) PROVE NoStray(m)'
  BY <1>0, <1>3 DEF Land, NoStray, Snapshots
<1>4. ASSUME NEW n \in Nodes, NEW s \in Writers, Ack(n, s) \/ Fail(n, s) PROVE NoStray(m)'
  <2>1. flight' = [flight EXCEPT ![n][s] = Idle]
    BY <1>4 DEF Ack, Fail
  <2>. QED  BY <1>0, <2>1 DEF NoStray
<1>5. ASSUME NEW n \in Nodes, Exit(n) \/ Crash(n) PROVE NoStray(m)'
  <2>1. flight' = [flight EXCEPT ![n] = [s \in Writers |-> Idle]]
    BY <1>5 DEF Exit, Crash, Gone
  <2>. QED  BY <1>0, <2>1 DEF NoStray
<1>6. ASSUME NEW n \in Nodes, Drop(n) PROVE NoStray(m)'
  <2>1. /\ flight' = [flight EXCEPT ![n] = [s \in Writers |->
              [flight[n][s] EXCEPT !.stray = (flight[n][s].st # "idle")]]]
        /\ \A s \in Writers : flight[n][s] = Idle
    BY <1>6 DEF Drop
  <2>2. CASE m # n
    BY <1>0, <2>1, <2>2 DEF NoStray
  <2>3. CASE m = n
    <3>. SUFFICES ASSUME NEW s \in Writers PROVE ~flight'[m][s].stray
      BY DEF NoStray
    <3>1. flight'[m][s] = [Idle EXCEPT !.stray = (Idle.st # "idle")]
      BY <1>0, <2>1, <2>3
    <3>. QED  BY <3>1 DEF Idle
  <2>. QED  BY <2>2, <2>3
<1>7. ASSUME NEW n \in Nodes,
             \/ \E w \in Windows : Charge(n, w) \/ Accrue(n, w) \/ Refund(n, w)
             \/ DeleteRows(n) \/ Stop(n) \/ Boot(n)
      PROVE  flight' = flight
  BY <1>7 DEF Charge, Accrue, Refund, DeleteRows, Stop, Boot
<1>8. NextWindow \/ UNCHANGED vars => flight' = flight
  BY DEF NextWindow, vars
<1>. QED  BY <1>1, <1>2, <1>3, <1>4, <1>5, <1>6, <1>7, <1>8 DEF Next

\* The invariant of a stop.
StopInv ==
    /\ Typed
    /\ \A n \in Nodes : FlightSane(n)
    /\ Careful => \A n \in Nodes : Orderly(n)
    /\ "dropped" \notin slips => \A n \in Nodes : NoStray(n)

LEMMA StopStarts == Init => StopInv
<1>. SUFFICES ASSUME Init PROVE StopInv
  OBVIOUS
<1>1. \A n \in Nodes : Orderly(n)
  BY DEF Init, Orderly, Holds, Busy, Idle, NoCell, Fresh, Writers
<1>2. \A n \in Nodes : NoStray(n)
  BY DEF Init, NoStray, Idle
<1>. QED  BY <1>1, <1>2, TypedInit, InitRefines DEF StopInv

LEMMA StopStep == StopInv /\ [Next]_vars => StopInv'
<1>. SUFFICES ASSUME StopInv, [Next]_vars PROVE StopInv'
  OBVIOUS
<1>1. Careful' => Careful
  BY SlipsGrow DEF Careful
<1>2. Careful' => \A n \in Nodes : Orderly(n)'
  BY <1>1, OrderlyStep DEF StopInv
<1>3. "dropped" \notin slips' => \A n \in Nodes : NoStray(n)'
  BY StrayStep DEF StopInv
<1>. QED  BY <1>2, <1>3, TypedStep, FlightStep DEF StopInv

\* A graceful stop loses nothing, for any nodes, windows and numbers of counts
\* and store errors: the final flush of run() and the shutdown arm of the
\* flusher leave a cell whose count is its baseline (main.rs, governance/mod.rs).
THEOREM StopCorrect == Spec => GracefulStopLosesNothing
<1>. DEFINE A == \A n \in Nodes :
        /\ mode[n] = "exiting" /\ mode'[n] = "down" /\ ends' = ends
        /\ slips \cap {"overlap", "error at stop"} = {}
        => cell[n].cur = cell[n].flushed
<1>1. ASSUME StopInv, [Next]_vars PROVE A
  <2>. SUFFICES ASSUME NEW n \in Nodes, mode[n] = "exiting", mode'[n] = "down", ends' = ends, Careful
                PROVE  cell[n].cur = cell[n].flushed
    BY DEF Careful
  <2>0. mode \in [Nodes -> {"up", "stopping", "exiting", "down"}] /\ ends \in Nat
    BY <1>1 DEF StopInv, Typed, TypeOK
  <2>1. mode' # mode
    BY <2>0
  <2>2. PICK k \in Nodes : FinalFlush(k) \/ Stop(k) \/ Exit(k) \/ Crash(k) \/ Boot(k)
    BY <1>1, <2>1 DEF Next, vars, NextWindow, Charge, Accrue, Refund, Drop, DeleteRows, Tick, LastTick, Land, Ack, Fail
  <2>3. Exit(n)
    BY <2>0, <2>2 DEF FinalFlush, Stop, Exit, Crash, Boot, Gone
  <2>4. \A s \in Writers : ~Holds(n, s)
    BY <2>3 DEF Exit, Holds, Busy, Idle
  <2>. QED  BY <1>1, <2>4 DEF StopInv, Orderly
<1>. QED  BY <1>1, StopStarts, StopStep, PTL DEF Spec, GracefulStopLosesNothing

-----------------------------------------------------------------------------
(* Sums over a set: the community modules fold with a CHOOSE of the next     *)
(* element, and what a fold computes follows from the least counterexample.  *)

\* The element that a fold takes next.
Pick(s) == CHOOSE x \in s : TRUE

\* g sums F over the subsets of S with fewer than k elements.
SumsTo(g, F, S, k) ==
    g = [s \in {t \in SUBSET S : Cardinality(t) < k} |->
            IF s = {} THEN 0 ELSE F[Pick(s)] + g[s \ {Pick(s)}]]

\* g sums F over the subsets of S.
Sums(g, F, S) ==
    g = [s \in SUBSET S |-> IF s = {} THEN 0 ELSE F[Pick(s)] + g[s \ {Pick(s)}]]

\* A set of naturals has a least element.
LEMMA LeastOf ==
    ASSUME NEW B \in SUBSET Nat, B # {}
    PROVE  \E m \in B : \A k \in Nat : k < m => k \notin B
<1>1. PICK m \in B : \A k \in B : ~(<<k, m>> \in OpToRel(<, Nat))
  BY WFMin, NatLessThanWellFounded
<1>. QED  BY <1>1 DEF OpToRel

\* Without its next element a finite set is smaller.
LEMMA Pickings ==
    ASSUME NEW S, IsFiniteSet(S), NEW s \in SUBSET S
    PROVE  /\ IsFiniteSet(s) /\ Cardinality(s) \in Nat
           /\ s # {} => /\ Pick(s) \in s /\ s \ {Pick(s)} \in SUBSET S
                        /\ Cardinality(s \ {Pick(s)}) = Cardinality(s) - 1
                        /\ Cardinality(s) # 0
<1>1. IsFiniteSet(s)
  BY FS_Subset
<1>2. Cardinality(s) \in Nat
  BY <1>1, FS_CardinalityType
<1>3. s # {} => Pick(s) \in s
  BY DEF Pick
<1>4. s # {} => Cardinality(s \ {Pick(s)}) = Cardinality(s) - 1
  BY <1>1, <1>3, FS_RemoveElement
<1>5. s # {} => Cardinality(s) # 0
  BY <1>1, FS_EmptySet
<1>. QED  BY <1>1, <1>2, <1>3, <1>4, <1>5

\* The sums of small sets exist, hence those of all.
LEMMA SumsToExist ==
    ASSUME NEW S, IsFiniteSet(S), NEW F
    PROVE  \A k \in Nat : \E g : SumsTo(g, F, S, k)
<1>. DEFINE Bad == {k \in Nat : ~ \E g : SumsTo(g, F, S, k)}
            Small(k) == {t \in SUBSET S : Cardinality(t) < k}
<1>. SUFFICES ASSUME Bad # {} PROVE FALSE
  OBVIOUS
<1>1. PICK m \in Bad : \A k \in Nat : k < m => k \notin Bad
  BY LeastOf
<1>2. m \in Nat /\ \A k \in Nat : k < m => \E g : SumsTo(g, F, S, k)
  BY <1>1
<1>0. \A t \in SUBSET S : Cardinality(t) \in Nat
  BY Pickings
<1>3. CASE m = 0
  <2>1. Small(0) = {}
    BY <1>0
  <2>. DEFINE g == [s \in {} |-> 0]
  <2>2. g = [s \in Small(0) |-> IF s = {} THEN 0 ELSE F[Pick(s)] + g[s \ {Pick(s)}]]
    BY <2>1
  <2>. HIDE DEF g
  <2>3. SumsTo(g, F, S, 0)
    BY <2>2 DEF SumsTo
  <2>. QED  BY <1>1, <1>3, <2>3
<1>4. CASE m # 0
  <2>1. m - 1 \in Nat /\ m - 1 < m
    BY <1>2, <1>4
  <2>2. PICK f : SumsTo(f, F, S, m - 1)
    BY <1>2, <2>1
  <2>. DEFINE g == [s \in Small(m) |-> IF s = {} THEN 0 ELSE F[Pick(s)] + f[s \ {Pick(s)}]]
  <2>3. \A s \in Small(m - 1) : f[s] = IF s = {} THEN 0 ELSE F[Pick(s)] + f[s \ {Pick(s)}]
    <3>1. f = [s \in Small(m - 1) |-> IF s = {} THEN 0 ELSE F[Pick(s)] + f[s \ {Pick(s)}]]
      BY <2>2 DEF SumsTo
    <3>. HIDE DEF Small
    <3>. QED  BY <3>1
  <2>4. \A s \in Small(m - 1) : g[s] = f[s]
    <3>1. \A s \in Small(m - 1) : s \in Small(m)
      BY <1>0, <1>2
    <3>. HIDE DEF Small
    <3>. QED  BY <2>3, <3>1
  <2>5. \A s \in Small(m) : s # {} => s \ {Pick(s)} \in Small(m - 1)
    BY <1>2, Pickings
  <2>. HIDE DEF Small
  <2>6. g = [s \in Small(m) |-> IF s = {} THEN 0 ELSE F[Pick(s)] + g[s \ {Pick(s)}]]
    BY <2>4, <2>5
  <2>. HIDE DEF g
  <2>7. SumsTo(g, F, S, m)
    BY <2>6 DEF SumsTo, Small
  <2>. QED  BY <1>1, <2>7
<1>. QED  BY <1>3, <1>4

LEMMA SumsExist ==
    ASSUME NEW S, IsFiniteSet(S), NEW F
    PROVE  \E g : Sums(g, F, S)
<1>. DEFINE k == Cardinality(S) + 1
<1>1. k \in Nat
  BY FS_CardinalityType
<1>2. {t \in SUBSET S : Cardinality(t) < k} = SUBSET S
  <2>1. \A t \in SUBSET S : Cardinality(t) <= Cardinality(S) /\ Cardinality(t) \in Nat
    BY FS_Subset, FS_CardinalityType
  <2>. QED  BY <1>1, <2>1, FS_CardinalityType
<1>. HIDE DEF k
<1>3. PICK g : SumsTo(g, F, S, k)
  BY <1>1, SumsToExist
<1>. QED  BY <1>2, <1>3 DEF Sums, SumsTo

\* What holds of the sum over no elements, and of a sum if it holds of the sum
\* over one element fewer, holds of all.
LEMMA SumTypes ==
    ASSUME NEW S, IsFiniteSet(S), NEW F \in [S -> Int], NEW g, Sums(g, F, S)
    PROVE  /\ \A s \in SUBSET S : g[s] \in Int
           /\ (\A x \in S : F[x] >= 0) => \A s \in SUBSET S : g[s] >= 0
           /\ (\A x \in S : F[x] = 0) => \A s \in SUBSET S : g[s] = 0
<1>. DEFINE Fine(s) == /\ g[s] \in Int
                       /\ (\A x \in S : F[x] >= 0) => g[s] >= 0
                       /\ (\A x \in S : F[x] = 0) => g[s] = 0
            Bad == {k \in Nat : \E s \in SUBSET S : Cardinality(s) = k /\ ~Fine(s)}
<1>1. \A s \in SUBSET S : Cardinality(s) \in Nat
  BY Pickings
<1>. SUFFICES ASSUME Bad # {} PROVE FALSE
  BY <1>1
<1>2. PICK k \in Bad : \A j \in Nat : j < k => j \notin Bad
  BY LeastOf
<1>3. PICK s \in SUBSET S : Cardinality(s) = k /\ ~Fine(s)
  BY <1>2
<1>4. g[s] = IF s = {} THEN 0 ELSE F[Pick(s)] + g[s \ {Pick(s)}]
  BY DEF Sums
<1>5. s # {}
  BY <1>3, <1>4
<1>6. /\ s \ {Pick(s)} \in SUBSET S /\ Pick(s) \in S
      /\ Cardinality(s \ {Pick(s)}) \in Nat /\ Cardinality(s \ {Pick(s)}) < k
  BY <1>1, <1>3, <1>5, Pickings
<1>7. Fine(s \ {Pick(s)})
  BY <1>2, <1>6
<1>8. F[Pick(s)] \in Int
  BY <1>6
<1>9. (\A x \in S : F[x] = 0) => F[Pick(s)] = 0
  BY <1>6
<1>10. (\A x \in S : F[x] >= 0) => F[Pick(s)] >= 0
  BY <1>6
<1>. QED  BY <1>3, <1>4, <1>5, <1>7, <1>8, <1>9, <1>10

\* Two functions that differ at n at most have sums that differ as they do there.
LEMMA SumsDiffer ==
    ASSUME NEW S, IsFiniteSet(S), NEW F \in [S -> Int], NEW G \in [S -> Int],
           NEW g, Sums(g, F, S), NEW h, Sums(h, G, S),
           NEW n \in S, \A x \in S : x # n => G[x] = F[x]
    PROVE  h[S] = g[S] + (G[n] - F[n])
<1>. DEFINE Share(s) == IF n \in s THEN G[n] - F[n] ELSE 0
            Fine(s) == h[s] = g[s] + Share(s)
            Bad == {k \in Nat : \E s \in SUBSET S : Cardinality(s) = k /\ ~Fine(s)}
<1>1. \A s \in SUBSET S : Cardinality(s) \in Nat
  BY Pickings
<1>. SUFFICES ASSUME Bad # {} PROVE FALSE
  BY <1>1
<1>2. PICK k \in Bad : \A j \in Nat : j < k => j \notin Bad
  BY LeastOf
<1>3. PICK s \in SUBSET S : Cardinality(s) = k /\ ~Fine(s)
  BY <1>2
<1>. DEFINE t == s \ {Pick(s)}
<1>4. /\ g[s] = IF s = {} THEN 0 ELSE F[Pick(s)] + g[t]
      /\ h[s] = IF s = {} THEN 0 ELSE G[Pick(s)] + h[t]
  BY DEF Sums
<1>5. s # {}
  BY <1>3, <1>4
<1>6. t \in SUBSET S /\ Pick(s) \in s /\ Cardinality(t) \in Nat /\ Cardinality(t) < k
  BY <1>1, <1>3, <1>5, Pickings
<1>7. Fine(t)
  BY <1>2, <1>6
<1>8. /\ F[Pick(s)] \in Int /\ G[Pick(s)] \in Int /\ F[n] \in Int /\ G[n] \in Int
      /\ g[t] \in Int /\ h[t] \in Int
  BY <1>6, SumTypes
<1>9. Pick(s) = n => n \in s /\ n \notin t
  BY <1>6
<1>10. Pick(s) # n => (n \in s <=> n \in t) /\ G[Pick(s)] = F[Pick(s)]
  BY <1>6
<1>. HIDE DEF t
<1>11. h[s] = g[s] + Share(s)
  BY <1>4, <1>5, <1>7, <1>8, <1>9, <1>10
<1>. QED  BY <1>3, <1>11

\* There is only one sum.
LEMMA SumsAgree ==
    ASSUME NEW S, IsFiniteSet(S), NEW F \in [S -> Int],
           NEW g, Sums(g, F, S), NEW h, Sums(h, F, S)
    PROVE  h = g
<1>. DEFINE Bad == {k \in Nat : \E s \in SUBSET S : Cardinality(s) = k /\ h[s] # g[s]}
<1>1. \A s \in SUBSET S : Cardinality(s) \in Nat
  BY Pickings
<1>2. Bad = {}
  <2>. SUFFICES ASSUME Bad # {} PROVE FALSE
    OBVIOUS
  <2>1. PICK k \in Bad : \A j \in Nat : j < k => j \notin Bad
    BY LeastOf
  <2>2. PICK s \in SUBSET S : Cardinality(s) = k /\ h[s] # g[s]
    BY <2>1
  <2>3. /\ g[s] = IF s = {} THEN 0 ELSE F[Pick(s)] + g[s \ {Pick(s)}]
        /\ h[s] = IF s = {} THEN 0 ELSE F[Pick(s)] + h[s \ {Pick(s)}]
    BY DEF Sums
  <2>4. s # {}
    BY <2>2, <2>3
  <2>5. /\ s \ {Pick(s)} \in SUBSET S
        /\ Cardinality(s \ {Pick(s)}) \in Nat /\ Cardinality(s \ {Pick(s)}) < k
    BY <1>1, <2>2, <2>4, Pickings
  <2>6. h[s \ {Pick(s)}] = g[s \ {Pick(s)}]
    BY <2>1, <2>5
  <2>. QED  BY <2>2, <2>3, <2>6
<1>3. \A s \in SUBSET S : h[s] = g[s]
  BY <1>1, <1>2
<1>4. g = [s \in SUBSET S |-> g[s]] /\ h = [s \in SUBSET S |-> h[s]]
  BY DEF Sums
<1>. QED  BY <1>3, <1>4

\* The sum of F over the elements of U.
SumOver(F, U) == (CHOOSE g : Sums(g, F, U))[U]

LEMMA SumOverIs ==
    ASSUME NEW S, IsFiniteSet(S), NEW F \in [S -> Int], NEW g, Sums(g, F, S), NEW U \in SUBSET S
    PROVE  SumOver(F, U) = g[U]
<1>. DEFINE h == CHOOSE h : Sums(h, F, U)
            Bad == {k \in Nat : \E s \in SUBSET U : Cardinality(s) = k /\ h[s] # g[s]}
<1>0. IsFiniteSet(U)
  BY FS_Subset
<1>1. Sums(h, F, U)
  BY <1>0, SumsExist
<1>. HIDE DEF h
<1>2. \A s \in SUBSET U : Cardinality(s) \in Nat
  BY <1>0, Pickings
<1>3. Bad = {}
  <2>. SUFFICES ASSUME Bad # {} PROVE FALSE
    OBVIOUS
  <2>1. PICK k \in Bad : \A j \in Nat : j < k => j \notin Bad
    BY LeastOf
  <2>2. PICK s \in SUBSET U : Cardinality(s) = k /\ h[s] # g[s]
    BY <2>1
  <2>3. h[s] = IF s = {} THEN 0 ELSE F[Pick(s)] + h[s \ {Pick(s)}]
    BY <1>1 DEF Sums
  <2>4. g[s] = IF s = {} THEN 0 ELSE F[Pick(s)] + g[s \ {Pick(s)}]
    <3>1. s \in SUBSET S
      OBVIOUS
    <3>. QED  BY <3>1 DEF Sums
  <2>5. s # {}
    BY <2>2, <2>3, <2>4
  <2>6. /\ s \ {Pick(s)} \in SUBSET U
        /\ Cardinality(s \ {Pick(s)}) \in Nat /\ Cardinality(s \ {Pick(s)}) < k
    BY <1>0, <1>2, <2>2, <2>5, Pickings
  <2>7. h[s \ {Pick(s)}] = g[s \ {Pick(s)}]
    BY <2>1, <2>6
  <2>. QED  BY <2>2, <2>3, <2>4, <2>7
<1>4. h[U] = g[U]
  BY <1>2, <1>3
<1>. QED  BY <1>4 DEF SumOver, h

\* The order in which the elements are taken does not matter.
LEMMA SumTakes ==
    ASSUME NEW S, IsFiniteSet(S), NEW F \in [S -> Int], NEW U \in SUBSET S
    PROVE  /\ SumOver(F, U) \in Int
           /\ U = {} => SumOver(F, U) = 0
           /\ \A x \in U : SumOver(F, U) = SumOver(F, U \ {x}) + F[x]
<1>. DEFINE g == CHOOSE g : Sums(g, F, S)
            Fine(s) == \A x \in s : g[s] = g[s \ {x}] + F[x]
            Bad == {k \in Nat : \E s \in SUBSET S : Cardinality(s) = k /\ ~Fine(s)}
<1>1. Sums(g, F, S)
  BY SumsExist
<1>. HIDE DEF g
<1>2. \A s \in SUBSET S : Cardinality(s) \in Nat /\ g[s] \in Int
  BY <1>1, Pickings, SumTypes
<1>3. \A s \in SUBSET S : g[s] = IF s = {} THEN 0 ELSE F[Pick(s)] + g[s \ {Pick(s)}]
  BY <1>1 DEF Sums
<1>4. Bad = {}
  <2>. SUFFICES ASSUME Bad # {} PROVE FALSE
    OBVIOUS
  <2>1. PICK k \in Bad : \A j \in Nat : j < k => j \notin Bad
    BY LeastOf
  <2>2. PICK s \in SUBSET S : Cardinality(s) = k /\ ~Fine(s)
    BY <2>1
  <2>3. PICK x \in s : g[s] # g[s \ {x}] + F[x]
    BY <2>2
  <2>. DEFINE p == Pick(s)
  <2>4. p \in s /\ g[s] = F[p] + g[s \ {p}]
    BY <1>3, <2>3, Pickings
  <2>5. s \ {p} \in SUBSET S /\ s \ {x} \in SUBSET S /\ F[p] \in Int /\ F[x] \in Int
    BY <2>4
  <2>. HIDE DEF p
  <2>6. p # x
    <3>. DEFINE q == s \ {x}
    <3>. SUFFICES ASSUME p = x PROVE FALSE
      OBVIOUS
    <3>1. g[s] = F[x] + g[q] /\ q \in SUBSET S
      BY <2>4, <2>5
    <3>2. g[s] # g[q] + F[x] /\ F[x] \in Int
      BY <2>3, <2>5
    <3>. HIDE DEF q
    <3>3. g[q] \in Int
      BY <1>2, <3>1
    <3>. QED  BY <3>1, <3>2, <3>3
  <2>7. /\ Cardinality(s \ {p}) = Cardinality(s) - 1 /\ Cardinality(s \ {x}) = Cardinality(s) - 1
    <3>1. IsFiniteSet(s)
      BY FS_Subset
    <3>. QED  BY <2>4, <3>1, FS_RemoveElement
  <2>8. Fine(s \ {p}) /\ Fine(s \ {x})
    <3>1. k \in Nat /\ Cardinality(s \ {p}) \in Nat /\ Cardinality(s \ {x}) \in Nat
      BY <1>2, <2>5
    <3>2. Cardinality(s \ {p}) < k /\ Cardinality(s \ {x}) < k
      BY <2>2, <2>7, <3>1
    <3>. QED  BY <2>1, <2>5, <3>1, <3>2
  <2>. DEFINE q == s \ {p}
              r == s \ {x}
              t == q \ {x}
  <2>9. t = r \ {p} /\ t \in SUBSET S
    BY <2>5
  <2>10. g[q] = g[t] + F[x] /\ g[r] = g[r \ {p}] + F[p]
    BY <2>4, <2>6, <2>8
  <2>11. g[s] = F[p] + g[q] /\ g[s] # g[r] + F[x]
    BY <2>3, <2>4
  <2>12. g[r] = g[t] + F[p]
    BY <2>9, <2>10
  <2>. HIDE DEF q, r, t
  <2>13. g[t] \in Int
    BY <1>2, <2>9
  <2>. QED  BY <2>5, <2>10, <2>11, <2>12, <2>13
<1>5. Fine(U)
  BY <1>2, <1>4
<1>6. \A s \in SUBSET S : SumOver(F, s) = g[s]
  BY <1>1, SumOverIs
<1>. HIDE DEF Bad
<1>. QED  BY <1>2, <1>3, <1>5, <1>6

\* A sum of terms that are bounded.
LEMMA SumBounded ==
    ASSUME NEW S, IsFiniteSet(S), NEW F \in [S -> Int], NEW G \in [S -> Int],
           NEW c \in Int, NEW U \in SUBSET S, \A x \in U : F[x] + G[x] <= c
    PROVE  SumOver(F, U) + SumOver(G, U) <= Cardinality(U) * c
<1>. DEFINE Fine(s) == (\A x \in s : F[x] + G[x] <= c)
                          => SumOver(F, s) + SumOver(G, s) <= Cardinality(s) * c
            Bad == {k \in Nat : \E s \in SUBSET S : Cardinality(s) = k /\ ~Fine(s)}
<1>1. \A s \in SUBSET S : Cardinality(s) \in Nat
  BY Pickings
<1>. SUFFICES ASSUME Bad # {} PROVE FALSE
  BY <1>1
<1>2. PICK k \in Bad : \A j \in Nat : j < k => j \notin Bad
  BY LeastOf
<1>3. PICK s \in SUBSET S : Cardinality(s) = k /\ ~Fine(s)
  BY <1>2
<1>4. s # {}
  <2>1. SUFFICES ASSUME s = {} PROVE FALSE
    OBVIOUS
  <2>2. SumOver(F, s) = 0 /\ SumOver(G, s) = 0
    BY <2>1, SumTakes
  <2>3. Cardinality(s) = 0
    BY <2>1, FS_EmptySet
  <2>4. Fine(s)
    BY <2>2, <2>3
  <2>. QED  BY <1>3, <2>4
<1>5. PICK x \in s : TRUE
  BY <1>4
<1>. DEFINE t == s \ {x}
<1>6. t \in SUBSET S /\ t \in SUBSET s /\ x \in S
  OBVIOUS
<1>7. Cardinality(t) = Cardinality(s) - 1
  <2>1. IsFiniteSet(s)
    BY FS_Subset
  <2>. QED  BY <2>1, FS_RemoveElement
<1>8. /\ SumOver(F, s) = SumOver(F, t) + F[x]
      /\ SumOver(G, s) = SumOver(G, t) + G[x]
  BY SumTakes
<1>. HIDE DEF t
<1>9. SumOver(F, t) \in Int /\ SumOver(G, t) \in Int
  BY <1>6, SumTakes
<1>10. F[x] \in Int /\ G[x] \in Int
  BY <1>6
<1>11. k \in Nat /\ Cardinality(t) \in Nat /\ Cardinality(t) < k /\ Cardinality(t) = k - 1
  BY <1>1, <1>3, <1>6, <1>7
<1>12. Fine(t)
  BY <1>2, <1>6, <1>11
<1>13. Fine(s)
  <2>. SUFFICES ASSUME \A y \in s : F[y] + G[y] <= c
                PROVE  SumOver(F, s) + SumOver(G, s) <= Cardinality(s) * c
    OBVIOUS
  <2>1. SumOver(F, t) + SumOver(G, t) <= (k - 1) * c
    BY <1>6, <1>11, <1>12
  <2>2. F[x] + G[x] <= c
    OBVIOUS
  <2>3. (k - 1) * c + c = k * c /\ (k - 1) * c \in Int /\ k * c \in Int
    BY <1>11
  <2>4. SumOver(F, s) + SumOver(G, s) <= (k - 1) * c + c
    BY <1>8, <1>9, <1>10, <2>1, <2>2, <2>3
  <2>. QED  BY <1>3, <2>3, <2>4
<1>. QED  BY <1>3, <1>13

\* A sum of sums.
LEMMA SumAdds ==
    ASSUME NEW S, IsFiniteSet(S), NEW F \in [S -> Int], NEW G \in [S -> Int],
           NEW H \in [S -> Int], NEW U \in SUBSET S, \A x \in U : H[x] = F[x] + G[x]
    PROVE  SumOver(H, U) = SumOver(F, U) + SumOver(G, U)
<1>. DEFINE Fine(s) == (\A x \in s : H[x] = F[x] + G[x])
                          => SumOver(H, s) = SumOver(F, s) + SumOver(G, s)
            Bad == {k \in Nat : \E s \in SUBSET S : Cardinality(s) = k /\ ~Fine(s)}
<1>1. \A s \in SUBSET S : Cardinality(s) \in Nat
  BY Pickings
<1>. SUFFICES ASSUME Bad # {} PROVE FALSE
  BY <1>1
<1>2. PICK k \in Bad : \A j \in Nat : j < k => j \notin Bad
  BY LeastOf
<1>3. PICK s \in SUBSET S : Cardinality(s) = k /\ ~Fine(s)
  BY <1>2
<1>4. s # {}
  <2>1. SUFFICES ASSUME s = {} PROVE FALSE
    OBVIOUS
  <2>2. SumOver(F, s) = 0 /\ SumOver(G, s) = 0 /\ SumOver(H, s) = 0
    BY <2>1, SumTakes
  <2>3. Cardinality(s) = 0
    BY <2>1, FS_EmptySet
  <2>4. Fine(s)
    BY <2>2, <2>3
  <2>. QED  BY <1>3, <2>4
<1>5. PICK x \in s : TRUE
  BY <1>4
<1>. DEFINE t == s \ {x}
<1>6. t \in SUBSET S /\ t \in SUBSET s /\ x \in S
  OBVIOUS
<1>7. Cardinality(t) = Cardinality(s) - 1
  <2>1. IsFiniteSet(s)
    BY FS_Subset
  <2>. QED  BY <2>1, FS_RemoveElement
<1>8. /\ SumOver(F, s) = SumOver(F, t) + F[x]
      /\ SumOver(G, s) = SumOver(G, t) + G[x]
      /\ SumOver(H, s) = SumOver(H, t) + H[x]
  BY SumTakes
<1>. HIDE DEF t
<1>9. SumOver(F, t) \in Int /\ SumOver(G, t) \in Int /\ SumOver(H, t) \in Int
  BY <1>6, SumTakes
<1>10. F[x] \in Int /\ G[x] \in Int /\ H[x] \in Int
  BY <1>6
<1>11. k \in Nat /\ Cardinality(t) \in Nat /\ Cardinality(t) < k /\ Cardinality(t) = k - 1
  BY <1>1, <1>3, <1>6, <1>7
<1>12. Fine(t)
  BY <1>2, <1>6, <1>11
<1>13. Fine(s)
  BY <1>6, <1>8, <1>9, <1>10, <1>12
<1>. QED  BY <1>3, <1>13

\* A set in two parts.
LEMMA SumSplits ==
    ASSUME NEW S, IsFiniteSet(S), NEW F \in [S -> Int], NEW U \in SUBSET S, NEW V \in SUBSET U
    PROVE  SumOver(F, U) = SumOver(F, U \ V) + SumOver(F, V)
<1>. DEFINE Fine(s) == SumOver(F, U) = SumOver(F, U \ s) + SumOver(F, s)
            Bad == {k \in Nat : \E s \in SUBSET U : Cardinality(s) = k /\ ~Fine(s)}
<1>0. IsFiniteSet(U)
  BY FS_Subset
<1>1. \A s \in SUBSET U : Cardinality(s) \in Nat
  BY <1>0, Pickings
<1>. SUFFICES ASSUME Bad # {} PROVE FALSE
  BY <1>1
<1>2. PICK k \in Bad : \A j \in Nat : j < k => j \notin Bad
  BY LeastOf
<1>3. PICK s \in SUBSET U : Cardinality(s) = k /\ ~Fine(s)
  BY <1>2
<1>4. s # {}
  <2>1. SUFFICES ASSUME s = {} PROVE FALSE
    OBVIOUS
  <2>. DEFINE q == U \ s
  <2>2. SumOver(F, s) = 0 /\ q = U /\ SumOver(F, U) \in Int
    BY <2>1, SumTakes
  <2>. HIDE DEF q
  <2>3. SumOver(F, U) = SumOver(F, q) + SumOver(F, s)
    BY <2>2
  <2>4. Fine(s)
    BY <2>3 DEF q
  <2>. QED  BY <1>3, <2>4
<1>5. PICK x \in s : TRUE
  BY <1>4
<1>. DEFINE t == s \ {x}
            r == U \ t
            q == U \ s
<1>6. t \in SUBSET S /\ t \in SUBSET U /\ x \in S /\ r \in SUBSET S /\ x \in r /\ r \ {x} = q
      /\ q \in SUBSET S /\ s \in SUBSET S
  OBVIOUS
<1>7. Cardinality(t) \in Nat /\ Cardinality(t) < k
  <2>1. IsFiniteSet(s)
    BY FS_Subset
  <2>2. Cardinality(t) = Cardinality(s) - 1
    BY <2>1, FS_RemoveElement
  <2>3. Cardinality(t) \in Nat /\ k \in Nat
    BY <1>1, <1>6
  <2>. QED  BY <1>3, <2>2, <2>3
<1>8. SumOver(F, s) = SumOver(F, t) + F[x]
  BY <1>6, SumTakes
<1>9. Fine(t)
  BY <1>2, <1>6, <1>7
<1>. HIDE DEF t
<1>10. SumOver(F, U) = SumOver(F, r) + SumOver(F, t)
  BY <1>9
<1>. HIDE DEF r, q
<1>11. SumOver(F, r) = SumOver(F, q) + F[x]
  BY <1>6, SumTakes
<1>12. /\ SumOver(F, t) \in Int /\ SumOver(F, r) \in Int /\ SumOver(F, q) \in Int
       /\ SumOver(F, s) \in Int /\ F[x] \in Int
  BY <1>6, SumTakes
<1>13. SumOver(F, U) = SumOver(F, q) + SumOver(F, s)
  BY <1>8, <1>10, <1>11, <1>12
<1>. QED  BY <1>3, <1>13 DEF q

\* One of the elements of a finite set has the largest value.
LEMMA TopOf ==
    ASSUME NEW S, IsFiniteSet(S), NEW F \in [S -> Int], S # {}
    PROVE  \E l \in S : \A k \in S : F[l] >= F[k]
<1>. DEFINE Fine(s) == s # {} => \E l \in s : \A k \in s : F[l] >= F[k]
            Bad == {k \in Nat : \E s \in SUBSET S : Cardinality(s) = k /\ ~Fine(s)}
<1>1. \A s \in SUBSET S : Cardinality(s) \in Nat
  BY Pickings
<1>2. Bad = {}
  <2>. SUFFICES ASSUME Bad # {} PROVE FALSE
    OBVIOUS
  <2>1. PICK k \in Bad : \A j \in Nat : j < k => j \notin Bad
    BY LeastOf
  <2>2. PICK s \in SUBSET S : Cardinality(s) = k /\ ~Fine(s)
    BY <2>1
  <2>3. PICK x \in s : TRUE
    BY <2>2
  <2>. DEFINE t == s \ {x}
  <2>4. t \in SUBSET S
    OBVIOUS
  <2>5. Cardinality(t) \in Nat /\ Cardinality(t) < k
    <3>1. IsFiniteSet(s)
      BY FS_Subset
    <3>2. Cardinality(t) = Cardinality(s) - 1
      BY <3>1, FS_RemoveElement
    <3>3. Cardinality(t) \in Nat /\ k \in Nat
      BY <1>1, <2>4
    <3>. QED  BY <2>2, <3>2, <3>3
  <2>6. Fine(t)
    BY <2>1, <2>4, <2>5
  <2>7. \A k1 \in s : F[k1] \in Int
    OBVIOUS
  <2>8. CASE t = {}
    <3>1. s = {x}
      BY <2>8
    <3>. QED  BY <2>2, <2>7, <3>1
  <2>9. CASE t # {}
    <3>1. PICK l \in t : \A y \in t : F[l] >= F[y]
      BY <2>6, <2>9
    <3>2. \A y \in s : y \in t \/ y = x
      OBVIOUS
    <3>3. l \in s
      OBVIOUS
    <3>. HIDE DEF t
    <3>4. CASE F[l] >= F[x]
      BY <2>2, <3>1, <3>2, <3>3, <3>4
    <3>5. CASE ~(F[l] >= F[x])
      <4>1. \A y \in s : F[x] >= F[y]
        BY <2>7, <3>1, <3>2, <3>3, <3>5
      <4>. QED  BY <2>2, <4>1
    <3>. QED  BY <3>4, <3>5
  <2>. QED  BY <2>8, <2>9
<1>3. Fine(S)
  BY <1>1, <1>2
<1>. QED  BY <1>3

-----------------------------------------------------------------------------
(* The fleet total. *)

\* The sum of F over the nodes.
Total(F) == (CHOOSE g : Sums(g, F, Nodes))[Nodes]

\* The sum is an integer, and none is less than nothing.
LEMMA TotalIs ==
    ASSUME NEW F \in [Nodes -> Int]
    PROVE  /\ Total(F) \in Int
           /\ (\A n \in Nodes : F[n] >= 0) => Total(F) >= 0
           /\ (\A n \in Nodes : F[n] = 0) => Total(F) = 0
<1>. DEFINE g == CHOOSE g : Sums(g, F, Nodes)
<1>1. Sums(g, F, Nodes)
  BY FlushBounds, SumsExist
<1>. HIDE DEF g
<1>2. /\ \A s \in SUBSET Nodes : g[s] \in Int
      /\ (\A n \in Nodes : F[n] >= 0) => \A s \in SUBSET Nodes : g[s] >= 0
      /\ (\A n \in Nodes : F[n] = 0) => \A s \in SUBSET Nodes : g[s] = 0
  BY <1>1, FlushBounds, SumTypes
<1>3. Total(F) = g[Nodes]
  BY DEF Total, g
<1>. QED  BY <1>2, <1>3

\* A change of one entry changes the sum by as much.
LEMMA TotalMoves ==
    ASSUME NEW F \in [Nodes -> Int], NEW G \in [Nodes -> Int], NEW n \in Nodes,
           \A m \in Nodes : m # n => G[m] = F[m]
    PROVE  Total(G) = Total(F) + (G[n] - F[n])
<1>. DEFINE g == CHOOSE g : Sums(g, F, Nodes)
            h == CHOOSE h : Sums(h, G, Nodes)
<1>1. Sums(g, F, Nodes) /\ Sums(h, G, Nodes)
  <2>1. (\E x : Sums(x, F, Nodes)) /\ (\E x : Sums(x, G, Nodes))
    BY FlushBounds, SumsExist
  <2>. QED  BY <2>1
<1>. HIDE DEF g, h
<1>2. h[Nodes] = g[Nodes] + (G[n] - F[n])
  BY <1>1, FlushBounds, SumsDiffer
<1>3. Total(F) = g[Nodes] /\ Total(G) = h[Nodes]
  BY DEF Total, g, h
<1>. QED  BY <1>2, <1>3

\* No entry exceeds a sum of naturals.
LEMMA TotalAbove ==
    ASSUME NEW F \in [Nodes -> Nat], NEW n \in Nodes
    PROVE  F[n] <= Total(F)
<1>. DEFINE G == [F EXCEPT ![n] = 0]
<1>1. G \in [Nodes -> Int] /\ F \in [Nodes -> Int] /\ G[n] = 0 /\ F[n] \in Nat
      /\ (\A m \in Nodes : m # n => G[m] = F[m]) /\ (\A m \in Nodes : G[m] >= 0)
  OBVIOUS
<1>. HIDE DEF G
<1>2. Total(G) = Total(F) + (G[n] - F[n])
  BY <1>1, TotalMoves
<1>3. Total(G) \in Int /\ Total(F) \in Int /\ Total(G) >= 0
  BY <1>1, TotalIs
<1>. QED  BY <1>1, <1>2, <1>3

\* What n has counted for window w and the store does not have.
Due(n, w) == Owed(n, w) + Sent(n, w)

\* The sum that FleetTotal takes.
LEMMA DueTotal ==
    ASSUME NEW w, \A n \in Nodes : Due(n, w) \in Int
    PROVE  MapThenSumSet(LAMBDA n : Owed(n, w) + Sent(n, w), Nodes) = Total([n \in Nodes |-> Due(n, w)])
<1>. DEFINE F == [n \in Nodes |-> Due(n, w)]
            h == CHOOSE h : Sums(h, F, Nodes)
            Folds(i) == i = [s \in SUBSET Nodes |->
                IF s = {} THEN 0
                ELSE LET x == CHOOSE x \in s : TRUE IN (Owed(x, w) + Sent(x, w)) + i[s \ {x}]]
<1>1. \A i : Folds(i) <=> Sums(i, F, Nodes)
  <2>. SUFFICES ASSUME NEW i PROVE Folds(i) <=> Sums(i, F, Nodes)
    OBVIOUS
  <2>1. \A s \in SUBSET Nodes : s # {} => Pick(s) \in Nodes
    BY DEF Pick
  <2>2. \A s \in SUBSET Nodes : s # {} => F[Pick(s)] = Owed(Pick(s), w) + Sent(Pick(s), w)
    BY <2>1 DEF Due
  <2>. HIDE DEF F
  <2>3. [s \in SUBSET Nodes |->
            IF s = {} THEN 0
            ELSE LET x == CHOOSE x \in s : TRUE IN (Owed(x, w) + Sent(x, w)) + i[s \ {x}]]
      = [s \in SUBSET Nodes |-> IF s = {} THEN 0 ELSE F[Pick(s)] + i[s \ {Pick(s)}]]
    BY <2>2 DEF Pick
  <2>. QED  BY <2>3 DEF Sums
<1>2. F \in [Nodes -> Int]
  OBVIOUS
<1>. HIDE DEF F
<1>3. Sums(h, F, Nodes)
  BY FlushBounds, SumsExist
<1>. HIDE DEF h
<1>4. Folds(CHOOSE i : Folds(i))
  <2>1. Folds(h)
    BY <1>1, <1>3
  <2>. HIDE DEF Folds
  <2>. QED  BY <2>1
<1>5. (CHOOSE i : Folds(i)) = h
  BY <1>1, <1>2, <1>3, <1>4, FlushBounds, SumsAgree
<1>6. MapThenSumSet(LAMBDA n : Owed(n, w) + Sent(n, w), Nodes) = (CHOOSE i : Folds(i))[Nodes]
  BY DEF MapThenSumSet, MapThenFoldSet
<1>7. Total(F) = h[Nodes]
  BY DEF Total, h
<1>. QED  BY <1>5, <1>6, <1>7 DEF F

-----------------------------------------------------------------------------
(* What the store has of each node. *)

\* Of what n counted since its boot, beyond the b that it then read, the store
\* has h[w] of window w: no refund in flight takes more than that back, the
\* baseline of the cell is b and h[w], but for what has landed unanswered, and
\* the requests that are open are counted.
Backed(n, b, h) ==
    /\ \A w \in Windows : h[w] + Sent(n, w) >= 0
    /\ \A w \in Windows : cell[n].win = w =>
          h[w] = cell[n].flushed + Landed(n, w) - b /\ cell[n].cur >= b + open[n][w]
    /\ \A w \in Windows : w > cell[n].win => open[n][w] = 0
    /\ \A s \in Writers : Holds(n, s) => flight[n][s].cur = cell[n].flushed + flight[n][s].delta

\* A step of n adds to what the store has of n no more than to the store, and
\* what is due from n changes by what is counted and not stored.
Carried(n, h) ==
    /\ \E b \in Nat, k \in [Windows -> Nat] :
          Backed(n, b, k)' /\ \A w \in Windows : k[w] - h[w] <= store'[w] - store[w]
    /\ \A w \in Windows : Due(n, w)' = Due(n, w) + (spent'[w] - spent[w]) - (store'[w] - store[w])

\* What TypeOK says of the numbers.
LEMMA NumberTypes ==
    ASSUME Typed, NEW n \in Nodes
    PROVE  /\ cell \in [Nodes -> Cells] /\ cell[n] \in Cells
           /\ cell[n].cur \in Nat /\ cell[n].flushed \in Nat /\ cell[n].win \in Windows \cup {-1}
           /\ \A w \in Windows : /\ Sent(n, w) \in Int /\ Landed(n, w) \in Int /\ Owed(n, w) \in Int
                                 /\ store[w] \in Nat /\ spent[w] \in Int /\ open[n][w] \in Nat
           /\ \A w \in Windows : w \in Int /\ w >= 0
           /\ store \in [Windows -> Nat] /\ spent \in [Windows -> Int]
           /\ open \in [Nodes -> [Windows -> Nat]] /\ flight \in [Nodes -> [Writers -> Snapshots]]
<1>1. cell[n] \in Cells /\ TypeOK
  BY DEF Typed, TypeOK
<1>2. \A w \in Windows : Sent(n, w) \in Int /\ Landed(n, w) \in Int /\ Owed(n, w) \in Int
  BY <1>1, Amounts
<1>3. cell[n].cur \in Nat /\ cell[n].flushed \in Nat /\ cell[n].win \in Windows \cup {-1}
  BY <1>1 DEF Cells
<1>4. \A w \in Windows : store[w] \in Nat /\ spent[w] \in Int /\ open[n][w] \in Nat
  BY <1>1 DEF TypeOK
<1>5. \A w \in Windows : w \in Int /\ w >= 0
  BY FlushBounds DEF Windows
<1>6. /\ cell \in [Nodes -> Cells] /\ store \in [Windows -> Nat] /\ spent \in [Windows -> Int]
      /\ open \in [Nodes -> [Windows -> Nat]] /\ flight \in [Nodes -> [Writers -> Snapshots]]
  BY <1>1 DEF TypeOK
<1>. QED  BY <1>1, <1>2, <1>3, <1>4, <1>5, <1>6

\* A node without a busy writer has nothing in flight.
LEMMA QuietWriters ==
    ASSUME NEW n \in Nodes, \A s \in Writers : ~Busy(n, s), NEW w \in Windows
    PROVE  Sent(n, w) = 0 /\ Landed(n, w) = 0
BY DEF Sent, Landed, InFlight, Busy, Writers

\* One with a single busy writer has what that one carries.
LEMMA OneWriter ==
    ASSUME Typed, NEW n \in Nodes, Orderly(n), NEW s \in Writers, Busy(n, s), NEW w \in Windows
    PROVE  /\ \A r \in Writers : r # s => ~Busy(n, r)
           /\ Sent(n, w) = InFlight(n, s, "sent", w) /\ Landed(n, w) = InFlight(n, s, "landed", w)
<1>1. \A r \in Writers : r # s => ~Busy(n, r)
  BY DEF Orderly, Writers
<1>2. \A r \in Writers, st \in {"sent", "landed"} : InFlight(n, r, st, w) \in Int
  BY DEF InFlight, Typed, TypeOK, Snapshots
<1>3. \A r \in Writers, st \in {"sent", "landed"} : r # s => InFlight(n, r, st, w) = 0
  BY <1>1 DEF InFlight, Busy
<1>. QED  BY <1>1, <1>2, <1>3 DEF Sent, Landed, Writers

\* A charge or an accrual.
LEMMA CountBacked ==
    ASSUME Typed, NEW n \in Nodes, NoStray(n), NoStray(n)', FlightSane(n), NEW w \in Windows,
           Charge(n, w) \/ Accrue(n, w), slips' = {},
           NEW b \in Nat, NEW h \in [Windows -> Nat], Backed(n, b, h)
    PROVE  Carried(n, h)
<1>. DEFINE c == Counted(cell[n], w)
<1>s. \A v \in Windows : Stray(n, v) = 0 /\ Stray(n, v)' = 0
  BY DEF NoStray, Stray, OfDropped, Writers
<1>0. /\ cell \in [Nodes -> Cells] /\ cell[n] \in Cells
      /\ cell[n].cur \in Nat /\ cell[n].flushed \in Nat /\ cell[n].win \in Windows \cup {-1}
      /\ \A v \in Windows : /\ Sent(n, v) \in Int /\ Landed(n, v) \in Int /\ Owed(n, v) \in Int
                            /\ store[v] \in Nat /\ spent[v] \in Int /\ open[n][v] \in Nat
      /\ \A v \in Windows : v \in Int /\ v >= 0
      /\ spent \in [Windows -> Int] /\ open \in [Nodes -> [Windows -> Nat]]
  BY NumberTypes
<1>1. /\ cell' = [cell EXCEPT ![n] = c] /\ cell'[n] = c /\ flight' = flight /\ store' = store
      /\ spent' = [spent EXCEPT ![c.win] = @ + 1]
      /\ Rolls(n, w) => "rolled" \in slips'
      /\ open'[n][w] = open[n][w] + 1 \/ (open[n][w] > 0 /\ open'[n][w] = open[n][w] - 1)
      /\ \A v \in Windows : v # w => open'[n][v] = open[n][v]
  <2>1. CountOn(n, w) /\ flight' = flight /\ store' = store
    BY DEF Charge, Accrue
  <2>2. /\ cell' = [cell EXCEPT ![n] = c]
        /\ spent' = [spent EXCEPT ![c.win] = @ + 1]
        /\ Rolls(n, w) => "rolled" \in slips'
    BY <2>1 DEF CountOn
  <2>3. /\ open'[n][w] = open[n][w] + 1 \/ (open[n][w] > 0 /\ open'[n][w] = open[n][w] - 1)
        /\ \A v \in Windows : v # w => open'[n][v] = open[n][v]
    BY <1>0 DEF Charge, Accrue
  <2>. HIDE DEF c
  <2>. QED  BY <1>0, <2>1, <2>2, <2>3
<1>2. \A v \in Windows : Sent(n, v)' = Sent(n, v) /\ Landed(n, v)' = Landed(n, v)
  BY <1>1, FlightFrameAmounts
<1>3. \A s \in Writers : Busy(n, s)' <=> Busy(n, s)
  BY <1>1 DEF Busy
<1>4. CASE w <= cell[n].win
  <2>1. c.win = cell[n].win /\ c.cur = cell[n].cur + 1 /\ c.flushed = cell[n].flushed
    BY <1>0, <1>4, CountedCell
  <2>2. cell[n].win \in Windows
    BY <1>0, <1>4
  <2>. HIDE DEF c
  <2>3. Backed(n, b, h)'
    <3>1. \A v \in Windows : h[v] + Sent(n, v)' >= 0
      BY <1>2 DEF Backed
    <3>2. ASSUME NEW v \in Windows, cell'[n].win = v
          PROVE  h[v] = cell'[n].flushed + Landed(n, v)' - b /\ cell'[n].cur >= b + open'[n][v]
      <4>1. /\ h[v] = cell[n].flushed + Landed(n, v) - b /\ cell[n].cur >= b + open[n][v]
            /\ open'[n][v] <= open[n][v] + 1 /\ open'[n][v] \in Int
        BY <1>0, <1>1, <2>1, <3>2 DEF Backed
      <4>. QED  BY <1>0, <1>1, <1>2, <2>1, <4>1
    <3>3. \A v \in Windows : v > cell'[n].win => open'[n][v] = 0
      BY <1>0, <1>1, <1>4, <2>1 DEF Backed
    <3>4. \A s \in Writers : Holds(n, s)' => flight'[n][s].cur = cell'[n].flushed + flight'[n][s].delta
      BY <1>1, <1>3, <2>1 DEF Backed, Holds
    <3>. QED  BY <3>1, <3>2, <3>3, <3>4 DEF Backed
  <2>4. ASSUME NEW v \in Windows
        PROVE  Due(n, v)' = Due(n, v) + (spent'[v] - spent[v]) - (store'[v] - store[v])
    <3>1. spent'[v] = IF v = cell[n].win THEN spent[v] + 1 ELSE spent[v]
      BY <1>0, <1>1, <2>1
    <3>2. Owed(n, v)' = IF v = cell[n].win THEN Owed(n, v) + 1 ELSE Owed(n, v)
      <4>1. /\ cell'[n].win = cell[n].win /\ cell'[n].cur = cell[n].cur + 1
            /\ cell'[n].flushed = cell[n].flushed
        BY <1>1, <2>1
      <4>2. /\ Sent(n, v)' = Sent(n, v) /\ Landed(n, v)' = Landed(n, v)
            /\ Sent(n, v) \in Int /\ Landed(n, v) \in Int
            /\ Stray(n, v) = 0 /\ Stray(n, v)' = 0
        BY <1>s, <1>0, <1>2
      <4>3. cell[n].cur \in Nat /\ cell[n].flushed \in Nat
        BY <1>0
      <4>4. CASE v = cell[n].win
        BY ONLY <4>1, <4>2, <4>3, <4>4 DEF Owed
      <4>5. CASE v # cell[n].win
        BY ONLY <4>1, <4>5 DEF Owed
      <4>. QED  BY <4>4, <4>5
    <3>. QED  BY <1>0, <1>1, <1>2, <3>1, <3>2 DEF Due
  <2>5. \A v \in Windows : h[v] - h[v] <= store'[v] - store[v]
    BY <1>0, <1>1
  <2>. QED  BY <2>3, <2>4, <2>5 DEF Carried
<1>5. CASE w > cell[n].win
  <2>1. c.win = w /\ c.cur = 1 /\ c.flushed = 0
    BY <1>0, <1>5, CountedCell
  <2>2. \A v \in Windows : Owed(n, v) = 0
    BY <1>1, <1>5 DEF Rolls
  <2>3. \A s \in Writers : Busy(n, s) => flight[n][s].win < w
    BY <1>0, <1>5 DEF FlightSane, NoStray, Typed, TypeOK, Snapshots
  <2>4. Sent(n, w) = 0 /\ Landed(n, w) = 0
    BY <2>3, <1>0 DEF Sent, Landed, InFlight, Busy, Writers, Typed, TypeOK, Snapshots
  <2>5. open[n][w] = 0 /\ open'[n][w] = 1
    BY <1>0, <1>1, <1>5 DEF Backed
  <2>. DEFINE k == [h EXCEPT ![w] = 0]
  <2>6. k \in [Windows -> Nat] /\ k[w] = 0 /\ \A v \in Windows : v # w => k[v] = h[v]
    OBVIOUS
  <2>. HIDE DEF c, k
  <2>7. Backed(n, 0, k)'
    <3>1. \A v \in Windows : k[v] + Sent(n, v)' >= 0
      BY <1>2, <2>4, <2>6 DEF Backed
    <3>2. \A v \in Windows : cell'[n].win = v =>
             k[v] = cell'[n].flushed + Landed(n, v)' - 0 /\ cell'[n].cur >= 0 + open'[n][v]
      BY <1>1, <1>2, <2>1, <2>4, <2>5, <2>6
    <3>3. \A v \in Windows : v > cell'[n].win => open'[n][v] = 0
      BY <1>0, <1>1, <1>5, <2>1 DEF Backed
    <3>4. \A s \in Writers : ~Holds(n, s)'
      BY <1>0, <1>1, <1>3, <2>1, <2>3 DEF Holds, Typed, TypeOK, Snapshots
    <3>. QED  BY <3>1, <3>2, <3>3, <3>4 DEF Backed
  <2>8. ASSUME NEW v \in Windows
        PROVE  Due(n, v)' = Due(n, v) + (spent'[v] - spent[v]) - (store'[v] - store[v])
    <3>1. spent'[v] = IF v = w THEN spent[v] + 1 ELSE spent[v]
      BY <1>0, <1>1, <2>1
    <3>2. Owed(n, v)' = IF v = w THEN 1 ELSE 0
      BY <1>s, <1>0, <1>1, <1>2, <2>1, <2>4 DEF Owed
    <3>. QED  BY <1>0, <1>1, <1>2, <2>2, <3>1, <3>2 DEF Due
  <2>9. \A v \in Windows : k[v] - h[v] <= store'[v] - store[v]
    BY <1>0, <1>1, <2>6
  <2>. QED  BY <2>6, <2>7, <2>8, <2>9 DEF Carried
<1>. QED  BY <1>0, <1>4, <1>5

\* A refund: the charge it takes back is counted in the cell.
LEMMA RefundBacked ==
    ASSUME Typed, NEW n \in Nodes, NoStray(n), NoStray(n)', NEW w \in Windows, Refund(n, w),
           NEW b \in Nat, NEW h \in [Windows -> Nat], Backed(n, b, h)
    PROVE  Carried(n, h)
<1>s. \A v \in Windows : Stray(n, v) = 0 /\ Stray(n, v)' = 0
  BY DEF NoStray, Stray, OfDropped, Writers
<1>0. /\ cell \in [Nodes -> Cells] /\ cell[n] \in Cells
      /\ cell[n].cur \in Nat /\ cell[n].flushed \in Nat /\ cell[n].win \in Windows \cup {-1}
      /\ \A v \in Windows : /\ Sent(n, v) \in Int /\ Landed(n, v) \in Int /\ Owed(n, v) \in Int
                            /\ store[v] \in Nat /\ spent[v] \in Int /\ open[n][v] \in Nat
      /\ spent \in [Windows -> Int] /\ open \in [Nodes -> [Windows -> Nat]]
  BY NumberTypes
<1>1. /\ flight' = flight /\ store' = store /\ open[n][w] > 0
      /\ open'[n][w] = open[n][w] - 1
      /\ \A v \in Windows : v # w => open'[n][v] = open[n][v]
  BY <1>0 DEF Refund
<1>2. \A v \in Windows : Sent(n, v)' = Sent(n, v) /\ Landed(n, v)' = Landed(n, v)
  BY <1>1, FlightFrameAmounts
<1>3. \A s \in Writers : Busy(n, s)' <=> Busy(n, s)
  BY <1>1 DEF Busy
<1>4. /\ cell'[n].win = cell[n].win /\ cell'[n].flushed = cell[n].flushed
      /\ cell'[n].cur = IF cell[n].win = w THEN cell[n].cur - 1 ELSE cell[n].cur
      /\ \A v \in Windows : spent'[v] = IF cell[n].win = w /\ v = w THEN spent[v] - 1 ELSE spent[v]
  <2>1. CASE cell[n].win # w
    BY <2>1 DEF Refund
  <2>2. CASE cell[n].win = w
    <3>1. cell[n].cur >= b + open[n][w]
      BY <2>2 DEF Backed
    <3>2. cell[n].cur > 0 /\ cell[n].cur - 1 \in Nat
      BY <1>0, <1>1, <3>1
    <3>3. /\ cell' = [cell EXCEPT ![n] = [cell[n] EXCEPT !.cur = cell[n].cur - 1, !.dirty = TRUE]]
          /\ spent' = [spent EXCEPT ![w] = @ - 1]
      BY <1>0, <2>2, <3>2 DEF Refund
    <3>4. cell'[n] = [cell[n] EXCEPT !.cur = cell[n].cur - 1, !.dirty = TRUE]
      BY <1>0, <3>3
    <3>5. /\ cell'[n].win = cell[n].win /\ cell'[n].flushed = cell[n].flushed
          /\ cell'[n].cur = cell[n].cur - 1
      BY <1>0, <3>2, <3>4, CellFields
    <3>. QED  BY <1>0, <2>2, <3>3, <3>5
  <2>. QED  BY <2>1, <2>2
<1>5. Backed(n, b, h)'
  <2>1. \A v \in Windows : h[v] + Sent(n, v)' >= 0
    BY <1>2 DEF Backed
  <2>2. ASSUME NEW v \in Windows, cell'[n].win = v
        PROVE  h[v] = cell'[n].flushed + Landed(n, v)' - b /\ cell'[n].cur >= b + open'[n][v]
    <3>1. h[v] = cell[n].flushed + Landed(n, v) - b /\ cell[n].cur >= b + open[n][v]
      BY <1>4, <2>2 DEF Backed
    <3>. QED  BY <1>0, <1>1, <1>2, <1>4, <2>2, <3>1
  <2>3. \A v \in Windows : v > cell'[n].win => open'[n][v] = 0
    BY <1>0, <1>1, <1>4 DEF Backed
  <2>4. \A s \in Writers : Holds(n, s)' => flight'[n][s].cur = cell'[n].flushed + flight'[n][s].delta
    BY <1>1, <1>3, <1>4 DEF Backed, Holds
  <2>. QED  BY <2>1, <2>2, <2>3, <2>4 DEF Backed
<1>6. ASSUME NEW v \in Windows
      PROVE  Due(n, v)' = Due(n, v) + (spent'[v] - spent[v]) - (store'[v] - store[v])
  <2>1. Owed(n, v)' = IF cell[n].win = w /\ v = w THEN Owed(n, v) - 1 ELSE Owed(n, v)
    BY <1>s, <1>0, <1>2, <1>4 DEF Owed
  <2>. QED  BY <1>0, <1>1, <1>2, <1>4, <2>1 DEF Due
<1>7. \A v \in Windows : h[v] - h[v] <= store'[v] - store[v]
  BY <1>0, <1>1
<1>. QED  BY <1>5, <1>6, <1>7 DEF Carried

\* A snapshot: the delta is sent, or there is none.
LEMMA SnapshotBacked ==
    ASSUME Typed, NEW n \in Nodes, NoStray(n), NoStray(n)', CellSane(n), NEW s \in Writers, Snapshot(n, s),
           cell[n].dirty => \A r \in Writers : ~Busy(n, r),
           open' = open, store' = store, spent' = spent,
           NEW b \in Nat, NEW h \in [Windows -> Nat], Backed(n, b, h)
    PROVE  Carried(n, h)
<1>. DEFINE c == cell[n]
            d == c.cur - c.flushed
            f == [st |-> "sent", win |-> c.win, delta |-> d, cur |-> c.cur, stray |-> FALSE]
<1>s. \A v \in Windows : Stray(n, v) = 0 /\ Stray(n, v)' = 0
  BY DEF NoStray, Stray, OfDropped, Writers
<1>0. /\ cell \in [Nodes -> Cells] /\ c \in Cells /\ c.cur \in Nat /\ c.flushed \in Nat
      /\ \A v \in Windows : /\ Sent(n, v) \in Int /\ Landed(n, v) \in Int /\ Owed(n, v) \in Int
                            /\ store[v] \in Nat /\ spent[v] \in Int /\ open[n][v] \in Nat
      /\ flight \in [Nodes -> [Writers -> Snapshots]]
  BY NumberTypes
<1>1. \A v \in Windows : h[v] - h[v] <= store'[v] - store[v]
  BY <1>0
<1>2. CASE c.dirty => d = 0
  <2>1. \/ cell' = cell /\ flight' = flight
        \/ cell' = [cell EXCEPT ![n] = [c EXCEPT !.dirty = FALSE]] /\ flight' = flight
    BY <1>2 DEF Snapshot
  <2>2. cell'[n] = c \/ cell'[n] = [c EXCEPT !.dirty = FALSE]
    BY <1>0, <2>1
  <2>3. cell'[n].win = c.win /\ cell'[n].cur = c.cur /\ cell'[n].flushed = c.flushed /\ flight' = flight
    BY <1>0, <2>1, <2>2, CellFields
  <2>4. \A v \in Windows : Sent(n, v)' = Sent(n, v) /\ Landed(n, v)' = Landed(n, v)
    BY <2>3, FlightFrameAmounts
  <2>5. \A v \in Windows : Owed(n, v)' = Owed(n, v)
    BY <1>s, <2>3, <2>4 DEF Owed
  <2>6. Backed(n, b, h)'
    BY <2>3, <2>4 DEF Backed, Holds, Busy
  <2>7. \A v \in Windows : Due(n, v)' = Due(n, v) + (spent'[v] - spent[v]) - (store'[v] - store[v])
    BY <1>0, <2>4, <2>5 DEF Due
  <2>. QED  BY <1>1, <2>6, <2>7 DEF Carried
<1>3. CASE c.dirty /\ d # 0
  <2>1. /\ cell' = [cell EXCEPT ![n] = [c EXCEPT !.dirty = FALSE]]
        /\ flight' = [flight EXCEPT ![n][s] = f]
    BY <1>3 DEF Snapshot
  <2>2. cell'[n] = [c EXCEPT !.dirty = FALSE]
    BY <1>0, <2>1
  <2>3. cell'[n].win = c.win /\ cell'[n].cur = c.cur /\ cell'[n].flushed = c.flushed
    BY <1>0, <2>2, CellFields
  <2>4. /\ flight'[n][s].st = "sent" /\ flight'[n][s].win = c.win
        /\ flight'[n][s].delta = d /\ flight'[n][s].cur = c.cur
        /\ \A r \in Writers : r # s => flight'[n][r] = flight[n][r]
    BY <1>0, <2>1
  <2>5. \A r \in Writers : r # s => ~Busy(n, r)'
    BY <1>3, <2>4 DEF Busy
  <2>6. \A v \in Windows : Sent(n, v) = 0 /\ Landed(n, v) = 0
    BY <1>3, QuietWriters
  <2>7. \A v \in Windows : Sent(n, v)' = (IF v = c.win THEN d ELSE 0) /\ Landed(n, v)' = 0
    <3>. SUFFICES ASSUME NEW v \in Windows
                  PROVE  Sent(n, v)' = (IF v = c.win THEN d ELSE 0) /\ Landed(n, v)' = 0
      OBVIOUS
    <3>1. \A r \in Writers, st \in {"sent", "landed"} :
             InFlight(n, r, st, v)' = IF r = s /\ st = "sent" /\ v = c.win THEN d ELSE 0
      BY <2>4, <2>5 DEF InFlight, Busy
    <3>2. d \in Int
      BY <1>0
    <3>. HIDE DEF d
    <3>. QED  BY <3>1, <3>2 DEF Sent, Landed, Writers
  <2>8. Backed(n, b, h)'
    <3>1. ASSUME NEW v \in Windows PROVE h[v] + Sent(n, v)' >= 0
      <4>1. CASE v = c.win
        <5>1. h[v] = c.flushed + Landed(n, v) - b /\ c.cur >= b + open[n][v]
          BY <4>1 DEF Backed
        <5>. QED  BY <1>0, <2>6, <2>7, <4>1, <5>1
      <4>2. CASE v # c.win
        BY <2>7, <4>2
      <4>. QED  BY <4>1, <4>2
    <3>2. \A v \in Windows : cell'[n].win = v =>
             h[v] = cell'[n].flushed + Landed(n, v)' - b /\ cell'[n].cur >= b + open'[n][v]
      BY <2>3, <2>6, <2>7 DEF Backed
    <3>3. \A v \in Windows : v > cell'[n].win => open'[n][v] = 0
      BY <2>3 DEF Backed
    <3>4. \A r \in Writers : Holds(n, r)' => flight'[n][r].cur = cell'[n].flushed + flight'[n][r].delta
      BY <1>0, <2>3, <2>4, <2>5 DEF Holds
    <3>. QED  BY <3>1, <3>2, <3>3, <3>4 DEF Backed
  <2>9. ASSUME NEW v \in Windows
        PROVE  Due(n, v)' = Due(n, v) + (spent'[v] - spent[v]) - (store'[v] - store[v])
    <3>1. Owed(n, v) = (IF v = c.win THEN d ELSE 0) /\ Owed(n, v)' = 0
      BY <1>s, <1>0, <2>3, <2>6, <2>7 DEF Owed
    <3>. QED  BY <1>0, <2>6, <2>7, <3>1 DEF Due
  <2>. QED  BY <1>1, <2>8, <2>9 DEF Carried
<1>. QED  BY <1>2, <1>3

\* The write: the store never has to floor the sum at zero.
LEMMA LandBacked ==
    ASSUME Typed, NEW n \in Nodes, NoStray(n), NoStray(n)', Orderly(n), NEW s \in Writers, Land(n, s),
           NEW b \in Nat, NEW h \in [Windows -> Nat], Backed(n, b, h),
           \A w \in Windows : h[w] <= store[w]
    PROVE  Carried(n, h)
<1>s. \A v \in Windows : Stray(n, v) = 0 /\ Stray(n, v)' = 0
  BY DEF NoStray, Stray, OfDropped, Writers
<1>0. /\ cell[n] \in Cells /\ cell[n].cur \in Nat /\ cell[n].flushed \in Nat
      /\ \A v \in Windows : /\ Sent(n, v) \in Int /\ Landed(n, v) \in Int /\ Owed(n, v) \in Int
                            /\ store[v] \in Nat /\ spent[v] \in Int /\ open[n][v] \in Nat
      /\ flight \in [Nodes -> [Writers -> Snapshots]] /\ store \in [Windows -> Nat]
      /\ flight[n][s] \in Snapshots
  BY NumberTypes
<1>. PICK x \in Windows : x = flight[n][s].win
  BY <1>0 DEF Snapshots
<1>. PICK e \in Int : e = flight[n][s].delta
  BY <1>0 DEF Snapshots
<1>1. /\ flight[n][s].st = "sent" /\ cell' = cell /\ open' = open /\ spent' = spent
      /\ flight' = [flight EXCEPT ![n][s] = [flight[n][s] EXCEPT !.st = "landed"]]
      /\ store' = [store EXCEPT ![x] = IF @ + e > 0 THEN @ + e ELSE 0]
  BY DEF Land
<1>2. /\ flight'[n][s].st = "landed" /\ flight'[n][s].win = x
      /\ flight'[n][s].delta = e /\ flight'[n][s].cur = flight[n][s].cur
      /\ \A r \in Writers : r # s => flight'[n][r] = flight[n][r]
  <2>1. flight'[n][s] = [flight[n][s] EXCEPT !.st = "landed"]
    BY <1>0, <1>1
  <2>. QED  BY <1>0, <1>1, <2>1 DEF Snapshots
<1>3. Busy(n, s) /\ \A r \in Writers : r # s => ~Busy(n, r) /\ ~Busy(n, r)'
  BY <1>1, <1>2, OneWriter DEF Busy
<1>4. \A v \in Windows : /\ Sent(n, v) = (IF v = x THEN e ELSE 0) /\ Landed(n, v) = 0
                         /\ Sent(n, v)' = 0 /\ Landed(n, v)' = (IF v = x THEN e ELSE 0)
  <2>. SUFFICES ASSUME NEW v \in Windows
                PROVE  /\ Sent(n, v) = (IF v = x THEN e ELSE 0) /\ Landed(n, v) = 0
                       /\ Sent(n, v)' = 0 /\ Landed(n, v)' = (IF v = x THEN e ELSE 0)
    OBVIOUS
  <2>1. \A r \in Writers, st \in {"sent", "landed"} :
           /\ InFlight(n, r, st, v) = IF r = s /\ st = "sent" /\ v = x THEN e ELSE 0
           /\ InFlight(n, r, st, v)' = IF r = s /\ st = "landed" /\ v = x THEN e ELSE 0
    BY <1>1, <1>2, <1>3 DEF InFlight, Busy
  <2>. QED  BY <2>1 DEF Sent, Landed, Writers
<1>5. h[x] + e >= 0 /\ h[x] \in Nat /\ h[x] <= store[x]
  BY <1>4 DEF Backed
<1>6. \A v \in Windows : store'[v] = IF v = x THEN store[v] + e ELSE store[v]
  <2>1. store[x] \in Nat
    BY <1>0
  <2>2. (IF store[x] + e > 0 THEN store[x] + e ELSE 0) = store[x] + e
    BY <1>5, <2>1
  <2>3. store' = [store EXCEPT ![x] = store[x] + e]
    BY <1>1, <2>2
  <2>. QED  BY <1>0, <2>3
<1>. DEFINE k == [h EXCEPT ![x] = h[x] + e]
<1>7. k \in [Windows -> Nat] /\ \A v \in Windows : k[v] = IF v = x THEN h[v] + e ELSE h[v]
  BY <1>5
<1>. HIDE DEF k
<1>8. Backed(n, b, k)'
  <2>1. \A v \in Windows : k[v] + Sent(n, v)' >= 0
    BY <1>4, <1>7
  <2>2. ASSUME NEW v \in Windows, cell'[n].win = v
        PROVE  k[v] = cell'[n].flushed + Landed(n, v)' - b /\ cell'[n].cur >= b + open'[n][v]
    <3>1. h[v] = cell[n].flushed + Landed(n, v) - b /\ cell[n].cur >= b + open[n][v]
      BY <1>1, <2>2 DEF Backed
    <3>2. cell'[n].flushed = cell[n].flushed /\ cell'[n].cur = cell[n].cur /\ open'[n][v] = open[n][v]
      BY <1>1
    <3>3. /\ Landed(n, v) = 0 /\ Landed(n, v)' = (IF v = x THEN e ELSE 0)
          /\ k[v] = (IF v = x THEN h[v] + e ELSE h[v])
      BY <1>4, <1>7
    <3>4. h[v] \in Nat /\ cell[n].flushed \in Nat
      BY <1>0
    <3>5. k[v] = cell'[n].flushed + Landed(n, v)' - b
      BY <3>1, <3>2, <3>3, <3>4
    <3>. QED  BY <3>1, <3>2, <3>5
  <2>3. \A v \in Windows : v > cell'[n].win => open'[n][v] = 0
    BY <1>1 DEF Backed
  <2>4. \A r \in Writers : Holds(n, r)' => flight'[n][r].cur = cell'[n].flushed + flight'[n][r].delta
    BY <1>1, <1>2, <1>3 DEF Backed, Holds
  <2>. QED  BY <2>1, <2>2, <2>3, <2>4 DEF Backed
<1>9. ASSUME NEW v \in Windows
      PROVE  Due(n, v)' = Due(n, v) + (spent'[v] - spent[v]) - (store'[v] - store[v])
  <2>1. Owed(n, v)' = Owed(n, v)
    <3>1. Sent(n, v)' + Landed(n, v)' = Sent(n, v) + Landed(n, v)
      BY <1>4
    <3>2. /\ Sent(n, v) \in Int /\ Landed(n, v) \in Int /\ Sent(n, v)' \in Int /\ Landed(n, v)' \in Int
      BY <1>0, <1>4
    <3>3. cell'[n] = cell[n]
      BY <1>1
    <3>. QED  BY <1>s, <1>0, <3>1, <3>2, <3>3 DEF Owed
  <2>2. /\ Sent(n, v) = (IF v = x THEN e ELSE 0) /\ Sent(n, v)' = 0 /\ spent'[v] = spent[v]
        /\ store'[v] = (IF v = x THEN store[v] + e ELSE store[v])
    BY <1>1, <1>4, <1>6
  <2>3. Owed(n, v) \in Int /\ store[v] \in Nat /\ spent[v] \in Int
    BY <1>0
  <2>. QED  BY <2>1, <2>2, <2>3 DEF Due
<1>10. \A v \in Windows : k[v] - h[v] <= store'[v] - store[v]
  BY <1>0, <1>6, <1>7
<1>. QED  BY <1>7, <1>8, <1>9, <1>10 DEF Carried

\* The answer: the baseline becomes what has landed, or the write is taken back.
LEMMA AnswerBacked ==
    ASSUME Typed, NEW n \in Nodes, NoStray(n), NoStray(n)', Orderly(n), NEW s \in Writers, Ack(n, s) \/ Fail(n, s),
           slips' = {},
           NEW b \in Nat, NEW h \in [Windows -> Nat], Backed(n, b, h)
    PROVE  Carried(n, h)
<1>s. \A v \in Windows : Stray(n, v) = 0 /\ Stray(n, v)' = 0
  BY DEF NoStray, Stray, OfDropped, Writers
<1>0. /\ cell[n] \in Cells /\ cell[n].cur \in Nat /\ cell[n].flushed \in Nat
      /\ \A v \in Windows : /\ Sent(n, v) \in Int /\ Landed(n, v) \in Int /\ Owed(n, v) \in Int
                            /\ store[v] \in Nat /\ spent[v] \in Int /\ open[n][v] \in Nat
      /\ flight \in [Nodes -> [Writers -> Snapshots]]
      /\ flight[n][s] \in Snapshots
  BY NumberTypes
<1>. PICK x \in Windows : x = flight[n][s].win
  BY <1>0 DEF Snapshots
<1>. PICK e \in Int : e = flight[n][s].delta
  BY <1>0 DEF Snapshots
<1>1. /\ flight' = [flight EXCEPT ![n][s] = Idle] /\ open' = open /\ spent' = spent
      /\ store' = store /\ Busy(n, s)
  BY DEF Ack, Fail, Busy
<1>2. /\ Ack(n, s) => flight[n][s].st = "landed"
      /\ ~Ack(n, s) => Fail(n, s) /\ flight[n][s].st = "sent" /\ cell[n].win = x
  BY <1>0 DEF Ack, Fail, FailSlips, Snapshots
<1>3. \A r \in Writers : ~Busy(n, r)'
  <2>1. \A r \in Writers : r # s => ~Busy(n, r)
    BY <1>1 DEF Orderly, Writers
  <2>2. /\ flight'[n][s] = Idle
        /\ \A r \in Writers : r # s => flight'[n][r] = flight[n][r]
    BY <1>0, <1>1
  <2>. QED  BY <2>1, <2>2 DEF Busy, Idle
<1>4. \A v \in Windows : Sent(n, v)' = 0 /\ Landed(n, v)' = 0
  BY <1>3 DEF Sent, Landed, InFlight, Busy, Writers
<1>5. \A v \in Windows :
         /\ Sent(n, v) = IF flight[n][s].st = "sent" /\ v = x THEN e ELSE 0
         /\ Landed(n, v) = IF flight[n][s].st = "landed" /\ v = x THEN e ELSE 0
  BY <1>1, OneWriter DEF InFlight
<1>6. /\ cell'[n].win = cell[n].win /\ cell'[n].cur = cell[n].cur
      /\ cell[n].win = x /\ Ack(n, s) => cell'[n].flushed = cell[n].flushed + e
      /\ ~(cell[n].win = x /\ Ack(n, s)) => cell'[n].flushed = cell[n].flushed
  <2>1. /\ cell'[n].win = cell[n].win /\ cell'[n].cur = cell[n].cur
        /\ cell[n].win # flight[n][s].win => cell'[n] = cell[n]
        /\ Fail(n, s) => cell'[n].flushed = cell[n].flushed
        /\ Ack(n, s) /\ cell[n].win = flight[n][s].win => cell'[n].flushed = flight[n][s].cur
    BY AnswerShape
  <2>2. cell[n].win = x => flight[n][s].cur = cell[n].flushed + e
    BY <1>1 DEF Backed, Holds
  <2>. QED  BY <1>2, <2>1, <2>2
<1>7. Backed(n, b, h)'
  <2>1. \A v \in Windows : h[v] + Sent(n, v)' >= 0
    BY <1>4
  <2>2. ASSUME NEW v \in Windows, cell'[n].win = v
        PROVE  h[v] = cell'[n].flushed + Landed(n, v)' - b /\ cell'[n].cur >= b + open'[n][v]
    <3>1. h[v] = cell[n].flushed + Landed(n, v) - b /\ cell[n].cur >= b + open[n][v]
      BY <1>6, <2>2 DEF Backed
    <3>2. cell'[n].flushed = cell[n].flushed + Landed(n, v)
      BY <1>0, <1>2, <1>5, <1>6, <2>2
    <3>. QED  BY <1>0, <1>1, <1>4, <1>6, <3>1, <3>2
  <2>3. \A v \in Windows : v > cell'[n].win => open'[n][v] = 0
    BY <1>1, <1>6 DEF Backed
  <2>4. \A r \in Writers : ~Holds(n, r)'
    BY <1>3 DEF Holds
  <2>. QED  BY <2>1, <2>2, <2>3, <2>4 DEF Backed
<1>8. ASSUME NEW v \in Windows
      PROVE  Due(n, v)' = Due(n, v) + (spent'[v] - spent[v]) - (store'[v] - store[v])
  <2>1. Owed(n, v)' + Sent(n, v)' = Owed(n, v) + Sent(n, v)
    BY <1>s, <1>0, <1>2, <1>4, <1>5, <1>6 DEF Owed
  <2>. QED  BY <1>0, <1>1, <2>1 DEF Due
<1>9. \A v \in Windows : h[v] - h[v] <= store'[v] - store[v]
  BY <1>0, <1>1
<1>. QED  BY <1>7, <1>8, <1>9 DEF Carried

\* A node that goes down with nothing owed.
LEMMA GoneBacked ==
    ASSUME Typed, NEW n \in Nodes, NoStray(n), NoStray(n)', Gone(n), slips' = {}, store' = store, spent' = spent,
           NEW h \in [Windows -> Nat]
    PROVE  Carried(n, h)
<1>s. \A v \in Windows : Stray(n, v) = 0 /\ Stray(n, v)' = 0
  BY DEF NoStray, Stray, OfDropped, Writers
<1>0. /\ \A v \in Windows : /\ Sent(n, v) \in Int /\ Owed(n, v) \in Int
                            /\ store[v] \in Nat /\ spent[v] \in Int
      /\ \A v \in Windows : v \in Int /\ v >= 0
  BY NumberTypes
<1>1. \A v \in Windows : Owed(n, v) = 0 /\ Sent(n, v) = 0
  BY DEF Gone
<1>2. /\ cell'[n].win = -1 /\ \A v \in Windows : open'[n][v] = 0
      /\ \A s \in Writers : ~Busy(n, s)'
  BY DEF Gone, Typed, TypeOK, NoCell, Fresh, Idle, Busy
<1>3. \A v \in Windows : Sent(n, v)' = 0 /\ Landed(n, v)' = 0
  BY <1>2 DEF Sent, Landed, InFlight, Busy, Writers
<1>4. \A v \in Windows : Owed(n, v)' = 0
  BY <1>s, <1>0, <1>2 DEF Owed
<1>. DEFINE k == [v \in Windows |-> 0]
<1>5. k \in [Windows -> Nat] /\ \A v \in Windows : k[v] = 0
  OBVIOUS
<1>. HIDE DEF k
<1>6. Backed(n, 0, k)'
  BY <1>0, <1>2, <1>3, <1>5 DEF Backed, Holds
<1>7. \A v \in Windows : Due(n, v)' = Due(n, v) + (spent'[v] - spent[v]) - (store'[v] - store[v])
  BY <1>0, <1>1, <1>3, <1>4 DEF Due
<1>8. \A v \in Windows : k[v] - h[v] <= store'[v] - store[v]
  BY <1>0, <1>5
<1>. QED  BY <1>5, <1>6, <1>7, <1>8 DEF Carried

\* A cell that is dropped with nothing owed, on its way or open.
LEMMA DropBacked ==
    ASSUME Typed, NEW n \in Nodes, NoStray(n), NoStray(n)', Drop(n), slips' = {},
           NEW h \in [Windows -> Nat]
    PROVE  Carried(n, h)
<1>s. \A v \in Windows : Stray(n, v) = 0 /\ Stray(n, v)' = 0
  BY DEF NoStray, Stray, OfDropped, Writers
<1>0. /\ \A v \in Windows : /\ Sent(n, v) \in Int /\ Owed(n, v) \in Int
                            /\ store[v] \in Nat /\ spent[v] \in Int
      /\ \A v \in Windows : v \in Int /\ v >= 0
      /\ cell \in [Nodes -> Cells] /\ flight \in [Nodes -> [Writers -> Snapshots]]
  BY NumberTypes
<1>1. /\ \A v \in Windows : Owed(n, v) = 0 /\ open[n][v] = 0
      /\ \A s \in Writers : flight[n][s] = Idle
      /\ store' = store /\ spent' = spent /\ open' = open
  BY DEF Drop
<1>2. /\ cell'[n].win = -1 /\ \A v \in Windows : open'[n][v] = 0
      /\ \A s \in Writers : ~Busy(n, s) /\ ~Busy(n, s)'
  <2>1. cell'[n] = NoCell
    BY <1>0 DEF Drop
  <2>2. \A s \in Writers : flight'[n][s].st = flight[n][s].st
    BY <1>0 DEF Drop, Snapshots
  <2>. QED  BY <1>1, <2>1, <2>2 DEF NoCell, Fresh, Idle, Busy
<1>3. \A v \in Windows : Sent(n, v) = 0 /\ Sent(n, v)' = 0 /\ Landed(n, v)' = 0
  BY <1>2 DEF Sent, Landed, InFlight, Busy, Writers
<1>4. \A v \in Windows : Owed(n, v)' = 0
  BY <1>0, <1>2 DEF Owed
<1>. DEFINE k == [v \in Windows |-> 0]
<1>5. k \in [Windows -> Nat] /\ \A v \in Windows : k[v] = 0
  OBVIOUS
<1>. HIDE DEF k
<1>6. Backed(n, 0, k)'
  BY <1>0, <1>2, <1>3, <1>5 DEF Backed, Holds
<1>7. \A v \in Windows : Due(n, v)' = Due(n, v) + (spent'[v] - spent[v]) - (store'[v] - store[v])
  BY <1>0, <1>1, <1>3, <1>4 DEF Due
<1>8. \A v \in Windows : k[v] - h[v] <= store'[v] - store[v]
  BY <1>0, <1>1, <1>5
<1>. QED  BY <1>5, <1>6, <1>7, <1>8 DEF Carried

\* hydrate_budgets: the cell starts at what the store has of the fleet.
LEMMA BootBacked ==
    ASSUME Typed, NEW n \in Nodes, NoStray(n), NoStray(n)', FlightSane(n), Boot(n),
           NEW b \in Nat, NEW h \in [Windows -> Nat], Backed(n, b, h)
    PROVE  Carried(n, h)
<1>s. \A v \in Windows : Stray(n, v) = 0 /\ Stray(n, v)' = 0
  BY DEF NoStray, Stray, OfDropped, Writers
<1>0. /\ \A v \in Windows : /\ Sent(n, v) \in Int /\ Owed(n, v) \in Int
                            /\ store[v] \in Nat /\ spent[v] \in Int
      /\ \A v \in Windows : v \in Int /\ v >= 0
      /\ cell \in [Nodes -> Cells] /\ window \in Windows
  BY NumberTypes DEF Typed, TypeOK
<1>1. /\ cell[n].win = -1 /\ flight' = flight /\ open' = open /\ store' = store /\ spent' = spent
      /\ \A s \in Writers : ~Busy(n, s) /\ ~Busy(n, s)'
  BY DEF Boot, FlightSane, Busy
<1>2. \A v \in Windows : open[n][v] = 0
  BY <1>0, <1>1 DEF Backed
<1>3. \A v \in Windows : Sent(n, v) = 0 /\ Landed(n, v) = 0 /\ Sent(n, v)' = 0 /\ Landed(n, v)' = 0
  BY <1>1 DEF Sent, Landed, InFlight, Busy, Writers
<1>4. \/ cell'[n].win = -1
      \/ cell'[n].win = window /\ cell'[n].cur = store[window] /\ cell'[n].flushed = store[window]
  BY <1>0 DEF Boot, NoCell, Fresh
<1>5. \A v \in Windows : Owed(n, v) = 0 /\ Owed(n, v)' = 0
  BY <1>s, <1>0, <1>1, <1>3, <1>4 DEF Owed
<1>. DEFINE k == [v \in Windows |-> 0]
<1>6. k \in [Windows -> Nat] /\ \A v \in Windows : k[v] = 0
  OBVIOUS
<1>. HIDE DEF k
<1>. PICK u \in Nat : u = store[window]
  BY <1>0
<1>7. Backed(n, u, k)'
  <2>1. \A v \in Windows : k[v] + Sent(n, v)' >= 0
    BY <1>3, <1>6
  <2>2. ASSUME NEW v \in Windows, cell'[n].win = v
        PROVE  k[v] = cell'[n].flushed + Landed(n, v)' - u /\ cell'[n].cur >= u + open'[n][v]
    <3>1. cell'[n].cur = u /\ cell'[n].flushed = u
      BY <1>0, <1>4, <2>2
    <3>2. open'[n][v] = 0 /\ Landed(n, v)' = 0 /\ k[v] = 0
      BY <1>1, <1>2, <1>3, <1>6
    <3>. QED  BY <3>1, <3>2
  <2>3. \A v \in Windows : v > cell'[n].win => open'[n][v] = 0
    BY <1>1, <1>2
  <2>4. \A s \in Writers : ~Holds(n, s)'
    BY <1>1 DEF Holds
  <2>. QED  BY <2>1, <2>2, <2>3, <2>4 DEF Backed
<1>8. \A v \in Windows : Due(n, v)' = Due(n, v) + (spent'[v] - spent[v]) - (store'[v] - store[v])
  <2>. SUFFICES ASSUME NEW v \in Windows
                PROVE  Due(n, v)' = Due(n, v) + (spent'[v] - spent[v]) - (store'[v] - store[v])
    OBVIOUS
  <2>1. Due(n, v) = 0 /\ Due(n, v)' = 0
    BY <1>3, <1>5 DEF Due
  <2>2. spent'[v] = spent[v] /\ store'[v] = store[v] /\ spent[v] \in Int /\ store[v] \in Nat
    BY <1>0, <1>1
  <2>. QED  BY <2>1, <2>2
<1>9. \A v \in Windows : k[v] - h[v] <= store'[v] - store[v]
  BY <1>0, <1>1, <1>6
<1>. QED  BY <1>0, <1>6, <1>7, <1>8, <1>9 DEF Carried

\* The store has the sum of what it has of the nodes.
Stored(h) ==
    /\ h \in [Nodes -> [Windows -> Nat]]
    /\ \A n \in Nodes : \E b \in Nat : Backed(n, b, h[n])
    /\ \A w \in Windows : Total([n \in Nodes |-> h[n][w]]) <= store[w]

\* FleetTotal without the slips.
Paid == \A w \in Windows : store[w] + Total([n \in Nodes |-> Due(n, w)]) = spent[w]

\* No step of another node changes what n counted, wrote or has open.
OnlyFor(n) == \A m \in Nodes :
    m # n => cell'[m] = cell[m] /\ flight'[m] = flight[m] /\ open'[m] = open[m]

\* The steps of other nodes do not matter to Backed.
LEMMA BackedFrame ==
    ASSUME NEW m \in Nodes, cell'[m] = cell[m], flight'[m] = flight[m], open'[m] = open[m],
           NEW b, NEW h, Backed(m, b, h)
    PROVE  Backed(m, b, h)'
BY FlightFrameAmounts DEF Backed, Holds, Busy

\* The store has at least what it has of one node.
LEMMA StoredBounds ==
    ASSUME NEW h, Stored(h), NEW n \in Nodes, Typed
    PROVE  h[n] \in [Windows -> Nat] /\ \A w \in Windows : h[n][w] <= store[w]
<1>1. h \in [Nodes -> [Windows -> Nat]] /\ h[n] \in [Windows -> Nat]
  BY DEF Stored
<1>2. ASSUME NEW w \in Windows PROVE h[n][w] <= store[w]
  <2>. DEFINE F == [m \in Nodes |-> h[m][w]]
  <2>1. F \in [Nodes -> Nat] /\ F \in [Nodes -> Int] /\ F[n] = h[n][w]
    BY <1>1
  <2>2. Total(F) <= store[w]
    BY DEF Stored
  <2>. HIDE DEF F
  <2>3. F[n] <= Total(F) /\ Total(F) \in Int
    BY <2>1, TotalAbove, TotalIs
  <2>4. store[w] \in Nat /\ h[n][w] \in Nat
    BY <1>1 DEF Typed, TypeOK
  <2>. QED  BY <2>1, <2>2, <2>3, <2>4
<1>. QED  BY <1>1, <1>2

\* The step of one node, for the sum of what is stored and of what is due.
LEMMA NodeStored ==
    ASSUME Typed, Typed', NEW n \in Nodes, NEW h, Stored(h), Carried(n, h[n]), OnlyFor(n)
    PROVE  \E j : Stored(j)'
<1>1. PICK b \in Nat, k \in [Windows -> Nat] :
         Backed(n, b, k)' /\ \A w \in Windows : k[w] - h[n][w] <= store'[w] - store[w]
  BY DEF Carried
<1>. DEFINE j == [h EXCEPT ![n] = k]
<1>2. h \in [Nodes -> [Windows -> Nat]]
  BY DEF Stored
<1>3. /\ j \in [Nodes -> [Windows -> Nat]] /\ j[n] = k
      /\ \A m \in Nodes : m # n => j[m] = h[m]
  BY <1>2
<1>. HIDE DEF j
<1>4. ASSUME NEW m \in Nodes PROVE \E c \in Nat : Backed(m, c, j[m])'
  <2>1. CASE m = n
    BY <1>1, <1>3, <2>1
  <2>2. CASE m # n
    <3>1. PICK c \in Nat : Backed(m, c, h[m])
      BY DEF Stored
    <3>2. cell'[m] = cell[m] /\ flight'[m] = flight[m] /\ open'[m] = open[m]
      BY <2>2 DEF OnlyFor
    <3>. DEFINE g == h[m]
    <3>3. Backed(m, c, g) /\ g = j[m]
      BY <1>3, <2>2, <3>1
    <3>. HIDE DEF g
    <3>4. Backed(m, c, g)'
      BY <3>2, <3>3, BackedFrame
    <3>. QED  BY <3>3, <3>4
  <2>. QED  BY <2>1, <2>2
<1>5. ASSUME NEW w \in Windows PROVE Total([m \in Nodes |-> j[m][w]]) <= store'[w]
  <2>. DEFINE F == [m \in Nodes |-> h[m][w]]
              G == [m \in Nodes |-> j[m][w]]
  <2>1. /\ F \in [Nodes -> Int] /\ G \in [Nodes -> Int] /\ F[n] = h[n][w] /\ G[n] = k[w]
        /\ \A m \in Nodes : m # n => G[m] = F[m]
    BY <1>2, <1>3
  <2>2. Total(F) <= store[w]
    BY DEF Stored
  <2>. HIDE DEF F, G
  <2>3. Total(G) = Total(F) + (G[n] - F[n]) /\ Total(F) \in Int
    BY <2>1, TotalMoves, TotalIs
  <2>4. k[w] - h[n][w] <= store'[w] - store[w] /\ k[w] \in Nat /\ h[n][w] \in Nat
    BY <1>1, <1>2
  <2>5. store[w] \in Nat /\ store'[w] \in Nat
    BY DEF Typed, TypeOK
  <2>6. Total(G) <= store'[w]
    BY <2>1, <2>2, <2>3, <2>4, <2>5
  <2>. QED  BY <2>6 DEF G
<1>. QED  BY <1>3, <1>4, <1>5 DEF Stored

LEMMA NodePaid ==
    ASSUME Typed, Typed', NEW n \in Nodes, NEW h, Carried(n, h), OnlyFor(n), Paid
    PROVE  Paid'
<1>. SUFFICES ASSUME NEW w \in Windows
              PROVE  store'[w] + Total([m \in Nodes |-> Due(m, w)'])  = spent'[w]
  BY DEF Paid
<1>. DEFINE F == [m \in Nodes |-> Due(m, w)]
            G == [m \in Nodes |-> Due(m, w)']
<1>1. \A m \in Nodes : Due(m, w) \in Int
  BY NumberTypes DEF Due
<1>2. \A m \in Nodes : m # n => Due(m, w)' = Due(m, w)
  BY AmountFrame DEF Due, OnlyFor
<1>3. store[w] \in Nat /\ store'[w] \in Nat /\ spent[w] \in Int /\ spent'[w] \in Int
  BY DEF Typed, TypeOK
<1>4. Due(n, w)' = Due(n, w) + (spent'[w] - spent[w]) - (store'[w] - store[w])
  BY DEF Carried
<1>5. /\ F \in [Nodes -> Int] /\ G \in [Nodes -> Int] /\ F[n] = Due(n, w) /\ G[n] = Due(n, w)'
      /\ \A m \in Nodes : m # n => G[m] = F[m]
  BY <1>1, <1>2, <1>3, <1>4
<1>6. store[w] + Total(F) = spent[w]
  BY DEF Paid
<1>. HIDE DEF F, G
<1>7. Total(G) = Total(F) + (G[n] - F[n]) /\ Total(F) \in Int
  BY <1>5, TotalMoves, TotalIs
<1>8. F[n] \in Int
  BY <1>5
<1>9. store'[w] + Total(G) = spent'[w]
  BY <1>3, <1>4, <1>5, <1>6, <1>7, <1>8
<1>. QED  BY <1>9 DEF G

\* A step that moves no amount.
LEMMA FleetStand ==
    ASSUME cell' = cell, flight' = flight, open' = open, store' = store, spent' = spent,
           NEW h, Stored(h), Paid
    PROVE  Stored(h)' /\ Paid'
<1>1. \A n \in Nodes : \E b \in Nat : Backed(n, b, h[n])'
  <2>. SUFFICES ASSUME NEW n \in Nodes PROVE \E b \in Nat : Backed(n, b, h[n])'
    OBVIOUS
  <2>. DEFINE g == h[n]
  <2>1. PICK b \in Nat : Backed(n, b, g)
    BY DEF Stored
  <2>. HIDE DEF g
  <2>2. Backed(n, b, g)'
    BY <2>1, BackedFrame
  <2>. QED  BY <2>2 DEF g
<1>2. Stored(h)'
  BY <1>1 DEF Stored
<1>3. \A n \in Nodes, w \in Windows : Due(n, w)' = Due(n, w)
  BY AmountFrame DEF Due
<1>4. Paid'
  <2>. SUFFICES ASSUME NEW w \in Windows
                PROVE  store'[w] + Total([n \in Nodes |-> Due(n, w)']) = spent'[w]
    BY DEF Paid
  <2>1. [n \in Nodes |-> Due(n, w)'] = [n \in Nodes |-> Due(n, w)]
    BY <1>3
  <2>2. store[w] + Total([n \in Nodes |-> Due(n, w)]) = spent[w]
    BY DEF Paid
  <2>. QED  BY <2>1, <2>2
<1>. QED  BY <1>2, <1>4

\* The invariant of the fleet total.
FleetInv == StopInv /\ (slips = {} => Paid /\ \E h : Stored(h))

LEMMA FleetStarts == Init => FleetInv
<1>. SUFFICES ASSUME Init PROVE Paid /\ \E h : Stored(h)
  BY StopStarts DEF FleetInv
<1>. DEFINE z == [w \in Windows |-> 0]
            h == [n \in Nodes |-> z]
            F == [n \in Nodes |-> 0]
<1>1. z \in [Windows -> Nat] /\ \A w \in Windows : z[w] = 0
  OBVIOUS
<1>2. h \in [Nodes -> [Windows -> Nat]] /\ \A n \in Nodes : h[n] = z
  BY <1>1
<1>3. F \in [Nodes -> Int] /\ \A n \in Nodes : F[n] = 0
  OBVIOUS
<1>. HIDE DEF F
<1>4. Total(F) = 0
  BY <1>3, TotalIs
<1>5. ASSUME NEW n \in Nodes
      PROVE  /\ cell[n].win = -1 /\ \A w \in Windows : open[n][w] = 0
             /\ \A s \in Writers : ~Busy(n, s)
  BY DEF Init, NoCell, Fresh, Idle, Busy
<1>6. \A n \in Nodes, w \in Windows : Sent(n, w) = 0 /\ Landed(n, w) = 0 /\ Owed(n, w) = 0
  <2>. SUFFICES ASSUME NEW n \in Nodes, NEW w \in Windows
                PROVE  Sent(n, w) = 0 /\ Landed(n, w) = 0 /\ Owed(n, w) = 0
    OBVIOUS
  <2>1. Sent(n, w) = 0 /\ Landed(n, w) = 0
    BY <1>5, QuietWriters
  <2>2. w # -1
    BY FlushBounds DEF Windows
  <2>. QED  BY <1>5, <2>1, <2>2 DEF Owed
<1>7. \A w \in Windows : w # -1
  BY FlushBounds DEF Windows
<1>8. \A n \in Nodes : Backed(n, 0, z)
  <2>. HIDE DEF z
  <2>. QED  BY <1>1, <1>5, <1>6, <1>7 DEF Backed, Holds
<1>. HIDE DEF z
<1>9. ASSUME NEW w \in Windows
      PROVE  [n \in Nodes |-> h[n][w]] = F /\ [n \in Nodes |-> Due(n, w)] = F
  BY <1>1, <1>2, <1>6 DEF F, Due
<1>10. \A w \in Windows : store[w] = 0 /\ spent[w] = 0
  BY DEF Init
<1>11. \A n \in Nodes : \E b \in Nat : Backed(n, b, h[n])
  BY <1>2, <1>8
<1>. HIDE DEF h
<1>12. Stored(h)
  BY <1>2, <1>4, <1>9, <1>10, <1>11 DEF Stored
<1>13. Paid
  BY <1>4, <1>9, <1>10 DEF Paid
<1>. QED  BY <1>12, <1>13

LEMMA FleetStep == FleetInv /\ [Next]_vars => FleetInv'
<1>. SUFFICES ASSUME FleetInv, [Next]_vars, slips' = {}
              PROVE  Paid' /\ \E j : Stored(j)'
  BY StopStep DEF FleetInv
<1>0. /\ Typed /\ Typed' /\ slips = {}
      /\ \A n \in Nodes : CellSane(n) /\ FlightSane(n) /\ Orderly(n)
      /\ \A n \in Nodes : NoStray(n) /\ NoStray(n)'
      /\ cell \in [Nodes -> Cells] /\ flight \in [Nodes -> [Writers -> Snapshots]]
      /\ open \in [Nodes -> [Windows -> Nat]]
  BY SlipsGrow, StopStep DEF FleetInv, StopInv, Careful, Typed, TypeOK
<1>. PICK h : Stored(h)
  BY <1>0 DEF FleetInv
<1>1. Paid
  BY <1>0 DEF FleetInv
<1>. SUFFICES \/ cell' = cell /\ flight' = flight /\ open' = open /\ store' = store /\ spent' = spent
              \/ \E n \in Nodes : Carried(n, h[n]) /\ OnlyFor(n)
  <2>1. ASSUME cell' = cell, flight' = flight, open' = open, store' = store, spent' = spent
        PROVE  Paid' /\ \E j : Stored(j)'
    BY <1>1, <2>1, FleetStand
  <2>2. ASSUME NEW n \in Nodes, Carried(n, h[n]), OnlyFor(n)
        PROVE  Paid' /\ \E j : Stored(j)'
    <3>1. \E j : Stored(j)'
      BY <1>0, <2>2, NodeStored
    <3>. DEFINE g == h[n]
    <3>2. Carried(n, g)
      BY <2>2
    <3>. HIDE DEF g
    <3>3. Paid'
      BY <1>0, <1>1, <2>2, <3>2, NodePaid
    <3>. QED  BY <3>1, <3>3
  <2>. QED  BY <2>1, <2>2
<1>2. ASSUME NEW n \in Nodes
      PROVE  /\ h[n] \in [Windows -> Nat] /\ \A w \in Windows : h[n][w] <= store[w]
             /\ \E b \in Nat : Backed(n, b, h[n])
  BY <1>0, StoredBounds DEF Stored
<1>3. CASE NextWindow
  BY <1>3 DEF NextWindow
<1>4. ASSUME NEW n \in Nodes, NEW w \in Windows, Charge(n, w) \/ Accrue(n, w)
      PROVE  Carried(n, h[n]) /\ OnlyFor(n)
  <2>1. OnlyFor(n)
    BY <1>0, <1>4 DEF Charge, Accrue, CountOn, OnlyFor
  <2>2. PICK b \in Nat : Backed(n, b, h[n])
    BY <1>2
  <2>3. Carried(n, h[n])
    BY <1>0, <1>2, <1>4, <2>2, CountBacked
  <2>. QED  BY <2>1, <2>3
<1>5. ASSUME NEW n \in Nodes, NEW w \in Windows, Refund(n, w)
      PROVE  Carried(n, h[n]) /\ OnlyFor(n)
  <2>1. OnlyFor(n)
    BY <1>0, <1>5 DEF Refund, OnlyFor
  <2>2. PICK b \in Nat : Backed(n, b, h[n])
    BY <1>2
  <2>3. Carried(n, h[n])
    BY <1>0, <1>2, <1>5, <2>2, RefundBacked
  <2>. QED  BY <2>1, <2>3
<1>6. ASSUME NEW n \in Nodes, Tick(n) \/ LastTick(n) \/ FinalFlush(n)
      PROVE  Carried(n, h[n]) /\ OnlyFor(n)
  <2>1. /\ open' = open /\ store' = store /\ spent' = spent
        /\ \/ Snapshot(n, "gate") /\ flight[n]["gate"] = Idle
           \/ Snapshot(n, "main") /\ mode[n] = "stopping" /\ (cell[n].dirty => flight[n]["gate"] = Idle)
    BY <1>6 DEF Tick, LastTick, FinalFlush
  <2>2. OnlyFor(n)
    BY <1>0, <2>1 DEF Snapshot, OnlyFor
  <2>3. cell[n].dirty => ~Busy(n, "main") /\ ~Busy(n, "gate")
    BY <1>0, <2>1 DEF FlightSane, Orderly, Busy, Idle
  <2>4. PICK s \in Writers : Snapshot(n, s)
    BY <2>1 DEF Writers
  <2>5. PICK b \in Nat : Backed(n, b, h[n])
    BY <1>2
  <2>6. cell[n].dirty => \A r \in Writers : ~Busy(n, r)
    BY <2>3 DEF Writers
  <2>7. Carried(n, h[n])
    BY <1>0, <1>2, <2>1, <2>4, <2>5, <2>6, SnapshotBacked
  <2>. QED  BY <2>2, <2>7
<1>7. ASSUME NEW n \in Nodes, NEW s \in Writers, Land(n, s)
      PROVE  Carried(n, h[n]) /\ OnlyFor(n)
  <2>1. OnlyFor(n)
    BY <1>0, <1>7 DEF Land, OnlyFor
  <2>2. PICK b \in Nat : Backed(n, b, h[n])
    BY <1>2
  <2>3. Carried(n, h[n])
    BY <1>0, <1>2, <1>7, <2>2, LandBacked
  <2>. QED  BY <2>1, <2>3
<1>8. ASSUME NEW n \in Nodes, NEW s \in Writers, Ack(n, s) \/ Fail(n, s)
      PROVE  Carried(n, h[n]) /\ OnlyFor(n)
  <2>1. OnlyFor(n)
    <3>1. flight' = [flight EXCEPT ![n][s] = Idle] /\ open' = open
      BY <1>8 DEF Ack, Fail
    <3>2. \A m \in Nodes : m # n => cell'[m] = cell[m]
      BY <1>0, <1>8, AnswerShape
    <3>. QED  BY <1>0, <3>1, <3>2 DEF OnlyFor
  <2>2. PICK b \in Nat : Backed(n, b, h[n])
    BY <1>2
  <2>3. Carried(n, h[n])
    BY <1>0, <1>2, <1>8, <2>2, AnswerBacked
  <2>. QED  BY <2>1, <2>3
<1>9. ASSUME NEW n \in Nodes, Stop(n)
      PROVE  cell' = cell /\ flight' = flight /\ open' = open /\ store' = store /\ spent' = spent
  BY <1>9 DEF Stop
<1>10. ASSUME NEW n \in Nodes, Exit(n) \/ Crash(n)
       PROVE  Carried(n, h[n]) /\ OnlyFor(n)
  <2>1. Gone(n) /\ store' = store /\ spent' = spent
    BY <1>10 DEF Exit, Crash
  <2>2. OnlyFor(n)
    BY <1>0, <2>1 DEF Gone, OnlyFor
  <2>3. Carried(n, h[n])
    BY <1>0, <1>2, <2>1, GoneBacked
  <2>. QED  BY <2>2, <2>3
<1>11. ASSUME NEW n \in Nodes, Boot(n)
       PROVE  Carried(n, h[n]) /\ OnlyFor(n)
  <2>1. OnlyFor(n)
    BY <1>0, <1>11 DEF Boot, OnlyFor
  <2>2. PICK b \in Nat : Backed(n, b, h[n])
    BY <1>2
  <2>3. Carried(n, h[n])
    BY <1>0, <1>2, <1>11, <2>2, BootBacked
  <2>. QED  BY <2>1, <2>3
<1>12. CASE UNCHANGED vars
  BY <1>12 DEF vars
<1>13. ASSUME NEW n \in Nodes, Drop(n)
       PROVE  Carried(n, h[n]) /\ OnlyFor(n)
  <2>1. OnlyFor(n)
    BY <1>0, <1>13 DEF Drop, OnlyFor
  <2>2. Carried(n, h[n])
    BY <1>0, <1>2, <1>13, DropBacked
  <2>. QED  BY <2>1, <2>2
<1>14. ~ \E n \in Nodes : DeleteRows(n)
  BY DEF DeleteRows
<1>. QED
  BY <1>3, <1>4, <1>5, <1>6, <1>7, <1>8, <1>9, <1>10, <1>11, <1>12, <1>13, <1>14 DEF Next

\* The store holds the true fleet total, for any finite set of nodes, any
\* windows and any number of counts, store errors, dropped cells, stops and
\* crashes: what the durable ledger has and what the nodes have still to write is what they
\* counted, unless one of the slips happened (flush_budgets, hydrate_budgets).
THEOREM FleetCorrect == Spec => []FleetTotal
<1>1. FleetInv => FleetTotal
  <2>. SUFFICES ASSUME FleetInv, slips = {}, NEW w \in Windows
                PROVE  store[w] + MapThenSumSet(LAMBDA n : Owed(n, w) + Sent(n, w), Nodes) = spent[w]
    BY DEF FleetTotal
  <2>1. \A n \in Nodes : Due(n, w) \in Int
    BY NumberTypes DEF Due, FleetInv, StopInv
  <2>2. store[w] + Total([n \in Nodes |-> Due(n, w)]) = spent[w]
    BY DEF FleetInv, Paid
  <2>3. MapThenSumSet(LAMBDA n : Owed(n, w) + Sent(n, w), Nodes) = Total([n \in Nodes |-> Due(n, w)])
    BY <2>1, DueTotal
  <2>. QED  BY <2>2, <2>3
<1>. QED  BY <1>1, FleetStarts, FleetStep, PTL DEF Spec
-----------------------------------------------------------------------------
(* The turns of the lanes of a pool. *)

\* How many lanes take part in the selection.
Lanes == Cardinality(Candidates)

\* Twice what the accumulators of k candidates can add up to, either way.
Reach(k) == Heaviest * (k * (2 * Lanes - 1 - k))

\* What the assumptions say of the pool.
LEMMA SwrrBasics ==
    /\ IsFiniteSet(Members) /\ Weight \in [Members -> Int]
    /\ Candidates \in SUBSET Members /\ IsFiniteSet(Candidates) /\ Lanes \in Nat
    /\ \A l \in Members : Weight[l] \in Nat
<1>1. IsFiniteSet(Members) /\ Weight \in [Members -> Int] /\ \A l \in Members : Weight[l] \in Nat
  BY SwrrAssumption
<1>2. Candidates \in SUBSET Members
  BY DEF Candidates
<1>3. IsFiniteSet(Candidates)
  BY <1>1, <1>2, FS_Subset
<1>. QED  BY <1>1, <1>2, <1>3, FS_CardinalityType DEF Lanes

\* A sum of nothing but zeroes.
LEMMA SumZero ==
    ASSUME NEW z \in [Members -> Int], NEW U \in SUBSET Members, \A l \in U : z[l] = 0
    PROVE  SumOver(z, U) = 0
<1>. DEFINE s == SumOver(z, U)
<1>1. \A l \in U : z[l] = z[l] + z[l]
  OBVIOUS
<1>2. s = s + s /\ s \in Int
  <2>1. s = s + s
    BY <1>1, SwrrBasics, SumAdds
  <2>. QED  BY <2>1, SwrrBasics, SumTakes
<1>. HIDE DEF s
<1>3. s = 0
  BY <1>2
<1>. QED  BY <1>3 DEF s

\* Heaviest is what its name says.
LEMMA HeaviestIs ==
    /\ Heaviest \in Nat
    /\ \A k, l \in Candidates : k # l => Weight[k] + Weight[l] <= Heaviest
<1>. DEFINE F == [p \in Pairs |-> Weight[p[1]] + Weight[p[2]]]
            T == {0} \cup {Weight[p[1]] + Weight[p[2]] : p \in Pairs}
<1>1. IsFiniteSet(Pairs)
  BY SwrrBasics, FS_Product, FS_Subset DEF Pairs
<1>2. \A p \in Pairs : p[1] \in Members /\ p[2] \in Members /\ Weight[p[1]] + Weight[p[2]] \in Nat
  BY SwrrBasics DEF Pairs
<1>3. F \in [Pairs -> Int]
  BY <1>2
<1>4. \E m \in T : \A y \in T : m >= y
  <2>1. CASE Pairs = {}
    BY <2>1
  <2>2. CASE Pairs # {}
    <3>1. PICK q \in Pairs : \A p \in Pairs : F[q] >= F[p]
      BY <1>1, <1>3, <2>2, TopOf
    <3>. DEFINE m == Weight[q[1]] + Weight[q[2]]
    <3>2. m \in T /\ m \in Nat
      BY <1>2
    <3>3. \A p \in Pairs : m >= Weight[p[1]] + Weight[p[2]]
      BY <3>1
    <3>. QED  BY <3>2, <3>3
  <2>. QED  BY <2>1, <2>2
<1>5. Heaviest \in T /\ \A y \in T : Heaviest >= y
  <2>1. Heaviest = CHOOSE m \in T : \A y \in T : m >= y
    BY DEF Heaviest, Max
  <2>. HIDE DEF T
  <2>. QED  BY <1>4, <2>1
<1>6. Heaviest \in Nat
  BY <1>2, <1>5
<1>7. ASSUME NEW k \in Candidates, NEW l \in Candidates, k # l
      PROVE  Weight[k] + Weight[l] <= Heaviest
  <2>1. <<k, l>> \in Pairs
    BY <1>7 DEF Pairs
  <2>2. Weight[<<k, l>>[1]] + Weight[<<k, l>>[2]] \in T
    BY <2>1
  <2>3. Weight[k] + Weight[l] \in T
    BY <2>2
  <2>4. Weight[k] + Weight[l] \in Nat
    BY SwrrBasics
  <2>. HIDE DEF T
  <2>. QED  BY <1>5, <1>6, <2>3, <2>4
<1>. QED  BY <1>6, <1>7

\* The winner is one of the lanes, and none is above it.
LEMMA PickedIs ==
    ASSUME NEW S \in SUBSET Members, S # {}, NEW w \in [S -> Int]
    PROVE  Picked(w) \in S /\ \A k \in S : w[Picked(w)] >= w[k]
<1>. DEFINE T == {l \in S : \A k \in S : w[l] >= w[k]}
<1>1. IsFiniteSet(S) /\ S \subseteq Nat
  BY SwrrAssumption, FS_Subset
<1>2. T # {}
  BY <1>1, TopOf
<1>3. T \in SUBSET Nat
  BY <1>1
<1>4. PICK m \in T : \A k \in Nat : k < m => k \notin T
  BY <1>2, <1>3, LeastOf
<1>5. \A y \in T : m <= y
  BY <1>3, <1>4
<1>6. Picked(w) = CHOOSE x \in T : \A y \in T : x <= y
  BY DEF Picked, Min
<1>7. Picked(w) \in T
  <2>. HIDE DEF T
  <2>. QED  BY <1>5, <1>6
<1>. QED  BY <1>7

\* The model's fold of the weights is their sum.
LEMMA SumIs ==
    ASSUME NEW S \in SUBSET Members
    PROVE  Sum(S) = SumOver(Weight, S)
<1>. DEFINE h == CHOOSE h : Sums(h, Weight, S)
            Folds(i) == i = [s \in SUBSET S |->
                IF s = {} THEN 0
                ELSE LET x == CHOOSE x \in s : TRUE IN Weight[x] + i[s \ {x}]]
<1>1. \A i : Folds(i) <=> Sums(i, Weight, S)
  BY DEF Sums, Pick
<1>. HIDE DEF Folds
<1>2. (CHOOSE i : Folds(i)) = h
  <2>1. IsFiniteSet(S) /\ [l \in S |-> Weight[l]] \in [S -> Int]
    BY SwrrBasics, FS_Subset
  <2>2. Sums(h, Weight, S)
    BY <2>1, SumsExist
  <2>. HIDE DEF h
  <2>3. Folds(h)
    BY <1>1, <2>2
  <2>4. Folds(CHOOSE i : Folds(i))
    BY <2>3
  <2>. DEFINE i == CHOOSE i : Folds(i)
  <2>5. Sums(i, Weight, S)
    BY <1>1, <2>4
  <2>. HIDE DEF i
  <2>. DEFINE V == [l \in S |-> Weight[l]]
  <2>6. \A s \in SUBSET S : s # {} => Pick(s) \in S
    BY DEF Pick
  <2>7. ASSUME NEW j, Sums(j, Weight, S) PROVE Sums(j, V, S)
    <3>1. \A s \in SUBSET S : s # {} => V[Pick(s)] = Weight[Pick(s)]
      BY <2>6
    <3>. HIDE DEF V
    <3>. QED  BY <2>7, <3>1 DEF Sums
  <2>8. Sums(h, V, S) /\ Sums(i, V, S)
    BY <2>2, <2>5, <2>7
  <2>. HIDE DEF V
  <2>9. i = h
    BY <2>1, <2>8, SumsAgree DEF V
  <2>. QED  BY <2>9 DEF i
<1>3. Sum(S) = (CHOOSE i : Folds(i))[S]
  BY DEF Sum, MapThenSumSet, MapThenFoldSet, Folds
<1>. QED  BY <1>2, <1>3 DEF SumOver

\* Two or more candidates weigh no more than as many halves of the heaviest two.
LEMMA HalfWeights ==
    ASSUME NEW B \in SUBSET Candidates, Cardinality(B) >= 2
    PROVE  2 * SumOver(Weight, B) <= Cardinality(B) * Heaviest
<1>. DEFINE c == Cardinality(B)
            w == SumOver(Weight, B)
<1>0. /\ B \in SUBSET Members /\ IsFiniteSet(B) /\ c \in Nat /\ w \in Int
      /\ Heaviest \in Nat
  BY SwrrBasics, HeaviestIs, FS_Subset, FS_CardinalityType, SumTakes
<1>1. CASE \A l \in B : Weight[l] + Weight[l] <= Heaviest
  <2>1. SumOver(Weight, B) + SumOver(Weight, B) <= Cardinality(B) * Heaviest
    BY <1>0, <1>1, SwrrBasics, SumBounded
  <2>. QED  BY <1>0, <2>1
<1>2. ASSUME NEW h \in B, ~(Weight[h] + Weight[h] <= Heaviest)
      PROVE  2 * w <= c * Heaviest
  <2>. DEFINE A == B \ {h}
              a == SumOver(Weight, A)
              v == Weight[h]
              zero == [l \in Members |-> 0]
  <2>1. A \in SUBSET Members /\ Cardinality(A) = c - 1 /\ v \in Nat
    BY <1>0, SwrrBasics, FS_RemoveElement
  <2>2. w = a + v /\ a \in Int
    BY <1>0, <2>1, SwrrBasics, SumTakes
  <2>3. a <= (c - 1) * (Heaviest - v)
    <3>1. zero \in [Members -> Int] /\ \A l \in Members : zero[l] = 0
      OBVIOUS
    <3>. HIDE DEF zero
    <3>2. \A l \in A : Weight[l] + zero[l] <= Heaviest - v
      <4>. SUFFICES ASSUME NEW l \in A PROVE Weight[l] + zero[l] <= Heaviest - v
        OBVIOUS
      <4>1. Weight[l] + v <= Heaviest
        BY HeaviestIs
      <4>2. Weight[l] \in Nat /\ zero[l] = 0
        BY <2>1, <3>1, SwrrBasics
      <4>. QED  BY <1>0, <2>1, <4>1, <4>2
    <3>4. SumOver(zero, A) = 0
      BY <2>1, <3>1, SumZero
    <3>5. Heaviest - v \in Int
      BY <1>0, <2>1
    <3>. HIDE DEF A, v
    <3>6. SumOver(Weight, A) + SumOver(zero, A) <= Cardinality(A) * (Heaviest - v)
      BY <2>1, <3>1, <3>2, <3>5, SwrrBasics, SumBounded
    <3>. QED  BY <2>1, <2>2, <3>4, <3>6
  <2>4. 2 * v >= Heaviest + 1
    BY <1>0, <1>2, <2>1
  <2>. HIDE DEF a, v, c, w
  <2>5. (c - 2) * (2 * v - Heaviest) >= 0
    <3>1. c - 2 \in Nat /\ 2 * v - Heaviest \in Nat
      BY <1>0, <2>1, <2>4 DEF c
    <3>. QED  BY <3>1
  <2>6. 2 * ((c - 1) * (Heaviest - v)) + 2 * v = c * Heaviest - (c - 2) * (2 * v - Heaviest)
    BY <1>0, <2>1
  <2>7. /\ (c - 1) * (Heaviest - v) \in Int /\ c * Heaviest \in Int
        /\ (c - 2) * (2 * v - Heaviest) \in Int
    BY <1>0, <2>1
  <2>. QED  BY <1>0, <2>1, <2>2, <2>3, <2>5, <2>6, <2>7
<1>. QED  BY <1>1, <1>2

\* The step of the induction: what the sum of u accumulators gains when a more
\* are paid, from what those with one more, and with a fewer, can be.
LEMMA Squeeze ==
    ASSUME NEW a \in Nat, NEW p \in Int, NEW x \in Int, NEW d \in Int, NEW e \in Int,
           NEW v \in Int, NEW w \in Int, NEW f \in Int, NEW f1 \in Int, NEW f2 \in Int,
           2 * (x + d) <= f1, 2 * (x - e) <= f2, e + w <= a * (d + v),
           2 * (v + w) <= (a + 1) * p, (a + 1) * f = a * f1 + f2 + a * ((a + 1) * p)
    PROVE  2 * (x + w) <= f
<1>1. a * (2 * (x + d)) <= a * f1 /\ a * (2 * (v + w)) <= a * ((a + 1) * p)
  <2>1. f1 - 2 * (x + d) \in Nat /\ (a + 1) * p - 2 * (v + w) \in Nat
    OBVIOUS
  <2>2. a * (f1 - 2 * (x + d)) \in Nat
    BY <2>1
  <2>3. a * ((a + 1) * p - 2 * (v + w)) \in Nat
    BY <2>1
  <2>. QED  BY <2>2, <2>3
<1>2. (a + 1) * (2 * (x + w)) <= (a + 1) * f
  <2>1. (a + 1) * (2 * (x + w)) = a * (2 * (x + d)) + 2 * (x - e) + 2 * (e + w) + a * (2 * w) - 2 * (a * d)
    OBVIOUS
  <2>2. a * (2 * (v + w)) = 2 * (a * v) + a * (2 * w) /\ a * (d + v) = a * d + a * v
    OBVIOUS
  <2>3. a * d \in Int /\ a * v \in Int /\ a * (2 * w) \in Int /\ a * f1 \in Int
        /\ a * (2 * (x + d)) \in Int /\ a * ((a + 1) * p) \in Int
        /\ (a + 1) * (2 * (x + w)) \in Int /\ (a + 1) * f \in Int
    OBVIOUS
  <2>. QED  BY <1>1, <2>1, <2>2, <2>3
<1>3. ~(2 * (x + w) > f)
  <2>. SUFFICES ASSUME 2 * (x + w) > f PROVE FALSE
    OBVIOUS
  <2>1. 2 * (x + w) - f - 1 \in Nat
    OBVIOUS
  <2>2. (a + 1) * (2 * (x + w) - f - 1) \in Nat
    BY <2>1
  <2>3. (a + 1) * (2 * (x + w) - f - 1) = (a + 1) * (2 * (x + w)) - (a + 1) * f - (a + 1)
    OBVIOUS
  <2>4. (a + 1) * (2 * (x + w)) \in Int /\ (a + 1) * f \in Int
    OBVIOUS
  <2>. QED  BY <1>2, <2>2, <2>3, <2>4
<1>. QED  BY <1>3

\* A set of candidates cannot be far ahead or far behind, all together.
Balanced(x) == \A U \in SUBSET Candidates :
    /\ 2 * SumOver(x, U) <= Reach(Cardinality(U))
    /\ -(2 * SumOver(x, U)) <= Reach(Cardinality(U))

\* The sum depends only on the entries summed.
LEMMA SumSame ==
    ASSUME NEW F \in [Members -> Int], NEW G \in [Members -> Int], NEW U \in SUBSET Members,
           \A l \in U : F[l] = G[l]
    PROVE  SumOver(F, U) = SumOver(G, U)
<1>. DEFINE zero == [l \in Members |-> 0]
<1>1. zero \in [Members -> Int] /\ \A l \in Members : zero[l] = 0
  OBVIOUS
<1>. HIDE DEF zero
<1>2. SumOver(zero, U) = 0
  BY <1>1, SumZero
<1>3. \A l \in U : F[l] = G[l] + zero[l]
  BY <1>1
<1>4. SumOver(F, U) = SumOver(G, U) + SumOver(zero, U)
  BY <1>1, <1>3, SwrrBasics, SumAdds
<1>5. SumOver(G, U) \in Int
  BY SwrrBasics, SumTakes
<1>6. SumOver(F, U) = SumOver(G, U) + 0
  BY <1>2, <1>4
<1>. DEFINE f == SumOver(F, U)
            g == SumOver(G, U)
<1>7. f = g + 0 /\ g \in Int
  BY <1>5, <1>6
<1>. HIDE DEF f, g
<1>8. f = g
  BY <1>7
<1>. QED  BY <1>8 DEF f, g

\* A sum of nothing.
LEMMA SumEmpty ==
    ASSUME NEW F \in [Members -> Int], NEW U \in SUBSET Members, U = {}
    PROVE  SumOver(F, U) = 0
  BY SwrrBasics, SumTakes

\* A larger set of candidates reaches further.
LEMMA ReachIs ==
    /\ \A k \in Int : Reach(k) \in Int
    /\ \A u \in 1 .. Lanes : Reach(u - 1) <= Reach(u)
    /\ Reach(0) = 0
    /\ Lanes > 0 => Reach(1) = 2 * Swing
    /\ Swing \in Nat
<1>. DEFINE n == Lanes
            h == Heaviest
<1>1. n \in Nat /\ h \in Nat
  BY SwrrBasics, HeaviestIs
<1>2. \A k : Reach(k) = h * (k * (2 * n - 1 - k))
  BY DEF Reach
<1>3. Swing = (n - 1) * h
  BY DEF Swing, Lanes
<1>4. n = 0 => h = 0
  <2>. SUFFICES ASSUME n = 0 PROVE h = 0
    OBVIOUS
  <2>1. Candidates = {}
    BY SwrrBasics, FS_EmptySet DEF Lanes
  <2>2. Pairs = {}
    BY <2>1 DEF Pairs
  <2>3. {0} \cup {Weight[p[1]] + Weight[p[2]] : p \in Pairs} = {0}
    BY <2>2
  <2>. QED  BY <2>3 DEF Heaviest, Max
<1>. HIDE DEF n, h
<1>5. \A k \in Int : Reach(k) \in Int
  BY <1>1, <1>2
<1>7. ASSUME NEW u \in 1 .. n PROVE Reach(u - 1) <= Reach(u)
  <2>1. h * (u * (2 * n - 1 - u)) = h * ((u - 1) * (2 * n - 1 - (u - 1))) + 2 * (h * (n - u))
    BY <1>1
  <2>2. n - u \in Nat
    BY <1>1
  <2>3. h * (n - u) \in Nat
    BY <1>1, <2>2
  <2>. QED  BY <1>1, <1>2, <2>1, <2>3
<1>8. Reach(0) = 0
  BY <1>1, <1>2
<1>9. Reach(1) = 2 * Swing
  BY <1>1, <1>2, <1>3
<1>10. Swing \in Nat
  <2>1. CASE n = 0
    BY <1>1, <1>3, <1>4, <2>1
  <2>2. CASE n # 0
    <3>1. n - 1 \in Nat
      BY <1>1, <2>2
    <3>. QED  BY <1>1, <1>3, <3>1
  <2>. QED  BY <2>1, <2>2
<1>. QED  BY <1>5, <1>7, <1>8, <1>9, <1>10 DEF n, h

\* How the reaches of larger and smaller sets bear on each other.
LEMMA ReachStep ==
    ASSUME NEW a \in Int, NEW u \in Int
    PROVE  /\ Reach(u) \in Int /\ Reach(u + 1) \in Int /\ Reach(u - 1) \in Int
           /\ Reach(u + a) \in Int /\ Reach(u - a) \in Int /\ Heaviest \in Int
           /\ (a + 1) * Reach(u) = a * Reach(u + 1) + Reach(u - a) + a * ((a + 1) * Heaviest)
           /\ (a + 1) * Reach(u) = a * Reach(u - 1) + Reach(u + a) + a * ((a + 1) * Heaviest)
<1>. DEFINE n == Lanes
            h == Heaviest
<1>1. n \in Int /\ h \in Int
  BY SwrrBasics, HeaviestIs
<1>2. \A k : Reach(k) = h * (k * (2 * n - 1 - k))
  BY DEF Reach
<1>. HIDE DEF n, h
<1>3. (a + 1) * (h * (u * (2 * n - 1 - u)))
        = a * (h * ((u + 1) * (2 * n - 1 - (u + 1)))) + h * ((u - a) * (2 * n - 1 - (u - a))) + a * ((a + 1) * h)
  BY <1>1
<1>4. (a + 1) * (h * (u * (2 * n - 1 - u)))
        = a * (h * ((u - 1) * (2 * n - 1 - (u - 1)))) + h * ((u + a) * (2 * n - 1 - (u + a))) + a * ((a + 1) * h)
  BY <1>1
<1>5. \A k \in Int : Reach(k) \in Int
  BY <1>1, <1>2
<1>6. u + 1 \in Int /\ u - 1 \in Int /\ u + a \in Int /\ u - a \in Int
  OBVIOUS
<1>. QED  BY <1>1, <1>2, <1>3, <1>4, <1>5, <1>6 DEF h

\* No accumulator of a balanced pool leaves the swing.
LEMMA Swings ==
    ASSUME NEW x \in [Members -> Int], Balanced(x), NEW l \in Candidates
    PROVE  -Swing <= x[l] /\ x[l] <= Swing
<1>1. SumOver(x, {l}) = SumOver(x, {l} \ {l}) + x[l]
  BY SwrrBasics, SumTakes
<1>2. {l} \ {l} = {} /\ {l} \ {l} \in SUBSET Members /\ {l} \in SUBSET Candidates
  BY SwrrBasics
<1>3. SumOver(x, {l}) = x[l]
  <2>. DEFINE e == {l} \ {l}
  <2>1. SumOver(x, e) = 0
    BY <1>2, SumEmpty
  <2>. HIDE DEF e
  <2>2. SumOver(x, {l}) = SumOver(x, e) + x[l]
    BY <1>1 DEF e
  <2>3. x[l] \in Int
    BY SwrrBasics
  <2>. QED  BY <2>1, <2>2, <2>3
<1>4. Cardinality({l}) = 1
  BY FS_Singleton
<1>5. Lanes > 0
  <2>1. Lanes # 0
    BY SwrrBasics, FS_EmptySet DEF Lanes
  <2>. QED  BY <2>1, SwrrBasics
<1>6. 2 * x[l] <= Reach(1) /\ -(2 * x[l]) <= Reach(1)
  BY <1>2, <1>3, <1>4 DEF Balanced
<1>7. x[l] \in Int
  BY SwrrBasics
<1>8. Reach(1) = 2 * Swing /\ Swing \in Nat
  BY <1>5, ReachIs
<1>. QED  BY <1>6, <1>7, <1>8

\* What a selection does to a sum of accumulators.
LEMMA MovedSums ==
    ASSUME cw \in [Members -> Int], NEW S \in SUBSET Candidates, NEW b \in S,
           NEW U \in SUBSET Candidates
    PROVE  /\ Moved(S, b) \in [Members -> Int]
           /\ b \notin U => SumOver(Moved(S, b), U) = SumOver(cw, U) + SumOver(Weight, U \cap S)
           /\ b \in U => SumOver(Moved(S, b), U) = SumOver(cw, U) - SumOver(Weight, S \ U)
<1>. DEFINE c == Moved(S, b)
            t == SumOver(Weight, S)
<1>1. /\ S \in SUBSET Members /\ U \in SUBSET Members /\ IsFiniteSet(Members)
      /\ Weight \in [Members -> Int] /\ b \in Members
  BY SwrrBasics
<1>2. t \in Int
  BY <1>1, SumTakes
<1>3. c = [l \in Members |-> IF l \notin S THEN cw[l]
                             ELSE IF l = b THEN cw[l] + Weight[l] - t
                             ELSE cw[l] + Weight[l]]
  BY <1>1, SumIs DEF Moved
<1>. HIDE DEF t
<1>4. /\ c \in [Members -> Int]
      /\ \A l \in Members : l \notin S => c[l] = cw[l]
      /\ \A l \in Members : l \in S /\ l # b => c[l] = cw[l] + Weight[l]
      /\ c[b] = cw[b] + Weight[b] - t
  BY <1>1, <1>2, <1>3
<1>. HIDE DEF c
<1>5. ASSUME NEW V \in SUBSET Members, b \notin V
      PROVE  SumOver(c, V) = SumOver(cw, V) + SumOver(Weight, V \cap S)
  <2>. DEFINE A == V \cap S
              R == V \ A
  <2>1. /\ A \in SUBSET V /\ A \in SUBSET Members /\ R \in SUBSET Members
        /\ \A l \in R : c[l] = cw[l]
        /\ \A l \in A : c[l] = cw[l] + Weight[l]
    BY <1>4, <1>5
  <2>2. SumOver(c, V) = SumOver(c, R) + SumOver(c, A) /\ SumOver(cw, V) = SumOver(cw, R) + SumOver(cw, A)
    BY <1>1, <1>4, <2>1, SumSplits
  <2>. HIDE DEF A, R
  <2>3. SumOver(c, R) = SumOver(cw, R)
    BY <1>4, <2>1, SumSame
  <2>4. SumOver(c, A) = SumOver(cw, A) + SumOver(Weight, A)
    <3>1. c \in [Members -> Int] /\ cw \in [Members -> Int] /\ \A l \in A : c[l] = cw[l] + Weight[l]
      BY <1>4, <2>1
    <3>. QED  BY <1>1, <2>1, <3>1, SumAdds
  <2>5. SumOver(cw, R) \in Int /\ SumOver(cw, A) \in Int /\ SumOver(Weight, A) \in Int
    BY <1>1, <2>1, SumTakes
  <2>6. SumOver(c, V) = SumOver(cw, V) + SumOver(Weight, A)
    BY <2>2, <2>3, <2>4, <2>5
  <2>. QED  BY <2>6 DEF A
<1>6. ASSUME b \in U
      PROVE  SumOver(c, U) = SumOver(cw, U) - SumOver(Weight, S \ U)
  <2>. DEFINE V == U \ {b}
              A == V \cap S
              B == S \ U
              D == S \ B
  <2>1. /\ V \in SUBSET Members /\ b \notin V /\ B \in SUBSET S /\ B \in SUBSET Members
        /\ D \in SUBSET Members /\ b \in D /\ D \ {b} = A /\ A \in SUBSET Members
    BY <1>1, <1>6
  <2>2. SumOver(c, U) = SumOver(c, V) + c[b] /\ SumOver(cw, U) = SumOver(cw, V) + cw[b]
    BY <1>1, <1>4, <1>6, SumTakes
  <2>3. SumOver(Weight, S) = SumOver(Weight, D) + SumOver(Weight, B)
    BY <1>1, <2>1, SumSplits
  <2>. HIDE DEF B, D
  <2>4. SumOver(Weight, D) = SumOver(Weight, A) + Weight[b]
    BY <1>1, <2>1, SumTakes
  <2>5. SumOver(c, V) = SumOver(cw, V) + SumOver(Weight, A)
    BY <1>5, <2>1
  <2>. HIDE DEF V, A
  <2>6. /\ SumOver(cw, V) \in Int /\ SumOver(Weight, A) \in Int /\ SumOver(Weight, B) \in Int
        /\ cw[b] \in Int /\ Weight[b] \in Int
    BY <1>1, <2>1, SumTakes
  <2>7. c[b] = cw[b] + Weight[b] - SumOver(Weight, S)
    BY <1>4 DEF t
  <2>8. SumOver(c, U) = SumOver(cw, U) - SumOver(Weight, B)
    BY <2>2, <2>3, <2>4, <2>5, <2>6, <2>7
  <2>. QED  BY <2>8 DEF B
<1>. QED  BY <1>1, <1>4, <1>5, <1>6 DEF c

\* A set in two parts, as sets of candidates.
LEMMA Parts ==
    ASSUME NEW F \in [Members -> Int], NEW U \in SUBSET Candidates, NEW A \in SUBSET U
    PROVE  /\ U \ A \in SUBSET Candidates /\ A \in SUBSET Candidates
           /\ SumOver(F, U \ A) = SumOver(F, U) - SumOver(F, A)
           /\ Cardinality(U \ A) = Cardinality(U) - Cardinality(A)
           /\ SumOver(F, U) \in Int /\ SumOver(F, A) \in Int
           /\ Cardinality(U) \in Nat /\ Cardinality(A) \in Nat /\ Cardinality(U) <= Lanes
<1>. DEFINE R == U \ A
<1>1. /\ U \in SUBSET Members /\ A \in SUBSET Members /\ R \in SUBSET Members
      /\ IsFiniteSet(U) /\ IsFiniteSet(A) /\ U \cap A = A
  BY SwrrBasics, FS_Subset
<1>2. Cardinality(R) = Cardinality(U) - Cardinality(A)
  BY <1>1, FS_Difference
<1>3. Cardinality(U) \in Nat /\ Cardinality(A) \in Nat
  BY <1>1, FS_CardinalityType
<1>4. Cardinality(U) <= Lanes
  BY SwrrBasics, FS_Subset DEF Lanes
<1>5. SumOver(F, U) = SumOver(F, R) + SumOver(F, A)
  BY <1>1, SwrrBasics, SumSplits
<1>. HIDE DEF R
<1>6. SumOver(F, U) \in Int /\ SumOver(F, A) \in Int /\ SumOver(F, R) \in Int
  BY <1>1, SwrrBasics, SumTakes
<1>7. SumOver(F, R) = SumOver(F, U) - SumOver(F, A)
  BY <1>5, <1>6
<1>8. R \in SUBSET Candidates /\ A \in SUBSET Candidates
  BY DEF R
<1>. QED  BY <1>2, <1>3, <1>4, <1>6, <1>7, <1>8 DEF R

\* No set of lanes weighs less than nothing.
LEMMA WeighsNat ==
    ASSUME NEW U \in SUBSET Members
    PROVE  SumOver(Weight, U) >= 0
<1>. DEFINE N == [l \in Members |-> 0 - Weight[l]]
            zero == [l \in Members |-> 0]
            w == SumOver(Weight, U)
            m == SumOver(N, U)
            c == Cardinality(U)
<1>1. /\ zero \in [Members -> Int] /\ \A l \in Members : zero[l] = 0
      /\ N \in [Members -> Int] /\ \A l \in Members : N[l] = 0 - Weight[l] /\ Weight[l] \in Nat
  BY SwrrBasics
<1>. HIDE DEF zero, N
<1>2. SumOver(zero, U) = 0
  BY <1>1, SumZero
<1>3. m + SumOver(zero, U) <= c * 0
  <2>1. \A l \in U : N[l] + zero[l] <= 0
    BY <1>1
  <2>. QED  BY <1>1, <2>1, SwrrBasics, SumBounded
<1>4. SumOver(zero, U) = w + m
  <2>1. \A l \in U : zero[l] = Weight[l] + N[l]
    BY <1>1
  <2>. QED  BY <1>1, <2>1, SwrrBasics, SumAdds
<1>5. w \in Int /\ m \in Int
  BY <1>1, SwrrBasics, SumTakes
<1>6. c \in Nat
  BY SwrrBasics, FS_Subset, FS_CardinalityType
<1>. HIDE DEF w, m, c
<1>7. w >= 0
  BY <1>2, <1>3, <1>4, <1>5, <1>6
<1>. QED  BY <1>7 DEF w

\* Lanes that stand below the winner.
LEMMA Below ==
    ASSUME cw \in [Members -> Int], NEW b \in Candidates,
           NEW A \in SUBSET Candidates, A # {}, b \notin A,
           \A k \in A : cw[b] + Weight[b] >= cw[k] + Weight[k]
    PROVE  /\ SumOver(cw, A) + SumOver(Weight, A) <= Cardinality(A) * (cw[b] + Weight[b])
           /\ 2 * (Weight[b] + SumOver(Weight, A)) <= (Cardinality(A) + 1) * Heaviest
           /\ Cardinality(A) \in Nat \ {0}
<1>. DEFINE c == cw[b] + Weight[b]
            V == A \cup {b}
            w == SumOver(Weight, A)
<1>1. /\ A \in SUBSET Members /\ V \in SUBSET Members /\ V \in SUBSET Candidates
      /\ b \in Members /\ IsFiniteSet(A) /\ V \ {b} = A /\ b \in V
  BY SwrrBasics, FS_Subset
<1>2. c \in Int /\ Weight[b] \in Int /\ w \in Int
  BY <1>1, SwrrBasics, SumTakes
<1>3. Cardinality(A) \in Nat /\ Cardinality(A) # 0 /\ Cardinality(V) = Cardinality(A) + 1
  BY <1>1, FS_CardinalityType, FS_EmptySet, FS_AddElement
<1>4. SumOver(cw, A) + SumOver(Weight, A) <= Cardinality(A) * c
  <2>1. \A k \in A : cw[k] + Weight[k] <= c
    <3>. SUFFICES ASSUME NEW k \in A PROVE cw[k] + Weight[k] <= c
      OBVIOUS
    <3>1. c >= cw[k] + Weight[k]
      OBVIOUS
    <3>2. cw[k] \in Int /\ Weight[k] \in Int
      BY <1>1, SwrrBasics
    <3>. QED  BY <1>2, <3>1, <3>2
  <2>. HIDE DEF c
  <2>. QED  BY <1>1, <1>2, <2>1, SwrrBasics, SumBounded
<1>. HIDE DEF V
<1>5. SumOver(Weight, V) = SumOver(Weight, A) + Weight[b]
  BY <1>1, SwrrBasics, SumTakes
<1>6. 2 * SumOver(Weight, V) <= Cardinality(V) * Heaviest
  <2>1. Cardinality(V) >= 2
    BY <1>3
  <2>. QED  BY <1>1, <2>1, HalfWeights
<1>7. 2 * (Weight[b] + w) <= (Cardinality(A) + 1) * Heaviest
  BY <1>2, <1>3, <1>5, <1>6
<1>. QED  BY <1>3, <1>4, <1>7

\* The lanes of U that are paid do not get too far ahead: the winner is above them
\* and not in U, so that U with it, and U without them, were within their reach.
LEMMA Ahead ==
    ASSUME cw \in [Members -> Int], Balanced(cw), NEW S \in SUBSET Candidates, NEW b \in S,
           \A k \in S : cw[b] + Weight[b] >= cw[k] + Weight[k],
           NEW U \in SUBSET Candidates, b \notin U
    PROVE  2 * (SumOver(cw, U) + SumOver(Weight, U \cap S)) <= Reach(Cardinality(U))
<1>. DEFINE A == U \cap S
            V == U \cup {b}
            R == U \ A
            a == Cardinality(A)
            u == Cardinality(U)
            x == SumOver(cw, U)
            e == SumOver(cw, A)
            w == SumOver(Weight, A)
<1>1. /\ A \in SUBSET U /\ A \in SUBSET Candidates /\ V \in SUBSET Candidates
      /\ R \in SUBSET Candidates /\ b \in V /\ V \ {b} = U /\ b \notin A /\ b \in Candidates
  OBVIOUS
<1>2. /\ SumOver(cw, R) = x - e /\ Cardinality(R) = u - a
      /\ x \in Int /\ e \in Int /\ u \in Nat /\ a \in Nat
  BY <1>1, Parts
<1>3. SumOver(cw, V) = x + cw[b] /\ Cardinality(V) = u + 1
  <2>1. V \in SUBSET Members /\ IsFiniteSet(U)
    BY <1>1, SwrrBasics, FS_Subset
  <2>2. Cardinality(V) = u + 1
    BY <2>1, FS_AddElement
  <2>. HIDE DEF V
  <2>. QED  BY <1>1, <2>1, <2>2, SwrrBasics, SumTakes
<1>4. cw[b] \in Int /\ Weight[b] \in Int /\ w \in Int
  <2>1. b \in Members /\ A \in SUBSET Members
    BY <1>1, SwrrBasics
  <2>. QED  BY <2>1, SwrrBasics, SumTakes
<1>5. 2 * x <= Reach(u)
  BY DEF Balanced
<1>6. CASE A = {}
  <2>1. w = 0
    BY <1>6, SwrrBasics, SumEmpty
  <2>. HIDE DEF A, w
  <2>2. 2 * (x + w) <= Reach(u)
    BY <1>2, <1>5, <2>1
  <2>. QED  BY <2>2 DEF w, A
<1>7. CASE A # {}
  <2>1. /\ e + w <= a * (cw[b] + Weight[b])
        /\ 2 * (Weight[b] + w) <= (a + 1) * Heaviest
    <3>1. \A k \in A : cw[b] + Weight[b] >= cw[k] + Weight[k]
      OBVIOUS
    <3>. HIDE DEF A
    <3>. QED  BY <1>1, <1>7, <3>1, Below
  <2>2. 2 * (x + cw[b]) <= Reach(u + 1) /\ 2 * (x - e) <= Reach(u - a)
    <3>. HIDE DEF V, R, A, x, e, u, a
    <3>. QED  BY <1>1, <1>2, <1>3 DEF Balanced
  <2>3. /\ Reach(u) \in Int /\ Reach(u + 1) \in Int /\ Reach(u - a) \in Int /\ Heaviest \in Int
        /\ (a + 1) * Reach(u) = a * Reach(u + 1) + Reach(u - a) + a * ((a + 1) * Heaviest)
    <3>1. a \in Int /\ u \in Int
      BY <1>2
    <3>. HIDE DEF a, u
    <3>. QED  BY <3>1, ReachStep
  <2>. HIDE DEF A, V, R, a, u, x, e, w
  <2>4. 2 * (x + w) <= Reach(u)
    BY <1>2, <1>4, <2>1, <2>2, <2>3, Squeeze
  <2>. QED  BY <2>4 DEF x, w, u, A
<1>. QED  BY <1>6, <1>7

\* The lanes of U, with the winner in it, do not fall too far behind.
LEMMA Behind ==
    ASSUME cw \in [Members -> Int], Balanced(cw), NEW S \in SUBSET Candidates, NEW b \in S,
           \A k \in S : cw[b] + Weight[b] >= cw[k] + Weight[k],
           NEW U \in SUBSET Candidates, b \in U
    PROVE  -(2 * (SumOver(cw, U) - SumOver(Weight, S \ U))) <= Reach(Cardinality(U))
<1>. DEFINE B == S \ U
            V == U \cup B
            R == U \ {b}
            a == Cardinality(B)
            u == Cardinality(U)
            x == SumOver(cw, U)
            e == SumOver(cw, B)
            w == SumOver(Weight, B)
<1>1. /\ B \in SUBSET V /\ B \in SUBSET Candidates /\ V \in SUBSET Candidates
      /\ R \in SUBSET Candidates /\ V \ B = U /\ b \notin B /\ b \in Candidates
  OBVIOUS
<1>2. /\ SumOver(cw, V) = x + e /\ Cardinality(V) = u + a
      /\ x \in Int /\ e \in Int /\ u \in Nat /\ a \in Nat
  <2>. HIDE DEF V
  <2>1. /\ SumOver(cw, V \ B) = SumOver(cw, V) - SumOver(cw, B)
        /\ Cardinality(V \ B) = Cardinality(V) - Cardinality(B)
        /\ SumOver(cw, V) \in Int /\ SumOver(cw, B) \in Int
        /\ Cardinality(V) \in Nat /\ Cardinality(B) \in Nat
    BY <1>1, Parts
  <2>2. SumOver(cw, U) \in Int /\ Cardinality(U) \in Nat
    <3>1. U \in SUBSET U
      OBVIOUS
    <3>. QED  BY <3>1, Parts
  <2>3. SumOver(cw, U) = SumOver(cw, V) - SumOver(cw, B) /\ Cardinality(U) = Cardinality(V) - Cardinality(B)
    BY <1>1, <2>1
  <2>. QED  BY <2>1, <2>2, <2>3
<1>3. SumOver(cw, R) = x - cw[b] /\ Cardinality(R) = u - 1 /\ cw[b] \in Int
  <2>1. U \in SUBSET Members /\ IsFiniteSet(U) /\ b \in Members /\ R \in SUBSET Members
    BY SwrrBasics, FS_Subset
  <2>2. Cardinality(R) = u - 1
    BY <2>1, FS_RemoveElement
  <2>3. SumOver(cw, U) = SumOver(cw, R) + cw[b]
    BY <2>1, SwrrBasics, SumTakes
  <2>. HIDE DEF R
  <2>4. SumOver(cw, R) \in Int /\ cw[b] \in Int
    BY <2>1, SwrrBasics, SumTakes
  <2>. QED  BY <1>2, <2>2, <2>3, <2>4
<1>4. Weight[b] \in Int /\ w \in Int
  <2>1. b \in Members /\ B \in SUBSET Members
    BY <1>1, SwrrBasics
  <2>. QED  BY <2>1, SwrrBasics, SumTakes
<1>5. -(2 * x) <= Reach(u)
  BY DEF Balanced
<1>6. CASE B = {}
  <2>1. w = 0
    BY <1>6, SwrrBasics, SumEmpty
  <2>. HIDE DEF B, w, x, u
  <2>2. -(2 * (x - w)) <= Reach(u)
    BY <1>2, <1>5, <2>1
  <2>. QED  BY <2>2 DEF w, B, x, u
<1>7. CASE B # {}
  <2>. DEFINE y == 0 - x
  <2>1. /\ e + w <= a * (cw[b] + Weight[b])
        /\ 2 * (Weight[b] + w) <= (a + 1) * Heaviest
    <3>1. \A k \in B : cw[b] + Weight[b] >= cw[k] + Weight[k]
      OBVIOUS
    <3>. HIDE DEF B
    <3>. QED  BY <1>1, <1>7, <3>1, Below
  <2>2. 2 * (y + cw[b]) <= Reach(u - 1) /\ 2 * (y - e) <= Reach(u + a)
    <3>. HIDE DEF V, R, B, x, e, u, a
    <3>1. -(2 * (x - cw[b])) <= Reach(u - 1) /\ -(2 * (x + e)) <= Reach(u + a)
      BY <1>1, <1>2, <1>3 DEF Balanced
    <3>2. 2 * (y + cw[b]) = -(2 * (x - cw[b])) /\ 2 * (y - e) = -(2 * (x + e))
      BY <1>2, <1>3
    <3>. QED  BY <3>1, <3>2
  <2>3. /\ Reach(u) \in Int /\ Reach(u - 1) \in Int /\ Reach(u + a) \in Int /\ Heaviest \in Int
        /\ (a + 1) * Reach(u) = a * Reach(u - 1) + Reach(u + a) + a * ((a + 1) * Heaviest)
    <3>1. a \in Int /\ u \in Int
      BY <1>2
    <3>. HIDE DEF a, u
    <3>. QED  BY <3>1, ReachStep
  <2>4. y \in Int
    BY <1>2
  <2>. HIDE DEF B, V, R, a, u, x, e, w, y
  <2>5. 2 * (y + w) <= Reach(u)
    BY <1>2, <1>3, <1>4, <2>1, <2>2, <2>3, <2>4, Squeeze
  <2>6. -(2 * (x - w)) = 2 * (y + w)
    BY <1>2, <1>4 DEF y
  <2>7. -(2 * (x - w)) <= Reach(u)
    BY <2>5, <2>6
  <2>. QED  BY <2>7 DEF x, w, u, B
<1>. QED  BY <1>6, <1>7

\* A selection leaves the pool balanced.
LEMMA TurnKeeps ==
    ASSUME cw \in [Members -> Int], Balanced(cw), NEW S \in SUBSET Candidates, NEW b \in S,
           \A k \in S : cw[b] + Weight[b] >= cw[k] + Weight[k]
    PROVE  Balanced(Moved(S, b))
<1>. SUFFICES ASSUME NEW U \in SUBSET Candidates
              PROVE  /\ 2 * SumOver(Moved(S, b), U) <= Reach(Cardinality(U))
                     /\ -(2 * SumOver(Moved(S, b), U)) <= Reach(Cardinality(U))
  BY DEF Balanced
<1>. DEFINE x == SumOver(cw, U)
            y == SumOver(Moved(S, b), U)
            A == U \cap S
            B == S \ U
            v == SumOver(Weight, A)
            w == SumOver(Weight, B)
            f == Reach(Cardinality(U))
<1>1. U \in SUBSET Members /\ A \in SUBSET Members /\ B \in SUBSET Members
  BY SwrrBasics
<1>2. 2 * x <= f /\ -(2 * x) <= f
  BY DEF Balanced
<1>3. x \in Int /\ f \in Int
  <2>1. IsFiniteSet(U)
    BY SwrrBasics, FS_Subset
  <2>2. Cardinality(U) \in Int
    BY <2>1, FS_CardinalityType
  <2>. QED  BY <1>1, <2>2, SwrrBasics, SumTakes, ReachIs
<1>4. v \in Int /\ w \in Int /\ v >= 0 /\ w >= 0
  <2>. HIDE DEF A, B
  <2>. QED  BY <1>1, SwrrBasics, SumTakes, WeighsNat
<1>5. CASE b \notin U
  <2>1. y = x + v
    BY <1>5, MovedSums
  <2>2. 2 * (x + v) <= f
    BY <1>5, Ahead
  <2>. HIDE DEF x, y, A, B, v, w, f
  <2>3. 2 * y <= f /\ -(2 * y) <= f
    BY <1>2, <1>3, <1>4, <2>1, <2>2
  <2>. QED  BY <2>3 DEF y, f
<1>6. CASE b \in U
  <2>1. y = x - w
    BY <1>6, MovedSums
  <2>2. -(2 * (x - w)) <= f
    BY <1>6, Behind
  <2>. HIDE DEF x, y, A, B, v, w, f
  <2>3. 2 * y <= f /\ -(2 * y) <= f
    BY <1>2, <1>3, <1>4, <2>1, <2>2
  <2>. QED  BY <2>3 DEF y, f
<1>. QED  BY <1>5, <1>6

\* So does the zeroing of one accumulator.
LEMMA ResetKeeps ==
    ASSUME NEW x \in [Members -> Int], Balanced(x), NEW l \in Members,
           NEW y \in [Members -> Int], y[l] = 0, \A k \in Members \ {l} : y[k] = x[k]
    PROVE  Balanced(y)
<1>. SUFFICES ASSUME NEW U \in SUBSET Candidates
              PROVE  /\ 2 * SumOver(y, U) <= Reach(Cardinality(U))
                     /\ -(2 * SumOver(y, U)) <= Reach(Cardinality(U))
  BY DEF Balanced
<1>1. U \in SUBSET Members /\ IsFiniteSet(U) /\ U \in SUBSET U
  BY SwrrBasics, FS_Subset
<1>2. CASE l \notin U
  <2>1. \A k \in U : y[k] = x[k]
    BY <1>1, <1>2
  <2>2. SumOver(y, U) = SumOver(x, U)
    BY <1>1, <2>1, SumSame
  <2>. QED  BY <2>2 DEF Balanced
<1>3. CASE l \in U
  <2>. DEFINE V == U \ {l}
              u == Cardinality(U)
  <2>1. /\ V \in SUBSET Members /\ V \in SUBSET Candidates /\ \A k \in V : y[k] = x[k]
        /\ Cardinality(V) = u - 1
    BY <1>1, <1>3, FS_RemoveElement
  <2>2. SumOver(y, U) = SumOver(y, V) + y[l]
    BY <1>1, <1>3, SwrrBasics, SumTakes
  <2>3. u \in 1 .. Lanes
    <3>1. u \in Nat /\ u <= Lanes /\ Lanes \in Nat
      BY <1>1, SwrrBasics, Parts
    <3>2. u # 0
      BY <1>1, <1>3, FS_EmptySet
    <3>. QED  BY <3>1, <3>2
  <2>. HIDE DEF V, u
  <2>10. u \in Int /\ u - 1 \in Int
    BY <2>3, SwrrBasics
  <2>4. Reach(u - 1) <= Reach(u) /\ Reach(u) \in Int /\ Reach(u - 1) \in Int
    BY <2>3, <2>10, ReachIs
  <2>5. SumOver(y, V) = SumOver(x, V)
    BY <2>1, SumSame
  <2>6. 2 * SumOver(x, V) <= Reach(u - 1) /\ -(2 * SumOver(x, V)) <= Reach(u - 1)
    BY <2>1 DEF Balanced
  <2>7. SumOver(x, V) \in Int
    BY <2>1, SwrrBasics, SumTakes
  <2>8. SumOver(y, U) = SumOver(x, V)
    BY <2>2, <2>5, <2>7
  <2>9. 2 * SumOver(y, U) <= Reach(u) /\ -(2 * SumOver(y, U)) <= Reach(u)
    BY <2>4, <2>6, <2>7, <2>8
  <2>. QED  BY <2>9 DEF u
<1>. QED  BY <1>2, <1>3

\* The lowest of a set of lanes is one of them.
LEMMA LowestIn ==
    ASSUME NEW S \in SUBSET Members, S # {}
    PROVE  Min(S) \in S
<1>1. S \in SUBSET Nat
  BY SwrrAssumption
<1>2. PICK m \in S : \A k \in Nat : k < m => k \notin S
  BY <1>1, LeastOf
<1>3. \A y \in S : m <= y
  BY <1>1, <1>2
<1>. QED  BY <1>3 DEF Min

\* No selection looks at a lane that does not take part.
SelectionsTyped == sel \in [Selectors -> [todo : SUBSET Candidates, healthy : SUBSET Candidates]]

\* A lane that is passed over is paid its weight each time.
WaitsPaid == \A l \in Members : wait[l] * Weight[l] <= cw[l] + Swing

ShareInv ==
    /\ ready \subseteq Members /\ resets \subseteq Members
    /\ cw \in [Members -> Int] /\ wait \in [Members -> Nat]
    /\ SelectionsTyped
    /\ Balanced(cw)
    /\ \A l \in Members \ Candidates : cw[l] = 0
    /\ WaitsPaid

\* No accumulator leaves the swing, a drained lane's included.
LEMMA NoneBelow ==
    ASSUME NEW x \in [Members -> Int], Balanced(x), \A l \in Members \ Candidates : x[l] = 0,
           NEW l \in Members
    PROVE  -Swing <= x[l] /\ x[l] <= Swing /\ x[l] \in Int /\ Swing \in Nat
<1>1. Swing \in Nat /\ x[l] \in Int
  BY ReachIs
<1>2. CASE l \in Candidates
  BY <1>1, <1>2, Swings
<1>3. CASE l \notin Candidates
  <2>1. x[l] = 0
    BY <1>3
  <2>. QED  BY <1>1, <2>1
<1>. QED  BY <1>2, <1>3

\* A pool starts out balanced, and nobody has waited.
LEMMA ShareInit == SInit => ShareInv
<1>. SUFFICES ASSUME SInit PROVE ShareInv
  OBVIOUS
<1>1. /\ ready \subseteq Members /\ resets \subseteq Members
      /\ cw \in [Members -> Int] /\ wait \in [Members -> Nat]
      /\ \A l \in Members : cw[l] = 0 /\ wait[l] = 0
  BY DEF SInit
<1>2. SelectionsTyped
  BY DEF SInit, NotSelecting, SelectionsTyped
<1>3. Balanced(cw)
  <2>. SUFFICES ASSUME NEW U \in SUBSET Candidates
                PROVE  /\ 2 * SumOver(cw, U) <= Reach(Cardinality(U))
                       /\ -(2 * SumOver(cw, U)) <= Reach(Cardinality(U))
    BY DEF Balanced
  <2>1. U \in SUBSET Members /\ U \in SUBSET U /\ IsFiniteSet(U)
    BY SwrrBasics, FS_Subset
  <2>2. SumOver(cw, U) = 0
    BY <1>1, <2>1, SumZero
  <2>. DEFINE u == Cardinality(U)
              n == Lanes
              h == Heaviest
  <2>3. u \in Nat /\ u <= n /\ n \in Nat /\ h \in Nat
    BY <1>1, <2>1, SwrrBasics, HeaviestIs, Parts
  <2>4. Reach(u) = h * (u * (2 * n - 1 - u))
    BY DEF Reach
  <2>. HIDE DEF u, n, h
  <2>5. u * (2 * n - 1 - u) \in Nat
    <3>1. CASE u = 0
      BY <2>3, <3>1
    <3>2. CASE u # 0
      <4>1. 2 * n - 1 - u \in Nat
        BY <2>3, <3>2
      <4>. QED  BY <2>3, <4>1
    <3>. QED  BY <3>1, <3>2
  <2>6. Reach(u) >= 0
    BY <2>3, <2>4, <2>5
  <2>7. Reach(u) \in Int
    BY <2>3, <2>4, <2>5
  <2>. QED  BY <2>2, <2>6, <2>7 DEF u
<1>4. WaitsPaid
  <2>. SUFFICES ASSUME NEW l \in Members PROVE wait[l] * Weight[l] <= cw[l] + Swing
    BY DEF WaitsPaid
  <2>1. Swing \in Nat /\ Weight[l] \in Nat
    BY ReachIs, SwrrBasics
  <2>. QED  BY <1>1, <2>1
<1>. QED  BY <1>1, <1>2, <1>3, <1>4 DEF ShareInv

\* Zeroing the waits of some lanes pays for them whatever the accumulators are.
LEMMA PaidAgain ==
    ASSUME ShareInv, cw' \in [Members -> Int], Balanced(cw'),
           \A l \in Members \ Candidates : cw'[l] = 0,
           \A l \in Members : wait'[l] = 0 \/ (wait'[l] = wait[l] /\ cw'[l] = cw[l])
    PROVE  WaitsPaid'
<1>. SUFFICES ASSUME NEW l \in Members PROVE wait'[l] * Weight[l] <= cw'[l] + Swing
  BY DEF WaitsPaid, Swing, Heaviest, Candidates, Pairs, Drained
<1>1. Weight[l] \in Nat /\ wait[l] * Weight[l] <= cw[l] + Swing
  BY SwrrBasics DEF ShareInv, WaitsPaid
<1>2. CASE wait'[l] = 0
  <2>1. -Swing <= cw'[l] /\ cw'[l] \in Int /\ Swing \in Nat
    BY NoneBelow
  <2>. QED  BY <1>1, <1>2, <2>1
<1>3. CASE wait'[l] = wait[l] /\ cw'[l] = cw[l]
  BY <1>1, <1>3
<1>. QED  BY <1>2, <1>3

\* Every step keeps the invariant.
LEMMA ShareStep == ShareInv /\ [SNext]_svars => ShareInv'
<1>. SUFFICES ASSUME ShareInv, [SNext]_svars PROVE ShareInv'
  OBVIOUS
<1>0. /\ ready \subseteq Members /\ resets \subseteq Members
      /\ cw \in [Members -> Int] /\ wait \in [Members -> Nat]
      /\ Balanced(cw) /\ WaitsPaid
      /\ \A l \in Members \ Candidates : cw[l] = 0
      /\ SelectionsTyped
  BY DEF ShareInv
<1>bal. ASSUME Balanced(cw') PROVE Balanced(cw)'
  BY <1>bal DEF Balanced, SumOver, Sums, Reach, Lanes, Heaviest, Candidates, Pairs, Drained
<1>still. ASSUME cw' = cw PROVE Balanced(cw)'
  BY <1>0, <1>bal, <1>still
<1>same. ASSUME cw' = cw, wait' = wait PROVE Balanced(cw)' /\ WaitsPaid'
  BY <1>0, <1>same, <1>still DEF WaitsPaid, Swing, Heaviest, Candidates, Pairs, Drained
<1>1. ASSUME NEW r \in Selectors, Begin(r) PROVE ShareInv'
  <2>1. SelectionsTyped'
    BY <1>0, <1>1 DEF Begin, SelectionsTyped, Candidates, Drained
  <2>. QED  BY <1>0, <1>1, <1>same, <2>1 DEF Begin, ShareInv, Candidates, Drained
<1>2. ASSUME NEW r \in Selectors, Look(r) PROVE ShareInv'
  <2>. DEFINE l == Min(sel[r].todo)
  <2>1. sel[r].todo \in SUBSET Candidates /\ sel[r].todo # {}
    BY <1>0, <1>2 DEF Look, SelectionsTyped
  <2>2. l \in Candidates
    BY <2>1, SwrrBasics, LowestIn
  <2>. HIDE DEF l
  <2>3. SelectionsTyped'
    <3>. DEFINE T == sel[r].todo \ {l}
                H == IF l \in ready THEN sel[r].healthy \cup {l} ELSE sel[r].healthy
                R == [todo : SUBSET Candidates, healthy : SUBSET Candidates]
    <3>1. sel' = [sel EXCEPT ![r].todo = T, ![r].healthy = H]
      BY <1>2 DEF Look, l
    <3>2. sel \in [Selectors -> R] /\ sel[r].healthy \in SUBSET Candidates
      BY <1>0 DEF SelectionsTyped
    <3>3. T \in SUBSET Candidates /\ H \in SUBSET Candidates
      BY <2>1, <2>2, <3>2
    <3>. HIDE DEF T, H
    <3>4. sel' \in [Selectors -> R]
      BY <3>1, <3>2, <3>3
    <3>. QED  BY <3>4 DEF SelectionsTyped, Candidates, Drained
  <2>. QED  BY <1>0, <1>2, <1>same, <2>3 DEF Look, ShareInv, Candidates, Drained
<1>3. ASSUME NEW r \in Selectors, Turn(r) PROVE ShareInv'
  <2>. DEFINE S == sel[r].healthy
              w == [l \in S |-> cw[l] + Weight[l]]
              b == Picked(w)
  <2>1. /\ S \in SUBSET Candidates /\ S \in SUBSET Members /\ S # {}
        /\ cw' = Moved(S, b) /\ sel' = [sel EXCEPT ![r] = NotSelecting]
        /\ wait' = [l \in Members |-> IF l \in S \ {b} THEN wait[l] + 1 ELSE 0]
        /\ ready' = ready /\ resets' = resets
    BY <1>0, <1>3, SwrrBasics DEF Turn, SelectionsTyped
  <2>2. b \in S /\ \A k \in S : cw[b] + Weight[b] >= cw[k] + Weight[k]
    <3>. HIDE DEF S
    <3>1. w \in [S -> Int] /\ \A k \in S : w[k] = cw[k] + Weight[k]
      BY <1>0, <2>1, SwrrBasics
    <3>. HIDE DEF w
    <3>2. b \in S /\ \A k \in S : w[b] >= w[k]
      BY <2>1, <3>1, PickedIs
    <3>. QED  BY <3>1, <3>2
  <2>. HIDE DEF S, b
  <2>3. Balanced(Moved(S, b)) /\ Moved(S, b) \in [Members -> Int]
    <3>1. {} \in SUBSET Candidates
      OBVIOUS
    <3>. QED  BY <1>0, <2>1, <2>2, <3>1, TurnKeeps, MovedSums
  <2>4. cw' \in [Members -> Int] /\ Balanced(cw')
    BY <2>1, <2>3
  <2>5. Balanced(cw)'
    BY <1>bal, <2>4
  <2>6. wait' \in [Members -> Nat] /\ \A l \in Members : wait'[l] = IF l \in S \ {b} THEN wait[l] + 1 ELSE 0
    BY <1>0, <2>1
  <2>7. /\ \A l \in Members : l \notin S => cw'[l] = cw[l]
        /\ \A l \in S \ {b} : cw'[l] = cw[l] + Weight[l]
    BY <2>1 DEF Moved
  <2>8. \A l \in Members \ Candidates : cw'[l] = 0
    BY <1>0, <2>1, <2>7
  <2>9. WaitsPaid'
    <3>. SUFFICES ASSUME NEW l \in Members PROVE wait'[l] * Weight[l] <= cw'[l] + Swing
      BY DEF WaitsPaid, Swing, Heaviest, Candidates, Pairs, Drained
    <3>1. Weight[l] \in Nat /\ wait[l] * Weight[l] <= cw[l] + Swing
      BY <1>0, SwrrBasics DEF WaitsPaid
    <3>2. /\ -Swing <= cw'[l] /\ cw'[l] \in Int /\ Swing \in Nat /\ cw[l] \in Int /\ wait[l] \in Nat
      BY <1>0, <2>4, <2>8, NoneBelow
    <3>3. CASE l \in S \ {b}
      <4>1. wait'[l] = wait[l] + 1 /\ cw'[l] = cw[l] + Weight[l]
        BY <2>6, <2>7, <3>3
      <4>2. (wait[l] + 1) * Weight[l] = wait[l] * Weight[l] + Weight[l] /\ wait[l] * Weight[l] \in Int
        BY <3>1, <3>2
      <4>. QED  BY <3>1, <3>2, <4>1, <4>2
    <3>4. CASE l \notin S \ {b}
      <4>1. wait'[l] = 0
        BY <2>6, <3>4
      <4>. QED  BY <3>1, <3>2, <4>1
    <3>. QED  BY <3>3, <3>4
  <2>10. SelectionsTyped'
    BY <1>0, <2>1 DEF SelectionsTyped, NotSelecting, Candidates, Drained
  <2>. QED  BY <1>0, <2>1, <2>4, <2>5, <2>6, <2>8, <2>9, <2>10 DEF ShareInv, Candidates, Drained
<1>4. ASSUME NEW l \in Members, Suppress(l) PROVE ShareInv'
  <2>1. /\ ready' \subseteq Members /\ cw' = cw /\ resets' = resets /\ sel' = sel
        /\ wait' \in [Members -> Nat]
        /\ \A k \in Members : wait'[k] = 0 \/ wait'[k] = wait[k]
    BY <1>0, <1>4 DEF Suppress
  <2>2. WaitsPaid'
    BY <1>0, <2>1, PaidAgain
  <2>3. Balanced(cw)' /\ SelectionsTyped'
    BY <1>0, <1>still, <2>1 DEF SelectionsTyped, Candidates, Drained
  <2>. QED  BY <1>0, <2>1, <2>2, <2>3 DEF ShareInv, Candidates, Drained
<1>5. ASSUME NEW l \in Members, CoolsOff(l) \/ Closed(l) PROVE ShareInv'
  <2>1. /\ ready' \subseteq Members /\ resets' \subseteq Members
        /\ cw' = cw /\ sel' = sel /\ wait' = wait
    BY <1>0, <1>5 DEF CoolsOff, Closed
  <2>2. SelectionsTyped'
    BY <1>0, <2>1 DEF SelectionsTyped, Candidates, Drained
  <2>. QED  BY <1>0, <1>same, <2>1, <2>2 DEF ShareInv, Candidates, Drained
<1>6. ASSUME NEW l \in Members, ResetSwrr(l) PROVE ShareInv'
  <2>1. /\ ready' = ready /\ resets' \subseteq Members /\ sel' = sel
        /\ cw' \in [Members -> Int] /\ cw'[l] = 0 /\ \A k \in Members \ {l} : cw'[k] = cw[k]
        /\ wait' \in [Members -> Nat] /\ wait'[l] = 0
        /\ \A k \in Members \ {l} : wait'[k] = wait[k]
    BY <1>0, <1>6 DEF ResetSwrr
  <2>2. Balanced(cw')
    BY <1>0, <2>1, ResetKeeps
  <2>3. Balanced(cw)' /\ SelectionsTyped'
    BY <1>0, <1>bal, <2>1, <2>2 DEF SelectionsTyped, Candidates, Drained
  <2>4. \A k \in Members \ Candidates : cw'[k] = 0
    BY <1>0, <2>1
  <2>5. WaitsPaid'
    <3>1. \A k \in Members : wait'[k] = 0 \/ (wait'[k] = wait[k] /\ cw'[k] = cw[k])
      BY <2>1
    <3>. QED  BY <2>1, <2>2, <2>4, <3>1, PaidAgain
  <2>. QED  BY <1>0, <2>1, <2>3, <2>4, <2>5 DEF ShareInv, Candidates, Drained
<1>7. CASE UNCHANGED svars
  <2>1. ready' = ready /\ cw' = cw /\ resets' = resets /\ sel' = sel /\ wait' = wait
    BY <1>7 DEF svars
  <2>2. SelectionsTyped'
    BY <1>0, <2>1 DEF SelectionsTyped, Candidates, Drained
  <2>. QED  BY <1>0, <1>same, <2>1, <2>2 DEF ShareInv, Candidates, Drained
<1>. QED  BY <1>1, <1>2, <1>3, <1>4, <1>5, <1>6, <1>7 DEF SNext

\* The invariant holds in every reachable state.
LEMMA ShareInvariant == SSpec => []ShareInv
  BY ShareInit, ShareStep, PTL DEF SSpec

\* The state keeps its shape, and no selection ever sees a drained lane, for any
\* pool and any number of requests (select_weighted_for).
THEOREM SwrrTyped == SSpec => []STypeOK
<1>1. ShareInv => STypeOK
  BY DEF ShareInv, STypeOK, SelectionsTyped, Candidates
<1>. QED  BY <1>1, ShareInvariant, PTL

\* Recoveries starve nobody, for any pool, any weights and any number of requests:
\* whatever sets of lanes the selections find ready, and whenever a recovery zeroes
\* a lane, no accumulator leaves the swing, and a lane that stays ready is passed
\* over a bounded number of times (select_weighted_for, reset_swrr_for).
THEOREM FairShareCorrect == SSpec => []FairShare
<1>1. ShareInv => FairShare
  <2>. SUFFICES ASSUME ShareInv, NEW l \in Members
                PROVE  cw[l] \in -Swing..Swing /\ wait[l] * Weight[l] <= 2 * Swing
    BY DEF FairShare
  <2>1. -Swing <= cw[l] /\ cw[l] <= Swing /\ cw[l] \in Int /\ Swing \in Nat
    BY NoneBelow DEF ShareInv
  <2>2. wait[l] * Weight[l] <= cw[l] + Swing
    BY DEF ShareInv, WaitsPaid
  <2>3. wait[l] * Weight[l] \in Int
    BY SwrrBasics DEF ShareInv
  <2>. QED  BY <2>1, <2>2, <2>3
<1>. QED  BY <1>1, ShareInvariant, PTL
=============================================================================
