------------------------------ MODULE LaneLedger ------------------------------
(***************************************************************************)
(* What a request takes from one lane and what it gives back: a permit of  *)
(* the lane's semaphore (max_concurrent), one unit of its lifetime budget  *)
(* (max_requests), and the token bill of the caller's key.  The permit is  *)
(* taken at admission, the unit is spent on the 2xx headers, and either is *)
(* returned, kept or billed by whichever of the many ends of a response    *)
(* body comes first: translate_response_cross_protocol for a buffered one, *)
(* FirstByteBody for a streamed one, a Drop when the client goes away.     *)
(*                                                                         *)
(* What the breaker answers is left open here; BreakerCell models it.      *)
(***************************************************************************)
EXTENDS Integers, Sequences, FiniteSets

CONSTANTS
    Requests,
    MaxConcurrent,   \* permits of the lane's semaphore
    MaxRequests      \* the lane's lifetime budget (a limited lane)

ASSUME LimitsValid ==
    /\ IsFiniteSet(Requests)
    /\ MaxConcurrent \in Nat \ {0}
    /\ MaxRequests \in Nat \ {0}

VARIABLES
    free,     \* free permits of the semaphore
    holds,    \* requests that hold a permit
    waiting,  \* requests parked in acquire_owned, first come first served
    budget,   \* LaneState.budget
    reg,      \* the budget a spender loaded
    charge,   \* the unit a request spent: "none", "armed" or "kept"
    billed,   \* how often a request's tokens were billed
    kind,     \* how the 2xx body is delivered
    begun,    \* requests whose client has received a byte
    pc

ledgerVars == <<free, holds, waiting, budget, reg, charge, billed, kind, begun, pc>>

permits == <<free, holds, waiting>>
spends  == <<budget, reg, charge>>
bodies  == <<billed, kind, begun>>

(* cross-protocol non-stream; streamed through FirstByteBody as an event   *)
(* stream; and through FirstByteBody as a same-protocol plain body         *)
Kinds == {"buffered", "sse", "plain"}

InLane == {"probe", "sent", "spend", "cas", "body"}
Ends     == {"refused", "failed", "delivered", "truncated", "broken", "gone"}
PCs      == {"new", "permit", "exhausted", "full", "parked"} \cup InLane \cup Ends

(* Type invariant. *)
LedgerTypeOK ==
    /\ free \in Nat
    /\ holds \in SUBSET Requests
    /\ waiting \in Seq(Requests)
    /\ budget \in Int
    /\ reg \in [Requests -> Int]
    /\ charge \in [Requests -> {"none", "armed", "kept"}]
    /\ billed \in [Requests -> Nat]
    /\ kind \in [Requests -> Kinds \cup {"none"}]
    /\ begun \in SUBSET Requests
    /\ pc \in [Requests -> PCs]

LedgerInit ==
    /\ free = MaxConcurrent
    /\ holds = {}
    /\ waiting = <<>>
    /\ budget = MaxRequests
    /\ reg = [r \in Requests |-> 0]
    /\ charge = [r \in Requests |-> "none"]
    /\ billed = [r \in Requests |-> 0]
    /\ kind = [r \in Requests |-> "none"]
    /\ begun = {}
    /\ pc = [r \in Requests |-> "new"]

Goto(r, l) == pc' = [pc EXCEPT ![r] = l]

-----------------------------------------------------------------------------
(* The semaphore (tokio): a released permit goes to the first waiter. *)

Take(r) ==
    /\ free > 0
    /\ free' = free - 1
    /\ holds' = holds \cup {r}
    /\ UNCHANGED waiting

Release(r) ==
    IF waiting = <<>>
    THEN /\ holds' = holds \ {r}
         /\ free' = free + 1
         /\ UNCHANGED waiting
    ELSE /\ holds' = (holds \ {r}) \cup {Head(waiting)}
         /\ waiting' = Tail(waiting)
         /\ UNCHANGED free

(* A waiter that gives up leaves the line. *)
Leave(r) ==
    /\ \E i \in 1 .. Len(waiting) :
          /\ waiting[i] = r
          /\ waiting' = [j \in 1 .. Len(waiting) - 1 |->
                           IF j < i THEN waiting[j] ELSE waiting[j + 1]]
    /\ UNCHANGED <<free, holds>>

-----------------------------------------------------------------------------
(* Admission: try_admit and what a pool does when it is exhausted. *)

LaneUsable == budget > 0

(* The gates and the verdict, which may refuse. *)
TryAdmit(r) ==
    /\ pc[r] = "new"
    /\ \/ LaneUsable /\ Goto(r, "permit")
       \/ Goto(r, "exhausted")
    /\ UNCHANGED <<permits, spends, bodies>>

TryAcquire(r) ==
    /\ pc[r] = "permit"
    /\ \/ Take(r) /\ Goto(r, "probe")
       \/ free = 0 /\ UNCHANGED permits /\ Goto(r, "full")
    /\ UNCHANGED <<spends, bodies>>

(* cell_acquire_breaker with the permit in hand. *)
AcquireBreaker(r) ==
    /\ pc[r] = "probe"
    /\ \/ UNCHANGED permits /\ Goto(r, "sent")
       \/ Release(r) /\ Goto(r, "exhausted")
    /\ UNCHANGED <<spends, bodies>>

Shed(r) ==
    /\ pc[r] \in {"exhausted", "full"}
    /\ Goto(r, "refused")
    /\ UNCHANGED <<permits, spends, bodies>>

LeastBad(r) ==
    /\ pc[r] \in {"exhausted", "full"}
    /\ LaneUsable
    /\ Take(r)
    /\ Goto(r, "sent")
    /\ UNCHANGED <<spends, bodies>>

(* Mutant: a waiter parks without asking for the permit that was freed     *)
(* since its admission failed.                                             *)
QueueBlind(r) ==
    /\ pc[r] = "full"
    /\ waiting' = Append(waiting, r)
    /\ Goto(r, "parked")
    /\ UNCHANGED <<free, holds, spends, bodies>>

(* handle_queue: acquire_owned takes a free permit at once or parks. *)
Queue(r) ==
    /\ pc[r] = "full"
    /\ \/ Take(r)
       \/ /\ free = 0
          /\ waiting' = Append(waiting, r)
          /\ UNCHANGED <<free, holds>>
    /\ Goto(r, "parked")
    /\ UNCHANGED <<spends, bodies>>

(* The permit was won; try_admit_breaker looks again. *)
QueueAdmit(r) ==
    /\ pc[r] = "parked" /\ r \in holds
    /\ \/ LaneUsable /\ UNCHANGED permits /\ Goto(r, "sent")
       \/ Release(r) /\ Goto(r, "refused")
    /\ UNCHANGED <<spends, bodies>>

(* Mutant: a permit that was handed over at the deadline is lost. *)
QueueTimeoutLoses(r) ==
    /\ pc[r] = "parked"
    /\ IF r \in holds
       THEN holds' = holds \ {r} /\ UNCHANGED <<free, waiting>>
       ELSE Leave(r)
    /\ Goto(r, "refused")
    /\ UNCHANGED <<spends, bodies>>

(* The deadline, or a client that went away: a permit that was handed over *)
(* in the meantime goes to the next waiter.                                *)
QueueTimeout(r) ==
    /\ pc[r] = "parked"
    /\ IF r \in holds THEN Release(r) ELSE Leave(r)
    /\ Goto(r, "refused")
    /\ UNCHANGED <<spends, bodies>>

-----------------------------------------------------------------------------
(* The upstream call up to its headers. *)

(* A transport error, an attempt timeout, a non-2xx answer, a bail before  *)
(* dispatch or a dropped future: nothing was spent.                        *)
NoSuccess(r) ==
    /\ pc[r] = "sent"
    /\ Release(r)
    /\ Goto(r, "failed")
    /\ UNCHANGED <<spends, bodies>>

Headers(r, k) ==
    /\ pc[r] = "sent"
    /\ kind' = [kind EXCEPT ![r] = k]
    /\ Goto(r, "spend")
    /\ UNCHANGED <<permits, spends, billed, begun>>

(* spend_budget: a load, then a compare-and-swap loop. *)
SpendLoad(r) ==
    /\ pc[r] = "spend"
    /\ reg' = [reg EXCEPT ![r] = budget]
    /\ Goto(r, "cas")
    /\ UNCHANGED <<permits, budget, charge, bodies>>

(* Mutant: the loaded value is stored without comparing. *)
SpendStore(r) ==
    /\ pc[r] = "cas"
    /\ \/ /\ reg[r] <= 0
          /\ UNCHANGED <<budget, charge>>
       \/ /\ reg[r] > 0
          /\ budget' = reg[r] - 1
          /\ charge' = [charge EXCEPT ![r] = "armed"]
    /\ Goto(r, "body")
    /\ UNCHANGED <<permits, reg, bodies>>

SpendCas(r) ==
    /\ pc[r] = "cas"
    /\ \/ /\ reg[r] <= 0
          /\ Goto(r, "body")
          /\ UNCHANGED spends
       \/ /\ reg[r] > 0 /\ budget = reg[r]
          /\ budget' = budget - 1
          /\ charge' = [charge EXCEPT ![r] = "armed"]
          /\ Goto(r, "body")
          /\ UNCHANGED reg
       \/ /\ reg[r] > 0 /\ budget # reg[r]
          /\ reg' = [reg EXCEPT ![r] = budget]
          /\ UNCHANGED <<budget, charge, pc>>
    /\ UNCHANGED <<permits, bodies>>

-----------------------------------------------------------------------------
(* The ends of a body. *)

(* refund_budget, guarded by `armed` / `budget_spent`. *)
RefundBudget(r) ==
    /\ budget' = IF charge[r] = "armed" THEN budget + 1 ELSE budget
    /\ charge' = [charge EXCEPT ![r] = "none"]
    /\ UNCHANGED reg

(* BudgetSpendGuard::disarm, or `ended`: the charge stands. *)
Keep(r) ==
    /\ charge' = [charge EXCEPT ![r] = IF @ = "armed" THEN "kept" ELSE @]
    /\ UNCHANGED <<budget, reg>>

Bill(r) == billed' = [billed EXCEPT ![r] = @ + 1]

(* A body that ends: its permit goes back. *)
EndBody(r, end) == pc[r] = "body" /\ Release(r) /\ Goto(r, end)

(* Buffered: the transfer broke, or the 2xx cannot be translated. *)
BufferedBroken(r) ==
    /\ kind[r] = "buffered" /\ EndBody(r, "broken")
    /\ RefundBudget(r)
    /\ UNCHANGED bodies

(* Buffered: larger than the translation cap. *)
BufferedTruncated(r) ==
    /\ kind[r] = "buffered" /\ EndBody(r, "truncated")
    /\ Keep(r)
    /\ UNCHANGED bodies

BufferedDelivered(r) ==
    /\ kind[r] = "buffered" /\ EndBody(r, "delivered")
    /\ Bill(r)
    /\ Keep(r)
    /\ UNCHANGED <<kind, begun>>

(* Buffered: the client goes away while the body is read. *)
BufferedGone(r) ==
    /\ kind[r] = "buffered" /\ EndBody(r, "gone")
    /\ RefundBudget(r)
    /\ UNCHANGED bodies

Streamed(r) == kind[r] \in {"sse", "plain"}

FirstByte(r) ==
    /\ pc[r] = "body" /\ Streamed(r) /\ r \notin begun
    /\ begun' = begun \cup {r}
    /\ UNCHANGED <<permits, spends, billed, kind, pc>>

(* FirstByteBody: an upstream transport error.  An event stream that has   *)
(* begun ends with an error event and keeps the charge.                    *)
StreamBroken(r) ==
    /\ Streamed(r) /\ EndBody(r, "broken")
    /\ IF kind[r] = "sse" /\ r \in begun THEN Keep(r) ELSE RefundBudget(r)
    /\ UNCHANGED bodies

(* FirstByteBody: the stream ends, cleanly or with a terminal error event. *)
StreamEnded(r) ==
    /\ Streamed(r)
    /\ Keep(r)
    /\ \/ EndBody(r, "delivered") /\ Bill(r)
       \/ /\ kind[r] = "sse" /\ EndBody(r, "broken")
          /\ UNCHANGED billed
    /\ UNCHANGED <<kind, begun>>

(* FirstByteBody::drop before the end: the unit is given back, and what    *)
(* usage an event stream has reported by then is billed.                   *)
StreamGone(r) ==
    /\ Streamed(r) /\ EndBody(r, "gone")
    /\ RefundBudget(r)
    /\ \/ UNCHANGED billed
       \/ kind[r] = "sse" /\ r \in begun /\ Bill(r)
    /\ UNCHANGED <<kind, begun>>

-----------------------------------------------------------------------------
Finished == (\A r \in Requests : pc[r] \in Ends) /\ UNCHANGED ledgerVars

Admission(r) == TryAdmit(r) \/ TryAcquire(r) \/ AcquireBreaker(r)

OnExhausted(r) == Shed(r) \/ LeastBad(r) \/ Queue(r) \/ QueueAdmit(r)

Upstream(r) ==
    \/ NoSuccess(r) \/ SpendLoad(r) \/ SpendCas(r)
    \/ \E k \in Kinds : Headers(r, k)

Body(r) ==
    \/ BufferedBroken(r) \/ BufferedTruncated(r) \/ BufferedDelivered(r)
    \/ BufferedGone(r) \/ StreamBroken(r) \/ StreamEnded(r) \/ StreamGone(r)

LedgerNext ==
    \/ \E r \in Requests :
          \/ Admission(r) \/ OnExhausted(r) \/ QueueTimeout(r)
          \/ Upstream(r) \/ FirstByte(r) \/ Body(r)
    \/ Finished

LedgerSpec == LedgerInit /\ [][LedgerNext]_ledgerVars

(* Tasks are polled until they end and an upstream body is bounded by the  *)
(* client's timeouts.  Nothing is assumed of the queue's own deadline.     *)
LedgerFairness ==
    \A r \in Requests :
        /\ WF_ledgerVars(Admission(r)) /\ WF_ledgerVars(OnExhausted(r))
        /\ WF_ledgerVars(Upstream(r)) /\ WF_ledgerVars(Body(r))

FairSpec == LedgerSpec /\ LedgerFairness

-----------------------------------------------------------------------------
(* Correctness properties. *)

(* max_concurrent bounds the upstream calls in flight, although permits    *)
(* travel from admission into response bodies and from a body to a waiter: *)
(* whoever is in flight holds one, and none is lost or forged.             *)
PermitsConserved ==
    /\ \A r \in Requests : pc[r] \in InLane => r \in holds
    /\ free + Cardinality(holds) = MaxConcurrent

(* The budget and the units spent add up to max_requests at every instant: *)
(* no interleaving of spends, refunds and drops creates or loses a unit,   *)
(* so the counter never goes below zero nor above its cap.                 *)
Charged == {r \in Requests : charge[r] # "none"}

BudgetConserved == budget >= 0 /\ budget + Cardinality(Charged) = MaxRequests

(* A response that ended has settled its charge, tokens are billed at most *)
(* once, and a response that broke off or was refused is never billed.     *)
BillingSettled ==
    \A r \in Requests :
        /\ pc[r] \in Ends => charge[r] # "armed"
        /\ billed[r] <= 1
        /\ billed[r] = 1 => pc[r] \in {"delivered", "gone"}

(* A request parked in the queue is not forgotten: as long as the bodies   *)
(* ahead of it end, it gets a permit or gives up, also if its deadline     *)
(* never fires.  (A freed permit is stored, no wake-up is lost.)           *)
NoLostWakeup == \A r \in Requests : (pc[r] = "parked") ~> (pc[r] # "parked")
=============================================================================
