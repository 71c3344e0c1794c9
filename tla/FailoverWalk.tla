----------------------------- MODULE FailoverWalk -----------------------------
(***************************************************************************)
(* One request's walk over lanes and pools: the failover loop of           *)
(* forward_with_pool_parsed_inner, the exhaustion modes it ends in         *)
(* (reject, fallback_pool, least_bad, queue) and the RequestCtx they share *)
(* (excluded lanes, visited pools, deadline, restrict in force).           *)
(*                                                                         *)
(* What the store answers at each pick (which lane is ready, which is at   *)
(* capacity) depends on all other requests and is left open; BreakerCell   *)
(* and LaneLedger model it.  pick_among does not yield, so a pick is one   *)
(* step.  Weights and routing policies only order the lanes: any order.    *)
(***************************************************************************)
EXTENDS Integers, Sequences, FiniteSets

CONSTANTS
    Pools, Lanes,
    Members,      \* pool -> its member lanes
    Exclusions,   \* pool -> failover.exclusions, members never selected
    Tagged,       \* pool -> members whose tags satisfy the restrict
    ContextMax,   \* lane -> context_max, Unset if none is declared
    Primary,      \* the pool the request names
    MaxHops,      \* failover.max_hops
    Configs,      \* the on_exhausted maps a deployment may have
    NoLane

Unset == 0

ASSUME WalkConstants ==
    /\ IsFiniteSet(Lanes) /\ IsFiniteSet(Pools)
    /\ Primary \in Pools /\ NoLane \notin Lanes
    /\ Members \in [Pools -> SUBSET Lanes]
    /\ Exclusions \in [Pools -> SUBSET Lanes]
    /\ Tagged \in [Pools -> SUBSET Lanes]
    /\ ContextMax \in [Lanes -> Nat]
    /\ MaxHops \in Nat
    /\ Configs \subseteq [Pools -> Pools \cup {"reject", "least_bad", "queue"}]
    /\ Pools \cap {"reject", "least_bad", "queue"} = {}

VARIABLES
    on_exhausted,  \* pool -> a mode, or the fallback pool
    restrict,      \* the request's compliance restrict and its on_empty
    sticky,        \* the lane the affinity key hashes to
    pool, cands,   \* the pool walked now and its narrowed members
    excluded, visited,
    at_cap,        \* excluded_reasons: lanes at capacity at the last pick
    hops,          \* attempts of the primary loop
    clock,         \* which of its two deadlines the request has passed
    overflowed,    \* lanes that answered with a context-length error
    log,           \* every dispatch so far
    pc

config == <<on_exhausted, restrict>>
ctx    == <<excluded, visited, at_cap>>
vars   == <<config, sticky, pool, cands, ctx, hops, clock, overflowed, log, pc>>

Restricts == {"none", "required", "advisory"}
Vias      == {"loop", "fallback", "least_bad", "queue"}
Dispatch  == [pool : Pools, lane : Lanes, via : Vias]
Clocks    == {"ahead", "second", "overdue"}
PCs       == {"new", "loop", "sent", "exhausted", "fallback", "fsent",
              "queued", "last", "answered"}

(* Type invariant. *)
TypeOK ==
    /\ on_exhausted \in Configs
    /\ restrict \in Restricts
    /\ sticky \in Lanes \cup {NoLane}
    /\ pool \in Pools /\ cands \in SUBSET Lanes
    /\ excluded \in SUBSET Lanes /\ visited \in SUBSET Pools
    /\ at_cap \in SUBSET Lanes
    /\ hops \in 0 .. MaxHops + 1
    /\ clock \in Clocks
    /\ overflowed \in SUBSET Lanes
    /\ log \in Seq(Dispatch)
    /\ pc \in PCs

(* RequestCtx keeps its deadline twice: `deadline` in whole epoch seconds, *)
(* rounded down, which every pick asks (expired), and `deadline_wall`, up  *)
(* to a second later, which bounds the queue.                              *)
expired == clock # "ahead"
overdue == clock = "overdue"

Init ==
    /\ on_exhausted \in Configs
    /\ restrict \in Restricts
    /\ sticky = NoLane
    /\ pool = Primary /\ cands = {}
    /\ excluded = {} /\ visited = {} /\ at_cap = {}
    /\ hops = 0 /\ clock = "ahead" /\ overflowed = {}
    /\ log = <<>>
    /\ pc = "new"

-----------------------------------------------------------------------------
(* enforce_restricts: an empty result is refused or ignored, by on_empty. *)
Restricted(p, c) ==
    IF restrict = "none" \/ (restrict = "advisory" /\ c \cap Tagged[p] = {})
    THEN c ELSE c \cap Tagged[p]

Refused(p, c) == restrict = "required" /\ c \cap Tagged[p] = {}

(* The primary pool: its blocklist first, then the gate's restrict. *)
Arrive ==
    /\ pc = "new"
    /\ LET listed == Members[Primary] \ Exclusions[Primary]
       IN  IF Refused(Primary, listed)
           THEN pc' = "answered" /\ UNCHANGED <<cands, sticky>>
           ELSE /\ cands' = Restricted(Primary, listed)
                /\ sticky' \in cands' \cup {NoLane}
                /\ pc' = "loop"
    /\ UNCHANGED <<config, pool, ctx, hops, clock, overflowed, log>>

Send(l, via) == log' = Append(log, [pool |-> pool, lane |-> l, via |-> via])

-----------------------------------------------------------------------------
(* pick_among over the untried candidates: a lane is admitted, or none is. *)
(* The lanes found at capacity on the way are noted; the lane picked is    *)
(* among them only if the sticky fast path was refused it a moment before. *)

Untried == cands \ excluded

Picks(l, pin) ==
    /\ l \in Untried
    /\ \E full \in SUBSET (Untried \ ({l} \ {pin})) : at_cap' = full
    /\ excluded' = excluded \cup {l}
    /\ UNCHANGED visited

PicksNone ==
    /\ \E full \in SUBSET Untried : at_cap' = full
    /\ UNCHANGED <<excluded, visited>>

-----------------------------------------------------------------------------
(* The loop of the primary pool. *)

LoopPick(l) ==
    /\ pc = "loop" /\ hops <= MaxHops /\ ~expired
    /\ Picks(l, sticky)
    /\ Send(l, "loop")
    /\ hops' = hops + 1
    /\ pc' = "sent"
    /\ UNCHANGED <<config, sticky, pool, cands, clock, overflowed>>

LoopNone ==
    /\ pc = "loop" /\ hops <= MaxHops /\ ~expired
    /\ PicksNone
    /\ pc' = IF cands = {} THEN "answered" ELSE "exhausted"
    /\ UNCHANGED <<config, sticky, pool, cands, hops, clock, overflowed, log>>

LoopLate ==
    /\ pc = "loop" /\ hops <= MaxHops /\ expired
    /\ pc' = "answered"
    /\ UNCHANGED <<config, sticky, pool, cands, ctx, hops, clock, overflowed, log>>

LoopCap ==
    /\ pc = "loop" /\ hops > MaxHops
    /\ pc' = "exhausted"
    /\ UNCHANGED <<config, sticky, pool, cands, ctx, hops, clock, overflowed, log>>

(* A 2xx, a relayed 4xx, a rejected credential or a bail: the walk ends. *)
Answered ==
    /\ pc = "sent"
    /\ pc' = "answered"
    /\ UNCHANGED <<config, sticky, pool, cands, ctx, hops, clock, overflowed, log>>

(* A transport error, an attempt timeout, a transient or a billing error. *)
Failed ==
    /\ pc = "sent"
    /\ pc' = "loop"
    /\ UNCHANGED <<config, sticky, pool, cands, ctx, hops, clock, overflowed, log>>

Undercuts(l, o) ==
    ContextMax[l] # Unset /\ ContextMax[o] # Unset /\ ContextMax[l] <= ContextMax[o]

ContextLength ==
    /\ pc = "sent"
    /\ LET o == log[Len(log)].lane
       IN  /\ excluded' = excluded \cup {l \in cands : Undercuts(l, o)}
           /\ overflowed' = overflowed \cup {o}
    /\ pc' = "loop"
    /\ UNCHANGED <<config, sticky, pool, cands, visited, at_cap, hops, clock, log>>

-----------------------------------------------------------------------------
(* handle_exhaustion_for_pool: the pool is marked visited, then its mode. *)

Marked == visited \cup {pool}

Exhausted(mode) ==
    /\ pc = "exhausted" /\ on_exhausted[pool] = mode
    /\ UNCHANGED <<config, sticky, excluded, at_cap, hops, clock, overflowed>>

Reject ==
    /\ Exhausted("reject")
    /\ visited' = Marked
    /\ pc' = "answered"
    /\ UNCHANGED <<pool, cands, log>>

(* handle_least_bad: any candidate with a free permit, tried or not. *)
LeastBad ==
    /\ Exhausted("least_bad")
    /\ visited' = Marked
    /\ \/ \E l \in cands : Send(l, "least_bad") /\ pc' = "last"
       \/ UNCHANGED log /\ pc' = "answered"
    /\ UNCHANGED <<pool, cands>>

(* handle_queue waits only for lanes that were at capacity. *)
Queue ==
    /\ Exhausted("queue")
    /\ visited' = Marked
    /\ pc' = IF at_cap = {} THEN "answered" ELSE "queued"
    /\ UNCHANGED <<pool, cands, log>>

(* Mutant: the fallback pool's own blocklist is not applied. *)
SpillAll(q) == Restricted(q, Members[q])

(* The fallback pool's restrict, then its own blocklist. *)
SpillCands(q) == Restricted(q, Members[q]) \ Exclusions[q]

(* handle_fallback_pool up to its loop. *)
Spill(q) ==
    /\ Exhausted(q)
    /\ IF expired \/ q \in Marked \/ Refused(q, Members[q])
       THEN /\ visited' = Marked
            /\ pc' = "answered"
            /\ UNCHANGED <<pool, cands>>
       ELSE /\ visited' = Marked \cup {q}
            /\ pool' = q
            /\ cands' = SpillCands(q)
            /\ pc' = "fallback"
    /\ UNCHANGED log

-----------------------------------------------------------------------------
(* The loop of a fallback pool, and the last attempts. *)

(* Mutant: the lane tried is not excluded. *)
FallbackPickAgain(l) ==
    /\ pc = "fallback" /\ ~expired
    /\ l \in Untried
    /\ log' = IF Len(log) > MaxHops + Cardinality(Lanes) THEN log
              ELSE Append(log, [pool |-> pool, lane |-> l, via |-> "fallback"])
    /\ pc' = "fsent"
    /\ UNCHANGED <<config, sticky, pool, cands, ctx, hops, clock, overflowed>>

FallbackPick(l) ==
    /\ pc = "fallback" /\ ~expired
    /\ Picks(l, NoLane)
    /\ Send(l, "fallback")
    /\ pc' = "fsent"
    /\ UNCHANGED <<config, sticky, pool, cands, hops, clock, overflowed>>

(* Mutant: a pool whose lanes are at capacity is picked from again. *)
FallbackNonePolls ==
    /\ pc = "fallback" /\ ~expired
    /\ PicksNone
    /\ pc' = IF at_cap' = {} THEN "exhausted" ELSE "fallback"
    /\ UNCHANGED <<config, sticky, pool, cands, hops, clock, overflowed, log>>

FallbackNone ==
    /\ pc = "fallback" /\ ~expired
    /\ PicksNone
    /\ pc' = "exhausted"
    /\ UNCHANGED <<config, sticky, pool, cands, hops, clock, overflowed, log>>

FallbackLate ==
    /\ pc = "fallback" /\ expired
    /\ pc' = "answered"
    /\ UNCHANGED <<config, sticky, pool, cands, ctx, hops, clock, overflowed, log>>

(* forward_once relays what it gets; only a transport error walks on. *)
FallbackDone ==
    /\ pc = "fsent"
    /\ pc' \in {"answered", "fallback"}
    /\ UNCHANGED <<config, sticky, pool, cands, ctx, hops, clock, overflowed, log>>

(* A permit is won before the deadline; the breaker has the last word. *)
QueueWon(l) ==
    /\ pc = "queued" /\ l \in at_cap /\ ~overdue
    /\ \/ Send(l, "queue") /\ pc' = "last" /\ UNCHANGED at_cap
       \/ /\ at_cap' = at_cap \ {l}
          /\ pc' = IF at_cap' = {} THEN "answered" ELSE "queued"
          /\ UNCHANGED log
    /\ UNCHANGED <<config, sticky, pool, cands, excluded, visited, hops, clock,
                   overflowed>>

QueueDeadline ==
    /\ pc = "queued"
    /\ pc' = "answered"
    /\ UNCHANGED <<config, sticky, pool, cands, ctx, hops, clock, overflowed, log>>

(* The one attempt of least_bad or of the queue, whatever came of it. *)
LastDone ==
    /\ pc = "last"
    /\ pc' = "answered"
    /\ UNCHANGED <<config, sticky, pool, cands, ctx, hops, clock, overflowed, log>>

Tick ==
    /\ pc # "answered"
    /\ \/ clock = "ahead" /\ clock' = "second"
       \/ clock = "second" /\ clock' = "overdue"
    /\ UNCHANGED <<config, sticky, pool, cands, ctx, hops, overflowed, log, pc>>

-----------------------------------------------------------------------------
Loop ==
    \/ LoopNone \/ LoopLate \/ LoopCap \/ Answered \/ Failed \/ ContextLength
    \/ \E l \in Lanes : LoopPick(l)

Exhaustion == Reject \/ LeastBad \/ Queue \/ \E q \in Pools : Spill(q)

Degraded ==
    \/ FallbackNone \/ FallbackLate \/ FallbackDone \/ LastDone \/ QueueDeadline
    \/ \E l \in Lanes : FallbackPick(l) \/ QueueWon(l)

Step == Arrive \/ Loop \/ Exhaustion \/ Degraded

Finished == pc = "answered" /\ UNCHANGED vars

Next == Step \/ Tick \/ Finished

Spec == Init /\ [][Next]_vars

(* The task is polled until it ends: every upstream attempt is bounded by  *)
(* a timeout and the queue's wait by its own timer.  Nothing is assumed of *)
(* the request's deadline.                                                 *)
FairSpec == Spec /\ WF_vars(Step)

-----------------------------------------------------------------------------
(* Correctness properties. *)

(* A lane is tried once per request, in whatever pools it is a member.     *)
(* Only the very last attempt may repeat one: a least-bad dispatch, or a   *)
(* queue wait for the affinity lane.                                       *)
RepeatOnlyLast ==
    \A i, j \in 1 .. Len(log) :
        i < j /\ log[i].lane = log[j].lane =>
            /\ j = Len(log)
            /\ \/ log[j].via = "least_bad"
               \/ log[j].via = "queue" /\ log[j].lane = sticky

(* Wherever the walk ends up, through a spill, a queue or as a last        *)
(* resort, it never reaches a lane the pool it went through has on its     *)
(* blocklist, nor one outside a required restrict.                         *)
Compliant ==
    \A i \in 1 .. Len(log) :
        /\ log[i].lane \in Members[log[i].pool] \ Exclusions[log[i].pool]
        /\ restrict = "required" => log[i].lane \in Tagged[log[i].pool]

(* A fallback chain enters a pool once: after it has moved on it does not  *)
(* come back, also if the pools refer to each other in a ring.             *)
PoolsInOrder ==
    \A i, j, k \in 1 .. Len(log) :
        i < j /\ j < k /\ log[i].pool = log[k].pool => log[j].pool = log[i].pool

(* Once the deadline has passed no lane of any pool is picked any more,    *)
(* whatever loop the walk is in: a queued request may still win its permit *)
(* before the finer clock runs out, and only least_bad goes on after that. *)
LateOnlyLeastBad ==
    [][expired /\ log' # log =>
          \/ log'[Len(log')].via = "least_bad"
          \/ log'[Len(log')].via = "queue" /\ ~overdue]_vars

(* After a context-length error the loop of the pool goes on to lanes with *)
(* a larger or an undeclared context only.                                 *)
ContextGrows ==
    [][pc = "loop" /\ log' # log =>
          \A o \in overflowed : ~Undercuts(log'[Len(log')].lane, o)]_vars

(* Every request is answered, even if every attempt fails, all pools refer *)
(* to each other and the deadline never fires.                             *)
AlwaysAnswered == <>(pc = "answered")
=============================================================================
