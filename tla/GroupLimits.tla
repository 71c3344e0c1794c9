---------------------------- MODULE GroupLimits ----------------------------
(***************************************************************************)
(* Governance admission (governance/state.rs `try_admit`, `record_usage`,  *)
(* `refund_request`, `reclaim_group_cells`; cost.rs `chain_for`; ingress   *)
(* `admit_check`, `finish_inner`).  A request is charged to its key's      *)
(* bucket and to the buckets of its key's group and of that group's        *)
(* ancestors: the in-flight gauges are taken one by one, then the locks of *)
(* every shard that holds one of the buckets, then all buckets are checked *)
(* and charged.  Tokens and refunds come later, one bucket and one lock at *)
(* a time.  Meanwhile the clock rolls windows, other requests do the same, *)
(* and an operator rebinds keys and freezes, deletes and creates groups.   *)
(*                                                                         *)
(* A request keeps the cost model and the key it arrived with.  Limits of  *)
(* a group are constants: what an operator changes is which groups exist   *)
(* and are enabled.  A token costs one unit.                               *)
(***************************************************************************)
EXTENDS Integers, Sequences, FiniteSets

CONSTANTS
    Requests, Keys, Groups, Pools,
    NoGroup, NoPool, Nobody,
    Parent,        \* a group's parent, or NoGroup
    Buckets,       \* the bucket ids of all groups
    GroupBuckets,  \* a group's buckets, in config order
    Limit,         \* a bucket's window, caps, pool scope and downgrade target
    ConcurrentCap, \* a group's in-flight cap, or NoCap
    MayUse,        \* the pools a key may be served by
    ShardOf,       \* the shard of each key's and each group's bucket
    GovShards,     \* GOV_SHARDS
    Fee,           \* price_per_request_cents
    MaxTokens,     \* what one response uses at most
    SweepAge,      \* the sweep's 31 days, in windows
    MaxClock, MaxEdits

NoCap  == -1
Ids    == Keys \cup Buckets
Shards == 0 .. GovShards - 1

ASSUME LimitsAssumption ==
    /\ GovShards \in Nat
    /\ ShardOf \in [Ids -> Shards]
    /\ Nobody \notin Requests /\ IsFiniteSet(Requests)
    /\ NoGroup \notin Groups /\ NoPool \notin Pools
    /\ MayUse \in [Keys -> SUBSET Pools]
    /\ MaxClock \in Nat \ {0} /\ MaxEdits \in Nat
    /\ MaxTokens \in Nat /\ Fee \in Nat /\ SweepAge \in Nat

Capacity == {NoCap} \cup (Nat \ {0})

\* validate_groups: no limit is 0, and every parent exists.
ASSUME ConfigAssumption ==
    /\ Parent \in [Groups -> Groups \cup {NoGroup}]
    /\ ConcurrentCap \in [Groups -> Capacity]
    /\ \A b \in Buckets : {Limit[b].requests, Limit[b].tokens, Limit[b].budget} \subseteq Capacity
    /\ \A b \in Buckets : b \notin Keys /\ \E g \in Groups : b \in {GroupBuckets[g][n] : n \in DOMAIN GroupBuckets[g]}

VARIABLES
    clock,      \* in windows, from 1: 0 is the all-time window
    config,     \* the installed cost model: [on, frozen]
    bound,      \* each key's group, as the store has it
    req,        \* each request
    gauge,      \* concurrent: the in-flight count of each group
    grants,     \* AdmitGrant: the groups whose gauge a request has taken
    guard,      \* the holder of each shard's write lock
    cells,      \* the budget cell of each bucket, or NoCell
    reclaim,    \* the group a finished delete still has to reclaim, and where
    edits,
    \* history
    charges,    \* charges[b][w]: charges since b was last reclaimed to a cell of window w
    flight      \* flight[b]: whose tokens were outstanding when b was last charged

vars == <<clock, config, bound, req, gauge, grants, guard, cells, reclaim, edits,
           charges, flight>>

-----------------------------------------------------------------------------
(* The chain of a key: its own bucket, then each group's up to the root.   *)

Path == [g \in Groups |->
    LET up[n \in Nat] ==
          IF n = 0 THEN <<g>>
          ELSE LET p == Parent[up[n - 1][Len(up[n - 1])]]
               IN  IF p = NoGroup THEN up[n - 1] ELSE Append(up[n - 1], p)
    IN  up[Cardinality(Groups) - 1]]

Up(g) == IF g = NoGroup THEN <<>> ELSE Path[g]

chain_for == [k \in Keys, g \in Groups \cup {NoGroup} |->
    LET walk[n \in Nat] ==
          IF n = 0 THEN <<k>> ELSE walk[n - 1] \o GroupBuckets[Up(g)[n]]
    IN  walk[Len(Up(g))]]

\* ChainBucket::applies_to_pool.
InPool(b, p) == b \in Keys \/ Limit[b].scope \in {NoPool, p}

Bills == [k \in Keys, g \in Groups \cup {NoGroup}, p \in Pools |->
    LET Applies(b) == InPool(b, p) IN SelectSeq(chain_for[k, g], Applies)]
Charged(q) == Bills[q.key, q.group, q.pool]

\* The capped groups of the chain, innermost first.
CappedPath == [g \in Groups \cup {NoGroup} |->
    LET Capped(h) == ConcurrentCap[h] # NoCap IN SelectSeq(Up(g), Capped)]
Gauged(q) == CappedPath[q.group]

Elements(s) == {s[n] : n \in DOMAIN s}

Once(s) == \A m, n \in DOMAIN s : s[m] = s[n] => m = n

\* validate_groups: the chains are acyclic, and bucket ids name their group and
\* window, so a chain visits a group and a bucket once.
ASSUME ChainAssumption ==
    /\ \A g \in Groups \cup {NoGroup} :
         /\ CappedPath[g] \in Seq(Groups) /\ Once(CappedPath[g])
         /\ \A h \in Elements(CappedPath[g]) : ConcurrentCap[h] # NoCap
    /\ \A k \in Keys, g \in Groups \cup {NoGroup}, p \in Pools :
         /\ Bills[k, g, p] \in Seq(Ids) /\ Once(Bills[k, g, p])
         /\ k \in Elements(Bills[k, g, p])

-----------------------------------------------------------------------------
(* Cells.                                                                  *)

NoCell == [window |-> -1, requests |-> 0, billable |-> 0, tokens |-> 0, touched |-> 0]
Fresh(w) == [NoCell EXCEPT !.window = w]

\* budget_window: an all-time bucket, like a key's own, has the window 0.
Window(b, t) == IF b \in Keys \/ Limit[b].per = "total" THEN 0 ELSE t

\* The cell a charge or an accrual of window w lands on: only a stale cell
\* is reset; one of a later window is used as it is.
MutLive(c, w) == IF w # c.window THEN Fresh(w) ELSE c

Live(c, w) == IF w > c.window THEN Fresh(w) ELSE c

Spend(c) == c.tokens + Fee * c.billable

\* PASS 1's test of one bucket.
Seen(b, t)   == IF cells[b].window >= Window(b, t) THEN cells[b] ELSE NoCell
Over(cap, x) == cap # NoCap /\ x
CallsBlock(b, t) ==
    b \in Buckets /\ (\/ Over(Limit[b].requests, Seen(b, t).requests + 1 > Limit[b].requests)
                      \/ Over(Limit[b].tokens, Seen(b, t).tokens >= Limit[b].tokens))
MutBudgetBlocks(b, t) ==
    b \in Buckets /\ Over(Limit[b].budget, Spend(Seen(b, t)) > Limit[b].budget)

BudgetBlocks(b, t) ==
    b \in Buckets /\ Over(Limit[b].budget, \/ Spend(Seen(b, t)) >= Limit[b].budget
                                           \/ Spend(Seen(b, t)) + Fee > Limit[b].budget)
Blocks(b, t) == CallsBlock(b, t) \/ BudgetBlocks(b, t)

\* PASS 2.
Charge(c, w, t) ==
    [Live(c, w) EXCEPT !.requests = @ + 1, !.billable = @ + 1, !.touched = t]

\* accrue_bucket.
Accrued(c, w, n, t) == [Live(c, w) EXCEPT !.tokens = @ + n, !.touched = t]

\* refund_bucket.
Refunded(c, w) ==
    IF c.window = w /\ c.billable > 0 THEN [c EXCEPT !.billable = @ - 1] ELSE c

\* What the sweep may drop in passing: a cell whose window is long over, and an
\* all-time one that backs no cap of the sweeper's and was not touched lately.
Caps(q, b) ==
    /\ b \in Buckets
    /\ \E g \in q.cfg.on : b \in Elements(GroupBuckets[g])
    /\ {Limit[b].requests, Limit[b].tokens, Limit[b].budget} # {NoCap}
Sweepable(q, s) ==
    {b \in Ids : /\ ShardOf[b] = s /\ cells[b] # NoCell
                 /\ IF cells[b].window # 0
                    THEN cells[b].window + SweepAge <= q.at
                    ELSE ~Caps(q, b) /\ cells[b].touched + SweepAge <= q.at}

-----------------------------------------------------------------------------
Idle == [pc |-> "new", key |-> Nobody, group |-> NoGroup, cfg |-> [on |-> {}, frozen |-> {}],
         pool |-> NoPool, at |-> 0, visited |-> {}, n |-> 1, used |-> 0]

\* A request that is over is forgotten.
Ended == [Idle EXCEPT !.pc = "end"]

Init ==
    /\ clock = 1 /\ edits = 0
    /\ config = [on |-> Groups, frozen |-> {}]
    /\ bound \in [Keys -> Groups]
    /\ req = [r \in Requests |-> Idle]
    /\ gauge = [g \in Groups |-> 0]
    /\ grants = [r \in Requests |-> {}]
    /\ guard = [s \in Shards |-> Nobody]
    /\ cells = [b \in Ids |-> NoCell]
    /\ reclaim = [group |-> NoGroup, left |-> {}]
    /\ charges = [b \in Ids |-> [w \in 0 .. MaxClock |-> 0]]
    /\ flight = [b \in Ids |-> {}]

hist  == <<charges, flight>>
rest == <<clock, config, bound, reclaim, edits>>

\* Dropping the AdmitGrant.
Release(r) ==
    /\ gauge' = [g \in Groups |-> IF g \in grants[r] THEN gauge[g] - 1 ELSE gauge[g]]
    /\ grants' = [grants EXCEPT ![r] = {}]

-----------------------------------------------------------------------------
(* Admission.                                                              *)

\* try_admit begins: a group the cost model does not know, or a frozen one,
\* refuses the request before anything is taken.
Missing(q) == q.group # NoGroup /\ q.group \notin q.cfg.on
Frozen(q)  == Elements(Up(q.group)) \cap q.cfg.frozen # {}

Arrive(r) ==
    /\ req[r].pc = "new"
    /\ \E k \in Keys : \E p \in MayUse[k] :
         LET q == [Idle EXCEPT !.pc = "admit", !.key = k, !.group = bound[k],
                               !.cfg = config, !.pool = p, !.at = clock]
         IN  req' = [req EXCEPT ![r] =
                       IF Missing(q) \/ Frozen(q) THEN Ended ELSE q]
    /\ UNCHANGED <<gauge, grants, guard, cells, hist, rest>>

NextGauge(r) == Gauged(req[r])[req[r].n]
Gauging(r)   == req[r].pc = "admit" /\ req[r].n <= Len(Gauged(req[r]))

TakeGauge(r) ==
    /\ Gauging(r)
    /\ gauge[NextGauge(r)] < ConcurrentCap[NextGauge(r)]
    /\ gauge' = [gauge EXCEPT ![NextGauge(r)] = @ + 1]
    /\ grants' = [grants EXCEPT ![r] = @ \cup {NextGauge(r)}]
    /\ req' = [req EXCEPT ![r].n = @ + 1]
    /\ UNCHANGED <<guard, cells, hist, rest>>

GaugeFull(r) ==
    /\ Gauging(r)
    /\ gauge[NextGauge(r)] >= ConcurrentCap[NextGauge(r)]
    /\ Release(r)
    /\ req' = [req EXCEPT ![r] = Ended]
    /\ UNCHANGED <<guard, cells, hist, rest>>

\* The shard locks: all the chain's, in ascending order.
Locking(r) == req[r].pc = "admit" /\ ~Gauging(r)
Held(r)    == {s \in Shards : guard[s] = r}
Wanted(r)  == {ShardOf[b] : b \in Elements(Charged(req[r]))} \ Held(r)
MutNextShard(r, s) ==
    LET c == Charged(req[r]) IN
    \E n \in DOMAIN c : /\ s = ShardOf[c[n]] /\ s \in Wanted(r)
                        /\ \A m \in 1 .. n - 1 : ShardOf[c[m]] \in Held(r)
NextShard(r, s) == s \in Wanted(r) /\ \A t \in Wanted(r) : s <= t

Lock(r) ==
    /\ Locking(r)
    /\ \E s \in Shards :
         /\ NextShard(r, s)
         /\ guard[s] = Nobody
         /\ guard' = [guard EXCEPT ![s] = r]
         /\ \E drop \in SUBSET Sweepable(req[r], s) :
              cells' = [b \in Ids |-> IF b \in drop THEN NoCell ELSE cells[b]]
    /\ UNCHANGED <<req, gauge, grants, hist, rest>>

Unlock(r) == guard' = [s \in Shards |-> IF guard[s] = r THEN Nobody ELSE guard[s]]

\* The requests whose tokens are still to come on b.
Pending(b, r) ==
    LET q == req[r] IN
    \/ q.pc = "served" /\ b \in Elements(Charged(q))
    \/ q.pc = "accrue" /\ \E n \in DOMAIN Charged(q) : n >= q.n /\ Charged(q)[n] = b

Admit(r) ==
    LET q    == req[r]
        mine == Elements(Charged(q))
    IN  /\ Locking(r) /\ Wanted(r) = {}
        /\ \A b \in mine : ~Blocks(b, q.at)
        /\ cells' = [b \in Ids |-> IF b \in mine THEN Charge(cells[b], Window(b, q.at), q.at)
                                                 ELSE cells[b]]
        /\ charges' = [b \in Ids |->
                         IF b \in mine THEN [charges[b] EXCEPT ![cells'[b].window] = @ + 1]
                                       ELSE charges[b]]
        /\ flight' = [b \in Ids |->
                        IF b \in mine THEN {r} \cup {o \in Requests : Pending(b, o)}
                                      ELSE flight[b]]
        /\ req' = [req EXCEPT ![r].pc = "served"]
        /\ Unlock(r)
        /\ UNCHANGED <<gauge, grants, rest>>

\* The first bucket of the chain that blocks, and where its budget downgrades to.
FirstBlock(q) ==
    LET c == Charged(q)
    IN  c[CHOOSE n \in DOMAIN c : /\ Blocks(c[n], q.at)
                                  /\ \A m \in 1 .. n - 1 : ~Blocks(c[m], q.at)]
Downgrade(q) ==
    LET b == FirstBlock(q) IN IF CallsBlock(b, q.at) THEN NoPool ELSE Limit[b].downgrade
CanGo(q, p) ==
    p \in Pools /\ p \notin q.visited /\ Cardinality(q.visited) < Cardinality(Pools)
                /\ p \in MayUse[q.key]

Refuse(r) ==
    LET q == req[r] IN
    /\ Locking(r) /\ Wanted(r) = {}
    /\ \E b \in Elements(Charged(q)) : Blocks(b, q.at)
    /\ req' = [req EXCEPT ![r] =
                 IF CanGo(q, Downgrade(q))
                 THEN [q EXCEPT !.pool = Downgrade(q), !.visited = @ \cup {Downgrade(q)}, !.n = 1]
                 ELSE Ended]
    /\ Unlock(r)
    /\ Release(r)
    /\ UNCHANGED <<cells, hist, rest>>

-----------------------------------------------------------------------------
(* After admission.                                                        *)

\* The response was delivered with n tokens: they are ledgered bucket by
\* bucket, and the grant goes with the sink when the last one is.
Delivered(r) ==
    /\ req[r].pc = "served"
    /\ \E n \in 1 .. MaxTokens :
         req' = [req EXCEPT ![r].pc = "accrue", ![r].n = 1, ![r].used = n]
    /\ UNCHANGED <<gauge, grants, guard, cells, hist, rest>>

\* A response without tokens, or a caller who left: the charge stays.
DeliveredFree(r) ==
    /\ req[r].pc = "served"
    /\ Release(r)
    /\ req' = [req EXCEPT ![r] = Ended]
    /\ UNCHANGED <<guard, cells, hist, rest>>

\* A non-2xx: the sink is gone before finish_inner refunds.
Failed(r) ==
    /\ req[r].pc = "served"
    /\ Release(r)
    /\ req' = [req EXCEPT ![r].pc = "refund", ![r].n = 1]
    /\ UNCHANGED <<guard, cells, hist, rest>>

\* One bucket of an accrual or a refund, under its own shard's lock.
AtBucket(r, b) ==
    /\ b = Charged(req[r])[req[r].n]
    /\ guard[ShardOf[b]] = Nobody
Last(r) == req[r].n = Len(Charged(req[r]))
Step(r) == req' = [req EXCEPT ![r] = IF Last(r) THEN Ended ELSE [req[r] EXCEPT !.n = @ + 1]]

record_usage(r) ==
    LET q == req[r] IN
    /\ q.pc = "accrue"
    /\ \E b \in Ids :
         /\ AtBucket(r, b)
         /\ cells' = [cells EXCEPT ![b] = Accrued(@, Window(b, q.at), q.used, q.at)]
    /\ Step(r)
    /\ IF Last(r) THEN Release(r) ELSE UNCHANGED <<gauge, grants>>
    /\ UNCHANGED <<guard, hist, rest>>

refund_request(r) ==
    /\ req[r].pc = "refund"
    /\ \E b \in Ids :
         /\ AtBucket(r, b)
         /\ cells' = [cells EXCEPT ![b] = Refunded(@, Window(b, req[r].at))]
    /\ Step(r)
    /\ UNCHANGED <<gauge, grants, guard, hist, rest>>

-----------------------------------------------------------------------------
(* The operator, and time.                                                 *)

Edit == edits < MaxEdits /\ edits' = edits + 1

\* A key of a shared store may be bound by a peer to a group this node lacks.
Rebind(k, g) ==
    /\ Edit
    /\ bound[k] # g
    /\ bound' = [bound EXCEPT ![k] = g]
    /\ UNCHANGED <<clock, config, req, gauge, grants, guard, cells, reclaim, hist>>

\* PUT of a group: it is created, frozen or enabled.
PutGroup(g, enabled) ==
    /\ Edit
    /\ Parent[g] \in config.on \cup {NoGroup}
    /\ config' = [on     |-> config.on \cup {g},
                  frozen |-> IF enabled THEN config.frozen \ {g} ELSE config.frozen \cup {g}]
    /\ config' # config
    /\ UNCHANGED <<clock, bound, req, gauge, grants, guard, cells, reclaim, hist>>

\* DELETE: the new model is installed; the cells are reclaimed after the lock
\* of the config mutation has been let go.
DeleteGroup(g) ==
    /\ Edit
    /\ g \in config.on
    /\ \A k \in Keys : bound[k] # g
    /\ \A h \in config.on : Parent[h] # g
    /\ reclaim.left = {}
    /\ config' = [on |-> config.on \ {g}, frozen |-> config.frozen \ {g}]
    /\ reclaim' = [group |-> g, left |-> Shards]
    /\ UNCHANGED <<clock, bound, req, gauge, grants, guard, cells, hist>>

\* reclaim_group_cells, one shard at a time.
reclaim_group_cells ==
    /\ \E s \in reclaim.left :
         LET gone == {b \in Elements(GroupBuckets[reclaim.group]) : ShardOf[b] = s}
         IN  /\ \A t \in reclaim.left : s <= t
             /\ guard[s] = Nobody
             /\ cells' = [b \in Ids |-> IF b \in gone THEN NoCell ELSE cells[b]]
             /\ charges' = [b \in Ids |-> IF b \in gone THEN [w \in 0 .. MaxClock |-> 0]
                                                        ELSE charges[b]]
             /\ reclaim' = [reclaim EXCEPT !.left = @ \ {s}]
    /\ UNCHANGED <<clock, config, bound, req, gauge, grants, guard, edits, flight>>

\* Admission does not wait for anything but locks: it straddles one boundary
\* at most.
Tick ==
    /\ clock < MaxClock
    /\ \A r \in Requests : req[r].pc = "admit" => req[r].at = clock
    /\ clock' = clock + 1
    /\ UNCHANGED <<config, bound, req, gauge, grants, guard, cells, reclaim, edits, hist>>

Serve(r) ==
    \/ Arrive(r) \/ TakeGauge(r) \/ GaugeFull(r) \/ Lock(r) \/ Admit(r) \/ Refuse(r)
    \/ Delivered(r) \/ DeliveredFree(r) \/ Failed(r) \/ record_usage(r) \/ refund_request(r)

Next ==
    \/ \E r \in Requests : Serve(r)
    \/ \E k \in Keys, g \in Groups \cup {NoGroup} : Rebind(k, g)
    \/ \E g \in Groups, enabled \in BOOLEAN : PutGroup(g, enabled)
    \/ \E g \in Groups : DeleteGroup(g)
    \/ reclaim_group_cells
    \/ Tick

Spec == Init /\ [][Next]_vars

-----------------------------------------------------------------------------
(* Properties.                                                             *)

Cell == [window : -1 .. MaxClock, requests : Nat, billable : Nat, tokens : Nat,
         touched : 0 .. MaxClock]
Request == [pc : {"new", "admit", "served", "accrue", "refund", "end"},
            key : Keys \cup {Nobody}, group : Groups \cup {NoGroup},
            cfg : [on : SUBSET Groups, frozen : SUBSET Groups],
            pool : Pools \cup {NoPool}, at : 0 .. MaxClock, visited : SUBSET Pools,
            n : Nat \ {0}, used : 0 .. MaxTokens]

TypeOK ==
    /\ clock \in 1 .. MaxClock /\ edits \in 0 .. MaxEdits
    /\ config \in [on : SUBSET Groups, frozen : SUBSET Groups]
    /\ bound \in [Keys -> Groups \cup {NoGroup}]
    /\ req \in [Requests -> Request]
    /\ gauge \in [Groups -> Nat]
    /\ grants \in [Requests -> SUBSET Groups]
    /\ guard \in [Shards -> Requests \cup {Nobody}]
    /\ cells \in [Ids -> Cell]
    /\ reclaim \in [group : Groups \cup {NoGroup}, left : SUBSET Shards]
    /\ charges \in [Ids -> [0 .. MaxClock -> Nat]]
    /\ flight \in [Ids -> SUBSET Requests]

\* A cap is never passed and never shrinks: however admissions of overlapping
\* chains interleave, with requests of the last window charging a cell that has
\* rolled, the charges any one window of a bucket has taken stay within its
\* `requests` cap; the requests served for a group stay within its `concurrent`
\* cap, and no refusal, failure or downgrade leaves its gauge counting a request
\* that is over.
InService(g) ==
    {r \in Requests : req[r].pc \in {"served", "accrue"} /\ g \in Elements(Gauged(req[r]))}
Holding(g) ==
    {r \in Requests : req[r].pc \in {"admit", "served", "accrue"} /\ g \in grants[r]}

RequestCaps(B) ==
    \A b \in B : Limit[b].requests # NoCap =>
        \A w \in 0 .. MaxClock : charges[b][w] <= Limit[b].requests
ConcurrentCaps ==
    \A g \in Groups : ConcurrentCap[g] # NoCap =>
        /\ Cardinality(InService(g)) <= ConcurrentCap[g]
        /\ gauge[g] = Cardinality(Holding(g))

CapsHold == RequestCaps(Buckets) /\ ConcurrentCaps

\* The fee is hard and only tokens overshoot: a bucket's spend and its tokens
\* pass their caps by no more than the responses that were outstanding when it
\* was last charged.
OvershootBounded ==
    \A b \in Buckets :
        LET late == MaxTokens * Cardinality(flight[b]) IN
        /\ Limit[b].budget # NoCap => Spend(cells[b]) <= Limit[b].budget + late
        /\ Limit[b].tokens # NoCap => cells[b].tokens < Limit[b].tokens + late

\* No circular wait: no set of admissions waits for shard locks that only its
\* own members hold.
WaitsFor(r, o) == \E s \in Shards : NextShard(r, s) /\ guard[s] = o

NoCircularWait ==
    \A S \in SUBSET {r \in Requests : Locking(r)} : S # {} => \E r \in S : \A o \in S : ~WaitsFor(r, o)
=============================================================================
