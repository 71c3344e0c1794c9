-------------------------- MODULE GovernanceProofs --------------------------
(***************************************************************************)
(* Proofs about governance: the limits of groups and the admissions that   *)
(* are held to them (GroupLimits), and the audit log of the mutations that *)
(* set them (AuditLog).                                                    *)
(*                                                                         *)
(* GroupLimits, for any requests, group trees, limits and shards.          *)
(* Admissions never wait for each other in a circle, no requests cap and   *)
(* no concurrent cap is passed, and spend and tokens pass theirs only by   *)
(* the responses that were outstanding.  One invariant per property, on    *)
(* top of the types: LockInv orders the shard locks a request holds and    *)
(* those it wants; GaugeInv says which gauges a request has taken at each  *)
(* point of its life; CapInv relates a cell's count to the charges its     *)
(* window has taken, and says when the two may differ; LateInv counts the  *)
(* responses that have settled since a bucket was last charged.            *)
(*                                                                         *)
(* AuditLog, for every number of threads the valve allows, every size of   *)
(* the ring and any sequence of faults and crashes.  The durable log is    *)
(* append-only (AuditAppendOnly), it verifies and has every mutation once  *)
(* and in order (AuditChain), and nothing is pruned before it is durable   *)
(* while the store answers (AuditKept).  AppendOnly says nothing of the    *)
(* memory of the process.  What makes it hold is that the ring agrees with *)
(* the store wherever both hold a seq, that only the one record whose      *)
(* append was not acknowledged lies beyond durable_high, and that nobody   *)
(* appends while the ring is sealed (IInv).  ChainInv adds that store and  *)
(* ring are runs of consecutive numbers whose links meet; PruneInv counts  *)
(* the recorders the valve is holding back.                                *)
(***************************************************************************)
EXTENDS GroupLimits, AuditLog, FiniteSetTheorems, WellFoundedInduction, TLAPS

(***************************************************************************)
(* The limits of groups.                                                   *)
(***************************************************************************)
-----------------------------------------------------------------------------
(* The shard locks.                                                        *)

LockTypes ==
    /\ guard \in [Shards -> Requests \cup {Nobody}]
    /\ DOMAIN req = Requests

Ascending ==
    \A r \in Requests : \A s \in Held(r) :
        Locking(r) /\ \A t \in Wanted(r) \cap Shards : s < t

LockInv == LockTypes /\ Ascending

\* Initially no lock is held.
LEMMA InitLocks == Init => LockInv
BY LimitsAssumption DEF Init, LockInv, LockTypes, Ascending, Held

\* A step that takes and releases no lock keeps the order, if the requests it
\* moves held none.
LEMMA Bystander ==
    ASSUME LockInv, NEW r \in Requests, ~Locking(r),
           DOMAIN req' = Requests, UNCHANGED guard,
           \A o \in Requests \ {r} : req'[o] = req[o]
    PROVE  LockInv'
<1>1. Held(r) = {}
  BY DEF LockInv, Ascending
<1>2. \A o \in Requests : Held(o)' = Held(o)
  BY DEF Held
<1>3. \A o \in Requests \ {r} : Locking(o)' = Locking(o) /\ Wanted(o)' = Wanted(o)
  BY <1>2 DEF Locking, Gauging, Wanted
<1> QED
  BY <1>1, <1>2, <1>3 DEF LockInv, LockTypes, Ascending

\* A step that changes neither the requests nor the locks.
LEMMA Elsewhere ==
    ASSUME LockInv, UNCHANGED <<req, guard>>
    PROVE  LockInv'
BY DEF LockInv, LockTypes, Ascending, Held, Locking, Gauging, Wanted

\* The next lock is the lowest of those wanted, so the rest lies above it.
LEMMA LockStep ==
    ASSUME LockInv, NEW r \in Requests, Lock(r)
    PROVE  LockInv'
<1>1. PICK s \in Shards : NextShard(r, s) /\ guard[s] = Nobody /\ guard' = [guard EXCEPT ![s] = r]
  BY DEF Lock
<1>2. req' = req /\ Locking(r)
  BY DEF Lock
<1>3. guard' \in [Shards -> Requests \cup {Nobody}]
  BY <1>1 DEF LockInv, LockTypes
<1>4. Held(r)' = Held(r) \cup {s}
  BY <1>1 DEF Held, LockInv, LockTypes
<1>5. \A o \in Requests \ {r} : Held(o)' = Held(o)
  BY <1>1, LimitsAssumption DEF Held, LockInv, LockTypes
<1>6. \A o \in Requests : Locking(o)' = Locking(o)
  BY <1>2 DEF Locking, Gauging
<1>7. \A o \in Requests \ {r} : Wanted(o)' = Wanted(o)
  BY <1>2, <1>5 DEF Wanted
<1>8. Wanted(r)' = Wanted(r) \ {s}
  BY <1>2, <1>4 DEF Wanted
<1>9. \A t \in (Wanted(r) \ {s}) \cap Shards : s < t
  BY <1>1, LimitsAssumption DEF NextShard, Shards
<1>10. \A u \in Held(r) \cup {s} : \A t \in (Wanted(r) \ {s}) \cap Shards : u < t
  BY <1>9 DEF LockInv, Ascending
<1> QED
  BY <1>2, <1>3, <1>4, <1>5, <1>6, <1>7, <1>8, <1>10 DEF LockInv, LockTypes, Ascending

\* Admit and Refuse let go of everything they hold.
LEMMA UnlockStep ==
    ASSUME LockInv, NEW r \in Requests, Unlock(r), DOMAIN req' = Requests,
           \A o \in Requests \ {r} : req'[o] = req[o]
    PROVE  LockInv'
<1>1. guard' \in [Shards -> Requests \cup {Nobody}]
  BY DEF Unlock, LockInv, LockTypes
<1>2. Held(r)' = {}
  BY LimitsAssumption DEF Unlock, Held
<1>3. \A o \in Requests \ {r} : Held(o)' = Held(o)
  BY LimitsAssumption DEF Unlock, Held
<1>4. \A o \in Requests \ {r} : Locking(o)' = Locking(o) /\ Wanted(o)' = Wanted(o)
  BY <1>3 DEF Locking, Gauging, Wanted
<1> QED
  BY <1>1, <1>2, <1>3, <1>4 DEF LockInv, LockTypes, Ascending

LEMMA NextLocks == LockInv /\ [Next]_vars => LockInv'
<1> SUFFICES ASSUME LockInv, [Next]_vars PROVE LockInv'
  OBVIOUS
<1>1. DOMAIN req = Requests
  BY DEF LockInv, LockTypes
<1>2. ASSUME NEW r \in Requests, Serve(r) PROVE LockInv'
  <2>1. CASE Arrive(r)
    BY <1>1, <2>1, Bystander DEF Arrive, Locking
  <2>2. CASE TakeGauge(r)
    <3>1. ~Locking(r)
      BY <2>2 DEF TakeGauge, Gauging, Locking
    <3> QED
      BY <1>1, <2>2, <3>1, Bystander DEF TakeGauge
  <2>3. CASE GaugeFull(r)
    <3>1. ~Locking(r)
      BY <2>3 DEF GaugeFull, Gauging, Locking
    <3> QED
      BY <1>1, <2>3, <3>1, Bystander DEF GaugeFull
  <2>4. CASE Lock(r)
    BY <2>4, LockStep
  <2>5. CASE Admit(r)
    BY <1>1, <2>5, UnlockStep DEF Admit
  <2>6. CASE Refuse(r)
    BY <1>1, <2>6, UnlockStep DEF Refuse
  <2>7. CASE Delivered(r)
    BY <1>1, <2>7, Bystander DEF Delivered, Locking
  <2>8. CASE DeliveredFree(r)
    BY <1>1, <2>8, Bystander DEF DeliveredFree, Locking
  <2>9. CASE Failed(r)
    BY <1>1, <2>9, Bystander DEF Failed, Locking
  <2>10. CASE record_usage(r)
    BY <1>1, <2>10, Bystander DEF record_usage, Step, Locking
  <2>11. CASE refund_request(r)
    BY <1>1, <2>11, Bystander DEF refund_request, Step, Locking
  <2> QED
    BY <1>2, <2>1, <2>2, <2>3, <2>4, <2>5, <2>6, <2>7, <2>8, <2>9, <2>10, <2>11 DEF Serve
<1>3. CASE \E k \in Keys, g \in Groups \cup {NoGroup} : Rebind(k, g)
  BY <1>3, Elsewhere DEF Rebind
<1>4. CASE \E g \in Groups, enabled \in BOOLEAN : PutGroup(g, enabled)
  BY <1>4, Elsewhere DEF PutGroup
<1>5. CASE \E g \in Groups : DeleteGroup(g)
  BY <1>5, Elsewhere DEF DeleteGroup
<1>6. CASE reclaim_group_cells
  BY <1>6, Elsewhere DEF reclaim_group_cells
<1>7. CASE Tick
  BY <1>7, Elsewhere DEF Tick
<1>8. CASE UNCHANGED vars
  BY <1>8, Elsewhere DEF vars
<1> QED
  BY <1>2, <1>3, <1>4, <1>5, <1>6, <1>7, <1>8 DEF Next

\* A nonempty set of shards has a highest one.
LEMMA Highest ==
    ASSUME NEW T \in SUBSET Shards, T # {}
    PROVE  \E s \in T : \A t \in T : t <= s
<1> DEFINE below == {GovShards - s : s \in T}
<1>0. GovShards \in Nat
  BY LimitsAssumption
<1>6. \A s \in T : GovShards - s \in Nat
  BY <1>0 DEF Shards
<1>1. below \in SUBSET Nat /\ below # {}
  BY <1>6
<1>2. PICK n \in below : \A m \in below : ~(<<m, n>> \in OpToRel(<, Nat))
  BY <1>1, WFMin, NatLessThanWellFounded
<1>3. \A m \in below : ~(m < n)
  BY <1>1, <1>2 DEF OpToRel
<1>4. PICK s \in T : n = GovShards - s
  BY <1>2
<1>5. ASSUME NEW t \in T PROVE t <= s
  <2>1. GovShards - t \in below
    OBVIOUS
  <2>2. ~(GovShards - t < GovShards - s)
    BY <1>3, <1>4, <2>1
  <2>3. s \in Int /\ t \in Int /\ GovShards \in Int
    BY LimitsAssumption DEF Shards
  <2> HIDE DEF below
  <2> QED
    BY <2>2, <2>3
<1> QED
  BY <1>5

\* In a circle, the holder of the highest shard waited for would want one that
\* is higher still.
LEMMA NoCircle == LockInv => NoCircularWait
<1> SUFFICES ASSUME LockInv,
                    NEW S \in SUBSET {r \in Requests : Locking(r)}, S # {},
                    \A r \in S : \E o \in S : WaitsFor(r, o)
             PROVE  FALSE
  BY DEF NoCircularWait
<1> DEFINE T == {s \in Shards : \E r \in S : NextShard(r, s) /\ \E o \in S : guard[s] = o}
<1>1. T # {}
  BY DEF WaitsFor
<1>2. PICK s \in T : \A t \in T : t <= s
  BY <1>1, Highest
<1>3. PICK o \in S : guard[s] = o
  BY <1>2
<1>4. PICK t \in Shards : NextShard(o, t) /\ \E p \in S : guard[t] = p
  BY DEF WaitsFor
<1>5. s \in Held(o)
  BY <1>2, <1>3 DEF Held
<1>6. s < t
  BY <1>4, <1>5 DEF LockInv, Ascending, NextShard
<1>7. t <= s
  BY <1>2, <1>4
<1> QED
  BY <1>6, <1>7, LimitsAssumption DEF Shards

\* Admissions that lock the shards of their chains, with whatever buckets and
\* whatever hash, are never all waiting for one another.
THEOREM NoDeadlock == Spec => []NoCircularWait
<1>1. Init => LockInv
  BY InitLocks
<1>2. LockInv /\ [Next]_vars => LockInv'
  BY NextLocks
<1>3. LockInv => NoCircularWait
  BY NoCircle
<1> QED
  BY <1>1, <1>2, <1>3, PTL DEF Spec

-----------------------------------------------------------------------------
(* Types.                                                                  *)

\* A request under way has a key and a pool, and its time is not in the future;
\* one being admitted is at most one boundary late.
Placed(q, t) ==
    /\ q.pc \in {"admit", "served", "accrue", "refund"} =>
         q.key \in Keys /\ q.pool \in Pools /\ q.at \in 1 .. t
    /\ q.pc = "admit" => t <= q.at + 1 /\ q.n <= Len(Gauged(q)) + 1
    /\ q.pc \in {"accrue", "refund"} => q.n <= Len(Charged(q))

Requested == req \in [Requests -> Request] /\ \A r \in Requests : Placed(req[r], clock)

\* A cell is of the window its bucket has, or of none.
Rolling(b) == b \notin Keys /\ Limit[b].per # "total"
Windowed(b, c) == c \in Cell /\ IF Rolling(b) THEN c.window # 0 ELSE c.window \in {-1, 0}

Celled == \A b \in Ids : Windowed(b, cells[b])

Typed ==
    /\ clock \in 1 .. MaxClock /\ edits \in 0 .. MaxEdits
    /\ config \in [on : SUBSET Groups, frozen : SUBSET Groups]
    /\ bound \in [Keys -> Groups \cup {NoGroup}]
    /\ Requested
    /\ guard \in [Shards -> Requests \cup {Nobody}]
    /\ cells \in [Ids -> Cell] /\ Celled
    /\ reclaim \in [group : Groups \cup {NoGroup}, left : SUBSET Shards]
    /\ charges \in [Ids -> [0 .. MaxClock -> Nat]]
    /\ flight \in [Ids -> SUBSET Requests]

\* What a chain is.
LEMMA Chains ==
    ASSUME NEW q \in Request
    PROVE  /\ Gauged(q) \in Seq(Groups) /\ Len(Gauged(q)) \in Nat
           /\ DOMAIN Gauged(q) = 1 .. Len(Gauged(q))
           /\ Once(Gauged(q)) /\ \A h \in Elements(Gauged(q)) : ConcurrentCap[h] # NoCap
           /\ q.key \in Keys /\ q.pool \in Pools =>
                /\ Charged(q) \in Seq(Ids) /\ Len(Charged(q)) \in Nat \ {0}
                /\ DOMAIN Charged(q) = 1 .. Len(Charged(q))
                /\ Once(Charged(q))
<1>1. q.group \in Groups \cup {NoGroup}
  BY DEF Request
<1>2. /\ Gauged(q) \in Seq(Groups) /\ Once(Gauged(q))
      /\ \A h \in Elements(Gauged(q)) : ConcurrentCap[h] # NoCap
  BY <1>1, ChainAssumption DEF Gauged
<1>3. ASSUME q.key \in Keys, q.pool \in Pools
      PROVE  /\ Charged(q) \in Seq(Ids) /\ Once(Charged(q))
             /\ q.key \in Elements(Charged(q))
  BY <1>1, <1>3, ChainAssumption DEF Charged
<1>4. ASSUME q.key \in Keys, q.pool \in Pools
      PROVE  Len(Charged(q)) \in Nat \ {0}
  BY <1>3, <1>4 DEF Elements
<1> QED
  BY <1>2, <1>3, <1>4

\* A request's record is replaced.
LEMMA Put ==
    ASSUME Requested, NEW r \in Requests, NEW q \in Request, Placed(q, clock),
           req' = [req EXCEPT ![r] = q], UNCHANGED clock
    PROVE  Requested'
<1>1. req' \in [Requests -> Request]
  BY DEF Requested
<1>2. \A o \in Requests : Placed(req'[o], clock)
  BY DEF Requested
<1> QED
  BY <1>1, <1>2 DEF Requested

\* A record with one field replaced is a record.
LEMMA Fields ==
    ASSUME NEW q \in Request
    PROVE  /\ \A c \in {"admit", "served", "accrue", "refund"} : [q EXCEPT !.pc = c] \in Request
           /\ \A n \in Nat \ {0} : [q EXCEPT !.n = n] \in Request
           /\ [q EXCEPT !.n = 1] \in Request
           /\ \A p \in Pools : [q EXCEPT !.pool = p] \in Request
           /\ \A v \in SUBSET Pools : [q EXCEPT !.visited = v] \in Request
           /\ \A u \in 0 .. MaxTokens : [q EXCEPT !.used = u] \in Request
<1>1. \A c \in {"admit", "served", "accrue", "refund"} : [q EXCEPT !.pc = c] \in Request
  BY DEF Request
<1>2. \A n \in Nat \ {0} : [q EXCEPT !.n = n] \in Request
  BY DEF Request
<1>3. \A p \in Pools : [q EXCEPT !.pool = p] \in Request
  BY DEF Request
<1>4. \A v \in SUBSET Pools : [q EXCEPT !.visited = v] \in Request
  BY DEF Request
<1>5. \A u \in 0 .. MaxTokens : [q EXCEPT !.used = u] \in Request
  BY DEF Request
<1>6. [q EXCEPT !.n = 1] \in Request
  BY DEF Request
<1> QED
  BY <1>1, <1>2, <1>3, <1>4, <1>5, <1>6

\* What a request that has come in is charged to depends on these fields.
LEMMA SameChain ==
    ASSUME NEW q, NEW o, q.key = o.key, q.group = o.group, q.pool = o.pool
    PROVE  Charged(q) = Charged(o) /\ Gauged(q) = Gauged(o)
BY DEF Charged, Gauged

\* Where the steps of a request leave its record.
LEMMA Moves ==
    ASSUME NEW q \in Request
    PROVE  /\ \A c \in {"accrue", "refund"} : [q EXCEPT !.pc = c, !.n = 1] \in Request
           /\ \A u \in 0 .. MaxTokens : [q EXCEPT !.pc = "accrue", !.n = 1, !.used = u] \in Request
           /\ \A p \in Pools, v \in SUBSET Pools :
                [q EXCEPT !.pool = p, !.visited = v, !.n = 1] \in Request
<1>1. ASSUME NEW c \in {"accrue", "refund"} PROVE [q EXCEPT !.pc = c, !.n = 1] \in Request
  <2> DEFINE o == [q EXCEPT !.pc = c]
  <2>1. o \in Request
    BY Fields
  <2>2. [q EXCEPT !.pc = c, !.n = 1] = [o EXCEPT !.n = 1]
    OBVIOUS
  <2> HIDE DEF o
  <2> QED
    BY <2>1, <2>2, Fields
<1>2. ASSUME NEW u \in 0 .. MaxTokens
      PROVE  [q EXCEPT !.pc = "accrue", !.n = 1, !.used = u] \in Request
  <2> DEFINE o == [q EXCEPT !.pc = "accrue", !.n = 1]
  <2>1. o \in Request
    BY <1>1
  <2>2. [q EXCEPT !.pc = "accrue", !.n = 1, !.used = u] = [o EXCEPT !.used = u]
    OBVIOUS
  <2> HIDE DEF o
  <2> QED
    BY <2>1, <2>2, Fields
<1>3. ASSUME NEW p \in Pools, NEW v \in SUBSET Pools
      PROVE  [q EXCEPT !.pool = p, !.visited = v, !.n = 1] \in Request
  <2> DEFINE o == [q EXCEPT !.pool = p]
             s == [o EXCEPT !.visited = v]
  <2>1. o \in Request
    BY Fields
  <2>2. [q EXCEPT !.pool = p, !.visited = v, !.n = 1] = [s EXCEPT !.n = 1]
    OBVIOUS
  <2> HIDE DEF o
  <2>3. s \in Request
    BY <2>1, Fields
  <2> HIDE DEF s
  <2> QED
    BY <2>2, <2>3, Fields
<1> QED
  BY <1>1, <1>2, <1>3

LEMMA Resting ==
    /\ Idle \in Request /\ Ended \in Request
    /\ Idle.pc = "new" /\ Ended.pc = "end"
    /\ \A t \in Nat : Placed(Idle, t) /\ Placed(Ended, t)
<1>1. Idle \in Request /\ Ended \in Request /\ Idle.pc = "new" /\ Ended.pc = "end"
  BY LimitsAssumption DEF Idle, Ended, Request
<1> QED
  BY <1>1 DEF Placed

LEMMA ArriveTypes ==
    ASSUME Typed, NEW r \in Requests, Arrive(r)
    PROVE  Requested'
<1>1. PICK k \in Keys : \E p \in MayUse[k] :
        LET q == [Idle EXCEPT !.pc = "admit", !.key = k, !.group = bound[k],
                              !.cfg = config, !.pool = p, !.at = clock]
        IN  req' = [req EXCEPT ![r] = IF Missing(q) \/ Frozen(q) THEN Ended ELSE q]
  BY DEF Arrive
<1>0. PICK p \in MayUse[k] :
        LET q == [Idle EXCEPT !.pc = "admit", !.key = k, !.group = bound[k],
                              !.cfg = config, !.pool = p, !.at = clock]
        IN  req' = [req EXCEPT ![r] = IF Missing(q) \/ Frozen(q) THEN Ended ELSE q]
  BY <1>1
<1> DEFINE q == [Idle EXCEPT !.pc = "admit", !.key = k, !.group = bound[k],
                             !.cfg = config, !.pool = p, !.at = clock]
<1>2. p \in Pools /\ clock \in 1 .. MaxClock /\ clock \in Nat
  BY LimitsAssumption DEF Typed
<1>3. q \in Request /\ q.pc = "admit" /\ q.key = k /\ q.pool = p /\ q.at = clock /\ q.n = 1
  <2> DEFINE u == [Idle EXCEPT !.pc = "admit", !.key = k, !.group = bound[k]]
             v == [u EXCEPT !.cfg = config, !.pool = p, !.at = clock]
  <2>1. bound[k] \in Groups \cup {NoGroup} /\ clock \in 0 .. MaxClock
    BY <1>2, LimitsAssumption DEF Typed
  <2>2. config \in [on : SUBSET Groups, frozen : SUBSET Groups]
    BY DEF Typed
  <2>3. Idle \in Request /\ Idle.n = 1
    BY Resting DEF Idle
  <2>4. u \in Request /\ u.pc = "admit" /\ u.key = k /\ u.n = 1
    BY <2>1, <2>3 DEF Request
  <2>5. q = v
    OBVIOUS
  <2> HIDE DEF u, q
  <2>6. v \in Request /\ v.pc = "admit" /\ v.key = k /\ v.n = 1 /\ v.pool = p /\ v.at = clock
    BY <1>2, <2>1, <2>2, <2>4 DEF Request
  <2> QED
    BY <2>5, <2>6
<1> HIDE DEF q
<1>4. Placed(q, clock)
  BY <1>2, <1>3, Chains DEF Placed
<1>5. UNCHANGED clock /\ Requested
  BY DEF Arrive, rest, Typed
<1>6. CASE req' = [req EXCEPT ![r] = q]
  BY <1>3, <1>4, <1>5, <1>6, Put
<1>7. CASE req' = [req EXCEPT ![r] = Ended]
  BY <1>2, <1>5, <1>7, Put, Resting
<1> QED
  BY <1>0, <1>6, <1>7 DEF q

\* The other steps of a request, by where they leave it.
LEMMA EndTypes ==
    ASSUME Typed, NEW r \in Requests, req' = [req EXCEPT ![r] = Ended], UNCHANGED clock
    PROVE  Requested'
<1>1. Ended \in Request /\ Placed(Ended, clock)
  BY Resting DEF Typed
<1> QED
  BY <1>1, Put DEF Typed

LEMMA MoveTypes ==
    ASSUME Typed, NEW r \in Requests, NEW q \in Request,
           req' = [req EXCEPT ![r] = q], UNCHANGED clock,
           req[r].pc \in {"admit", "served", "accrue", "refund"},
           q.key = req[r].key, q.group = req[r].group, q.at = req[r].at, q.pool \in Pools,
           q.pc \in {"admit", "served", "accrue", "refund"},
           q.pc = "admit" => req[r].pc = "admit" /\ q.n <= Len(Gauged(q)) + 1,
           q.pc \in {"accrue", "refund"} => q.n <= Len(Charged(q))
    PROVE  Requested'
<1>1. req[r] \in Request /\ Placed(req[r], clock) /\ Requested
  BY DEF Typed, Requested
<1>2. q.key \in Keys /\ q.at \in 1 .. clock
  BY <1>1 DEF Placed
<1>3. q.pc = "admit" => clock <= q.at + 1
  BY <1>1 DEF Placed
<1>4. Placed(q, clock)
  BY <1>2, <1>3 DEF Placed
<1> QED
  BY <1>1, <1>4, Put

LEMMA UnderWay ==
    ASSUME Requested, NEW r \in Requests, req[r].pc \in {"admit", "served", "accrue", "refund"}
    PROVE  /\ req[r] \in Request /\ req[r].key \in Keys /\ req[r].pool \in Pools
           /\ req[r].at \in 1 .. clock /\ req[r].n \in Nat \ {0}
           /\ Len(Gauged(req[r])) \in Nat /\ Len(Charged(req[r])) \in Nat \ {0}
           /\ Charged(req[r]) \in Seq(Ids)
           /\ Elements(Charged(req[r])) \subseteq Ids
<1>1. req[r] \in Request /\ Placed(req[r], clock)
  BY DEF Requested
<1>2. req[r].key \in Keys /\ req[r].pool \in Pools /\ req[r].at \in 1 .. clock
  BY <1>1 DEF Placed
<1>3. req[r].n \in Nat \ {0}
  BY <1>1 DEF Request
<1>4. /\ Charged(req[r]) \in Seq(Ids) /\ Len(Charged(req[r])) \in Nat \ {0}
      /\ Len(Gauged(req[r])) \in Nat
  BY <1>1, <1>2, Chains
<1>5. Elements(Charged(req[r])) \subseteq Ids
  BY <1>4 DEF Elements
<1> QED
  BY <1>1, <1>2, <1>3, <1>4, <1>5

LEMMA TakeTypes ==
    ASSUME Typed, NEW r \in Requests, TakeGauge(r)
    PROVE  Requested'
<1> DEFINE q == [req[r] EXCEPT !.n = @ + 1]
<1>1. req[r].pc = "admit" /\ req[r].n <= Len(Gauged(req[r]))
  BY DEF TakeGauge, Gauging
<1>2. /\ req[r] \in Request /\ req[r].key \in Keys /\ req[r].pool \in Pools
      /\ req[r].n \in Nat \ {0} /\ Len(Gauged(req[r])) \in Nat
  BY <1>1, UnderWay DEF Typed
<1>3. /\ q \in Request /\ q.key = req[r].key /\ q.group = req[r].group /\ q.at = req[r].at
      /\ q.pool = req[r].pool /\ q.pc = "admit" /\ q.n = req[r].n + 1
  BY <1>1, <1>2 DEF Request
<1>4. req' = [req EXCEPT ![r] = q] /\ UNCHANGED clock
  BY DEF TakeGauge, rest
<1> HIDE DEF q
<1>5. q.n <= Len(Gauged(q)) + 1
  BY <1>1, <1>2, <1>3 DEF Gauged
<1> QED
  BY <1>1, <1>2, <1>3, <1>4, <1>5, MoveTypes

LEMMA AdmitTypes ==
    ASSUME Typed, NEW r \in Requests, Admit(r)
    PROVE  Requested'
<1> DEFINE q == [req[r] EXCEPT !.pc = "served"]
<1>1. req[r].pc = "admit"
  BY DEF Admit, Locking
<1>2. /\ req[r] \in Request /\ req[r].key \in Keys /\ req[r].pool \in Pools
  BY <1>1, UnderWay DEF Typed
<1>3. /\ q \in Request /\ q.key = req[r].key /\ q.group = req[r].group /\ q.at = req[r].at
      /\ q.pool = req[r].pool /\ q.pc = "served"
  BY <1>2 DEF Request
<1>4. req' = [req EXCEPT ![r] = q] /\ UNCHANGED clock
  BY DEF Admit, rest
<1> HIDE DEF q
<1> QED
  BY <1>1, <1>2, <1>3, <1>4, MoveTypes

LEMMA RefuseTypes ==
    ASSUME Typed, NEW r \in Requests, Refuse(r)
    PROVE  Requested'
<1> DEFINE p == Downgrade(req[r])
           q == [req[r] EXCEPT !.pool = p, !.visited = @ \cup {p}, !.n = 1]
<1>1. req[r].pc = "admit" /\ UNCHANGED clock
  BY DEF Refuse, Locking, rest
<1>2. /\ req[r] \in Request /\ req[r].key \in Keys /\ req[r].pool \in Pools
      /\ Len(Gauged(req[r])) \in Nat
  BY <1>1, UnderWay DEF Typed
<1>3. CASE CanGo(req[r], p)
  <2> HIDE DEF p
  <2>1. p \in Pools
    BY <1>3 DEF CanGo
  <2>6. req[r].visited \cup {p} \in SUBSET Pools
    BY <1>2, <2>1 DEF Request
  <2>5. q \in Request
    BY <1>2, <2>1, <2>6, Moves
  <2>2. /\ q \in Request /\ q.key = req[r].key /\ q.group = req[r].group /\ q.at = req[r].at
        /\ q.pool = p /\ q.pc = "admit" /\ q.n = 1
    BY <1>1, <1>2, <2>5 DEF Request
  <2>3. req' = [req EXCEPT ![r] = q]
    BY <1>3 DEF Refuse, p
  <2> HIDE DEF q
  <2>4. q.n <= Len(Gauged(q)) + 1
    BY <1>2, <2>2 DEF Gauged
  <2> QED
    BY <1>1, <2>1, <2>2, <2>3, <2>4, MoveTypes
<1>4. CASE ~CanGo(req[r], p)
  BY <1>1, <1>4, EndTypes DEF Refuse
<1> QED
  BY <1>3, <1>4

LEMMA DeliverTypes ==
    ASSUME Typed, NEW r \in Requests, Delivered(r)
    PROVE  Requested'
<1>1. req[r].pc = "served" /\ UNCHANGED clock
  BY DEF Delivered, rest
<1>2. PICK n \in 1 .. MaxTokens : req' = [req EXCEPT ![r].pc = "accrue", ![r].n = 1, ![r].used = n]
  BY DEF Delivered
<1> DEFINE q == [req[r] EXCEPT !.pc = "accrue", !.n = 1, !.used = n]
<1>7. n \in 0 .. MaxTokens
  BY LimitsAssumption
<1>3. /\ req[r] \in Request /\ req[r].key \in Keys /\ req[r].pool \in Pools
      /\ Len(Charged(req[r])) \in Nat \ {0}
  BY <1>1, UnderWay DEF Typed
<1>4. /\ q \in Request /\ q.key = req[r].key /\ q.group = req[r].group /\ q.at = req[r].at
      /\ q.pool = req[r].pool /\ q.pc = "accrue" /\ q.n = 1
  <2>1. q \in Request
    BY <1>3, <1>7, Moves
  <2> QED
    BY <1>3, <2>1 DEF Request
<1>5. req' = [req EXCEPT ![r] = q]
  BY <1>2
<1> HIDE DEF q
<1>6. q.n <= Len(Charged(q))
  <2>1. Charged(q) = Charged(req[r])
    BY <1>4, SameChain
  <2> QED
    BY <1>3, <1>4, <2>1
<1> QED
  BY <1>1, <1>3, <1>4, <1>5, <1>6, MoveTypes

LEMMA FailTypes ==
    ASSUME Typed, NEW r \in Requests, Failed(r)
    PROVE  Requested'
<1>1. req[r].pc = "served" /\ UNCHANGED clock
  BY DEF Failed, rest
<1> DEFINE q == [req[r] EXCEPT !.pc = "refund", !.n = 1]
<1>3. /\ req[r] \in Request /\ req[r].key \in Keys /\ req[r].pool \in Pools
      /\ Len(Charged(req[r])) \in Nat \ {0}
  BY <1>1, UnderWay DEF Typed
<1>4. /\ q \in Request /\ q.key = req[r].key /\ q.group = req[r].group /\ q.at = req[r].at
      /\ q.pool = req[r].pool /\ q.pc = "refund" /\ q.n = 1
  BY <1>3, Moves DEF Request
<1>5. req' = [req EXCEPT ![r] = q]
  BY DEF Failed
<1> HIDE DEF q
<1>6. q.n <= Len(Charged(q))
  <2>1. Charged(q) = Charged(req[r])
    BY <1>4, SameChain
  <2> QED
    BY <1>3, <1>4, <2>1
<1> QED
  BY <1>1, <1>3, <1>4, <1>5, <1>6, MoveTypes

LEMMA StepTypes ==
    ASSUME Typed, NEW r \in Requests, req[r].pc \in {"accrue", "refund"}, Step(r),
           UNCHANGED clock
    PROVE  Requested'
<1>1. CASE Last(r)
  BY <1>1, EndTypes DEF Step
<1>2. CASE ~Last(r)
  <2> DEFINE q == [req[r] EXCEPT !.n = @ + 1]
  <2>1. /\ req[r] \in Request /\ req[r].key \in Keys /\ req[r].pool \in Pools
        /\ req[r].n \in Nat \ {0} /\ Len(Charged(req[r])) \in Nat \ {0}
    BY UnderWay DEF Typed
  <2>2. req[r].n <= Len(Charged(req[r]))
    BY DEF Typed, Requested, Placed
  <2>3. /\ q \in Request /\ q.key = req[r].key /\ q.group = req[r].group /\ q.at = req[r].at
        /\ q.pool = req[r].pool /\ q.pc = req[r].pc /\ q.n = req[r].n + 1
    <3>1. req[r].n + 1 \in Nat \ {0}
      BY <2>1
    <3>2. q \in Request
      BY <2>1, <3>1, Fields
    <3> QED
      BY <2>1, <3>2 DEF Request
  <2>4. req' = [req EXCEPT ![r] = q]
    BY <1>2 DEF Step
  <2> HIDE DEF q
  <2>5. q.n <= Len(Charged(q))
    <3>1. Charged(q) = Charged(req[r])
      BY <2>3, SameChain
    <3> QED
      BY <1>2, <2>1, <2>2, <2>3, <3>1 DEF Last
  <2> QED
    BY <2>1, <2>3, <2>4, <2>5, MoveTypes
<1> QED
  BY <1>1, <1>2

-----------------------------------------------------------------------------
(* Cells.                                                                  *)

LEMMA NoCellTypes == NoCell \in Cell /\ \A b \in Ids : Windowed(b, NoCell)
<1>1. NoCell \in Cell /\ NoCell.window = -1
  BY LimitsAssumption DEF NoCell, Cell
<1> QED
  BY <1>1 DEF Windowed

LEMMA WindowTypes ==
    ASSUME NEW b \in Ids, NEW t \in 1 .. MaxClock
    PROVE  /\ Window(b, t) \in 0 .. MaxClock
           /\ Window(b, t) = IF Rolling(b) THEN t ELSE 0
BY LimitsAssumption DEF Window, Rolling

LEMMA LiveCell ==
    ASSUME NEW c \in Cell, NEW w \in 0 .. MaxClock
    PROVE  /\ Live(c, w) \in Cell
           /\ w > c.window => Live(c, w) = Fresh(w)
           /\ w <= c.window => Live(c, w) = c
           /\ /\ Fresh(w).window = w /\ Fresh(w).requests = 0
              /\ Fresh(w).billable = 0 /\ Fresh(w).tokens = 0
<1>1. Fresh(w) \in Cell
  BY LimitsAssumption DEF Fresh, NoCell, Cell
<1>2. /\ Fresh(w).window = w /\ Fresh(w).requests = 0
      /\ Fresh(w).billable = 0 /\ Fresh(w).tokens = 0
  BY DEF Fresh, NoCell
<1>3. c.window \in Int
  BY LimitsAssumption DEF Cell
<1>4. Live(c, w) \in Cell
  BY <1>1 DEF Live
<1>5. (w > c.window => Live(c, w) = Fresh(w)) /\ (w <= c.window => Live(c, w) = c)
  BY <1>3 DEF Live
<1> QED
  BY <1>2, <1>4, <1>5

LEMMA ChargeCell ==
    ASSUME NEW c \in Cell, NEW w \in 0 .. MaxClock, NEW t \in 0 .. MaxClock
    PROVE  /\ Charge(c, w, t) \in Cell
           /\ Charge(c, w, t).window = Live(c, w).window
           /\ Charge(c, w, t).requests = Live(c, w).requests + 1
           /\ Charge(c, w, t).billable = Live(c, w).billable + 1
           /\ Charge(c, w, t).tokens = Live(c, w).tokens
<1> DEFINE l == Live(c, w)
<1>1. l \in Cell
  BY LiveCell
<1>2. Charge(c, w, t) = [l EXCEPT !.requests = @ + 1, !.billable = @ + 1, !.touched = t]
  BY DEF Charge
<1> HIDE DEF l
<1>3. [l EXCEPT !.requests = @ + 1, !.billable = @ + 1, !.touched = t] \in Cell
  <2> DEFINE m == [l EXCEPT !.requests = @ + 1]
             k == [m EXCEPT !.billable = @ + 1]
  <2>1. m \in Cell
    BY <1>1 DEF Cell
  <2>2. [l EXCEPT !.requests = @ + 1, !.billable = @ + 1, !.touched = t] = [k EXCEPT !.touched = t]
    OBVIOUS
  <2> HIDE DEF m
  <2>3. k \in Cell
    BY <2>1 DEF Cell
  <2> HIDE DEF k
  <2> QED
    BY <2>2, <2>3 DEF Cell
<1> QED
  BY <1>1, <1>2, <1>3 DEF l, Cell

LEMMA AccruedCell ==
    ASSUME NEW c \in Cell, NEW w \in 0 .. MaxClock, NEW t \in 0 .. MaxClock,
           NEW n \in 0 .. MaxTokens
    PROVE  /\ Accrued(c, w, n, t) \in Cell
           /\ Accrued(c, w, n, t).window = Live(c, w).window
           /\ Accrued(c, w, n, t).requests = Live(c, w).requests
           /\ Accrued(c, w, n, t).billable = Live(c, w).billable
           /\ Accrued(c, w, n, t).tokens = Live(c, w).tokens + n
<1> DEFINE l == Live(c, w)
<1>1. l \in Cell /\ n \in Nat
  BY LiveCell, LimitsAssumption
<1>2. Accrued(c, w, n, t) = [l EXCEPT !.tokens = @ + n, !.touched = t]
  BY DEF Accrued
<1> HIDE DEF l
<1>3. [l EXCEPT !.tokens = @ + n, !.touched = t] \in Cell
  <2> DEFINE m == [l EXCEPT !.tokens = @ + n]
  <2>1. m \in Cell
    BY <1>1 DEF Cell
  <2>2. [l EXCEPT !.tokens = @ + n, !.touched = t] = [m EXCEPT !.touched = t]
    OBVIOUS
  <2> HIDE DEF m
  <2> QED
    BY <2>1, <2>2 DEF Cell
<1> QED
  BY <1>1, <1>2, <1>3 DEF l, Cell

LEMMA RefundedCell ==
    ASSUME NEW c \in Cell, NEW w
    PROVE  /\ Refunded(c, w) \in Cell
           /\ Refunded(c, w).window = c.window
           /\ Refunded(c, w).requests = c.requests
           /\ Refunded(c, w).billable <= c.billable
           /\ Refunded(c, w).tokens = c.tokens
<1>1. CASE c.billable > 0
  <2>1. c.billable - 1 \in Nat
    BY <1>1 DEF Cell
  <2>2. [c EXCEPT !.billable = @ - 1] \in Cell
    BY <2>1 DEF Cell
  <2> QED
    BY <2>1, <2>2 DEF Refunded, Cell
<1>2. CASE ~(c.billable > 0)
  BY <1>2 DEF Refunded, Cell
<1> QED
  BY <1>1, <1>2

\* A charge or an accrual leaves a cell of the window its bucket has.
LEMMA LiveWindowed ==
    ASSUME NEW b \in Ids, NEW c, Windowed(b, c), NEW t \in 1 .. MaxClock, NEW d \in Cell,
           d.window = Live(c, Window(b, t)).window
    PROVE  Windowed(b, d)
<1>1. c \in Cell /\ c.window \in Int
  BY LimitsAssumption DEF Windowed, Cell
<1>2. d.window = IF Window(b, t) > c.window THEN Window(b, t) ELSE c.window
  BY <1>1, WindowTypes, LiveCell
<1> QED
  BY <1>1, <1>2, WindowTypes DEF Windowed

\* What a step does to the cells, for the steps that have one cell or more.
LEMMA DropTypes ==
    ASSUME Typed, NEW D, cells' = [b \in Ids |-> IF b \in D THEN NoCell ELSE cells[b]]
    PROVE  cells' \in [Ids -> Cell] /\ Celled'
BY NoCellTypes DEF Typed, Celled

LEMMA AdmitCells ==
    ASSUME Typed, NEW r \in Requests, Admit(r), NEW b \in Ids
    PROVE  LET w == Window(b, req[r].at)
               d == Charge(cells[b], w, req[r].at)
           IN  /\ req[r].at \in 1 .. clock /\ w \in 0 .. MaxClock
               /\ w = IF Rolling(b) THEN req[r].at ELSE 0
               /\ b \in Elements(Charged(req[r])) => cells'[b] = d
               /\ b \notin Elements(Charged(req[r])) => cells'[b] = cells[b]
               /\ d \in Cell /\ Windowed(b, d) /\ d.window \in 0 .. MaxClock
<1> DEFINE w == Window(b, req[r].at)
           d == Charge(cells[b], w, req[r].at)
<1>1. req[r].at \in 1 .. clock /\ req[r].at \in 1 .. MaxClock /\ req[r].at \in 0 .. MaxClock
  BY UnderWay, LimitsAssumption DEF Typed, Admit, Locking
<1>2. w \in 0 .. MaxClock /\ w = IF Rolling(b) THEN req[r].at ELSE 0
  BY <1>1, WindowTypes
<1>3. Windowed(b, cells[b]) /\ cells[b] \in Cell
  BY DEF Typed, Celled
<1>4. d \in Cell /\ d.window = Live(cells[b], w).window
  BY <1>1, <1>2, <1>3, ChargeCell
<1>5. Windowed(b, d)
  BY <1>1, <1>3, <1>4, LiveWindowed
<1>6. d.window \in 0 .. MaxClock
  <2>1. cells[b].window \in -1 .. MaxClock
    BY <1>3 DEF Cell
  <2>2. d.window = w \/ (w <= cells[b].window /\ d.window = cells[b].window)
    BY <1>2, <1>3, <1>4, <2>1, LiveCell
  <2>3. MaxClock \in Nat
    BY LimitsAssumption
  <2> QED
    BY <1>2, <2>1, <2>2, <2>3
<1>7. /\ b \in Elements(Charged(req[r])) => cells'[b] = d
      /\ b \notin Elements(Charged(req[r])) => cells'[b] = cells[b]
  BY DEF Admit
<1> QED
  BY <1>1, <1>2, <1>4, <1>5, <1>6, <1>7

LEMMA AdmitLedger ==
    ASSUME Typed, NEW r \in Requests, Admit(r)
    PROVE  /\ cells' \in [Ids -> Cell] /\ Celled'
           /\ charges' \in [Ids -> [0 .. MaxClock -> Nat]]
           /\ flight' \in [Ids -> SUBSET Requests]
<1>1. \A b \in Ids : Windowed(b, cells'[b])
  <2> SUFFICES ASSUME NEW b \in Ids PROVE Windowed(b, cells'[b])
    OBVIOUS
  <2> QED
    BY AdmitCells DEF Typed, Celled
<1>2. cells' \in [Ids -> Cell] /\ Celled'
  <2>1. \A b \in Ids : cells'[b] \in Cell
    BY <1>1 DEF Windowed
  <2>2. cells' = [b \in Ids |-> cells'[b]]
    BY DEF Admit
  <2> QED
    BY <1>1, <2>1, <2>2 DEF Celled
<1>3. charges' \in [Ids -> [0 .. MaxClock -> Nat]]
  <2>1. charges' = [b \in Ids |->
                      IF b \in Elements(Charged(req[r]))
                      THEN [charges[b] EXCEPT ![cells'[b].window] = @ + 1] ELSE charges[b]]
    BY DEF Admit
  <2>2. ASSUME NEW b \in Ids
        PROVE  [charges[b] EXCEPT ![cells'[b].window] = @ + 1] \in [0 .. MaxClock -> Nat]
    <3> DEFINE f == charges[b]
               v == cells'[b].window
    <3>1. f \in [0 .. MaxClock -> Nat]
      BY DEF Typed
    <3> HIDE DEF f, v
    <3>2. [f EXCEPT ![v] = @ + 1] \in [0 .. MaxClock -> Nat]
      <4>1. CASE v \in 0 .. MaxClock
        <5>1. f[v] + 1 \in Nat
          BY <3>1, <4>1
        <5> QED
          BY <3>1, <5>1
      <4>2. CASE v \notin 0 .. MaxClock
        <5>1. [f EXCEPT ![v] = @ + 1] = f
          BY <3>1, <4>2
        <5> QED
          BY <3>1, <5>1
      <4> QED
        BY <4>1, <4>2
    <3> QED
      BY <3>2 DEF f, v
  <2> QED
    BY <2>1, <2>2 DEF Typed
<1>4. flight' \in [Ids -> SUBSET Requests]
  <2>1. flight' = [b \in Ids |->
                     IF b \in Elements(Charged(req[r]))
                     THEN {r} \cup {o \in Requests : Pending(b, o)} ELSE flight[b]]
    BY DEF Admit
  <2> QED
    BY <2>1 DEF Typed
<1> QED
  BY <1>2, <1>3, <1>4

LEMMA AccrueCells ==
    ASSUME Typed, NEW r \in Requests, record_usage(r)
    PROVE  /\ cells' \in [Ids -> Cell] /\ Celled'
           /\ req[r].used \in 0 .. MaxTokens
           /\ \E b \in Ids :
                LET w == Window(b, req[r].at)
                IN  /\ AtBucket(r, b) /\ w \in 0 .. MaxClock
                    /\ req[r].at \in 0 .. MaxClock
                    /\ cells' = [cells EXCEPT ![b] = Accrued(cells[b], w, req[r].used, req[r].at)]
<1>1. PICK b \in Ids :
        /\ AtBucket(r, b)
        /\ cells' = [cells EXCEPT ![b] = Accrued(@, Window(b, req[r].at), req[r].used, req[r].at)]
  BY DEF record_usage
<1> DEFINE w == Window(b, req[r].at)
           d == Accrued(cells[b], w, req[r].used, req[r].at)
<1>2. /\ req[r].at \in 1 .. MaxClock /\ req[r].at \in 0 .. MaxClock
      /\ req[r].used \in 0 .. MaxTokens
  BY UnderWay, LimitsAssumption DEF Typed, record_usage, Request
<1>3. w \in 0 .. MaxClock
  BY <1>2, WindowTypes
<1>4. Windowed(b, cells[b]) /\ cells[b] \in Cell
  BY DEF Typed, Celled
<1>5. d \in Cell /\ d.window = Live(cells[b], w).window
  BY <1>2, <1>3, <1>4, AccruedCell
<1>6. Windowed(b, d)
  BY <1>2, <1>4, <1>5, LiveWindowed
<1>7. cells' = [cells EXCEPT ![b] = d]
  BY <1>1
<1> HIDE DEF d
<1>8. cells' \in [Ids -> Cell] /\ Celled'
  BY <1>5, <1>6, <1>7 DEF Typed, Celled
<1> QED
  BY <1>1, <1>2, <1>3, <1>7, <1>8 DEF d

LEMMA RefundCells ==
    ASSUME Typed, NEW r \in Requests, refund_request(r)
    PROVE  /\ cells' \in [Ids -> Cell] /\ Celled'
           /\ \E b \in Ids, w \in Int : cells' = [cells EXCEPT ![b] = Refunded(cells[b], w)]
<1>1. PICK b \in Ids :
        /\ AtBucket(r, b)
        /\ cells' = [cells EXCEPT ![b] = Refunded(@, Window(b, req[r].at))]
  BY DEF refund_request
<1> DEFINE w == Window(b, req[r].at)
           d == Refunded(cells[b], w)
<1>2. req[r].at \in 1 .. MaxClock
  BY UnderWay, LimitsAssumption DEF Typed, refund_request
<1>3. w \in Int
  BY <1>2, WindowTypes
<1>4. Windowed(b, cells[b]) /\ cells[b] \in Cell
  BY DEF Typed, Celled
<1>5. d \in Cell /\ d.window = cells[b].window
  BY <1>4, RefundedCell
<1>6. Windowed(b, d)
  BY <1>4, <1>5 DEF Windowed
<1>7. cells' = [cells EXCEPT ![b] = d]
  BY <1>1
<1> HIDE DEF d
<1>8. cells' \in [Ids -> Cell] /\ Celled'
  BY <1>5, <1>6, <1>7 DEF Typed, Celled
<1> QED
  BY <1>3, <1>7, <1>8 DEF d

-----------------------------------------------------------------------------
(* Gauges.                                                                 *)

\* The gauges a request has taken, and what they count.
Taken(q) ==
    IF q.pc = "admit" THEN {Gauged(q)[m] : m \in 1 .. q.n - 1}
    ELSE IF q.pc \in {"served", "accrue"} THEN Elements(Gauged(q)) ELSE {}

Takers(g) == {r \in Requests : g \in grants[r]}

Counting ==
    /\ gauge \in [Groups -> Nat]
    /\ grants \in [Requests -> SUBSET Groups]
    /\ \A g \in Groups : gauge[g] = Cardinality(Takers(g))
    /\ \A g \in Groups : ConcurrentCap[g] # NoCap => gauge[g] <= ConcurrentCap[g]

Granted == \A r \in Requests : grants[r] = Taken(req[r])

GaugeInv == Counting /\ Granted

LEMMA TakersFinite == \A g : IsFiniteSet(Takers(g)) /\ Cardinality(Takers(g)) \in Nat
<1> SUFFICES ASSUME NEW g PROVE IsFiniteSet(Takers(g)) /\ Cardinality(Takers(g)) \in Nat
  OBVIOUS
<1>1. Takers(g) \in SUBSET Requests
  BY DEF Takers
<1>2. IsFiniteSet(Takers(g))
  BY <1>1, LimitsAssumption, FS_Subset
<1> QED
  BY <1>2, FS_CardinalityType

\* A grant that is dropped gives back exactly the gauges it took.
LEMMA ReleaseKeeps ==
    ASSUME Counting, NEW r \in Requests, Release(r)
    PROVE  Counting' /\ grants'[r] = {} /\ \A o \in Requests \ {r} : grants'[o] = grants[o]
<1>1. /\ grants' \in [Requests -> SUBSET Groups]
      /\ grants'[r] = {} /\ \A o \in Requests \ {r} : grants'[o] = grants[o]
  BY DEF Release, Counting
<1>2. ASSUME NEW g \in Groups
      PROVE  gauge'[g] \in Nat /\ gauge'[g] = Cardinality(Takers(g)') /\ gauge'[g] <= gauge[g]
  <2>1. Takers(g)' = Takers(g) \ {r}
    BY <1>1 DEF Takers
  <2>2. Cardinality(Takers(g) \ {r}) = IF r \in Takers(g) THEN Cardinality(Takers(g)) - 1
                                                          ELSE Cardinality(Takers(g))
    BY TakersFinite, FS_RemoveElement
  <2>3. IsFiniteSet(Takers(g) \ {r})
    BY TakersFinite, FS_RemoveElement
  <2>4. Cardinality(Takers(g) \ {r}) \in Nat
    BY <2>3, FS_CardinalityType
  <2>5. r \in Takers(g) <=> g \in grants[r]
    BY DEF Takers
  <2>6. gauge'[g] = IF g \in grants[r] THEN gauge[g] - 1 ELSE gauge[g]
    BY DEF Release
  <2>7. gauge[g] = Cardinality(Takers(g)) /\ gauge[g] \in Nat
    BY DEF Counting
  <2> QED
    BY <2>1, <2>2, <2>4, <2>5, <2>6, <2>7
<1>3. gauge' \in [Groups -> Nat]
  <2>1. gauge' = [g \in Groups |-> gauge'[g]]
    BY DEF Release
  <2> QED
    BY <1>2, <2>1
<1>4. ASSUME NEW g \in Groups, ConcurrentCap[g] # NoCap
      PROVE  gauge'[g] <= ConcurrentCap[g]
  <2>1. gauge[g] \in Nat /\ gauge'[g] \in Nat /\ gauge'[g] <= gauge[g]
    BY <1>2 DEF Counting
  <2>2. gauge[g] <= ConcurrentCap[g]
    BY <1>4 DEF Counting
  <2>3. ConcurrentCap[g] \in Nat
    BY <1>4, ConfigAssumption DEF Capacity
  <2> QED
    BY <2>1, <2>2, <2>3
<1> QED
  BY <1>1, <1>2, <1>3, <1>4 DEF Counting

\* Each gauge is taken once, and only below its cap.
LEMMA TakeKeeps ==
    ASSUME Typed, GaugeInv, NEW r \in Requests, TakeGauge(r)
    PROVE  /\ Counting' /\ grants'[r] = Taken(req'[r])
           /\ \A o \in Requests \ {r} : grants'[o] = grants[o] /\ req'[o] = req[o]
<1> DEFINE q == req[r]
           n == q.n
           g == Gauged(q)[n]
<1>1. q.pc = "admit" /\ n <= Len(Gauged(q))
  BY DEF TakeGauge, Gauging
<1>2. q \in Request /\ n \in Nat \ {0} /\ Len(Gauged(q)) \in Nat
  BY <1>1, UnderWay DEF Typed
<1>3. /\ Gauged(q) \in Seq(Groups) /\ DOMAIN Gauged(q) = 1 .. Len(Gauged(q))
      /\ Once(Gauged(q)) /\ \A h \in Elements(Gauged(q)) : ConcurrentCap[h] # NoCap
  BY <1>2, Chains
<1>4. n \in DOMAIN Gauged(q) /\ g \in Groups
  BY <1>1, <1>2, <1>3
<1>5. grants[r] = {Gauged(q)[m] : m \in 1 .. n - 1}
  BY <1>1 DEF GaugeInv, Granted, Taken
<1>6. g \notin grants[r]
  <2> SUFFICES ASSUME NEW m \in 1 .. n - 1, g = Gauged(q)[m] PROVE FALSE
    BY <1>5
  <2>1. m \in DOMAIN Gauged(q) /\ m # n
    BY <1>1, <1>2, <1>3
  <2> QED
    BY <1>3, <1>4, <2>1 DEF Once
<1>7. /\ gauge' = [gauge EXCEPT ![g] = @ + 1]
      /\ grants' = [grants EXCEPT ![r] = @ \cup {g}]
      /\ req' = [req EXCEPT ![r].n = @ + 1]
  BY DEF TakeGauge, NextGauge
<1>8. gauge[g] < ConcurrentCap[g]
  BY DEF TakeGauge, NextGauge
<1>9. grants'[r] = grants[r] \cup {g} /\ grants' \in [Requests -> SUBSET Groups]
  BY <1>4, <1>7 DEF GaugeInv, Counting
<1>10. \A o \in Requests \ {r} : grants'[o] = grants[o] /\ req'[o] = req[o]
  BY <1>7 DEF GaugeInv, Counting, Typed, Requested
<1>11. grants'[r] = Taken(req'[r])
  <2>1. req'[r] = [q EXCEPT !.n = n + 1]
    BY <1>7 DEF Typed, Requested
  <2>2. req'[r].pc = "admit" /\ req'[r].n = n + 1 /\ req'[r].group = q.group
    BY <1>1, <1>2, <2>1 DEF Request
  <2>3. Gauged(req'[r]) = Gauged(q)
    BY <2>2 DEF Gauged
  <2>4. 1 .. (n + 1) - 1 = (1 .. n - 1) \cup {n}
    BY <1>2
  <2>5. {Gauged(q)[m] : m \in 1 .. (n + 1) - 1} = {Gauged(q)[m] : m \in 1 .. n - 1} \cup {g}
    BY <2>4
  <2>6. Taken(req'[r]) = {Gauged(q)[m] : m \in 1 .. (n + 1) - 1}
    BY <2>2, <2>3 DEF Taken
  <2> QED
    BY <1>5, <1>9, <2>5, <2>6
<1> HIDE DEF g
<1>12. ASSUME NEW h \in Groups
       PROVE  gauge'[h] \in Nat /\ gauge'[h] = Cardinality(Takers(h)')
  <2>1. gauge[h] = Cardinality(Takers(h)) /\ gauge[h] \in Nat
    BY DEF GaugeInv, Counting
  <2>2. CASE h = g
    <3>1. Takers(h)' = Takers(h) \cup {r} /\ r \notin Takers(h)
      BY <1>6, <1>9, <1>10, <2>2 DEF Takers
    <3>2. Cardinality(Takers(h) \cup {r}) = Cardinality(Takers(h)) + 1
      BY <3>1, TakersFinite, FS_AddElement
    <3>3. gauge'[h] = gauge[h] + 1
      BY <1>4, <1>7, <2>2 DEF GaugeInv, Counting
    <3> QED
      BY <2>1, <3>1, <3>2, <3>3
  <2>3. CASE h # g
    <3>1. Takers(h)' = Takers(h)
      BY <1>9, <1>10, <2>3 DEF Takers
    <3>2. gauge'[h] = gauge[h]
      BY <1>7, <2>3 DEF GaugeInv, Counting
    <3> QED
      BY <2>1, <3>1, <3>2
  <2> QED
    BY <2>2, <2>3
<1>13. gauge' \in [Groups -> Nat]
  <2>1. gauge[g] + 1 \in Nat
    BY <1>4 DEF GaugeInv, Counting
  <2> QED
    BY <1>7, <2>1 DEF GaugeInv, Counting
<1>14. ASSUME NEW h \in Groups, ConcurrentCap[h] # NoCap
       PROVE  gauge'[h] <= ConcurrentCap[h]
  <2>1. ConcurrentCap[h] \in Nat /\ gauge[h] \in Nat
    BY <1>14, ConfigAssumption DEF Capacity, GaugeInv, Counting
  <2>2. CASE h = g
    <3>1. gauge'[h] = gauge[h] + 1
      BY <1>4, <1>7, <2>2 DEF GaugeInv, Counting
    <3> QED
      BY <1>8, <2>1, <2>2, <3>1
  <2>3. CASE h # g
    BY <1>7, <1>14, <2>3 DEF GaugeInv, Counting
  <2> QED
    BY <2>2, <2>3
<1> QED
  BY <1>9, <1>10, <1>11, <1>12, <1>13, <1>14 DEF Counting

LEMMA StillCounting ==
    ASSUME Counting, UNCHANGED <<gauge, grants>>
    PROVE  Counting'
BY DEF Counting, Takers

\* One request moves, and its grant with it.
LEMMA GrantMoves ==
    ASSUME Typed, Granted, NEW r \in Requests, grants'[r] = Taken(req'[r]),
           \A o \in Requests \ {r} : grants'[o] = grants[o] /\ req'[o] = req[o]
    PROVE  Granted'
BY DEF Granted

LEMMA NothingTaken ==
    ASSUME NEW q
    PROVE  /\ q.pc \in {"new", "refund", "end"} => Taken(q) = {}
           /\ q.pc = "admit" /\ q.n = 1 => Taken(q) = {}
BY DEF Taken

\* A request that is over, or starts again in another pool, has dropped its grant.
LEMMA ReleaseGauges ==
    ASSUME Typed, GaugeInv, NEW r \in Requests, Release(r), NEW q,
           req' = [req EXCEPT ![r] = q], Taken(q) = {}
    PROVE  GaugeInv'
<1>1. Counting' /\ grants'[r] = {} /\ \A o \in Requests \ {r} : grants'[o] = grants[o]
  BY ReleaseKeeps DEF GaugeInv
<1>2. req'[r] = q /\ \A o \in Requests \ {r} : req'[o] = req[o]
  BY DEF Typed, Requested
<1> QED
  BY <1>1, <1>2, GrantMoves DEF GaugeInv

\* A request that keeps its grant.
LEMMA QuietGauges ==
    ASSUME Typed, GaugeInv, NEW r \in Requests, UNCHANGED <<gauge, grants>>, NEW q,
           req' = [req EXCEPT ![r] = q], Taken(q) = Taken(req[r])
    PROVE  GaugeInv'
<1>1. Counting'
  BY StillCounting DEF GaugeInv
<1>2. req'[r] = q /\ \A o \in Requests \ {r} : req'[o] = req[o]
  BY DEF Typed, Requested
<1>3. grants'[r] = Taken(req'[r])
  BY <1>2 DEF GaugeInv, Granted
<1> QED
  BY <1>1, <1>2, <1>3, GrantMoves DEF GaugeInv

LEMMA ArriveGauges ==
    ASSUME Typed, GaugeInv, NEW r \in Requests, Arrive(r)
    PROVE  GaugeInv'
<1>1. PICK k \in Keys : \E p \in MayUse[k] :
        LET q == [Idle EXCEPT !.pc = "admit", !.key = k, !.group = bound[k],
                              !.cfg = config, !.pool = p, !.at = clock]
        IN  req' = [req EXCEPT ![r] = IF Missing(q) \/ Frozen(q) THEN Ended ELSE q]
  BY DEF Arrive
<1>2. PICK p \in MayUse[k] :
        LET q == [Idle EXCEPT !.pc = "admit", !.key = k, !.group = bound[k],
                              !.cfg = config, !.pool = p, !.at = clock]
        IN  req' = [req EXCEPT ![r] = IF Missing(q) \/ Frozen(q) THEN Ended ELSE q]
  BY <1>1
<1> DEFINE q == [Idle EXCEPT !.pc = "admit", !.key = k, !.group = bound[k],
                             !.cfg = config, !.pool = p, !.at = clock]
<1>3. q.pc = "admit" /\ q.n = 1
  BY DEF Idle
<1>4. Taken(q) = {} /\ Taken(Ended) = {} /\ Taken(req[r]) = {}
  <2>1. Taken(q) = {}
    BY <1>3, NothingTaken
  <2>2. Taken(Ended) = {}
    BY NothingTaken, Resting
  <2>3. Taken(req[r]) = {}
    BY NothingTaken DEF Arrive
  <2> QED
    BY <2>1, <2>2, <2>3
<1>5. UNCHANGED <<gauge, grants>>
  BY DEF Arrive
<1> HIDE DEF q
<1>6. CASE req' = [req EXCEPT ![r] = q]
  BY <1>4, <1>5, <1>6, QuietGauges
<1>7. CASE req' = [req EXCEPT ![r] = Ended]
  BY <1>4, <1>5, <1>7, QuietGauges
<1> QED
  BY <1>2, <1>6, <1>7 DEF q

LEMMA AdmitGauges ==
    ASSUME Typed, GaugeInv, NEW r \in Requests, Admit(r)
    PROVE  GaugeInv'
<1> DEFINE o == req[r]
           q == [o EXCEPT !.pc = "served"]
<1>1. o.pc = "admit" /\ ~(o.n <= Len(Gauged(o)))
  BY DEF Admit, Locking, Gauging
<1>2. o \in Request /\ o.n \in Nat \ {0} /\ Len(Gauged(o)) \in Nat
  BY <1>1, UnderWay DEF Typed
<1>3. o.n <= Len(Gauged(o)) + 1
  BY <1>1 DEF Typed, Requested, Placed
<1>4. o.n - 1 = Len(Gauged(o))
  BY <1>1, <1>2, <1>3
<1>5. Taken(o) = Elements(Gauged(o))
  <2>1. DOMAIN Gauged(o) = 1 .. o.n - 1
    BY <1>2, <1>4, Chains
  <2> QED
    BY <1>1, <2>1 DEF Taken, Elements
<1>6. q.pc = "served" /\ q.group = o.group
  BY <1>2 DEF Request
<1>7. req' = [req EXCEPT ![r] = q] /\ UNCHANGED <<gauge, grants>>
  BY DEF Admit
<1> HIDE DEF q
<1>8. Taken(q) = Taken(o)
  BY <1>5, <1>6 DEF Taken, Gauged
<1> QED
  BY <1>7, <1>8, QuietGauges

LEMMA RefuseGauges ==
    ASSUME Typed, GaugeInv, NEW r \in Requests, Refuse(r)
    PROVE  GaugeInv'
<1> DEFINE p == Downgrade(req[r])
           q == [req[r] EXCEPT !.pool = p, !.visited = @ \cup {p}, !.n = 1]
<1>1. Release(r) /\ req[r].pc = "admit"
  BY DEF Refuse, Locking
<1>2. req[r] \in Request
  BY DEF Typed, Requested
<1>3. q.pc = "admit" /\ q.n = 1
  BY <1>1, <1>2 DEF Request
<1>4. req' = [req EXCEPT ![r] = q] \/ req' = [req EXCEPT ![r] = Ended]
  BY DEF Refuse
<1>5. Taken(q) = {}
  BY <1>3, NothingTaken
<1>6. Taken(Ended) = {}
  BY NothingTaken, Resting
<1> HIDE DEF q
<1> QED
  BY <1>1, <1>4, <1>5, <1>6, ReleaseGauges

LEMMA DeliverGauges ==
    ASSUME Typed, GaugeInv, NEW r \in Requests, Delivered(r)
    PROVE  GaugeInv'
<1>1. PICK n \in 1 .. MaxTokens : req' = [req EXCEPT ![r].pc = "accrue", ![r].n = 1, ![r].used = n]
  BY DEF Delivered
<1> DEFINE q == [req[r] EXCEPT !.pc = "accrue", !.n = 1, !.used = n]
<1>2. req' = [req EXCEPT ![r] = q] /\ UNCHANGED <<gauge, grants>> /\ req[r].pc = "served"
  BY <1>1 DEF Delivered
<1>3. req[r] \in Request
  BY DEF Typed, Requested
<1>4. q.pc = "accrue" /\ q.group = req[r].group
  BY <1>3 DEF Request
<1> HIDE DEF q
<1>5. Taken(q) = Taken(req[r])
  BY <1>2, <1>4 DEF Taken, Gauged
<1> QED
  BY <1>2, <1>5, QuietGauges

LEMMA FailGauges ==
    ASSUME Typed, GaugeInv, NEW r \in Requests, Failed(r)
    PROVE  GaugeInv'
<1> DEFINE q == [req[r] EXCEPT !.pc = "refund", !.n = 1]
<1>1. req' = [req EXCEPT ![r] = q] /\ Release(r)
  BY DEF Failed
<1>2. req[r] \in Request
  BY DEF Typed, Requested
<1>3. q.pc = "refund"
  BY <1>2 DEF Request
<1> HIDE DEF q
<1>4. Taken(q) = {}
  BY <1>3, NothingTaken
<1> QED
  BY <1>1, <1>4, ReleaseGauges

LEMMA StepGauges ==
    ASSUME Typed, GaugeInv, NEW r \in Requests, Step(r),
           req[r].pc \in {"accrue", "refund"},
           IF Last(r) /\ req[r].pc = "accrue" THEN Release(r) ELSE UNCHANGED <<gauge, grants>>
    PROVE  GaugeInv'
<1>1. Taken(Ended) = {}
  BY NothingTaken, Resting
<1>2. CASE Last(r) /\ req[r].pc = "accrue"
  BY <1>1, <1>2, ReleaseGauges DEF Step
<1>3. CASE Last(r) /\ req[r].pc = "refund"
  <2>1. Taken(req[r]) = {}
    BY <1>3, NothingTaken
  <2> QED
    BY <1>1, <1>3, <2>1, QuietGauges DEF Step
<1>4. CASE ~Last(r)
  <2> DEFINE q == [req[r] EXCEPT !.n = @ + 1]
  <2>1. req' = [req EXCEPT ![r] = q]
    BY <1>4 DEF Step
  <2>2. req[r] \in Request
    BY DEF Typed, Requested
  <2>3. q.pc = req[r].pc /\ q.group = req[r].group
    BY <2>2 DEF Request
  <2> HIDE DEF q
  <2>4. Taken(q) = Taken(req[r])
    BY <2>3 DEF Taken, Gauged
  <2> QED
    BY <1>4, <2>1, <2>4, QuietGauges
<1> QED
  BY <1>2, <1>3, <1>4

\* A request that is refused, or whose response had no tokens, ends.
LEMMA EndGauges ==
    ASSUME Typed, GaugeInv, NEW r \in Requests, Release(r), req' = [req EXCEPT ![r] = Ended]
    PROVE  GaugeInv'
<1>1. Taken(Ended) = {}
  BY NothingTaken, Resting
<1> QED
  BY <1>1, ReleaseGauges

LEMMA ServeGauges ==
    ASSUME Typed, GaugeInv, NEW r \in Requests, Serve(r)
    PROVE  GaugeInv'
<1>1. CASE Arrive(r)
  BY <1>1, ArriveGauges
<1>2. CASE TakeGauge(r)
  BY <1>2, TakeKeeps, GrantMoves DEF GaugeInv
<1>3. CASE GaugeFull(r)
  BY <1>3, EndGauges DEF GaugeFull
<1>4. CASE Lock(r)
  <2>1. UNCHANGED <<req, gauge, grants>>
    BY <1>4 DEF Lock
  <2> QED
    BY <2>1, StillCounting DEF GaugeInv, Granted, Taken, Gauged
<1>5. CASE Admit(r)
  BY <1>5, AdmitGauges
<1>6. CASE Refuse(r)
  BY <1>6, RefuseGauges
<1>7. CASE Delivered(r)
  BY <1>7, DeliverGauges
<1>8. CASE DeliveredFree(r)
  BY <1>8, EndGauges DEF DeliveredFree
<1>9. CASE Failed(r)
  BY <1>9, FailGauges
<1>10. CASE record_usage(r)
  BY <1>10, StepGauges DEF record_usage
<1>11. CASE refund_request(r)
  BY <1>11, StepGauges DEF refund_request
<1> QED
  BY <1>1, <1>2, <1>3, <1>4, <1>5, <1>6, <1>7, <1>8, <1>9, <1>10, <1>11 DEF Serve

LEMMA ServeTypes ==
    ASSUME Typed, NEW r \in Requests, Serve(r)
    PROVE  Typed'
<1>1. UNCHANGED rest /\ (~Lock(r) /\ ~Admit(r) /\ ~Refuse(r) => UNCHANGED guard)
  BY DEF Serve, Arrive, TakeGauge, GaugeFull, Lock, Admit, Refuse, Delivered, DeliveredFree,
         Failed, record_usage, refund_request
<1>2. Requested'
  <2>1. UNCHANGED clock
    BY <1>1 DEF rest
  <2>2. CASE Lock(r)
    BY <2>1, <2>2 DEF Lock, Typed, Requested
  <2>3. CASE record_usage(r)
    BY <2>1, <2>3, StepTypes DEF record_usage
  <2>4. CASE refund_request(r)
    BY <2>1, <2>4, StepTypes DEF refund_request
  <2>5. CASE GaugeFull(r)
    BY <2>1, <2>5, EndTypes DEF GaugeFull
  <2>6. CASE DeliveredFree(r)
    BY <2>1, <2>6, EndTypes DEF DeliveredFree
  <2> QED
    BY <2>2, <2>3, <2>4, <2>5, <2>6, ArriveTypes, TakeTypes, AdmitTypes, RefuseTypes,
       DeliverTypes, FailTypes DEF Serve
<1>3. guard' \in [Shards -> Requests \cup {Nobody}]
  <2>1. CASE Lock(r)
    <3>1. PICK s \in Shards : guard' = [guard EXCEPT ![s] = r]
      BY <2>1 DEF Lock
    <3> QED
      BY <3>1 DEF Typed
  <2>2. CASE Admit(r) \/ Refuse(r)
    <3>1. guard' = [s \in Shards |-> IF guard[s] = r THEN Nobody ELSE guard[s]]
      BY <2>2 DEF Admit, Refuse, Unlock
    <3> QED
      BY <3>1 DEF Typed
  <2> QED
    BY <1>1, <2>1, <2>2 DEF Typed
<1>4. /\ cells' \in [Ids -> Cell] /\ Celled'
      /\ charges' \in [Ids -> [0 .. MaxClock -> Nat]]
      /\ flight' \in [Ids -> SUBSET Requests]
  <2>1. CASE Admit(r)
    BY <2>1, AdmitLedger
  <2>2. CASE ~Admit(r)
    <3>1. UNCHANGED hist
      BY <2>2 DEF Serve, Arrive, TakeGauge, GaugeFull, Lock, Refuse, Delivered, DeliveredFree,
                  Failed, record_usage, refund_request
    <3>2. cells' \in [Ids -> Cell] /\ Celled'
      <4>1. CASE record_usage(r)
        BY <4>1, AccrueCells
      <4>2. CASE refund_request(r)
        BY <4>2, RefundCells
      <4>3. CASE Lock(r)
        <5>1. PICK D \in SUBSET Ids : cells' = [b \in Ids |-> IF b \in D THEN NoCell ELSE cells[b]]
          BY <4>3 DEF Lock, Sweepable
        <5> QED
          BY <5>1, DropTypes
      <4>4. CASE UNCHANGED cells
        BY <4>4 DEF Typed, Celled
      <4> QED
        BY <2>2, <4>1, <4>2, <4>3, <4>4
           DEF Serve, Arrive, TakeGauge, GaugeFull, Refuse, Delivered, DeliveredFree, Failed
    <3> QED
      BY <3>1, <3>2 DEF hist, Typed
  <2> QED
    BY <2>1, <2>2
<1> QED
  BY <1>1, <1>2, <1>3, <1>4 DEF Typed, rest

LEMMA TickTypes ==
    ASSUME Typed, Tick
    PROVE  Requested'
<1>1. clock' = clock + 1 /\ clock \in Nat /\ UNCHANGED req
  BY DEF Tick, Typed
<1>2. \A r \in Requests : req[r].pc = "admit" => req[r].at = clock
  BY DEF Tick
<1>3. ASSUME NEW r \in Requests PROVE Placed(req[r], clock + 1)
  <2>1. Placed(req[r], clock)
    BY DEF Typed, Requested
  <2>2. 1 .. clock \subseteq 1 .. (clock + 1)
    BY <1>1
  <2>3. req[r].pc = "admit" => clock + 1 <= req[r].at + 1
    BY <1>1, <1>2
  <2> QED
    BY <2>1, <2>2, <2>3 DEF Placed
<1> QED
  BY <1>1, <1>3 DEF Typed, Requested

\* What is left of Next: the operator's steps and time.
Elsewise ==
    \/ \E k \in Keys, g \in Groups \cup {NoGroup} : Rebind(k, g)
    \/ \E g \in Groups, enabled \in BOOLEAN : PutGroup(g, enabled)
    \/ \E g \in Groups : DeleteGroup(g)
    \/ reclaim_group_cells
    \/ Tick
    \/ UNCHANGED vars

LEMMA ElsewiseTypes ==
    ASSUME Typed, Elsewise
    PROVE  Typed'
<1>1. CASE \E k \in Keys, g \in Groups \cup {NoGroup} : Rebind(k, g)
  <2>1. PICK k \in Keys, g \in Groups \cup {NoGroup} : Rebind(k, g)
    BY <1>1
  <2>2. bound' \in [Keys -> Groups \cup {NoGroup}] /\ edits' \in 0 .. MaxEdits
    BY <2>1, LimitsAssumption DEF Rebind, Edit, Typed
  <2>3. UNCHANGED <<clock, config, req, guard, cells, reclaim, charges, flight>>
    BY <2>1 DEF Rebind, hist
  <2> QED
    BY <2>2, <2>3 DEF Typed, Requested, Celled
<1>2. CASE \E g \in Groups, enabled \in BOOLEAN : PutGroup(g, enabled)
  <2>1. PICK g \in Groups, enabled \in BOOLEAN : PutGroup(g, enabled)
    BY <1>2
  <2>2. config' \in [on : SUBSET Groups, frozen : SUBSET Groups] /\ edits' \in 0 .. MaxEdits
    BY <2>1, LimitsAssumption DEF PutGroup, Edit, Typed
  <2>3. UNCHANGED <<clock, bound, req, guard, cells, reclaim, charges, flight>>
    BY <2>1 DEF PutGroup, hist
  <2> QED
    BY <2>2, <2>3 DEF Typed, Requested, Celled
<1>3. CASE \E g \in Groups : DeleteGroup(g)
  <2>1. PICK g \in Groups : DeleteGroup(g)
    BY <1>3
  <2>2. /\ config' \in [on : SUBSET Groups, frozen : SUBSET Groups] /\ edits' \in 0 .. MaxEdits
        /\ reclaim' \in [group : Groups \cup {NoGroup}, left : SUBSET Shards]
    BY <2>1, LimitsAssumption DEF DeleteGroup, Edit, Typed
  <2>3. UNCHANGED <<clock, bound, req, guard, cells, charges, flight>>
    BY <2>1 DEF DeleteGroup, hist
  <2> QED
    BY <2>2, <2>3 DEF Typed, Requested, Celled
<1>4. CASE reclaim_group_cells
  <2>1. PICK s \in reclaim.left :
          LET gone == {b \in Elements(GroupBuckets[reclaim.group]) : ShardOf[b] = s}
          IN  /\ cells' = [b \in Ids |-> IF b \in gone THEN NoCell ELSE cells[b]]
              /\ charges' = [b \in Ids |-> IF b \in gone THEN [w \in 0 .. MaxClock |-> 0]
                                                         ELSE charges[b]]
              /\ reclaim' = [reclaim EXCEPT !.left = @ \ {s}]
    BY <1>4 DEF reclaim_group_cells
  <2>2. UNCHANGED <<clock, config, bound, req, guard, edits, flight>>
    BY <1>4 DEF reclaim_group_cells
  <2>3. cells' \in [Ids -> Cell] /\ Celled'
    BY <2>1, DropTypes
  <2>4. charges' \in [Ids -> [0 .. MaxClock -> Nat]]
    BY <2>1 DEF Typed
  <2>5. reclaim' \in [group : Groups \cup {NoGroup}, left : SUBSET Shards]
    BY <2>1 DEF Typed
  <2> QED
    BY <2>2, <2>3, <2>4, <2>5 DEF Typed, Requested
<1>5. CASE Tick
  <2>1. clock' \in 1 .. MaxClock
    BY <1>5, LimitsAssumption DEF Tick, Typed
  <2>2. UNCHANGED <<config, bound, req, guard, cells, reclaim, edits, charges, flight>>
    BY <1>5 DEF Tick, hist
  <2> QED
    BY <1>5, <2>1, <2>2, TickTypes DEF Typed, Celled
<1>6. CASE UNCHANGED vars
  BY <1>6 DEF vars, Typed, Requested, Celled
<1> QED
  BY <1>1, <1>2, <1>3, <1>4, <1>5, <1>6 DEF Elsewise

LEMMA ElsewiseGauges ==
    ASSUME GaugeInv, Elsewise
    PROVE  GaugeInv'
<1>1. UNCHANGED <<req, gauge, grants>>
  BY DEF Elsewise, Rebind, PutGroup, DeleteGroup, reclaim_group_cells, Tick, vars
<1> QED
  BY <1>1, StillCounting DEF GaugeInv, Granted

CoreInv == Typed /\ GaugeInv

LEMMA InitCore == Init => CoreInv
<1> SUFFICES ASSUME Init PROVE CoreInv
  OBVIOUS
<1>1. Requested
  <2>1. clock \in Nat /\ req = [r \in Requests |-> Idle]
    BY DEF Init
  <2> QED
    BY <2>1, Resting DEF Requested
<1>2. cells \in [Ids -> Cell] /\ Celled
  BY NoCellTypes DEF Init, Celled
<1>3. clock \in 1 .. MaxClock /\ edits \in 0 .. MaxEdits
  BY LimitsAssumption DEF Init
<1>4. /\ config \in [on : SUBSET Groups, frozen : SUBSET Groups]
      /\ bound \in [Keys -> Groups \cup {NoGroup}]
      /\ reclaim \in [group : Groups \cup {NoGroup}, left : SUBSET Shards]
  BY DEF Init
<1>5. /\ guard \in [Shards -> Requests \cup {Nobody}]
      /\ charges \in [Ids -> [0 .. MaxClock -> Nat]]
      /\ flight \in [Ids -> SUBSET Requests]
  BY DEF Init
<1>6. Counting
  <2>1. \A g \in Groups : Takers(g) = {} /\ gauge[g] = 0
    BY DEF Init, Takers
  <2>2. \A g \in Groups : gauge[g] = Cardinality(Takers(g))
    BY <2>1, FS_EmptySet
  <2>3. \A g \in Groups : ConcurrentCap[g] # NoCap => 0 <= ConcurrentCap[g]
    BY ConfigAssumption DEF Capacity
  <2> QED
    BY <2>1, <2>2, <2>3 DEF Counting, Init
<1>7. Granted
  <2>1. \A r \in Requests : req[r].pc = "new" /\ grants[r] = {}
    BY Resting DEF Init
  <2> QED
    BY <2>1, NothingTaken DEF Granted
<1> QED
  BY <1>1, <1>2, <1>3, <1>4, <1>5, <1>6, <1>7 DEF CoreInv, Typed, GaugeInv

LEMMA NextCore == CoreInv /\ [Next]_vars => CoreInv'
<1> SUFFICES ASSUME CoreInv, [Next]_vars PROVE CoreInv'
  OBVIOUS
<1>1. CASE \E r \in Requests : Serve(r)
  BY <1>1, ServeTypes, ServeGauges DEF CoreInv
<1>2. CASE Elsewise
  BY <1>2, ElsewiseTypes, ElsewiseGauges DEF CoreInv
<1> QED
  BY <1>1, <1>2 DEF Next, Elsewise

\* Every variable keeps its type, for any group tree and limits that the
\* configuration's checks accept: no gauge goes below zero, and no cell is of a
\* window its bucket does not have.
THEOREM TypeCorrect == Spec => []TypeOK
<1>1. CoreInv => TypeOK
  BY DEF CoreInv, Typed, GaugeInv, Counting, Requested, TypeOK
<1> QED
  BY <1>1, InitCore, NextCore, PTL DEF Spec

LEMMA GaugesAgree == CoreInv => ConcurrentCaps
<1> SUFFICES ASSUME CoreInv, NEW g \in Groups, ConcurrentCap[g] # NoCap
             PROVE  /\ Cardinality(InService(g)) <= ConcurrentCap[g]
                    /\ gauge[g] = Cardinality(Holding(g))
  BY DEF ConcurrentCaps
<1>1. Holding(g) = Takers(g)
  <2>1. \A r \in Requests : g \in grants[r] => req[r].pc \in {"admit", "served", "accrue"}
    BY DEF CoreInv, GaugeInv, Granted, Taken
  <2> QED
    BY <2>1 DEF Holding, Takers
<1>2. InService(g) \in SUBSET Takers(g)
  BY DEF CoreInv, GaugeInv, Granted, Taken, InService, Takers
<1>3. Cardinality(InService(g)) <= Cardinality(Takers(g))
  BY <1>2, TakersFinite, FS_Subset
<1>4. IsFiniteSet(InService(g))
  BY <1>2, TakersFinite, FS_Subset
<1>5. Cardinality(InService(g)) \in Nat
  BY <1>4, FS_CardinalityType
<1>6. ConcurrentCap[g] \in Nat
  BY ConfigAssumption DEF Capacity
<1>7. gauge[g] = Cardinality(Takers(g)) /\ gauge[g] <= ConcurrentCap[g] /\ gauge[g] \in Nat
  BY DEF CoreInv, GaugeInv, Counting
<1> QED
  BY <1>1, <1>3, <1>5, <1>6, <1>7

\* The concurrent half of CapsHold, whatever the operator edits meanwhile: the
\* responses under way for a group stay within its cap, and its gauge counts the
\* requests that hold it.
THEOREM ConcurrentCapsHold == Spec => []ConcurrentCaps
BY InitCore, NextCore, GaugesAgree, PTL DEF Spec

-----------------------------------------------------------------------------
(* The requests caps.                                                      *)

\* A month's bucket could be swept while a request stamped in the old month is
\* still being admitted; every shorter window is well over by then.
Patient == SweepAge \in Nat \ {0, 1}

\* What a cell counts is what was charged to its window, unless that window is
\* so long over that the sweep may have dropped it; then no request being
\* admitted is of that window.
Stale(b, w, t) == Rolling(b) /\ w + SweepAge <= t

CountedBy(b, c, f, t) ==
    /\ \A w \in 0 .. MaxClock : f[w] <= Limit[b].requests
    /\ \A w \in 0 .. MaxClock : w > c.window /\ f[w] # 0 => Stale(b, w, t)
    /\ c.window >= 0 => f[c.window] <= c.requests \/ Stale(b, c.window, t)

Counted(b) == CountedBy(b, cells[b], charges[b], clock)

\* The groups G are never deleted, and any request being admitted has them in
\* its cost model.
Kept(G) ==
    \A g \in G : /\ g \in config.on
                 /\ \A r \in Requests : req[r].pc = "admit" => g \in req[r].cfg.on

\* The buckets of windows that end, and the all-time ones of G.
Lasting(G) == {b \in Buckets : Rolling(b) \/ \E g \in G : b \in Elements(GroupBuckets[g])}
CapInv(G)  == Kept(G) /\ \A b \in Lasting(G) : Limit[b].requests # NoCap => Counted(b)

LEMMA ChargeCounted ==
    ASSUME Patient, NEW b \in Buckets, Limit[b].requests # NoCap,
           NEW c \in Cell, Windowed(b, c), NEW f \in [0 .. MaxClock -> Nat],
           NEW t \in 1 .. MaxClock, NEW at \in 1 .. t, t <= at + 1,
           CountedBy(b, c, f, t),
           NEW w \in 0 .. MaxClock, w = IF Rolling(b) THEN at ELSE 0,
           c.window >= w => c.requests + 1 <= Limit[b].requests
    PROVE  LET d == Charge(c, w, at)
           IN  CountedBy(b, d, [f EXCEPT ![d.window] = @ + 1], t)
<1> DEFINE d == Charge(c, w, at)
           h == [f EXCEPT ![d.window] = @ + 1]
<1>1. Limit[b].requests \in Nat \ {0} /\ SweepAge \in Nat /\ SweepAge >= 2
  BY ConfigAssumption DEF Capacity, Patient
<1>2. c.window \in -1 .. MaxClock /\ c.requests \in Nat
  BY DEF Cell
<1>3. t \in Nat /\ at \in Nat /\ at \in 0 .. MaxClock /\ MaxClock \in Nat
  BY LimitsAssumption
<1>4. ~Stale(b, w, t)
  BY <1>1, <1>3 DEF Stale
<1>5. /\ d \in Cell /\ d.window = Live(c, w).window
      /\ d.requests = Live(c, w).requests + 1
  BY <1>3, ChargeCell
<1>6. CASE w > c.window
  <2>1. d.window = w /\ d.requests = 1
    BY <1>5, <1>6, LiveCell
  <2>2. f[w] = 0
    BY <1>4, <1>6 DEF CountedBy
  <2>3. h[w] = 1 /\ \A v \in 0 .. MaxClock : v # w => h[v] = f[v]
    BY <2>1, <2>2
  <2> HIDE DEF d, h
  <2>4. \A v \in 0 .. MaxClock : h[v] <= Limit[b].requests
    BY <1>1, <2>3 DEF CountedBy
  <2>5. ASSUME NEW v \in 0 .. MaxClock, v > d.window, h[v] # 0 PROVE Stale(b, v, t)
    <3>1. v > c.window /\ v # w
      BY <1>2, <1>6, <2>1, <2>5
    <3> QED
      BY <2>3, <2>5, <3>1 DEF CountedBy
  <2>6. h[d.window] <= d.requests
    BY <2>1, <2>3
  <2> QED
    BY <2>4, <2>5, <2>6 DEF CountedBy, d, h
<1>7. CASE w <= c.window
  <2>1. d.window = c.window /\ d.requests = c.requests + 1 /\ c.window \in 0 .. MaxClock
    BY <1>2, <1>5, <1>7, LiveCell
  <2>2. ~Stale(b, c.window, t)
    BY <1>1, <1>2, <1>3, <1>7 DEF Stale
  <2>3. f[c.window] <= c.requests /\ f[c.window] \in Nat
    BY <2>1, <2>2 DEF CountedBy
  <2>4. /\ h[c.window] = f[c.window] + 1
        /\ \A v \in 0 .. MaxClock : v # c.window => h[v] = f[v]
    BY <2>1
  <2>7. c.requests + 1 <= Limit[b].requests
    BY <1>2, <1>7
  <2> HIDE DEF d, h
  <2>9. h[c.window] <= Limit[b].requests
    BY <1>1, <1>2, <2>3, <2>4, <2>7
  <2>5. \A v \in 0 .. MaxClock : h[v] <= Limit[b].requests
    BY <2>4, <2>9 DEF CountedBy
  <2>6. ASSUME NEW v \in 0 .. MaxClock, v > d.window, h[v] # 0 PROVE Stale(b, v, t)
    <3>1. v > c.window /\ v # c.window
      BY <1>2, <2>1, <2>6
    <3> QED
      BY <2>4, <2>6, <3>1 DEF CountedBy
  <2>8. h[d.window] <= d.requests
    BY <1>2, <2>1, <2>3, <2>4
  <2> QED
    BY <2>5, <2>6, <2>8 DEF CountedBy, d, h
<1> QED
  BY <1>2, <1>3, <1>6, <1>7

\* An accrual or a refund leaves the counts alone, or starts a cell again whose
\* window nobody is charged to any more.
LEMMA AccrueCounted ==
    ASSUME NEW b, NEW c \in Cell, NEW f \in [0 .. MaxClock -> Nat], NEW t,
           CountedBy(b, c, f, t), NEW w \in 0 .. MaxClock, NEW d,
           d.window = Live(c, w).window, d.requests = Live(c, w).requests
    PROVE  CountedBy(b, d, f, t)
<1>1. c.window \in -1 .. MaxClock /\ c.window \in Int /\ w \in Nat
  BY LimitsAssumption DEF Cell
<1>2. CASE w > c.window
  <2>1. d.window = w /\ d.requests = 0
    BY <1>2, LiveCell
  <2>2. f[w] = 0 \/ Stale(b, w, t)
    BY <1>2 DEF CountedBy
  <2>3. ASSUME NEW v \in 0 .. MaxClock, v > w PROVE v > c.window
    BY <1>1, <1>2, <2>3
  <2> QED
    BY <2>1, <2>2, <2>3 DEF CountedBy
<1>3. CASE w <= c.window
  <2>1. d.window = c.window /\ d.requests = c.requests
    BY <1>3, LiveCell
  <2> QED
    BY <2>1 DEF CountedBy
<1> QED
  BY <1>1, <1>2, <1>3

\* The sweep drops a cell of a window that is long over.
LEMMA SweptCounted ==
    ASSUME NEW b, Rolling(b), NEW c \in Cell, NEW f \in [0 .. MaxClock -> Nat],
           NEW t \in Nat, CountedBy(b, c, f, t), NEW at \in Int, at <= t,
           c.window + SweepAge <= at
    PROVE  CountedBy(b, NoCell, f, t)
<1>1. NoCell.window = -1
  BY DEF NoCell
<1>2. c.window \in Int /\ SweepAge \in Nat
  BY LimitsAssumption DEF Cell
<1>3. ASSUME NEW w \in 0 .. MaxClock, f[w] # 0 PROVE Stale(b, w, t)
  <2>1. CASE w > c.window
    BY <1>3, <2>1 DEF CountedBy
  <2>2. CASE w <= c.window
    BY <1>2, <2>2 DEF Stale
  <2> QED
    BY <1>2, <2>1, <2>2
<1> QED
  BY <1>1, <1>3 DEF CountedBy

LEMMA LaterCounted ==
    ASSUME NEW b, NEW c, NEW f, NEW t \in Nat, CountedBy(b, c, f, t), c.window \in Int
    PROVE  CountedBy(b, c, f, t + 1)
<1>1. \A w \in Int : Stale(b, w, t) => Stale(b, w, t + 1)
  BY LimitsAssumption DEF Stale
<1> QED
  BY <1>1 DEF CountedBy

LEMMA EmptyCounted ==
    ASSUME NEW b \in Buckets, NEW t, Limit[b].requests # NoCap
    PROVE  CountedBy(b, NoCell, [w \in 0 .. MaxClock |-> 0], t)
<1>1. NoCell.window = -1 /\ Limit[b].requests \in Nat
  BY ConfigAssumption DEF NoCell, Capacity
<1> QED
  BY <1>1 DEF CountedBy

LEMMA AdmitCounted ==
    ASSUME Patient, Typed, NEW r \in Requests, Admit(r),
           NEW b \in Buckets, Limit[b].requests # NoCap, Counted(b)
    PROVE  Counted(b)'
<1> DEFINE c  == cells[b]
           f  == charges[b]
           at == req[r].at
           w  == Window(b, at)
           d  == Charge(c, w, at)
<1>1. b \in Ids /\ UNCHANGED clock
  BY DEF Ids, Admit, rest
<1>2. /\ at \in 1 .. clock /\ w \in 0 .. MaxClock /\ w = IF Rolling(b) THEN at ELSE 0
      /\ b \in Elements(Charged(req[r])) => cells'[b] = d
      /\ b \notin Elements(Charged(req[r])) => cells'[b] = c
  BY <1>1, AdmitCells
<1>3. c \in Cell /\ Windowed(b, c) /\ f \in [0 .. MaxClock -> Nat] /\ clock \in 1 .. MaxClock
  BY <1>1 DEF Typed, Celled
<1>4. charges'[b] = IF b \in Elements(Charged(req[r]))
                    THEN [f EXCEPT ![cells'[b].window] = @ + 1] ELSE f
  BY <1>1 DEF Admit
<1>5. CASE b \in Elements(Charged(req[r]))
  <2>1. ~CallsBlock(b, at)
    BY <1>5 DEF Admit, Blocks
  <2>2. c.window >= w => ~(c.requests + 1 > Limit[b].requests)
    BY <2>1 DEF CallsBlock, Over, Seen
  <2>3. c.requests \in Nat /\ Limit[b].requests \in Nat
    BY <1>3, ConfigAssumption DEF Cell, Capacity
  <2>4. clock <= at + 1
    BY DEF Typed, Requested, Placed, Admit, Locking
  <2>5. CountedBy(b, c, f, clock)
    BY DEF Counted
  <2>6. c.window >= w => c.requests + 1 <= Limit[b].requests
    BY <2>2, <2>3
  <2>7. cells'[b] = d /\ charges'[b] = [f EXCEPT ![cells'[b].window] = @ + 1]
    BY <1>2, <1>4, <1>5
  <2> HIDE DEF c, f, w, at
  <2>8. CountedBy(b, d, [f EXCEPT ![d.window] = @ + 1], clock)
    BY <1>2, <1>3, <2>4, <2>5, <2>6, ChargeCounted
  <2> QED
    BY <1>1, <2>7, <2>8 DEF Counted
<1>6. CASE b \notin Elements(Charged(req[r]))
  BY <1>1, <1>2, <1>4, <1>6 DEF Counted
<1> QED
  BY <1>5, <1>6

LEMMA UsageCounted ==
    ASSUME Typed, NEW r \in Requests, record_usage(r),
           NEW b \in Buckets, Counted(b)
    PROVE  Counted(b)'
<1>1. b \in Ids /\ UNCHANGED <<clock, charges>>
  BY DEF Ids, record_usage, rest, hist
<1>2. req[r].used \in 0 .. MaxTokens
  BY AccrueCells
<1>3. PICK a \in Ids :
        LET w == Window(a, req[r].at)
        IN  /\ w \in 0 .. MaxClock /\ req[r].at \in 0 .. MaxClock
            /\ cells' = [cells EXCEPT ![a] = Accrued(cells[a], w, req[r].used, req[r].at)]
  BY AccrueCells
<1>4. cells[b] \in Cell /\ charges[b] \in [0 .. MaxClock -> Nat]
  BY <1>1 DEF Typed
<1>5. CASE a = b
  <2> DEFINE w == Window(b, req[r].at)
             d == Accrued(cells[b], w, req[r].used, req[r].at)
  <2>1. w \in 0 .. MaxClock /\ cells'[b] = d /\ req[r].at \in 0 .. MaxClock
    BY <1>1, <1>3, <1>5 DEF Typed
  <2>2. d.window = Live(cells[b], w).window /\ d.requests = Live(cells[b], w).requests
    BY <1>2, <1>4, <2>1, AccruedCell
  <2> HIDE DEF d, w
  <2>3. CountedBy(b, d, charges[b], clock)
    BY <1>4, <2>1, <2>2, AccrueCounted DEF Counted
  <2> QED
    BY <1>1, <2>1, <2>3 DEF Counted
<1>6. CASE a # b
  <2>1. cells'[b] = cells[b]
    BY <1>3, <1>6
  <2> QED
    BY <1>1, <2>1 DEF Counted
<1> QED
  BY <1>5, <1>6

LEMMA RefundCounted ==
    ASSUME Typed, NEW r \in Requests, refund_request(r),
           NEW b \in Buckets, Counted(b)
    PROVE  Counted(b)'
<1>1. b \in Ids /\ UNCHANGED <<clock, charges>>
  BY DEF Ids, refund_request, rest, hist
<1>2. PICK a \in Ids, w \in Int : cells' = [cells EXCEPT ![a] = Refunded(cells[a], w)]
  BY RefundCells
<1>3. cells[b] \in Cell
  BY <1>1 DEF Typed
<1>4. cells'[b].window = cells[b].window /\ cells'[b].requests = cells[b].requests
  <2>1. cells'[b] = IF a = b THEN Refunded(cells[b], w) ELSE cells[b]
    BY <1>1, <1>2 DEF Typed
  <2> QED
    BY <1>3, <2>1, RefundedCell
<1> QED
  BY <1>1, <1>4 DEF Counted, CountedBy

\* The sweep may not drop what backs a cap of the request that sweeps.
LEMMA LockCounted ==
    ASSUME Typed, NEW r \in Requests, Lock(r), NEW G \in SUBSET Groups, Kept(G),
           NEW b \in Lasting(G), Limit[b].requests # NoCap, Counted(b)
    PROVE  Counted(b)'
<1>1. b \in Ids /\ b \in Buckets /\ UNCHANGED <<clock, charges>> /\ req[r].pc = "admit"
  BY DEF Ids, Lock, Locking, rest, hist, Lasting
<1>7. PICK s \in Shards : \E D \in SUBSET Sweepable(req[r], s) :
        cells' = [a \in Ids |-> IF a \in D THEN NoCell ELSE cells[a]]
  BY DEF Lock
<1>2. PICK drop \in SUBSET Sweepable(req[r], s) :
        cells' = [a \in Ids |-> IF a \in drop THEN NoCell ELSE cells[a]]
  BY <1>7
<1>3. cells[b] \in Cell /\ charges[b] \in [0 .. MaxClock -> Nat] /\ clock \in Nat
      /\ Windowed(b, cells[b])
  BY <1>1 DEF Typed, Celled
<1>4. req[r].at \in 1 .. clock /\ req[r].at \in Int /\ req[r].at <= clock
  BY <1>1, <1>3, UnderWay DEF Typed
<1>5. CASE b \in drop
  <2>1. IF cells[b].window # 0 THEN cells[b].window + SweepAge <= req[r].at
                               ELSE ~Caps(req[r], b)
    BY <1>2, <1>5 DEF Sweepable
  <2>2. CASE cells[b].window # 0 /\ Rolling(b)
    <3>1. CountedBy(b, NoCell, charges[b], clock)
      BY <1>3, <1>4, <2>1, <2>2, SweptCounted DEF Counted
    <3> QED
      BY <1>1, <1>2, <1>5, <3>1 DEF Counted
  <2>3. CASE cells[b].window = -1
    <3>1. CountedBy(b, NoCell, charges[b], clock)
      BY <2>3 DEF Counted, CountedBy, NoCell
    <3> QED
      BY <1>1, <1>2, <1>5, <3>1 DEF Counted
  <2>4. CASE cells[b].window = 0
    <3>1. PICK g \in G : b \in Elements(GroupBuckets[g])
      BY <1>3, <2>4 DEF Lasting, Windowed
    <3>2. g \in req[r].cfg.on
      BY <1>1 DEF Kept
    <3>3. Caps(req[r], b)
      <4>1. {Limit[b].requests, Limit[b].tokens, Limit[b].budget} # {NoCap}
        OBVIOUS
      <4> QED
        BY <1>1, <3>1, <3>2, <4>1 DEF Caps
    <3> QED
      BY <2>1, <2>4, <3>3
  <2> QED
    BY <1>3, <2>2, <2>3, <2>4 DEF Windowed
<1>6. CASE b \notin drop
  BY <1>1, <1>2, <1>6 DEF Counted
<1> QED
  BY <1>5, <1>6

LEMMA ServeCounted ==
    ASSUME Patient, Typed, NEW r \in Requests, Serve(r), NEW G \in SUBSET Groups, Kept(G),
           NEW b \in Lasting(G), Limit[b].requests # NoCap, Counted(b)
    PROVE  Counted(b)'
<1>1. b \in Buckets
  BY DEF Lasting
<1>2. CASE Admit(r)
  BY <1>1, <1>2, AdmitCounted
<1>3. CASE record_usage(r)
  BY <1>1, <1>3, UsageCounted
<1>4. CASE refund_request(r)
  BY <1>1, <1>4, RefundCounted
<1>5. CASE Lock(r)
  BY <1>5, LockCounted
<1>6. CASE UNCHANGED <<cells, charges, clock>>
  BY <1>6 DEF Counted
<1>7. Admit(r) \/ record_usage(r) \/ refund_request(r) \/ Lock(r)
      \/ UNCHANGED <<cells, charges, clock>>
  BY DEF Serve, Arrive, TakeGauge, GaugeFull, Refuse, Delivered, DeliveredFree, Failed, hist, rest
<1> QED
  BY <1>2, <1>3, <1>4, <1>5, <1>6, <1>7

\* A request being admitted has the cost model it came in with, the one installed
\* then.
LEMMA ServeModel ==
    ASSUME Typed, NEW r \in Requests, Serve(r), NEW o \in Requests, req'[o].pc = "admit"
    PROVE  req'[o].cfg = config \/ (req[o].pc = "admit" /\ req'[o].cfg = req[o].cfg)
<1>0. req \in [Requests -> Request] /\ req[r] \in Request /\ Ended.pc = "end"
  BY Resting DEF Typed, Requested
<1>1. CASE Arrive(r)
  <2>1. PICK k \in Keys : \E p \in MayUse[k] :
          LET q == [Idle EXCEPT !.pc = "admit", !.key = k, !.group = bound[k],
                                !.cfg = config, !.pool = p, !.at = clock]
          IN  req' = [req EXCEPT ![r] = IF Missing(q) \/ Frozen(q) THEN Ended ELSE q]
    BY <1>1 DEF Arrive
  <2>2. PICK p \in MayUse[k] :
          LET q == [Idle EXCEPT !.pc = "admit", !.key = k, !.group = bound[k],
                                !.cfg = config, !.pool = p, !.at = clock]
          IN  req' = [req EXCEPT ![r] = IF Missing(q) \/ Frozen(q) THEN Ended ELSE q]
    BY <2>1
  <2> DEFINE q == [Idle EXCEPT !.pc = "admit", !.key = k, !.group = bound[k],
                               !.cfg = config, !.pool = p, !.at = clock]
  <2>3. q.cfg = config
    BY DEF Idle
  <2>4. req' = [req EXCEPT ![r] = q] \/ req' = [req EXCEPT ![r] = Ended]
    BY <2>2
  <2> HIDE DEF q
  <2> QED
    BY <1>0, <2>3, <2>4
<1>2. CASE TakeGauge(r)
  <2>1. req' = [req EXCEPT ![r].n = @ + 1]
    BY <1>2 DEF TakeGauge
  <2> QED
    BY <1>0, <2>1 DEF Request
<1>3. CASE Refuse(r)
  <2> DEFINE p == Downgrade(req[r])
             q == [req[r] EXCEPT !.pool = p, !.visited = @ \cup {p}, !.n = 1]
  <2>1. req' = [req EXCEPT ![r] = q] \/ req' = [req EXCEPT ![r] = Ended]
    BY <1>3 DEF Refuse
  <2>2. q.cfg = req[r].cfg /\ req[r].pc = "admit"
    BY <1>0, <1>3 DEF Request, Refuse, Locking
  <2> HIDE DEF q
  <2> QED
    BY <1>0, <2>1, <2>2
<1>4. CASE GaugeFull(r) \/ DeliveredFree(r)
  BY <1>0, <1>4 DEF GaugeFull, DeliveredFree
<1>5. CASE Lock(r)
  BY <1>5 DEF Lock
<1>6. CASE Admit(r)
  <2>1. req' = [req EXCEPT ![r].pc = "served"]
    BY <1>6 DEF Admit
  <2> QED
    BY <1>0, <2>1 DEF Request
<1>7. CASE Delivered(r)
  <2>1. PICK n \in 1 .. MaxTokens :
          req' = [req EXCEPT ![r].pc = "accrue", ![r].n = 1, ![r].used = n]
    BY <1>7 DEF Delivered
  <2> QED
    BY <1>0, <2>1 DEF Request
<1>8. CASE Failed(r)
  <2>1. req' = [req EXCEPT ![r].pc = "refund", ![r].n = 1]
    BY <1>8 DEF Failed
  <2> QED
    BY <1>0, <2>1 DEF Request
<1>9. CASE record_usage(r) \/ refund_request(r)
  <2> DEFINE q == [req[r] EXCEPT !.n = @ + 1]
  <2>1. req' = [req EXCEPT ![r] = q] \/ req' = [req EXCEPT ![r] = Ended]
    BY <1>9 DEF record_usage, refund_request, Step
  <2>2. q.pc = req[r].pc /\ req[r].pc # "admit"
    BY <1>0, <1>9 DEF Request, record_usage, refund_request
  <2> HIDE DEF q
  <2> QED
    BY <1>0, <2>1, <2>2
<1> QED
  BY <1>1, <1>2, <1>3, <1>4, <1>5, <1>6, <1>7, <1>8, <1>9 DEF Serve

LEMMA ServeCaps ==
    ASSUME Patient, Typed, NEW r \in Requests, Serve(r), NEW G \in SUBSET Groups, CapInv(G)
    PROVE  CapInv(G)'
<1>1. UNCHANGED config
  BY DEF Serve, Arrive, TakeGauge, GaugeFull, Lock, Admit, Refuse, Delivered, DeliveredFree,
         Failed, record_usage, refund_request, rest
<1>2. Kept(G) /\ Kept(G)'
  BY <1>1, ServeModel DEF CapInv, Kept
<1>3. ASSUME NEW b \in Lasting(G), Limit[b].requests # NoCap PROVE Counted(b)'
  BY <1>2, <1>3, ServeCounted DEF CapInv
<1> QED
  BY <1>2, <1>3 DEF CapInv, Lasting, Rolling

\* What the operator edits leaves the counts alone, but for a group that is
\* reclaimed, whose charges are forgotten with its cells.
LEMMA ElsewiseCaps ==
    ASSUME Typed, Elsewise, NEW G \in SUBSET Groups, CapInv(G),
           \A g \in G : ~DeleteGroup(g)
    PROVE  CapInv(G)'
<1>1. Kept(G)'
  <2>1. UNCHANGED req
    BY DEF Elsewise, Rebind, PutGroup, DeleteGroup, reclaim_group_cells, Tick, vars
  <2>2. \A g \in G : g \in config'.on
    <3> SUFFICES ASSUME NEW g \in G PROVE g \in config'.on
      OBVIOUS
    <3>1. g \in config.on
      BY DEF CapInv, Kept
    <3>2. CASE \E h \in Groups, enabled \in BOOLEAN : PutGroup(h, enabled)
      BY <3>1, <3>2 DEF PutGroup
    <3>3. CASE \E h \in Groups : DeleteGroup(h)
      BY <3>1, <3>3 DEF DeleteGroup
    <3>4. CASE UNCHANGED config
      BY <3>1, <3>4
    <3> QED
      BY <3>2, <3>3, <3>4 DEF Elsewise, Rebind, reclaim_group_cells, Tick, vars
  <2> QED
    BY <2>1, <2>2 DEF CapInv, Kept
<1>2. ASSUME NEW b \in Lasting(G), Limit[b].requests # NoCap PROVE Counted(b)'
  <2>1. b \in Ids /\ b \in Buckets /\ Counted(b)
    BY <1>2 DEF CapInv, Lasting, Ids
  <2>2. CASE UNCHANGED <<cells, charges, clock>>
    BY <2>1, <2>2 DEF Counted
  <2>3. CASE Tick
    <3>1. clock' = clock + 1 /\ UNCHANGED <<cells, charges>>
      BY <2>3 DEF Tick, hist
    <3>2. clock \in Nat /\ cells[b].window \in Int
      BY <2>1, LimitsAssumption DEF Typed, Cell
    <3>3. CountedBy(b, cells[b], charges[b], clock + 1)
      BY <2>1, <3>2, LaterCounted DEF Counted
    <3> QED
      BY <3>1, <3>3 DEF Counted
  <2>4. CASE reclaim_group_cells
    <3>1. PICK s \in reclaim.left :
            LET gone == {a \in Elements(GroupBuckets[reclaim.group]) : ShardOf[a] = s}
            IN  /\ cells' = [a \in Ids |-> IF a \in gone THEN NoCell ELSE cells[a]]
                /\ charges' = [a \in Ids |-> IF a \in gone THEN [w \in 0 .. MaxClock |-> 0]
                                                           ELSE charges[a]]
      BY <2>4 DEF reclaim_group_cells
    <3>2. UNCHANGED clock
      BY <2>4 DEF reclaim_group_cells
    <3>3. \/ cells'[b] = cells[b] /\ charges'[b] = charges[b]
          \/ cells'[b] = NoCell /\ charges'[b] = [w \in 0 .. MaxClock |-> 0]
      BY <2>1, <3>1
    <3> QED
      BY <1>2, <2>1, <3>2, <3>3, EmptyCounted DEF Counted
  <2> QED
    BY <2>2, <2>3, <2>4 DEF Elsewise, Rebind, PutGroup, DeleteGroup, vars, hist
<1> QED
  BY <1>1, <1>2 DEF CapInv, Lasting, Rolling

LEMMA InitCaps ==
    ASSUME Init, NEW G \in SUBSET Groups
    PROVE  CapInv(G)
<1>1. Kept(G)
  <2>1. \A r \in Requests : req[r].pc = "new"
    BY Resting DEF Init
  <2> QED
    BY <2>1 DEF Init, Kept
<1>2. ASSUME NEW b \in Lasting(G), Limit[b].requests # NoCap PROVE Counted(b)
  <2>1. b \in Ids /\ b \in Buckets
    BY DEF Lasting, Ids
  <2>2. cells[b] = NoCell /\ charges[b] = [w \in 0 .. MaxClock |-> 0]
    BY <2>1 DEF Init
  <2> QED
    BY <1>2, <2>1, <2>2, EmptyCounted DEF Counted
<1> QED
  BY <1>1, <1>2 DEF CapInv

\* Nobody deletes a group of G.
Spares(G) == \A g \in G : ~DeleteGroup(g)

LEMMA NextCaps ==
    ASSUME Patient, NEW G \in SUBSET Groups
    PROVE  CoreInv /\ CapInv(G) /\ [Next]_vars /\ [Spares(G)]_vars => CapInv(G)'
<1> SUFFICES ASSUME CoreInv, CapInv(G), [Next]_vars, [Spares(G)]_vars PROVE CapInv(G)'
  OBVIOUS
<1>1. CASE \E r \in Requests : Serve(r)
  BY <1>1, ServeCaps DEF CoreInv
<1>2. CASE UNCHANGED vars
  BY <1>2 DEF vars, CapInv, Kept, Counted, Lasting, Rolling
<1>3. CASE Elsewise /\ Spares(G)
  BY <1>3, ElsewiseCaps DEF CoreInv, Spares
<1> QED
  BY <1>1, <1>2, <1>3 DEF Next, Elsewise

LEMMA CountsCap == \A G \in SUBSET Groups : CapInv(G) => RequestCaps(Lasting(G))
BY DEF CapInv, Counted, CountedBy, RequestCaps

\* The requests cap of every bucket whose window ends, and of every bucket of a
\* group that is never deleted, is kept: admissions check and charge under the
\* locks of the whole chain, a request of the last window charges the cell that
\* has rolled, and no sweep forgets a count that still caps.
THEOREM RequestCapsHold ==
    ASSUME Patient, NEW G \in SUBSET Groups
    PROVE  Spec /\ [][Spares(G)]_vars => []RequestCaps(Lasting(G))
<1>1. Init => CapInv(G)
  BY InitCaps
<1>2. CoreInv /\ CapInv(G) /\ [Next]_vars /\ [Spares(G)]_vars => CapInv(G)'
  BY NextCaps
<1>3. CapInv(G) => RequestCaps(Lasting(G))
  BY CountsCap
<1> QED
  BY <1>1, <1>2, <1>3, InitCore, NextCore, PTL DEF Spec

\* No cap of either kind is ever passed while no group is deleted.
THEOREM CapsKept ==
    ASSUME Patient
    PROVE  Spec /\ [][Spares(Groups)]_vars => []CapsHold
<1>1. Init => CapInv(Groups)
  BY InitCaps
<1>2. CoreInv /\ CapInv(Groups) /\ [Next]_vars /\ [Spares(Groups)]_vars => CapInv(Groups)'
  BY NextCaps
<1>3. CoreInv /\ CapInv(Groups) => CapsHold
  <2>1. Buckets = Lasting(Groups)
    BY ConfigAssumption DEF Lasting, Elements
  <2>2. CapInv(Groups) => RequestCaps(Lasting(Groups))
    BY CountsCap
  <2> QED
    BY <2>1, <2>2, GaugesAgree DEF CapsHold
<1> QED
  BY <1>1, <1>2, <1>3, InitCore, NextCore, PTL DEF Spec

-----------------------------------------------------------------------------
(* The token and budget caps.                                              *)

\* Whether tokens of the request q are still to come on b.
Awaits(b, q) ==
    \/ q.pc = "served" /\ b \in Elements(Charged(q))
    \/ q.pc = "accrue" /\ \E n \in DOMAIN Charged(q) : n >= q.n /\ Charged(q)[n] = b

\* The responses that were outstanding when b was last charged and have since
\* been ledgered to it, or never will be.
Settled(b) == {r \in flight[b] : ~Awaits(b, req[r])}

\* A cell passes its caps by n responses at most.
Within(b, c, n) ==
    /\ Limit[b].budget # NoCap => Spend(c) <= Limit[b].budget + MaxTokens * n
    /\ Limit[b].tokens # NoCap => c.tokens < Limit[b].tokens + MaxTokens * n

Late(b) ==
    /\ \A r \in Requests : Awaits(b, req[r]) => r \in flight[b]
    /\ Within(b, cells[b], Cardinality(Settled(b)))

LateInv == \A b \in Buckets : Late(b)

LEMMA Times ==
    ASSUME NEW k \in Nat, NEW n \in Nat, NEW m \in Nat
    PROVE  /\ k * n \in Nat /\ k * 0 = 0 /\ k * (n + 1) = k * n + k
           /\ n <= m => k * n <= k * m
<1>1. k * n \in Nat /\ k * 0 = 0
  OBVIOUS
<1>2. k * (n + 1) = k * n + k
  OBVIOUS
<1>3. ASSUME n <= m PROVE k * n <= k * m
  <2>1. PICK d \in Nat : m = n + d
    <3>1. m - n \in Nat /\ m = n + (m - n)
      BY <1>3
    <3> QED
      BY <3>1
  <2>2. k * m = k * n + k * d /\ k * d \in Nat
    BY <2>1
  <2>3. k * n \in Nat
    BY <1>1
  <2> QED
    BY <2>2, <2>3
<1> QED
  BY <1>1, <1>2, <1>3

LEMMA SpendTypes ==
    ASSUME NEW c \in Cell
    PROVE  c.tokens \in Nat /\ c.billable \in Nat /\ Fee * c.billable \in Nat /\ Spend(c) \in Nat
<1>1. c.tokens \in Nat /\ c.billable \in Nat /\ Fee \in Nat
  BY LimitsAssumption DEF Cell
<1>2. Fee * c.billable \in Nat
  BY <1>1, Times
<1> QED
  BY <1>1, <1>2 DEF Spend

LEMMA WithinMore ==
    ASSUME NEW b \in Buckets, NEW c \in Cell, NEW n \in Nat, NEW m \in Nat, n <= m,
           Within(b, c, n)
    PROVE  Within(b, c, m)
<1> DEFINE x == MaxTokens * n
           y == MaxTokens * m
<1>1. x \in Nat /\ y \in Nat /\ x <= y
  BY Times, LimitsAssumption
<1>2. Spend(c) \in Nat /\ c.tokens \in Nat
  BY SpendTypes
<1>3. Limit[b].budget \in Int /\ Limit[b].tokens \in Int
  BY ConfigAssumption DEF Capacity, NoCap
<1> DEFINE t == Limit[b].budget
           u == Limit[b].tokens
<1>4. /\ t # NoCap => Spend(c) <= t + x
      /\ u # NoCap => c.tokens < u + x
  BY DEF Within
<1> HIDE DEF x, y, t, u
<1>5. /\ t # NoCap => Spend(c) <= t + y
      /\ u # NoCap => c.tokens < u + y
  BY <1>1, <1>2, <1>3, <1>4 DEF t, u
<1> QED
  BY <1>5 DEF Within, x, y, t, u

LEMMA WithinEmpty ==
    ASSUME NEW b \in Buckets, NEW n \in Nat
    PROVE  Within(b, NoCell, n)
<1>1. NoCell \in Cell /\ NoCell.tokens = 0 /\ NoCell.billable = 0
  BY NoCellTypes DEF NoCell
<1>2. Fee * 0 = 0 /\ MaxTokens * 0 = 0
  BY Times, LimitsAssumption
<1>3. /\ Limit[b].budget # NoCap => Limit[b].budget \in Nat \ {0}
      /\ Limit[b].tokens # NoCap => Limit[b].tokens \in Nat \ {0}
  BY ConfigAssumption DEF Capacity
<1>4. Spend(NoCell) = 0
  BY <1>1, <1>2 DEF Spend
<1>5. Within(b, NoCell, 0)
  BY <1>1, <1>2, <1>3, <1>4 DEF Within
<1>6. 0 \in Nat /\ 0 <= n
  OBVIOUS
<1> QED
  BY <1>1, <1>5, <1>6, WithinMore

\* A bucket that does not block has room for the fee, and no token too many.
LEMMA WithinCharge ==
    ASSUME NEW b \in Buckets, NEW c \in Cell, NEW w \in 0 .. MaxClock, NEW at \in 0 .. MaxClock,
           LET s == IF c.window >= w THEN c ELSE NoCell
           IN  /\ Limit[b].budget # NoCap => Spend(s) + Fee <= Limit[b].budget
               /\ Limit[b].tokens # NoCap => s.tokens < Limit[b].tokens
    PROVE  Within(b, Charge(c, w, at), 0)
<1> DEFINE s == IF c.window >= w THEN c ELSE NoCell
           d == Charge(c, w, at)
           l == Live(c, w)
<1>1. c.window \in Int /\ w \in Int
  BY LimitsAssumption DEF Cell
<1>2. d \in Cell /\ d.billable = l.billable + 1 /\ d.tokens = l.tokens /\ l \in Cell
  BY ChargeCell, LiveCell
<1>3. s \in Cell /\ s.billable = l.billable /\ s.tokens = l.tokens
  <2>1. CASE c.window >= w
    BY <1>1, <2>1, LiveCell
  <2>2. CASE ~(c.window >= w)
    BY <1>1, <2>2, LiveCell, NoCellTypes DEF NoCell
  <2> QED
    BY <2>1, <2>2
<1>4. /\ Limit[b].budget # NoCap => Spend(s) + Fee <= Limit[b].budget
      /\ Limit[b].tokens # NoCap => s.tokens < Limit[b].tokens
  OBVIOUS
<1> HIDE DEF s, d, l
<1>5. l.billable \in Nat /\ l.tokens \in Nat /\ Fee * l.billable \in Nat /\ Fee \in Nat
  BY <1>2, SpendTypes, LimitsAssumption
<1>6. Fee * (l.billable + 1) = Fee * l.billable + Fee
  BY <1>5, Times
<1>7. Spend(d) = Spend(s) + Fee
  BY <1>2, <1>3, <1>5, <1>6 DEF Spend
<1>8. Limit[b].budget \in Int /\ Limit[b].tokens \in Int /\ MaxTokens * 0 = 0
  BY ConfigAssumption, LimitsAssumption, Times DEF Capacity, NoCap
<1>9. d.tokens = s.tokens
  BY <1>2, <1>3
<1> QED
  BY <1>4, <1>7, <1>8, <1>9 DEF Within, d

\* One response adds MaxTokens at most.
LEMMA WithinAccrue ==
    ASSUME NEW b \in Buckets, NEW c \in Cell, NEW w \in 0 .. MaxClock, NEW at \in 0 .. MaxClock,
           NEW u \in 0 .. MaxTokens, NEW n \in Nat, Within(b, c, n)
    PROVE  Within(b, Accrued(c, w, u, at), n + 1)
<1> DEFINE d == Accrued(c, w, u, at)
           l == Live(c, w)
<1>1. c.window \in Int /\ w \in Int /\ u \in Nat /\ MaxTokens \in Nat /\ u <= MaxTokens
  BY LimitsAssumption DEF Cell
<1>2. d \in Cell /\ d.billable = l.billable /\ d.tokens = l.tokens + u /\ l \in Cell
  BY AccruedCell, LiveCell
<1>3. Within(b, l, n)
  <2>1. CASE w <= c.window
    BY <2>1, LiveCell
  <2>2. CASE w > c.window
    <3>1. l.tokens = NoCell.tokens /\ l.billable = NoCell.billable
      BY <2>2, LiveCell DEF NoCell
    <3>2. Within(b, NoCell, n)
      BY WithinEmpty
    <3> QED
      BY <3>1, <3>2 DEF Within, Spend
  <2> QED
    BY <1>1, <2>1, <2>2
<1> HIDE DEF d, l
<1>4. l.billable \in Nat /\ l.tokens \in Nat /\ Fee * l.billable \in Nat /\ Spend(l) \in Nat
  BY <1>2, SpendTypes
<1>5. Spend(d) = Spend(l) + u
  BY <1>1, <1>2, <1>4 DEF Spend
<1>6. MaxTokens * (n + 1) = MaxTokens * n + MaxTokens /\ MaxTokens * n \in Nat
  BY <1>1, Times
<1>7. Limit[b].budget \in Int /\ Limit[b].tokens \in Int
  BY ConfigAssumption DEF Capacity, NoCap
<1>8. /\ Limit[b].budget # NoCap => Spend(l) <= Limit[b].budget + MaxTokens * n
      /\ Limit[b].tokens # NoCap => l.tokens < Limit[b].tokens + MaxTokens * n
  BY <1>3 DEF Within
<1> DEFINE x == MaxTokens * n
           z == MaxTokens * (n + 1)
           p == Limit[b].budget
           q == Limit[b].tokens
<1>9. /\ x \in Nat /\ z = x + MaxTokens /\ p \in Int /\ q \in Int
      /\ p # NoCap => Spend(l) <= p + x
      /\ q # NoCap => l.tokens < q + x
  BY <1>6, <1>7, <1>8
<1> HIDE DEF x, z, p, q
<1>10. /\ p # NoCap => Spend(d) <= p + z
       /\ q # NoCap => d.tokens < q + z
  BY <1>1, <1>2, <1>4, <1>5, <1>9
<1> QED
  BY <1>10 DEF Within, z, p, q, d

LEMMA WithinRefund ==
    ASSUME NEW b \in Buckets, NEW c \in Cell, NEW w, NEW n \in Nat, Within(b, c, n)
    PROVE  Within(b, Refunded(c, w), n)
<1> DEFINE d == Refunded(c, w)
<1>1. d \in Cell /\ d.billable <= c.billable /\ d.tokens = c.tokens
  BY RefundedCell
<1> HIDE DEF d
<1>2. /\ c.tokens \in Nat /\ c.billable \in Nat /\ d.billable \in Nat /\ Fee \in Nat
      /\ Fee * c.billable \in Nat /\ Fee * d.billable \in Nat
  BY <1>1, SpendTypes, LimitsAssumption
<1>3. Fee * d.billable <= Fee * c.billable
  BY <1>1, <1>2, Times
<1>4. Spend(d) <= Spend(c) /\ Spend(d) \in Nat /\ Spend(c) \in Nat
  <2> DEFINE x == Fee * d.billable
             y == Fee * c.billable
  <2>1. x \in Nat /\ y \in Nat /\ x <= y
    BY <1>2, <1>3
  <2>2. Spend(d) = d.tokens + x /\ Spend(c) = c.tokens + y
    BY DEF Spend
  <2> HIDE DEF x, y
  <2> QED
    BY <1>1, <1>2, <2>1, <2>2
<1>5. Limit[b].budget \in Int /\ MaxTokens * n \in Nat
  BY ConfigAssumption, LimitsAssumption, Times DEF Capacity, NoCap
<1>6. /\ Limit[b].budget # NoCap => Spend(c) <= Limit[b].budget + MaxTokens * n
      /\ Limit[b].tokens # NoCap => c.tokens < Limit[b].tokens + MaxTokens * n
  BY DEF Within
<1> DEFINE x == MaxTokens * n
           p == Limit[b].budget
<1>7. x \in Nat /\ p \in Int /\ (p # NoCap => Spend(c) <= p + x)
  BY <1>5, <1>6
<1> HIDE DEF x, p
<1>8. p # NoCap => Spend(d) <= p + x
  BY <1>4, <1>7
<1> QED
  BY <1>1, <1>6, <1>8 DEF Within, x, p, d

LEMMA SettledCounts ==
    ASSUME Typed, NEW b \in Ids
    PROVE  /\ IsFiniteSet(Settled(b)) /\ Cardinality(Settled(b)) \in Nat
           /\ IsFiniteSet(flight[b]) /\ Cardinality(flight[b]) \in Nat
           /\ Cardinality(Settled(b)) <= Cardinality(flight[b])
<1>1. flight[b] \in SUBSET Requests /\ Settled(b) \in SUBSET flight[b]
  BY DEF Typed, Settled
<1>2. IsFiniteSet(flight[b])
  BY <1>1, LimitsAssumption, FS_Subset
<1>3. IsFiniteSet(Settled(b)) /\ Cardinality(Settled(b)) <= Cardinality(flight[b])
  BY <1>1, <1>2, FS_Subset
<1> QED
  BY <1>2, <1>3, FS_CardinalityType

\* As long as b is not charged, what has settled stays settled.
LEMMA LateKept ==
    ASSUME Typed, Typed', NEW b \in Buckets, Late(b), UNCHANGED flight,
           \A o \in Requests : Awaits(b, req'[o]) => Awaits(b, req[o]),
           NEW n \in Nat, Within(b, cells'[b], n), n <= Cardinality(Settled(b)')
    PROVE  Late(b)'
<1>1. b \in Ids
  BY DEF Ids
<1>2. Cardinality(Settled(b)') \in Nat
  <2>1. Settled(b)' \in SUBSET Requests
    BY <1>1 DEF Typed, Settled
  <2>2. IsFiniteSet(Settled(b)')
    BY <2>1, LimitsAssumption, FS_Subset
  <2> QED
    BY <2>2, FS_CardinalityType
<1>3. cells'[b] \in Cell
  BY <1>1 DEF Typed
<1>4. Within(b, cells'[b], Cardinality(Settled(b)'))
  BY <1>2, <1>3, WithinMore
<1>5. \A o \in Requests : Awaits(b, req'[o]) => o \in flight'[b]
  BY DEF Late
<1> QED
  BY <1>4, <1>5 DEF Late

LEMMA SettledGrows ==
    ASSUME Typed, Typed', NEW b \in Buckets, UNCHANGED flight,
           \A o \in Requests : Awaits(b, req'[o]) => Awaits(b, req[o])
    PROVE  Cardinality(Settled(b)) <= Cardinality(Settled(b)')
<1>1. b \in Ids
  BY DEF Ids
<1>2. flight[b] \in SUBSET Requests
  BY <1>1 DEF Typed
<1>3. Settled(b) \in SUBSET Settled(b)' /\ Settled(b)' \in SUBSET Requests
  BY <1>2 DEF Settled
<1>4. IsFiniteSet(Settled(b)')
  BY <1>3, LimitsAssumption, FS_Subset
<1> QED
  BY <1>3, <1>4, FS_Subset

\* A step that charges nobody and leaves a bucket's cell as it was.
LEMMA LateQuiet ==
    ASSUME Typed, Typed', NEW b \in Buckets, Late(b), UNCHANGED flight,
           \A o \in Requests : Awaits(b, req'[o]) => Awaits(b, req[o]),
           cells'[b] = cells[b] \/ cells'[b] = NoCell
    PROVE  Late(b)'
<1>1. b \in Ids
  BY DEF Ids
<1>2. Cardinality(Settled(b)) \in Nat
  BY <1>1, SettledCounts
<1>3. Cardinality(Settled(b)) <= Cardinality(Settled(b)')
  BY SettledGrows
<1>4. Within(b, cells'[b], Cardinality(Settled(b)))
  BY <1>2, WithinEmpty DEF Late
<1> QED
  BY <1>2, <1>3, <1>4, LateKept

\* No step but Admit makes a request await tokens it did not await before.
LEMMA ServeAwaits ==
    ASSUME Typed, NEW r \in Requests, Serve(r), NEW b \in Buckets, NEW o \in Requests,
           Awaits(b, req'[o])
    PROVE  \/ Awaits(b, req[o])
           \/ Admit(r) /\ o = r /\ b \in Elements(Charged(req[r]))
<1>0. /\ req \in [Requests -> Request] /\ req[r] \in Request
      /\ \A q : q.pc \in {"new", "admit", "refund", "end"} => ~Awaits(b, q)
  BY DEF Typed, Requested, Awaits
<1>1. o # r => req'[o] = req[o]
  BY <1>0 DEF Serve, Arrive, TakeGauge, GaugeFull, Lock, Admit, Refuse, Delivered, DeliveredFree,
              Failed, record_usage, refund_request, Step
<1>2. SUFFICES ASSUME o = r
               PROVE  Awaits(b, req[r]) \/ (Admit(r) /\ b \in Elements(Charged(req[r])))
  BY <1>1
<1>3. Ended.pc = "end"
  BY Resting
<1>4. CASE Arrive(r)
  <2>1. PICK k \in Keys : \E p \in MayUse[k] :
          LET q == [Idle EXCEPT !.pc = "admit", !.key = k, !.group = bound[k],
                                !.cfg = config, !.pool = p, !.at = clock]
          IN  req' = [req EXCEPT ![r] = IF Missing(q) \/ Frozen(q) THEN Ended ELSE q]
    BY <1>4 DEF Arrive
  <2>2. PICK p \in MayUse[k] :
          LET q == [Idle EXCEPT !.pc = "admit", !.key = k, !.group = bound[k],
                                !.cfg = config, !.pool = p, !.at = clock]
          IN  req' = [req EXCEPT ![r] = IF Missing(q) \/ Frozen(q) THEN Ended ELSE q]
    BY <2>1
  <2> DEFINE q == [Idle EXCEPT !.pc = "admit", !.key = k, !.group = bound[k],
                               !.cfg = config, !.pool = p, !.at = clock]
  <2>3. q.pc = "admit"
    BY DEF Idle
  <2>4. req' = [req EXCEPT ![r] = q] \/ req' = [req EXCEPT ![r] = Ended]
    BY <2>2
  <2> HIDE DEF q
  <2>5. ~Awaits(b, q) /\ ~Awaits(b, Ended)
    BY <1>0, <1>3, <2>3
  <2> QED
    BY <1>0, <1>2, <2>4, <2>5
<1>5. CASE TakeGauge(r)
  <2>1. req' = [req EXCEPT ![r].n = @ + 1] /\ req[r].pc = "admit"
    BY <1>5 DEF TakeGauge, Gauging
  <2>2. req'[r].pc = "admit"
    BY <1>0, <2>1 DEF Request
  <2> QED
    BY <1>0, <1>2, <2>2
<1>6. CASE Refuse(r)
  <2> DEFINE p == Downgrade(req[r])
             q == [req[r] EXCEPT !.pool = p, !.visited = @ \cup {p}, !.n = 1]
  <2>1. req' = [req EXCEPT ![r] = q] \/ req' = [req EXCEPT ![r] = Ended]
    BY <1>6 DEF Refuse
  <2>2. q.pc = "admit"
    BY <1>0, <1>6 DEF Request, Refuse, Locking
  <2> HIDE DEF q
  <2>5. ~Awaits(b, q) /\ ~Awaits(b, Ended)
    BY <1>0, <1>3, <2>2
  <2> QED
    BY <1>0, <1>2, <2>1, <2>5
<1>7. CASE GaugeFull(r) \/ DeliveredFree(r)
  <2>1. req'[r] = Ended
    BY <1>0, <1>7 DEF GaugeFull, DeliveredFree
  <2> QED
    BY <1>0, <1>2, <1>3, <2>1
<1>8. CASE Lock(r)
  BY <1>2, <1>8 DEF Lock
<1>9. CASE Admit(r)
  <2>1. req' = [req EXCEPT ![r].pc = "served"]
    BY <1>9 DEF Admit
  <2>2. /\ req'[r].pc = "served" /\ req'[r].key = req[r].key /\ req'[r].group = req[r].group
        /\ req'[r].pool = req[r].pool
    BY <1>0, <2>1 DEF Request
  <2>3. Charged(req'[r]) = Charged(req[r])
    BY <2>2, SameChain
  <2> QED
    BY <1>2, <1>9, <2>2, <2>3 DEF Awaits
<1>10. CASE Delivered(r)
  <2>1. PICK n \in 1 .. MaxTokens :
          req' = [req EXCEPT ![r].pc = "accrue", ![r].n = 1, ![r].used = n]
    BY <1>10 DEF Delivered
  <2>2. /\ req'[r].pc = "accrue" /\ req'[r].key = req[r].key /\ req'[r].group = req[r].group
        /\ req'[r].pool = req[r].pool
    BY <1>0, <2>1 DEF Request
  <2>3. Charged(req'[r]) = Charged(req[r])
    BY <2>2, SameChain
  <2>4. b \in Elements(Charged(req[r]))
    BY <1>2, <2>2, <2>3 DEF Awaits, Elements
  <2> QED
    BY <1>10, <2>4 DEF Awaits, Delivered
<1>11. CASE Failed(r)
  <2>1. req' = [req EXCEPT ![r].pc = "refund", ![r].n = 1]
    BY <1>11 DEF Failed
  <2>2. req'[r].pc = "refund"
    BY <1>0, <2>1 DEF Request
  <2> QED
    BY <1>0, <1>2, <2>2
<1>12. CASE record_usage(r) \/ refund_request(r)
  <2> DEFINE q == [req[r] EXCEPT !.n = @ + 1]
  <2>1. req' = [req EXCEPT ![r] = q] \/ req' = [req EXCEPT ![r] = Ended]
    BY <1>12 DEF record_usage, refund_request, Step
  <2>2. /\ q.pc = req[r].pc /\ q.key = req[r].key /\ q.group = req[r].group
        /\ q.pool = req[r].pool /\ q.n = req[r].n + 1 /\ req[r].n \in Nat
        /\ req[r].pc \in {"accrue", "refund"}
    BY <1>0, <1>12 DEF Request, record_usage, refund_request
  <2> HIDE DEF q
  <2>3. Charged(q) = Charged(req[r])
    BY <2>2, SameChain
  <2>4. ~Awaits(b, Ended)
    BY <1>0, <1>3
  <2>5. ASSUME Awaits(b, q) PROVE Awaits(b, req[r])
    <3>1. q.pc = "accrue" /\ req[r].pc = "accrue"
      BY <2>2, <2>5 DEF Awaits
    <3>2. PICK n \in DOMAIN Charged(q) : n >= q.n /\ Charged(q)[n] = b
      BY <2>5, <3>1 DEF Awaits
    <3>3. Len(Charged(req[r])) \in Nat /\ DOMAIN Charged(req[r]) = 1 .. Len(Charged(req[r]))
      BY <1>0, <3>1, UnderWay, Chains DEF Typed
    <3>4. n \in Nat /\ n >= req[r].n
      BY <2>2, <2>3, <3>2, <3>3
    <3> QED
      BY <2>3, <3>1, <3>2, <3>4 DEF Awaits
  <2> QED
    BY <1>0, <1>2, <2>1, <2>4, <2>5
<1> QED
  BY <1>4, <1>5, <1>6, <1>7, <1>8, <1>9, <1>10, <1>11, <1>12 DEF Serve

\* A charge starts the count again: nothing outstanding has settled yet.
LEMMA AdmitLate ==
    ASSUME Typed, Typed', NEW r \in Requests, Admit(r), NEW b \in Buckets, Late(b)
    PROVE  Late(b)'
<1>1. b \in Ids /\ Serve(r)
  BY DEF Ids, Serve
<1>2. req' = [req EXCEPT ![r].pc = "served"]
  BY DEF Admit
<1>3. req \in [Requests -> Request] /\ req[r] \in Request /\ req[r].pc = "admit"
  BY DEF Typed, Requested, Admit, Locking
<1>4. /\ req'[r].pc = "served" /\ Charged(req'[r]) = Charged(req[r])
      /\ \A o \in Requests \ {r} : req'[o] = req[o]
  <2>1. /\ req'[r].pc = "served" /\ req'[r].key = req[r].key /\ req'[r].group = req[r].group
        /\ req'[r].pool = req[r].pool /\ \A o \in Requests \ {r} : req'[o] = req[o]
    BY <1>2, <1>3 DEF Request
  <2> QED
    BY <2>1, SameChain
<1>5. CASE b \in Elements(Charged(req[r]))
  <2>1. flight'[b] = {r} \cup {o \in Requests : Pending(b, o)}
    BY <1>1, <1>5 DEF Admit
  <2>2. \A o \in Requests : Pending(b, o) <=> Awaits(b, req[o])
    BY DEF Pending, Awaits
  <2>3. Awaits(b, req'[r]) /\ ~Awaits(b, req[r])
    BY <1>3, <1>4, <1>5 DEF Awaits
  <2>4. \A o \in Requests : o \in flight'[b] <=> Awaits(b, req'[o])
    BY <1>4, <2>1, <2>2, <2>3
  <2>5. flight'[b] \in SUBSET Requests
    BY <1>1 DEF Typed
  <2>6. Settled(b)' = {}
    BY <2>4, <2>5 DEF Settled
  <2>7. Cardinality(Settled(b)') = 0
    BY <2>6, FS_EmptySet
  <2> DEFINE at == req[r].at
             w  == Window(b, at)
             c  == cells[b]
  <2>8. at \in 0 .. MaxClock /\ w \in 0 .. MaxClock /\ cells'[b] = Charge(c, w, at)
    <3>1. clock \in 1 .. MaxClock /\ at \in 1 .. clock
      BY <1>1, AdmitCells DEF Typed
    <3>2. at \in 0 .. MaxClock
      BY <3>1, LimitsAssumption
    <3> QED
      BY <1>1, <1>5, <3>2, AdmitCells
  <2>9. c \in Cell
    BY <1>1 DEF Typed
  <2>10. ~Blocks(b, at)
    BY <1>5 DEF Admit
  <2>11. Seen(b, at) = IF c.window >= w THEN c ELSE NoCell
    BY DEF Seen
  <2> DEFINE s == IF c.window >= w THEN c ELSE NoCell
  <2>12. s \in Cell
    BY <2>9, NoCellTypes
  <2>13. /\ Limit[b].budget # NoCap => Spend(s) + Fee <= Limit[b].budget
         /\ Limit[b].tokens # NoCap => s.tokens < Limit[b].tokens
    <3>1. ~BudgetBlocks(b, at) /\ ~CallsBlock(b, at) /\ Seen(b, at) = s
      BY <2>10, <2>11 DEF Blocks
    <3>2. Limit[b].budget \in Int /\ Limit[b].tokens \in Int /\ Fee \in Nat
      BY ConfigAssumption, LimitsAssumption DEF Capacity, NoCap
    <3> HIDE DEF s
    <3>3. Spend(s) \in Nat /\ s.tokens \in Nat
      BY <2>12, SpendTypes
    <3> QED
      BY <3>1, <3>2, <3>3 DEF BudgetBlocks, CallsBlock, Over
  <2> HIDE DEF c, w, at
  <2>14. Within(b, Charge(c, w, at), 0)
    BY <2>8, <2>9, <2>13, WithinCharge
  <2>15. Within(b, cells'[b], Cardinality(Settled(b)'))
    BY <2>7, <2>8, <2>14
  <2> QED
    BY <2>4, <2>15 DEF Late
<1>6. CASE b \notin Elements(Charged(req[r]))
  <2>1. cells'[b] = cells[b] /\ flight'[b] = flight[b]
    BY <1>1, <1>6 DEF Admit
  <2>2. \A o \in Requests : Awaits(b, req'[o]) => Awaits(b, req[o])
    BY <1>1, <1>6, ServeAwaits
  <2>3. \A o \in Requests : Awaits(b, req[o]) => Awaits(b, req'[o])
    <3>1. ~Awaits(b, req[r])
      BY <1>3 DEF Awaits
    <3> QED
      BY <1>4, <3>1
  <2>4. Settled(b)' = Settled(b)
    <3>1. flight[b] \in SUBSET Requests
      BY <1>1 DEF Typed
    <3> QED
      BY <2>1, <2>2, <2>3, <3>1 DEF Settled
  <2> QED
    BY <2>1, <2>2, <2>4 DEF Late
<1> QED
  BY <1>5, <1>6

\* A response that is ledgered to b settles there, since a chain has b once.
LEMMA UsageLate ==
    ASSUME Typed, Typed', NEW r \in Requests, record_usage(r), NEW b \in Buckets, Late(b)
    PROVE  Late(b)'
<1>1. b \in Ids /\ Serve(r) /\ UNCHANGED flight /\ req[r].pc = "accrue"
  BY DEF Ids, Serve, record_usage, hist
<1>2. \A o \in Requests : Awaits(b, req'[o]) => Awaits(b, req[o])
  <2>1. ~Admit(r)
    BY <1>1 DEF Admit, Locking
  <2> QED
    BY <1>1, <2>1, ServeAwaits
<1>3. req[r].used \in 0 .. MaxTokens
  BY AccrueCells
<1>4. PICK a \in Ids :
        LET w == Window(a, req[r].at)
        IN  /\ AtBucket(r, a) /\ w \in 0 .. MaxClock /\ req[r].at \in 0 .. MaxClock
            /\ cells' = [cells EXCEPT ![a] = Accrued(cells[a], w, req[r].used, req[r].at)]
  BY AccrueCells
<1>5. CASE a # b
  <2>1. cells'[b] = cells[b]
    BY <1>4, <1>5
  <2> QED
    BY <1>1, <1>2, <2>1, LateQuiet
<1>6. CASE a = b
  <2> DEFINE q == req[r]
             c == Charged(q)
  <2>1. /\ q \in Request /\ q.key \in Keys /\ q.pool \in Pools /\ q.n \in Nat \ {0}
    BY <1>1, UnderWay DEF Typed
  <2>2. Once(c) /\ DOMAIN c = 1 .. Len(c) /\ Len(c) \in Nat
    BY <2>1, Chains
  <2>3. q.n <= Len(c) /\ c[q.n] = b /\ q.n \in DOMAIN c
    <3>1. q.n <= Len(c)
      BY <1>1 DEF Typed, Requested, Placed
    <3>2. c[q.n] = b
      BY <1>4, <1>6 DEF AtBucket
    <3> QED
      BY <2>1, <2>2, <3>1, <3>2
  <2>4. Awaits(b, q)
    <3>1. q.n >= q.n
      BY <2>1
    <3> QED
      BY <1>1, <2>3, <3>1 DEF Awaits
  <2>5. ~Awaits(b, req'[r])
    <3>1. CASE Last(r)
      <4>1. req'[r] = Ended
        BY <3>1 DEF record_usage, Step, Typed, Requested
      <4> QED
        BY <4>1, Resting DEF Awaits
    <3>2. CASE ~Last(r)
      <4> DEFINE m == [q EXCEPT !.n = @ + 1]
      <4>1. req'[r] = m
        BY <3>2 DEF record_usage, Step, Typed, Requested
      <4>2. /\ m.pc = "accrue" /\ m.key = q.key /\ m.group = q.group /\ m.pool = q.pool
            /\ m.n = q.n + 1
        BY <1>1, <2>1 DEF Request
      <4> HIDE DEF m
      <4>3. Charged(m) = c
        BY <4>2, SameChain
      <4> SUFFICES ASSUME NEW n \in DOMAIN c, n >= q.n + 1, c[n] = b PROVE FALSE
        BY <4>1, <4>2, <4>3 DEF Awaits
      <4>4. n = q.n
        BY <2>2, <2>3 DEF Once
      <4> QED
        BY <2>1, <4>4
    <3> QED
      BY <3>1, <3>2
  <2>6. r \in flight[b] /\ r \notin Settled(b)
    BY <2>4 DEF Late, Settled
  <2>7. Settled(b) \cup {r} \in SUBSET Settled(b)' /\ Settled(b)' \in SUBSET Requests
    <3>1. flight[b] \in SUBSET Requests
      BY <1>1 DEF Typed
    <3> QED
      BY <1>1, <1>2, <2>5, <2>6, <3>1 DEF Settled
  <2>8. IsFiniteSet(Settled(b)') /\ IsFiniteSet(Settled(b)) /\ Cardinality(Settled(b)) \in Nat
    BY <1>1, <2>7, LimitsAssumption, FS_Subset, SettledCounts
  <2>9. Cardinality(Settled(b) \cup {r}) = Cardinality(Settled(b)) + 1
    BY <2>6, <2>8, FS_AddElement
  <2>10. Cardinality(Settled(b)) + 1 <= Cardinality(Settled(b)')
    BY <2>7, <2>8, <2>9, FS_Subset
  <2> DEFINE w == Window(b, q.at)
             d == Accrued(cells[b], w, q.used, q.at)
             n == Cardinality(Settled(b))
  <2>11. cells'[b] = d /\ w \in 0 .. MaxClock /\ q.at \in 0 .. MaxClock
    BY <1>1, <1>4, <1>6 DEF Typed
  <2>12. cells[b] \in Cell /\ Within(b, cells[b], n)
    BY <1>1 DEF Typed, Late
  <2> HIDE DEF w, n
  <2>13. Within(b, d, n + 1)
    BY <1>3, <2>8, <2>11, <2>12, WithinAccrue DEF n
  <2>14. n + 1 \in Nat /\ n + 1 <= Cardinality(Settled(b)')
    BY <2>8, <2>10 DEF n
  <2> HIDE DEF d
  <2> QED
    BY <1>1, <1>2, <2>11, <2>13, <2>14, LateKept
<1> QED
  BY <1>5, <1>6

LEMMA RefundLate ==
    ASSUME Typed, Typed', NEW r \in Requests, refund_request(r), NEW b \in Buckets, Late(b)
    PROVE  Late(b)'
<1>1. b \in Ids /\ Serve(r) /\ UNCHANGED flight /\ ~Admit(r)
  BY DEF Ids, Serve, refund_request, hist, Admit, Locking
<1>2. \A o \in Requests : Awaits(b, req'[o]) => Awaits(b, req[o])
  BY <1>1, ServeAwaits
<1>3. PICK a \in Ids, w \in Int : cells' = [cells EXCEPT ![a] = Refunded(cells[a], w)]
  BY RefundCells
<1>4. Cardinality(Settled(b)) \in Nat /\ cells[b] \in Cell
  BY <1>1, SettledCounts DEF Typed
<1>5. Within(b, cells'[b], Cardinality(Settled(b)))
  <2>1. cells'[b] = Refunded(cells[b], w) \/ cells'[b] = cells[b]
    BY <1>1, <1>3 DEF Typed
  <2>2. Within(b, cells[b], Cardinality(Settled(b)))
    BY DEF Late
  <2> QED
    BY <1>4, <2>1, <2>2, WithinRefund
<1>6. Cardinality(Settled(b)) <= Cardinality(Settled(b)')
  BY <1>1, <1>2, SettledGrows
<1> QED
  BY <1>1, <1>2, <1>4, <1>5, <1>6, LateKept

LEMMA ServeLate ==
    ASSUME Typed, Typed', NEW r \in Requests, Serve(r), NEW b \in Buckets, Late(b)
    PROVE  Late(b)'
<1>1. CASE Admit(r)
  BY <1>1, AdmitLate
<1>2. CASE record_usage(r)
  BY <1>2, UsageLate
<1>3. CASE refund_request(r)
  BY <1>3, RefundLate
<1>4. CASE ~Admit(r) /\ ~record_usage(r) /\ ~refund_request(r)
  <2>1. \A o \in Requests : Awaits(b, req'[o]) => Awaits(b, req[o])
    BY <1>4, ServeAwaits
  <2>2. UNCHANGED flight
    BY <1>4 DEF Serve, Arrive, TakeGauge, GaugeFull, Lock, Refuse, Delivered, DeliveredFree,
                Failed, hist
  <2>3. cells'[b] = cells[b] \/ cells'[b] = NoCell
    <3>1. CASE Lock(r)
      <4>1. PICK s \in Shards : \E D \in SUBSET Sweepable(req[r], s) :
              cells' = [a \in Ids |-> IF a \in D THEN NoCell ELSE cells[a]]
        BY <3>1 DEF Lock
      <4> QED
        BY <4>1 DEF Ids
    <3>2. CASE UNCHANGED cells
      BY <3>2
    <3> QED
      BY <1>4, <3>1, <3>2
         DEF Serve, Arrive, TakeGauge, GaugeFull, Refuse, Delivered, DeliveredFree, Failed
  <2> QED
    BY <2>1, <2>2, <2>3, LateQuiet
<1> QED
  BY <1>1, <1>2, <1>3, <1>4

LEMMA ElsewiseLate ==
    ASSUME Typed, Typed', Elsewise, NEW b \in Buckets, Late(b)
    PROVE  Late(b)'
<1>1. UNCHANGED <<req, flight>>
  BY DEF Elsewise, Rebind, PutGroup, DeleteGroup, reclaim_group_cells, Tick, vars, hist
<1>2. cells'[b] = cells[b] \/ cells'[b] = NoCell
  <2>1. CASE reclaim_group_cells
    <3>1. PICK s \in reclaim.left :
            LET gone == {a \in Elements(GroupBuckets[reclaim.group]) : ShardOf[a] = s}
            IN  cells' = [a \in Ids |-> IF a \in gone THEN NoCell ELSE cells[a]]
      BY <2>1 DEF reclaim_group_cells
    <3> QED
      BY <3>1 DEF Ids
  <2>2. CASE UNCHANGED cells
    BY <2>2
  <2> QED
    BY <2>1, <2>2 DEF Elsewise, Rebind, PutGroup, DeleteGroup, Tick, vars
<1> QED
  BY <1>1, <1>2, LateQuiet

LEMMA NextLate == CoreInv /\ LateInv /\ [Next]_vars => LateInv'
<1> SUFFICES ASSUME CoreInv, LateInv, [Next]_vars, NEW b \in Buckets PROVE Late(b)'
  BY DEF LateInv
<1>1. Typed /\ Typed' /\ Late(b)
  BY NextCore DEF CoreInv, LateInv
<1>2. CASE \E r \in Requests : Serve(r)
  BY <1>1, <1>2, ServeLate
<1>3. CASE Elsewise
  BY <1>1, <1>3, ElsewiseLate
<1> QED
  BY <1>2, <1>3 DEF Next, Elsewise

LEMMA InitLate == Init => LateInv
<1> SUFFICES ASSUME Init, NEW b \in Buckets PROVE Late(b)
  BY DEF LateInv
<1>1. b \in Ids
  BY DEF Ids
<1>2. \A r \in Requests : ~Awaits(b, req[r])
  <2>1. \A r \in Requests : req[r].pc = "new"
    BY Resting DEF Init
  <2> QED
    BY <2>1 DEF Awaits
<1>3. cells[b] = NoCell
  BY <1>1 DEF Init
<1>4. Cardinality(Settled(b)) \in Nat
  BY <1>1, InitCore, SettledCounts DEF CoreInv
<1> QED
  BY <1>2, <1>3, <1>4, WithinEmpty DEF Late

\* A bucket's spend and tokens pass their caps by no more than the responses that
\* were outstanding when it was last charged, whatever the order in which they
\* are ledgered, their requests refunded, windows roll and groups are edited.
THEOREM OvershootKept == Spec => []OvershootBounded
<1>1. CoreInv /\ LateInv => OvershootBounded
  <2> SUFFICES ASSUME CoreInv, LateInv, NEW b \in Buckets
               PROVE  Within(b, cells[b], Cardinality(flight[b]))
    BY DEF OvershootBounded, Within
  <2>1. b \in Ids /\ Typed
    BY DEF Ids, CoreInv
  <2>2. cells[b] \in Cell /\ Within(b, cells[b], Cardinality(Settled(b)))
    BY <2>1 DEF Typed, LateInv, Late
  <2> QED
    BY <2>1, <2>2, SettledCounts, WithinMore
<1> QED
  BY <1>1, InitCore, NextCore, InitLate, NextLate, PTL DEF Spec

(***************************************************************************)
(* The audit log.                                                          *)
(***************************************************************************)
(* The log has a newest record, unless it is empty. *)
HasNewest ==
    DOMAIN log = {} \/ \E n \in DOMAIN log : \A s \in DOMAIN log : s <= n

(* Its rows have the fields of a record and no others. *)
Records == \A s \in DOMAIN log : log[s] = to_record(log[s])

(* durable_lock: one write-through at a time, and none past the seal. *)
Discipline ==
    \A t \in Threads :
        /\ pc[t] \in {"reconcile", "check", "append"} => lock = t
        /\ pc[t] = "reconcile" => sealed
        /\ pc[t] \in {"check", "append"} => ~sealed
        /\ pc[t] # "idle" => up

(* The ring is a sequence of numbered entries; a sealed ring holds nothing *)
(* that was read from the store.                                           *)
RingOK ==
    /\ \E S : ring \in Seq(S)
    /\ \A i \in 1 .. Len(ring) :
          /\ ring[i].seq \in Nat /\ ring[i].seq < seq
          /\ sealed => ring[i].here

(* The ring and the store agree. *)
Agree ==
    up /\ ~sealed /\ other = "none" =>
        /\ \A s \in DOMAIN log : s <= high + 1 /\ s < seq
        /\ \A i \in 1 .. Len(ring) :
              ring[i].seq \in DOMAIN log => to_record(ring[i]) = log[ring[i].seq]
        /\ \A i, j \in 1 .. Len(ring) :
              ring[i].seq = ring[j].seq => to_record(ring[i]) = to_record(ring[j])

(* A write-through that has seen the tail appends behind it. *)
LooksClear ==
    \A t \in Threads :
        /\ pc[t] \in {"reconcile", "check"} => ~clear
        /\ pc[t] = "append" /\ clear => \A s \in DOMAIN log : s <= high

IInv == AuditTypeOK /\ HasNewest /\ Records /\ Discipline /\ RingOK /\ Agree /\ LooksClear

-----------------------------------------------------------------------------
(* Newest is the highest seq in the store, 0 for an empty one. *)
LEMMA NewestIsNewest ==
    ASSUME AuditTypeOK, HasNewest
    PROVE  Newest \in Nat /\ \A s \in DOMAIN log : s <= Newest
<1>1. CASE DOMAIN log = {}
  BY <1>1 DEF Newest
<1>2. CASE DOMAIN log # {}
  <2>1. PICK n \in DOMAIN log : \A s \in DOMAIN log : s <= n
    BY <1>2 DEF HasNewest
  <2>2. Newest \in DOMAIN log /\ \A s \in DOMAIN log : s <= Newest
    BY <1>2, <2>1 DEF Newest
  <2>. QED  BY <2>2 DEF AuditTypeOK
<1>. QED  BY <1>1, <1>2

(* An upsert adds one seq, keeps the others and keeps a newest record. *)
LEMMA UpsertShape ==
    ASSUME AuditTypeOK, HasNewest
    PROVE  \A r : r.seq \in Nat /\ log' = Upsert(r) =>
              /\ DOMAIN log' = DOMAIN log \cup {r.seq}
              /\ log'[r.seq] = r
              /\ \A s \in DOMAIN log : s # r.seq => log'[s] = log[s]
              /\ \A s \in DOMAIN log' : s \in Nat /\ log'[s].seq = s
              /\ HasNewest'
<1>. SUFFICES ASSUME NEW r, r.seq \in Nat, log' = Upsert(r)
              PROVE  /\ DOMAIN log' = DOMAIN log \cup {r.seq}
                     /\ log'[r.seq] = r
                     /\ \A s \in DOMAIN log : s # r.seq => log'[s] = log[s]
                     /\ \A s \in DOMAIN log' : s \in Nat /\ log'[s].seq = s
                     /\ HasNewest'
  OBVIOUS
<1>1. /\ DOMAIN log' = DOMAIN log \cup {r.seq}
      /\ log'[r.seq] = r
      /\ \A s \in DOMAIN log : s # r.seq => log'[s] = log[s]
  BY DEF Upsert
<1>2. \A s \in DOMAIN log' : s \in Nat /\ log'[s].seq = s
  BY <1>1 DEF AuditTypeOK
<1>3. HasNewest'
  <2>1. \A s \in DOMAIN log : s \in Nat /\ s <= Newest
    BY NewestIsNewest DEF AuditTypeOK
  <2>2. CASE DOMAIN log = {}
    <3>1. r.seq \in DOMAIN log' /\ \A s \in DOMAIN log' : s <= r.seq
      BY <1>1, <2>2
    <3>. QED  BY <3>1 DEF HasNewest
  <2>3. CASE DOMAIN log # {}
    <3>1. PICK n \in DOMAIN log : \A s \in DOMAIN log : s <= n
      BY <2>3 DEF HasNewest
    <3>2. n \in Nat
      BY <3>1 DEF AuditTypeOK
    <3>3. CASE n <= r.seq
      <4>1. r.seq \in DOMAIN log' /\ \A s \in DOMAIN log' : s <= r.seq
        BY <1>1, <2>1, <3>1, <3>2, <3>3
      <4>. QED  BY <4>1 DEF HasNewest
    <3>4. CASE r.seq < n
      <4>1. n \in DOMAIN log' /\ \A s \in DOMAIN log' : s <= n
        BY <1>1, <2>1, <3>1, <3>2, <3>4
      <4>. QED  BY <4>1 DEF HasNewest
    <3>. QED  BY <3>2, <3>3, <3>4
  <2>. QED  BY <2>2, <2>3
<1>. QED  BY <1>1, <1>2, <1>3

(* What a ring is after record_by: the tail of what it was, and the entry. *)
LEMMA PushShape ==
    ASSUME RingOK, AuditTypeOK
    PROVE  \A e : ring' = Append(Pruned(ring), e) =>
              /\ \E S : ring' \in Seq(S)
              /\ Len(ring') \in Nat /\ Len(ring') >= 1 /\ Len(ring') <= Cap
              /\ ring'[Len(ring')] = e
              /\ \A i \in 1 .. Len(ring') - 1 : \E j \in 1 .. Len(ring) : ring'[i] = ring[j]
              /\ LET k == IF Len(ring) >= Cap THEN 1 ELSE 0
                 IN  /\ Len(ring') = Len(ring) + 1 - k
                     /\ \A i \in 1 .. Len(ring) - k : ring'[i] = ring[i + k]
<1>. SUFFICES ASSUME NEW e, ring' = Append(Pruned(ring), e)
              PROVE  /\ \E S : ring' \in Seq(S)
                     /\ Len(ring') \in Nat /\ Len(ring') >= 1 /\ Len(ring') <= Cap
                     /\ ring'[Len(ring')] = e
                     /\ \A i \in 1 .. Len(ring') - 1 :
                           \E j \in 1 .. Len(ring) : ring'[i] = ring[j]
                     /\ LET k == IF Len(ring) >= Cap THEN 1 ELSE 0
                        IN  /\ Len(ring') = Len(ring) + 1 - k
                            /\ \A i \in 1 .. Len(ring) - k : ring'[i] = ring[i + k]
  OBVIOUS
<1>1. PICK S : ring \in Seq(S)
  BY DEF RingOK
<1>2. Len(ring) \in Nat /\ Len(ring) <= Cap /\ Cap \in Nat /\ Cap >= 1
  BY <1>1, AuditAssumption DEF AuditTypeOK
<1>3. CASE Len(ring) >= Cap
  <2>1. Pruned(ring) = SubSeq(ring, 2, Len(ring)) /\ Len(ring) = Cap
    BY <1>2, <1>3 DEF Pruned
  <2>2. /\ Pruned(ring) \in Seq(S)
        /\ Len(Pruned(ring)) = Len(ring) - 1
        /\ \A i \in 1 .. Len(ring) - 1 : Pruned(ring)[i] = ring[i + 1]
    BY <1>1, <1>2, <2>1
  <2>3. ring' \in Seq(S \cup {e}) /\ Len(ring') = Len(ring) /\ ring'[Len(ring')] = e
    BY <1>1, <1>2, <2>2
  <2>4. \A i \in 1 .. Len(ring) - 1 : ring'[i] = ring[i + 1]
    BY <1>1, <1>2, <2>2
  <2>5. \A i \in 1 .. Len(ring') - 1 : \E j \in 1 .. Len(ring) : ring'[i] = ring[j]
    <3>. TAKE i \in 1 .. Len(ring') - 1
    <3>1. i + 1 \in 1 .. Len(ring) /\ ring'[i] = ring[i + 1]
      BY <1>2, <2>3, <2>4
    <3>. QED  BY <3>1
  <2>6. \E T : ring' \in Seq(T)
    BY <2>3
  <2>. QED  BY <1>2, <1>3, <2>1, <2>3, <2>4, <2>5, <2>6
<1>4. CASE Len(ring) < Cap
  <2>1. Pruned(ring) = ring
    BY <1>2, <1>4 DEF Pruned
  <2>2. ring' \in Seq(S \cup {e}) /\ Len(ring') = Len(ring) + 1 /\ ring'[Len(ring')] = e
    BY <1>1, <1>2, <2>1
  <2>3. \A i \in 1 .. Len(ring) : ring'[i] = ring[i]
    BY <1>1, <1>2, <2>1
  <2>. QED  BY <1>2, <1>4, <2>2, <2>3
<1>. QED  BY <1>2, <1>3, <1>4

-----------------------------------------------------------------------------
LEMMA InitIInv == AuditInit => IInv
<1>. SUFFICES ASSUME AuditInit PROVE IInv
  OBVIOUS
<1>1. DOMAIN log = {} /\ Len(ring) = 0 /\ ring \in Seq({})
  BY DEF AuditInit
<1>2. {up, sealed, sink, clear, calm} \subseteq BOOLEAN
  BY DEF AuditInit
<1>3. pc \in [Threads -> {"idle", "valve", "lock", "reconcile", "check", "append"}]
  BY DEF AuditInit
<1>4. AuditTypeOK
  BY <1>1, <1>2, <1>3, AuditAssumption DEF AuditInit, AuditTypeOK
<1>. QED  BY <1>1, <1>4 DEF AuditInit, IInv, HasNewest, Records, Discipline, RingOK, Agree, LooksClear

(* A step that leaves the ring and the store alone. *)
LEMMA FrameIInv ==
    ASSUME IInv, UNCHANGED <<log, up, ring, seq, high, sealed, other>>,
           AuditTypeOK', Discipline', LooksClear'
    PROVE  IInv'
<1>1. HasNewest' /\ Records'
  BY DEF IInv, HasNewest, Records, to_record
<1>2. RingOK'
  BY DEF IInv, RingOK
<1>3. Agree'
  BY DEF IInv, Agree, to_record
<1>. QED  BY <1>1, <1>2, <1>3 DEF IInv

LEMMA ValveIInv ==
    ASSUME IInv, NEW t \in Recorders, Valve(t)
    PROVE  IInv'
<1>. USE DEF Valve, Goto, ghosts
<1>1. AuditTypeOK'
  BY DEF IInv, AuditTypeOK, Threads
<1>2. Discipline' /\ LooksClear'
  BY DEF IInv, AuditTypeOK, Discipline, LooksClear, Threads
<1>. QED  BY <1>1, <1>2, FrameIInv

LEMMA FlushIInv == IInv /\ Flush => IInv'
<1>. SUFFICES ASSUME IInv, Flush PROVE IInv'
  OBVIOUS
<1>. USE DEF Flush, Goto, ghosts
<1>1. PICK S : ring \in Seq(S)
  BY DEF IInv, RingOK
<1>2. Len(ring) \in 1 .. Len(ring)
  BY <1>1
<1>3. AuditTypeOK'
  BY <1>2 DEF IInv, AuditTypeOK, RingOK, Threads
<1>4. Discipline' /\ LooksClear'
  BY DEF IInv, AuditTypeOK, Discipline, LooksClear, Threads
<1>. QED  BY <1>3, <1>4, FrameIInv

LEMMA EnterIInv ==
    ASSUME IInv, NEW t \in Threads, Enter(t)
    PROVE  IInv'
<1>. USE DEF Enter, Goto
<1>1. AuditTypeOK'
  BY DEF IInv, AuditTypeOK
<1>2. Discipline' /\ LooksClear'
  BY AuditAssumption DEF IInv, AuditTypeOK, Discipline, LooksClear
<1>. QED  BY <1>1, <1>2, FrameIInv

LEMMA ReconcileFailsIInv ==
    ASSUME IInv, NEW t \in Threads, ReconcileFails(t)
    PROVE  IInv'
<1>. USE DEF ReconcileFails, Fault, Leave, Goto
<1>1. AuditTypeOK'
  BY DEF IInv, AuditTypeOK
<1>2. Discipline' /\ LooksClear'
  BY DEF IInv, AuditTypeOK, Discipline, LooksClear
<1>. QED  BY <1>1, <1>2, FrameIInv

LEMMA CheckIInv ==
    ASSUME IInv, NEW t \in Threads, Check(t) \/ CheckFails(t)
    PROVE  IInv'
<1>. USE DEF Check, CheckFails, Proceed, Fault, Leave, Goto
<1>1. AuditTypeOK'
  BY DEF IInv, AuditTypeOK
<1>2. Discipline'
  BY DEF IInv, AuditTypeOK, Discipline
<1>3. Newest \in Nat /\ \A s \in DOMAIN log : s <= Newest
  BY NewestIsNewest DEF IInv
<1>4. high \in Nat /\ \A s \in DOMAIN log : s \in Nat
  BY DEF IInv, AuditTypeOK
<1>5. Newest <= high => \A s \in DOMAIN log : s <= high
  BY <1>3, <1>4
<1>6. LooksClear'
  BY <1>5 DEF IInv, AuditTypeOK, Discipline, LooksClear
<1>. QED  BY <1>1, <1>2, <1>6, FrameIInv

LEMMA HoleIInv ==
    ASSUME IInv, NEW t \in Threads, Hole(t)
    PROVE  IInv'
<1>. USE DEF Hole, Leave, Goto, ghosts
<1>1. AuditTypeOK'
  BY DEF IInv, AuditTypeOK
<1>2. Discipline' /\ LooksClear'
  BY DEF IInv, AuditTypeOK, Discipline, LooksClear
<1>. QED  BY <1>1, <1>2, FrameIInv

(* A new entry has a number that neither the ring nor the store has. *)
LEMMA PushIInv ==
    ASSUME IInv, NEW t \in Recorders, Push(t)
    PROVE  IInv'
<1>. DEFINE prev == IF ring = <<>> THEN NoHash ELSE ring[Len(ring)].hash
            e    == Entry(Rec(prev, seq, whats + 1), TRUE)
<1>1. /\ \E S : ring' \in Seq(S)
      /\ Len(ring') \in Nat /\ Len(ring') >= 1 /\ Len(ring') <= Cap
      /\ ring'[Len(ring')] = e
      /\ \A i \in 1 .. Len(ring') - 1 : \E j \in 1 .. Len(ring) : ring'[i] = ring[j]
  BY PushShape DEF IInv, Push
<1>2. e.seq = seq /\ e.here
  BY DEF Entry, Rec
<1>. HIDE DEF e
<1>3. seq \in Nat /\ high \in Nat /\ seq' = seq + 1
  BY DEF IInv, AuditTypeOK, Push
<1>4. AuditTypeOK'
  BY <1>1, <1>3 DEF IInv, AuditTypeOK, Push, Goto, Threads
<1>5. HasNewest' /\ Records'
  BY DEF IInv, HasNewest, Records, to_record, Push
<1>6. Discipline' /\ LooksClear'
  BY DEF IInv, AuditTypeOK, Discipline, LooksClear, Push, Goto, Threads
<1>7. \A i \in 1 .. Len(ring') : ring'[i] = e \/ \E j \in 1 .. Len(ring) : ring'[i] = ring[j]
  <2>. SUFFICES ASSUME NEW i \in 1 .. Len(ring')
                PROVE  ring'[i] = e \/ \E j \in 1 .. Len(ring) : ring'[i] = ring[j]
    OBVIOUS
  <2>1. CASE i = Len(ring')
    BY <1>1, <2>1
  <2>2. CASE i # Len(ring')
    <3>1. i \in 1 .. Len(ring') - 1
      BY <1>1, <2>2
    <3>. QED  BY <1>1, <3>1
  <2>. QED  BY <2>1, <2>2
<1>8. RingOK'
  <2>1. sealed' = sealed
    BY DEF Push
  <2>2. \A j \in 1 .. Len(ring) :
           ring[j].seq \in Nat /\ ring[j].seq < seq /\ (sealed => ring[j].here)
    BY DEF IInv, RingOK
  <2>3. \A i \in 1 .. Len(ring') :
           ring'[i].seq \in Nat /\ ring'[i].seq < seq' /\ (sealed' => ring'[i].here)
    BY <1>2, <1>3, <1>7, <2>1, <2>2
  <2>. QED  BY <1>1, <2>3 DEF RingOK
<1>9. Agree'
  <2>. SUFFICES ASSUME up', ~sealed', other' = "none" PROVE Agree'
    BY DEF Agree
  <2>1. UNCHANGED <<log, up, sealed, other, high>>
    BY DEF Push
  <2>2. /\ \A s \in DOMAIN log : s <= high + 1 /\ s < seq
        /\ \A i \in 1 .. Len(ring) :
              ring[i].seq \in DOMAIN log => to_record(ring[i]) = log[ring[i].seq]
        /\ \A i, j \in 1 .. Len(ring) :
              ring[i].seq = ring[j].seq => to_record(ring[i]) = to_record(ring[j])
        /\ \A i \in 1 .. Len(ring) : ring[i].seq \in Nat /\ ring[i].seq < seq
    BY <2>1 DEF IInv, Agree, RingOK
  <2>3. \A s \in DOMAIN log' : s <= high' + 1 /\ s < seq'
    BY <1>3, <2>1, <2>2 DEF IInv, AuditTypeOK
  <2>4. seq \notin DOMAIN log
    BY <1>3, <2>2
  <2>5. \A i \in 1 .. Len(ring') :
           ring'[i].seq \in DOMAIN log' => to_record(ring'[i]) = log'[ring'[i].seq]
    BY <1>2, <1>7, <2>1, <2>2, <2>4
  <2>6. \A i, j \in 1 .. Len(ring') :
           ring'[i].seq = ring'[j].seq => to_record(ring'[i]) = to_record(ring'[j])
    <3>. TAKE i, j \in 1 .. Len(ring')
    <3>. HAVE ring'[i].seq = ring'[j].seq
    <3>1. CASE ring'[i] = e /\ ring'[j] = e
      BY <3>1
    <3>2. CASE ring'[i] # e /\ ring'[j] # e
      <4>1. PICK k \in 1 .. Len(ring) : ring'[i] = ring[k]
        BY <1>7, <3>2
      <4>2. PICK m \in 1 .. Len(ring) : ring'[j] = ring[m]
        BY <1>7, <3>2
      <4>3. ring[k].seq = ring[m].seq
        BY <4>1, <4>2
      <4>. QED  BY <2>2, <4>1, <4>2, <4>3
    <3>3. CASE ring'[i] # e /\ ring'[j] = e
      <4>1. PICK k \in 1 .. Len(ring) : ring'[i] = ring[k]
        BY <1>7, <3>3
      <4>. QED  BY <1>2, <1>3, <2>2, <3>3, <4>1
    <3>4. CASE ring'[i] = e /\ ring'[j] # e
      <4>1. PICK k \in 1 .. Len(ring) : ring'[j] = ring[k]
        BY <1>7, <3>4
      <4>. QED  BY <1>2, <1>3, <2>2, <3>4, <4>1
    <3>. QED  BY <3>1, <3>2, <3>3, <3>4
  <2>. QED  BY <2>3, <2>5, <2>6, Zenon DEF Agree, to_record
<1>. QED  BY <1>4, <1>5, <1>6, <1>8, <1>9 DEF IInv

(* What is read from the store at boot agrees with it. *)
LEMMA BootReadIInv ==
    ASSUME IInv, Boot, BootRead
    PROVE  IInv'
<1>1. PICK n \in 0 .. Cap : \E idx \in [1 .. n -> DOMAIN log] :
        LET tail == [i \in 1 .. n |-> log[idx[i]]]
        IN  /\ seq' = Newest + 1
            /\ high' = Newest
            /\ sealed' = ~Verifies(tail)
            /\ ring' = IF Verifies(tail) THEN [i \in 1 .. n |-> Entry(tail[i], FALSE)]
                       ELSE <<>>
            /\ calm' = TRUE
  BY DEF BootRead
<1>2. PICK idx \in [1 .. n -> DOMAIN log] :
        LET tail == [i \in 1 .. n |-> log[idx[i]]]
        IN  /\ seq' = Newest + 1
            /\ high' = Newest
            /\ sealed' = ~Verifies(tail)
            /\ ring' = IF Verifies(tail) THEN [i \in 1 .. n |-> Entry(tail[i], FALSE)]
                       ELSE <<>>
            /\ calm' = TRUE
  BY <1>1
<1>. DEFINE tail == [i \in 1 .. n |-> log[idx[i]]]
            full == [i \in 1 .. n |-> Entry(tail[i], FALSE)]
<1>3. Newest \in Nat /\ \A s \in DOMAIN log : s \in Nat /\ s <= Newest
  BY NewestIsNewest DEF IInv, AuditTypeOK
<1>4. n \in Nat /\ n <= Cap /\ Cap \in Nat
  BY AuditAssumption
<1>5. \A i \in 1 .. n : /\ idx[i] \in DOMAIN log
                        /\ full[i].seq = idx[i] /\ to_record(full[i]) = log[idx[i]]
  BY DEF IInv, AuditTypeOK, Records, Entry, to_record
<1>6. (\E S : full \in Seq(S)) /\ Len(full) = n
  <2>. DEFINE S == {full[i] : i \in 1 .. n}
  <2>1. full \in [1 .. n -> S]
    OBVIOUS
  <2>. HIDE DEF full, S
  <2>2. full \in Seq(S) /\ Len(full) = n
    BY <1>4, <2>1
  <2>. QED  BY <2>2
<1>7. /\ seq' = Newest + 1 /\ high' = Newest /\ calm' = TRUE
      /\ sealed' \in BOOLEAN
      /\ sealed' => ring' = <<>>
      /\ ~sealed' => ring' = full
  BY <1>2
<1>. HIDE DEF tail, full
<1>8. UNCHANGED <<log, other, clear>> /\ up' = TRUE /\ sink' = TRUE /\ lock' = NoOne
  BY DEF Boot
<1>9. pc' = [t \in Threads |-> "idle"] /\ top' = [t \in Threads |-> 0]
  BY DEF Boot
<1>10. /\ \E S : ring' \in Seq(S)
       /\ Len(ring') \in Nat /\ Len(ring') <= n
       /\ \A i \in 1 .. Len(ring') : i \in 1 .. n /\ ~sealed' /\ ring'[i] = full[i]
  <2>1. CASE sealed'
    <3>1. ring' \in Seq({}) /\ Len(ring') = 0
      BY <1>7, <2>1
    <3>. QED  BY <1>4, <3>1
  <2>2. CASE ~sealed'
    BY <1>4, <1>6, <1>7, <2>2
  <2>. QED  BY <2>1, <2>2
<1>11. AuditTypeOK'
  BY <1>3, <1>4, <1>7, <1>8, <1>9, <1>10 DEF IInv, AuditTypeOK
<1>12. HasNewest' /\ Records' /\ Discipline' /\ LooksClear'
  BY <1>8, <1>9 DEF IInv, HasNewest, Records, to_record, Discipline, LooksClear
<1>13. RingOK'
  BY <1>3, <1>5, <1>7, <1>10 DEF RingOK
<1>14. Agree'
  <2>1. \A s \in DOMAIN log' : s <= high' + 1 /\ s < seq'
    BY <1>3, <1>7, <1>8
  <2>2. \A i \in 1 .. Len(ring') : to_record(ring'[i]) = log'[ring'[i].seq]
    BY <1>5, <1>8, <1>10
  <2>3. \A i, j \in 1 .. Len(ring') :
           ring'[i].seq = ring'[j].seq => to_record(ring'[i]) = to_record(ring'[j])
    BY <2>2
  <2>. QED  BY <2>1, <2>2, <2>3, Zenon DEF Agree, to_record
<1>. QED  BY <1>11, <1>12, <1>13, <1>14 DEF IInv

(* A boot that could not read, and the end of the process: an empty ring. *)
LEMMA EmptyRing ==
    ASSUME AuditTypeOK', HasNewest', Records', Discipline', LooksClear', ring' = <<>>, sealed' \/ ~up'
    PROVE  IInv'
<1>1. Len(ring') = 0 /\ ring' \in Seq({})
  OBVIOUS
<1>2. RingOK'
  BY <1>1 DEF RingOK
<1>3. Agree'
  BY DEF Agree
<1>. QED  BY <1>2, <1>3 DEF IInv

LEMMA BootBlindIInv ==
    ASSUME IInv, Boot, BootBlind
    PROVE  IInv'
<1>. USE DEF Boot, BootBlind, Fault
<1>1. AuditTypeOK'
  <2>1. Len(ring') = 0 /\ Cap \in Nat
    BY AuditAssumption
  <2>2. {up, sealed, sink, clear, calm}' \subseteq BOOLEAN
    BY DEF IInv, AuditTypeOK
  <2>3. (pc \in [Threads -> {"idle", "valve", "lock", "reconcile", "check", "append"}])'
    OBVIOUS
  <2>. QED  BY <2>1, <2>2, <2>3 DEF IInv, AuditTypeOK
<1>2. HasNewest' /\ Records' /\ Discipline' /\ LooksClear'
  BY DEF IInv, HasNewest, Records, to_record, Discipline, LooksClear
<1>. QED  BY <1>1, <1>2, EmptyRing

LEMMA CrashIInv == IInv /\ Crash => IInv'
<1>. SUFFICES ASSUME IInv, Crash PROVE IInv'
  OBVIOUS
<1>. USE DEF Crash
<1>1. AuditTypeOK'
  <2>1. Len(ring') = 0 /\ Cap \in Nat
    BY AuditAssumption
  <2>2. {up, sealed, sink, clear, calm}' \subseteq BOOLEAN
    BY DEF IInv, AuditTypeOK
  <2>3. (pc \in [Threads -> {"idle", "valve", "lock", "reconcile", "check", "append"}])'
    OBVIOUS
  <2>. QED  BY <2>1, <2>2, <2>3 DEF IInv, AuditTypeOK
<1>2. HasNewest' /\ Records' /\ Discipline' /\ LooksClear'
  BY DEF IInv, HasNewest, Records, to_record, Discipline, LooksClear
<1>. QED  BY <1>1, <1>2, EmptyRing

(* The predecessors of a rebased ring q, written without recursion. *)
Links(f, n, q, from, anchor) ==
    f = [i \in 1 .. n |->
            IF i = 1 THEN anchor
            ELSE Digest(f[i - 1], from + (i - 1) - 1, q[i - 1].what)]

(* There are such, for a ring of any length: the shortest for which there  *)
(* were none would be one longer than one that has them.                   *)
LEMMA LinksExist ==
    ASSUME NEW q, NEW from, NEW anchor
    PROVE  \A n \in Nat : \E f : Links(f, n, q, from, anchor)
<1>. DEFINE Bad == {n \in Nat : ~ \E f : Links(f, n, q, from, anchor)}
<1>. SUFFICES ASSUME Bad # {} PROVE FALSE
  OBVIOUS
<1>1. PICK m \in Bad : \A k \in Bad : ~(<<k, m>> \in OpToRel(<, Nat))
  BY WFMin, NatLessThanWellFounded
<1>2. m \in Nat /\ \A k \in Nat : k < m => \E f : Links(f, k, q, from, anchor)
  BY <1>1 DEF OpToRel
<1>3. CASE m = 0
  <2>. DEFINE g == [i \in 1 .. 0 |-> anchor]
  <2>1. g = [i \in 1 .. 0 |->
                IF i = 1 THEN anchor
                ELSE Digest(g[i - 1], from + (i - 1) - 1, q[i - 1].what)]
    OBVIOUS
  <2>2. Links(g, 0, q, from, anchor)
    BY <2>1 DEF Links
  <2>. QED  BY <1>1, <1>3, <2>2
<1>4. CASE m # 0
  <2>1. m - 1 \in Nat /\ m - 1 < m
    BY <1>2, <1>4
  <2>2. PICK f : Links(f, m - 1, q, from, anchor)
    BY <1>2, <2>1
  <2>. DEFINE g == [i \in 1 .. m |-> IF i = 1 THEN anchor
                       ELSE Digest(f[i - 1], from + (i - 1) - 1, q[i - 1].what)]
  <2>3. \A i \in 1 .. m - 1 : f[i] = IF i = 1 THEN anchor
                       ELSE Digest(f[i - 1], from + (i - 1) - 1, q[i - 1].what)
    BY <2>1, <2>2 DEF Links
  <2>4. \A i \in 1 .. m - 1 : g[i] = f[i]
    BY <1>2, <2>1, <2>3
  <2>5. \A i \in 1 .. m : i # 1 => i - 1 \in 1 .. m - 1
    BY <1>2
  <2>6. g = [i \in 1 .. m |->
                IF i = 1 THEN anchor
                ELSE Digest(g[i - 1], from + (i - 1) - 1, q[i - 1].what)]
    BY <2>4, <2>5
  <2>. HIDE DEF g
  <2>7. Links(g, m, q, from, anchor)
    BY <2>6 DEF Links
  <2>. QED  BY <1>1, <2>7
<1>. QED  BY <1>3, <1>4

(* A rebased ring has consecutive numbers from `from` on, holds the same   *)
(* mutations and is chained anew, to the anchor and then entry to entry.   *)
LEMMA RebasedShape ==
    ASSUME RingOK, NEW from \in Nat
    PROVE  \A anchor : ring' = Rebased(1, from, anchor) =>
              /\ \E S : ring' \in Seq(S)
              /\ Len(ring') = Len(ring)
              /\ \A i \in 1 .. Len(ring) :
                    /\ ring'[i].seq = from + i - 1 /\ ring'[i].what = ring[i].what
                    /\ ring'[i].hash = Digest(ring'[i].prev, ring'[i].seq, ring'[i].what)
                    /\ ring'[i].prev = IF i = 1 THEN anchor ELSE ring'[i - 1].hash
<1>. SUFFICES ASSUME NEW anchor, ring' = Rebased(1, from, anchor)
              PROVE  /\ \E S : ring' \in Seq(S)
                     /\ Len(ring') = Len(ring)
                     /\ \A i \in 1 .. Len(ring) :
                           /\ ring'[i].seq = from + i - 1 /\ ring'[i].what = ring[i].what
                           /\ ring'[i].hash = Digest(ring'[i].prev, ring'[i].seq, ring'[i].what)
                           /\ ring'[i].prev = IF i = 1 THEN anchor ELSE ring'[i - 1].hash
  OBVIOUS
<1>1. Len(ring) \in Nat
  BY DEF RingOK
<1>. DEFINE prev[i \in 1 .. Len(ring)] ==
               IF i = 1 THEN anchor
               ELSE Digest(prev[i - 1], from + (i - 1) - 1, ring[i - 1].what)
<1>2. ring' = [i \in 1 .. Len(ring) |->
                 IF i < 1 THEN ring[i]
                 ELSE Entry(Rec(prev[i], from + i - 1, ring[i].what), TRUE)]
  BY DEF Rebased
<1>3. prev = [i \in 1 .. Len(ring) |->
                 IF i = 1 THEN anchor
                 ELSE Digest(prev[i - 1], from + (i - 1) - 1, ring[i - 1].what)]
  <2>1. \E f : f = [i \in 1 .. Len(ring) |->
                 IF i = 1 THEN anchor
                 ELSE Digest(f[i - 1], from + (i - 1) - 1, ring[i - 1].what)]
    <3>1. \E f : Links(f, Len(ring), ring, from, anchor)
      BY <1>1, LinksExist
    <3>. QED  BY <3>1 DEF Links
  <2>2. prev = CHOOSE f : f = [i \in 1 .. Len(ring) |->
                 IF i = 1 THEN anchor
                 ELSE Digest(f[i - 1], from + (i - 1) - 1, ring[i - 1].what)]
    OBVIOUS
  <2>. HIDE DEF prev
  <2>. QED  BY <2>1, <2>2, Zenon
<1>. HIDE DEF prev
<1>4. DOMAIN ring' = 1 .. Len(ring) /\ ring' = [i \in 1 .. Len(ring) |-> ring'[i]]
  BY <1>2
<1>5. \A i \in 1 .. Len(ring) :
         /\ ring'[i].seq = from + i - 1 /\ ring'[i].what = ring[i].what
         /\ ring'[i].prev = prev[i]
         /\ ring'[i].hash = Digest(prev[i], from + i - 1, ring[i].what)
  BY <1>1, <1>2 DEF Entry, Rec
<1>6. \A i \in 1 .. Len(ring) : ring'[i].prev = IF i = 1 THEN anchor ELSE ring'[i - 1].hash
  <2>. TAKE i \in 1 .. Len(ring)
  <2>1. prev[i] = IF i = 1 THEN anchor
                  ELSE Digest(prev[i - 1], from + (i - 1) - 1, ring[i - 1].what)
    BY <1>3
  <2>2. i # 1 => i - 1 \in 1 .. Len(ring)
    BY <1>1
  <2>. QED  BY <1>5, <2>1, <2>2
<1>7. (\E S : ring' \in Seq(S)) /\ Len(ring') = Len(ring)
  <2>. DEFINE S == {ring'[i] : i \in 1 .. Len(ring)}
  <2>1. ring' \in [1 .. Len(ring) -> S]
    BY <1>4
  <2>. HIDE DEF S
  <2>2. ring' \in Seq(S) /\ Len(ring') = Len(ring)
    BY <1>1, <2>1
  <2>. QED  BY <2>2
<1>. QED  BY <1>5, <1>6, <1>7

(* After the rebase every number in the ring is above the store's. *)
LEMMA ReconcileIInv ==
    ASSUME IInv, NEW t \in Threads, Reconcile(t)
    PROVE  IInv'
<1>1. PICK first \in 1 .. Len(ring) :
        LET from   == fetch_max(Newest + 1, ring[first].seq)
            anchor == IF from = Newest + 1 THEN NewestHash ELSE ring[first].prev
            last   == from + Len(ring) - first
        IN  /\ ring[first].here /\ \A i \in 1 .. first - 1 : ~ring[i].here
            /\ ring' = Rebased(first, from, anchor)
            /\ top' = [top EXCEPT ![t] = last]
            /\ seq' = fetch_max(seq, last + 1)
  BY DEF Reconcile
<1>. DEFINE from == fetch_max(Newest + 1, ring[first].seq)
            last == from + Len(ring) - first
<1>2. Newest \in Nat /\ \A s \in DOMAIN log : s \in Nat /\ s <= Newest
  BY NewestIsNewest DEF IInv, AuditTypeOK
<1>3. Len(ring) \in Nat /\ Len(ring) >= 1
  BY DEF IInv, RingOK
<1>4. sealed
  BY DEF IInv, Discipline, Reconcile
<1>5. first = 1
  BY <1>1, <1>3, <1>4 DEF IInv, RingOK
<1>6. from \in Nat /\ from >= Newest + 1
  BY <1>2 DEF IInv, RingOK, fetch_max
<1>7. ring' = Rebased(1, from, IF from = Newest + 1 THEN NewestHash ELSE ring[first].prev)
  BY <1>1, <1>5
<1>8. /\ top' = [top EXCEPT ![t] = last]
      /\ seq' = fetch_max(seq, last + 1)
  BY <1>1
<1>. HIDE DEF from
<1>9. /\ \E S : ring' \in Seq(S)
      /\ Len(ring') = Len(ring)
      /\ \A i \in 1 .. Len(ring) : ring'[i].seq = from + i - 1
  BY <1>6, <1>7, RebasedShape DEF IInv
<1>10. last \in Nat /\ last >= Newest + 1 /\ last = from + Len(ring) - 1
  BY <1>2, <1>3, <1>5, <1>6
<1>. HIDE DEF last
<1>11. seq' \in Nat /\ seq' >= last + 1 /\ seq' >= seq
  BY <1>8, <1>10 DEF IInv, AuditTypeOK, fetch_max
<1>12. high' \in Nat /\ high' >= Newest /\ high' < seq'
  BY <1>2, <1>10, <1>11 DEF IInv, AuditTypeOK, fetch_max, Reconcile
<1>13. UNCHANGED <<log, up, sink, lock, other, clear, calm>> /\ sealed' = FALSE
  BY DEF Reconcile, ghosts
<1>14. pc' = [pc EXCEPT ![t] = "check"]
  BY DEF Reconcile, Goto
<1>15. AuditTypeOK'
  BY <1>3, <1>8, <1>9, <1>10, <1>11, <1>12, <1>13, <1>14 DEF IInv, AuditTypeOK
<1>16. HasNewest' /\ Records'
  BY <1>13 DEF IInv, HasNewest, Records, to_record
<1>17. Discipline' /\ LooksClear'
  <2>1. pc[t] = "reconcile" /\ lock = t /\ ~clear /\ up
    BY DEF IInv, Discipline, LooksClear, Reconcile
  <2>. QED  BY <1>13, <1>14, <2>1 DEF IInv, AuditTypeOK, Discipline, LooksClear
<1>18. RingOK'
  BY <1>3, <1>6, <1>9, <1>10, <1>11, <1>13 DEF RingOK
<1>19. Agree'
  <2>1. \A s \in DOMAIN log' : s <= high' + 1 /\ s < seq'
    BY <1>2, <1>10, <1>11, <1>12, <1>13
  <2>2. \A i \in 1 .. Len(ring') : ring'[i].seq \notin DOMAIN log'
    BY <1>2, <1>3, <1>6, <1>9, <1>13
  <2>3. \A i, j \in 1 .. Len(ring') : ring'[i].seq = ring'[j].seq => i = j
    BY <1>3, <1>6, <1>9
  <2>. QED  BY <2>1, <2>2, <2>3, Zenon DEF Agree, to_record
<1>. QED  BY <1>15, <1>16, <1>17, <1>18, <1>19 DEF IInv

(* The record the catch-up stores: what it changes, and that with no other *)
(* writer, or past a check of the tail, it replaces nothing.               *)
LEMMA StoredShape ==
    ASSUME IInv, NEW t \in Threads, pc[t] = "append", Stored(high + 1)
    PROVE  /\ DOMAIN log' = DOMAIN log \cup {high + 1}
           /\ \A s \in DOMAIN log : s # high + 1 => log'[s] = log[s]
           /\ \A s \in DOMAIN log' : s \in Nat /\ log'[s].seq = s
           /\ HasNewest' /\ Records'
           /\ high + 1 < seq
           /\ other = "none" \/ clear => \A s \in DOMAIN log : log'[s] = log[s]
           /\ other = "none" => \A i \in 1 .. Len(ring) :
                 ring[i].seq = high + 1 => to_record(ring[i]) = log'[high + 1]
<1>1. PICK i \in 1 .. Len(ring) : ring[i].seq = high + 1 /\ log' = Upsert(to_record(ring[i]))
  BY DEF Stored, HeldAt
<1>. DEFINE r == to_record(ring[i])
<1>2. r.seq = high + 1 /\ high + 1 \in Nat /\ high + 1 < seq
  BY <1>1 DEF to_record, IInv, AuditTypeOK, RingOK
<1>3. /\ DOMAIN log' = DOMAIN log \cup {r.seq}
      /\ log'[r.seq] = r
      /\ \A s \in DOMAIN log : s # r.seq => log'[s] = log[s]
      /\ \A s \in DOMAIN log' : s \in Nat /\ log'[s].seq = s
      /\ HasNewest'
  BY <1>1, <1>2, UpsertShape DEF IInv
<1>4. r = to_record(r)
  BY DEF to_record
<1>. HIDE DEF r
<1>5. \A s \in DOMAIN log' : log'[s] = to_record(log'[s])
  BY <1>2, <1>3, <1>4 DEF IInv, Records
<1>6. Records'
  BY <1>5 DEF Records, to_record
<1>7. up /\ ~sealed
  BY DEF IInv, Discipline
<1>8. other = "none" => \A j \in 1 .. Len(ring) :
         ring[j].seq = high + 1 => to_record(ring[j]) = r
  BY <1>1, <1>7 DEF r, IInv, Agree
<1>9. other = "none" /\ high + 1 \in DOMAIN log => log[high + 1] = r
  BY <1>1, <1>7 DEF r, IInv, Agree
<1>10. clear => high + 1 \notin DOMAIN log
  BY DEF IInv, LooksClear, AuditTypeOK
<1>. QED  BY <1>2, <1>3, <1>6, <1>8, <1>9, <1>10

LEMMA AppendOkIInv ==
    ASSUME IInv, NEW t \in Threads, AppendOk(t)
    PROVE  IInv'
<1>1. pc[t] = "append" /\ Stored(high + 1) /\ high' = high + 1
  BY DEF AppendOk
<1>2. UNCHANGED <<up, ring, seq, sealed, sink, top, other, clear, calm>>
  BY DEF AppendOk, ghosts
<1>3. /\ DOMAIN log' = DOMAIN log \cup {high + 1}
      /\ \A s \in DOMAIN log : s # high + 1 => log'[s] = log[s]
      /\ \A s \in DOMAIN log' : s \in Nat /\ log'[s].seq = s
      /\ HasNewest' /\ Records'
      /\ high + 1 < seq
      /\ other = "none" => \A i \in 1 .. Len(ring) :
            ring[i].seq = high + 1 => to_record(ring[i]) = log'[high + 1]
  BY <1>1, StoredShape
<1>4. AuditTypeOK'
  BY <1>1, <1>2, <1>3 DEF IInv, AuditTypeOK, AppendOk, Leave, Goto
<1>5. Discipline'
  BY <1>2 DEF IInv, AuditTypeOK, Discipline, AppendOk, Leave, Goto
<1>6. LooksClear'
  BY <1>1, <1>2, <1>3 DEF IInv, AuditTypeOK, Discipline, LooksClear, AppendOk, Leave, Goto
<1>7. RingOK'
  BY <1>2 DEF IInv, RingOK
<1>8. Agree'
  <2>. SUFFICES ASSUME up', ~sealed', other' = "none" PROVE Agree'
    BY DEF Agree
  <2>1. \A s \in DOMAIN log' : s <= high' + 1 /\ s < seq'
    BY <1>1, <1>2, <1>3 DEF IInv, AuditTypeOK, Agree
  <2>2. \A i \in 1 .. Len(ring') :
           ring'[i].seq \in DOMAIN log' => to_record(ring'[i]) = log'[ring'[i].seq]
    BY <1>2, <1>3 DEF IInv, Agree
  <2>3. \A i, j \in 1 .. Len(ring') :
           ring'[i].seq = ring'[j].seq => to_record(ring'[i]) = to_record(ring'[j])
    BY <1>2 DEF IInv, Agree
  <2>. QED  BY <2>1, <2>2, <2>3, Zenon DEF Agree, to_record
<1>. QED  BY <1>3, <1>4, <1>5, <1>6, <1>7, <1>8 DEF IInv

(* Nothing was stored, or the record was and its answer was lost. *)
LEMMA AppendFailsIInv ==
    ASSUME IInv, NEW t \in Threads, AppendFails(t)
    PROVE  IInv'
<1>1. pc[t] = "append" /\ (UNCHANGED log \/ Stored(high + 1))
  BY DEF AppendFails
<1>2. UNCHANGED <<up, ring, seq, high, sealed, sink, top, other, clear>>
  BY DEF AppendFails
<1>3. AuditTypeOK' /\ HasNewest' /\ Records'
  <2>1. (\A s \in DOMAIN log' : s \in Nat /\ log'[s].seq = s) /\ HasNewest' /\ Records'
    <3>1. CASE UNCHANGED log
      BY <3>1 DEF IInv, AuditTypeOK, HasNewest, Records, to_record
    <3>2. CASE Stored(high + 1)
      BY <1>1, <3>2, StoredShape
    <3>. QED  BY <1>1, <3>1, <3>2
  <2>. QED  BY <1>2, <2>1 DEF IInv, AuditTypeOK, AppendFails, Fault, Leave, Goto
<1>4. Discipline'
  BY <1>2 DEF IInv, AuditTypeOK, Discipline, AppendFails, Leave, Goto
<1>5. LooksClear'
  <2>1. \A u \in Threads : pc'[u] \in {"reconcile", "check", "append"} => FALSE
    BY <1>1 DEF IInv, AuditTypeOK, Discipline, AppendFails, Leave, Goto
  <2>. QED  BY <2>1 DEF LooksClear
<1>6. RingOK'
  BY <1>2 DEF IInv, RingOK
<1>7. Agree'
  <2>1. CASE UNCHANGED log
    BY <1>2, <2>1, ZenonT(40) DEF IInv, Agree, to_record
  <2>2. CASE Stored(high + 1)
    <3>1. /\ DOMAIN log' = DOMAIN log \cup {high + 1}
          /\ \A s \in DOMAIN log : s # high + 1 => log'[s] = log[s]
          /\ high + 1 < seq
          /\ other = "none" => \A i \in 1 .. Len(ring) :
                ring[i].seq = high + 1 => to_record(ring[i]) = log'[high + 1]
      BY <1>1, <2>2, StoredShape
    <3>. SUFFICES ASSUME up', ~sealed', other' = "none" PROVE Agree'
      BY DEF Agree
    <3>2. \A s \in DOMAIN log' : s <= high' + 1 /\ s < seq'
      BY <1>2, <3>1 DEF IInv, AuditTypeOK, Agree
    <3>3. \A i \in 1 .. Len(ring') :
             ring'[i].seq \in DOMAIN log' => to_record(ring'[i]) = log'[ring'[i].seq]
      BY <1>2, <3>1 DEF IInv, Agree
    <3>4. \A i, j \in 1 .. Len(ring') :
             ring'[i].seq = ring'[j].seq => to_record(ring'[i]) = to_record(ring'[j])
      BY <1>2 DEF IInv, Agree
    <3>. QED  BY <3>2, <3>3, <3>4, Zenon DEF Agree, to_record
  <2>. QED  BY <1>1, <2>1, <2>2
<1>. QED  BY <1>3, <1>4, <1>5, <1>6, <1>7 DEF IInv

(* Somebody else writes: nothing is claimed of the ring from then on. *)
LEMMA OtherWriterIInv == IInv /\ OtherWriter => IInv'
<1>. SUFFICES ASSUME IInv, OtherWriter PROVE IInv'
  OBVIOUS
<1>1. Newest \in Nat
  BY NewestIsNewest DEF IInv
<1>2. PICK s \in {Newest, Newest + 1} \ {0} :
        log' = Upsert(Rec(IF s - 1 \in DOMAIN log THEN log[s - 1].hash ELSE NoHash, s, 0))
  BY DEF OtherWriter
<1>. DEFINE r == Rec(IF s - 1 \in DOMAIN log THEN log[s - 1].hash ELSE NoHash, s, 0)
<1>3. r.seq = s /\ s \in Nat /\ r = to_record(r)
  BY <1>1 DEF Rec, to_record
<1>. log' = Upsert(r)
  BY <1>2
<1>. HIDE DEF r
<1>4. /\ DOMAIN log' = DOMAIN log \cup {r.seq}
      /\ log'[r.seq] = r
      /\ \A u \in DOMAIN log : u # r.seq => log'[u] = log[u]
      /\ \A u \in DOMAIN log' : u \in Nat /\ log'[u].seq = u
      /\ HasNewest'
  BY <1>3, UpsertShape DEF IInv
<1>5. \A u \in DOMAIN log' : log'[u] = to_record(log'[u])
  BY <1>3, <1>4 DEF IInv, Records
<1>6. Records'
  BY <1>5 DEF Records, to_record
<1>7. /\ UNCHANGED <<up, ring, seq, high, sealed, sink, lock, pc, top, calm>>
      /\ other' = "writer" /\ clear' = FALSE
  BY DEF OtherWriter
<1>8. AuditTypeOK'
  BY <1>4, <1>7 DEF IInv, AuditTypeOK
<1>9. Discipline' /\ RingOK' /\ Agree' /\ LooksClear'
  BY <1>7 DEF IInv, Discipline, RingOK, Agree, LooksClear
<1>. QED  BY <1>4, <1>6, <1>8, <1>9 DEF IInv

LEMMA TamperIInv == IInv /\ Tamper => IInv'
<1>. SUFFICES ASSUME IInv, Tamper PROVE IInv'
  OBVIOUS
<1>1. PICK s \in DOMAIN log : log' = [log EXCEPT ![s].what = 0]
  BY DEF Tamper
<1>2. log[s] = [seq |-> log[s].seq, what |-> log[s].what,
                prev |-> log[s].prev, hash |-> log[s].hash]
  BY DEF IInv, Records, to_record
<1>3. log'[s] = [seq |-> log[s].seq, what |-> 0, prev |-> log[s].prev, hash |-> log[s].hash]
  <2>1. log'[s] = [log[s] EXCEPT !.what = 0]
    BY <1>1
  <2>. QED  BY <1>2, <2>1
<1>4. DOMAIN log' = DOMAIN log /\ \A u \in DOMAIN log : u # s => log'[u] = log[u]
  BY <1>1
<1>5. \A u \in DOMAIN log' : /\ u \in Nat /\ log'[u].seq = u
                             /\ log'[u] = to_record(log'[u])
  BY <1>3, <1>4 DEF IInv, AuditTypeOK, Records, to_record
<1>6. Records'
  BY <1>5 DEF Records, to_record
<1>7. HasNewest'
  BY <1>4 DEF IInv, HasNewest
<1>8. /\ UNCHANGED <<up, ring, seq, high, sealed, sink, lock, pc, top, calm>>
      /\ other' = "tampered" /\ clear' = FALSE
  BY DEF Tamper
<1>9. AuditTypeOK'
  BY <1>5, <1>8 DEF IInv, AuditTypeOK
<1>10. Discipline' /\ RingOK' /\ Agree' /\ LooksClear'
  BY <1>8 DEF IInv, Discipline, RingOK, Agree, LooksClear
<1>. QED  BY <1>6, <1>7, <1>9, <1>10 DEF IInv

LEMMA StutterIInv == IInv /\ UNCHANGED auditVars => IInv'
<1>. SUFFICES ASSUME IInv, UNCHANGED auditVars PROVE IInv'
  OBVIOUS
<1>. USE DEF auditVars
<1>1. AuditTypeOK' /\ Discipline' /\ LooksClear'
  BY DEF IInv, AuditTypeOK, Discipline, LooksClear
<1>. QED  BY <1>1, FrameIInv

LEMMA NextIInv == IInv /\ [AuditNext]_auditVars => IInv'
<1>. SUFFICES ASSUME IInv, [AuditNext]_auditVars PROVE IInv'
  OBVIOUS
<1>1. CASE Boot
  BY <1>1, BootReadIInv, BootBlindIInv DEF Boot
<1>2. CASE Crash
  BY <1>2, CrashIInv
<1>3. CASE OtherWriter \/ Tamper
  BY <1>3, OtherWriterIInv, TamperIInv
<1>4. CASE \E t \in Recorders : Push(t) \/ Valve(t)
  BY <1>4, PushIInv, ValveIInv
<1>5. CASE Flush
  BY <1>5, FlushIInv
<1>6. ASSUME NEW t \in Threads, WriteThrough(t) PROVE IInv'
  BY <1>6, EnterIInv, ReconcileIInv, ReconcileFailsIInv, CheckIInv, HoleIInv,
     AppendOkIInv, AppendFailsIInv DEF WriteThrough
<1>7. CASE UNCHANGED auditVars
  BY <1>7, StutterIInv
<1>. QED  BY <1>1, <1>2, <1>3, <1>4, <1>5, <1>6, <1>7 DEF AuditNext

-----------------------------------------------------------------------------
(* The invariant behind the write-through holds in every reachable state. *)
LEMMA AuditInvariant == AuditSpec => []IInv
<1>1. AuditInit => IInv
  BY InitIInv
<1>2. IInv /\ [AuditNext]_auditVars => IInv'
  BY NextIInv
<1>. QED  BY <1>1, <1>2, PTL DEF AuditSpec

(* The audit log's state is well formed: durable_high stays below the next *)
(* number, the ring within its bound and every row under its own seq.      *)
THEOREM AuditTypes == AuditSpec => []AuditTypeOK
<1>1. IInv => AuditTypeOK
  BY DEF IInv
<1>. QED  BY <1>1, AuditInvariant, PTL

(* No step of durable_write_through, of a boot or of a recorder replaces   *)
(* or removes a durable record, unless another process wrote to the log    *)
(* after this write-through looked at its tail.                            *)
THEOREM AuditAppendOnly == AuditSpec => AppendOnly
<1>. DEFINE Endures == \A s \in DOMAIN log :
          s \in DOMAIN log' /\ (log'[s] = log[s] \/ (other' # "none" /\ ~clear'))
<1>1. IInv /\ [AuditNext]_auditVars => [Endures]_auditVars
  <2>. SUFFICES ASSUME IInv, AuditNext PROVE Endures
    OBVIOUS
  <2>1. CASE UNCHANGED log
    BY <2>1
  <2>2. CASE OtherWriter
    BY <2>2 DEF OtherWriter, Upsert
  <2>3. CASE Tamper
    BY <2>3 DEF Tamper
  <2>4. ASSUME NEW t \in Threads, pc[t] = "append", Stored(high + 1), UNCHANGED <<other, clear>>
        PROVE  Endures
    <3>1. /\ DOMAIN log' = DOMAIN log \cup {high + 1}
          /\ other = "none" \/ clear => \A s \in DOMAIN log : log'[s] = log[s]
      BY <2>4, StoredShape
    <3>. QED  BY <2>4, <3>1
  <2>5. ASSUME NEW t \in Threads, WriteThrough(t) PROVE Endures
    <3>1. CASE AppendOk(t)
      BY <2>4, <3>1 DEF AppendOk, ghosts
    <3>2. CASE AppendFails(t)
      BY <2>1, <2>4, <3>2 DEF AppendFails
    <3>3. CASE ~AppendOk(t) /\ ~AppendFails(t)
      BY <2>1, <2>5, <3>3 DEF WriteThrough, Enter, Reconcile, ReconcileFails, Check,
         CheckFails, Hole
    <3>. QED  BY <3>1, <3>2, <3>3
  <2>. QED  BY <2>1, <2>2, <2>3, <2>5 DEF AuditNext, Boot, Crash, Push, Valve, Flush
<1>2. AuditSpec => [][Endures]_auditVars
  BY <1>1, AuditInvariant, PTL DEF AuditSpec
<1>. QED  BY <1>2 DEF AppendOnly

-----------------------------------------------------------------------------
(* The numbers: the store holds a prefix of them and the ring the latest.  *)
Numbered ==
    /\ DOMAIN log = 1 .. Newest /\ high <= Newest
    /\ whats \in Nat
    /\ Len(ring) < seq
    /\ \A i \in 1 .. Len(ring) : ring[i].seq = seq - 1 - Len(ring) + i
    /\ up /\ other = "none" /\ Len(ring) = 0 => seq = 1

(* The durable chain, and the order of the mutations in it. *)
LogChain ==
    /\ \A s \in DOMAIN log :
          /\ log[s].hash = Digest(log[s].prev, s, log[s].what)
          /\ log[s].prev = IF s = 1 THEN NoHash ELSE log[s - 1].hash
          /\ log[s].what \in Nat /\ log[s].what <= whats
    /\ \A s, u \in DOMAIN log : s < u => log[s].what < log[u].what

(* The same of the ring, whose first entry follows one it no longer holds. *)
RingChain ==
    /\ \A i \in 1 .. Len(ring) :
          /\ ring[i].hash = Digest(ring[i].prev, ring[i].seq, ring[i].what)
          /\ ring[i].what \in Nat /\ ring[i].what <= whats
          /\ i > 1 => ring[i].prev = ring[i - 1].hash
    /\ \A i, j \in 1 .. Len(ring) : i < j => ring[i].what < ring[j].what

(* Where the ring takes over from the store.  Sealed, it will be renumbered *)
(* and comes after everything there.                                       *)
Joined ==
    /\ ~sealed => \A i \in 1 .. Len(ring) : ring[i].seq = high + 1 =>
          ring[i].prev = IF high = 0 THEN NoHash ELSE log[high].hash
    /\ \A i \in 1 .. Len(ring), s \in DOMAIN log :
          sealed \/ s < ring[i].seq => log[s].what < ring[i].what

ChainInv == Numbered /\ (other = "none" => LogChain /\ RingChain /\ Joined)

-----------------------------------------------------------------------------
(* The highest number of a prefix. *)
LEMMA NewestIs ==
    ASSUME NEW n \in Nat, DOMAIN log = 1 .. n
    PROVE  Newest = n
<1>1. CASE n = 0
  BY <1>1 DEF Newest
<1>2. CASE n # 0
  <2>1. n \in DOMAIN log /\ \A s \in DOMAIN log : s \in Nat /\ s <= n
    BY <1>2
  <2>2. Newest \in DOMAIN log /\ \A s \in DOMAIN log : s <= Newest
    BY <2>1 DEF Newest
  <2>3. n <= Newest /\ Newest <= n /\ Newest \in Nat
    BY <2>1, <2>2
  <2>. QED  BY <2>3
<1>. QED  BY <1>1, <1>2

LEMMA NewestWillBe ==
    ASSUME NEW n \in Nat, DOMAIN log' = 1 .. n
    PROVE  Newest' = n
<1>1. CASE n = 0
  BY <1>1 DEF Newest
<1>2. CASE n # 0
  <2>1. n \in DOMAIN log' /\ \A s \in DOMAIN log' : s \in Nat /\ s <= n
    BY <1>2
  <2>2. Newest' \in DOMAIN log' /\ \A s \in DOMAIN log' : s <= Newest'
    BY <2>1 DEF Newest
  <2>3. n <= Newest' /\ Newest' <= n /\ Newest' \in Nat
    BY <2>1, <2>2
  <2>. QED  BY <2>3
<1>. QED  BY <1>1, <1>2

LEMMA InitChain == AuditInit => ChainInv
<1>. SUFFICES ASSUME AuditInit PROVE ChainInv
  OBVIOUS
<1>1. DOMAIN log = 1 .. 0 /\ DOMAIN log = {} /\ Len(ring) = 0
  BY DEF AuditInit
<1>2. Newest = 0
  BY <1>1, NewestIs
<1>. QED  BY <1>1, <1>2 DEF AuditInit, ChainInv, Numbered, LogChain, RingChain, Joined

(* A step that leaves the ring, the store and the numbers alone. *)
LEMMA FrameChain ==
    ASSUME ChainInv, UNCHANGED <<log, up, ring, seq, high, sealed, other, whats>>
    PROVE  ChainInv'
<1>1. Newest' = Newest
  BY DEF Newest
<1>2. Numbered'
  BY <1>1 DEF ChainInv, Numbered
<1>3. other' = "none" => LogChain' /\ RingChain' /\ Joined'
  BY DEF ChainInv, LogChain, RingChain, Joined
<1>. QED  BY <1>2, <1>3 DEF ChainInv

(* Numbers of the ring: two that follow each other, and one whose place moves. *)
LEMMA NextToIt ==
    ASSUME NEW s \in Nat, NEW n \in Nat, NEW h \in Nat, NEW i \in 1 .. n, NEW j \in 1 .. n,
           h + 1 = s - 1 - n + i, h + 2 = s - 1 - n + j
    PROVE  j = i + 1 /\ i = j - 1 /\ j > 1
OBVIOUS

LEMMA MovedUp ==
    ASSUME NEW s \in Nat, NEW n \in Nat, NEW k \in Int, NEW m \in Int, m = n + 1 - k, NEW i \in Int
    PROVE  s - 1 - n + (i + k) = (s + 1) - 1 - m + i
OBVIOUS

(* The catch-up stores the entry that follows the log. *)
LEMMA StoredChain ==
    ASSUME IInv, ChainInv, NEW t \in Threads, pc[t] = "append", Stored(high + 1),
           UNCHANGED <<up, ring, seq, sealed, other, whats>>, high' \in {high, high + 1}
    PROVE  ChainInv'
<1>1. PICK i \in 1 .. Len(ring) : ring[i].seq = high + 1 /\ log' = Upsert(to_record(ring[i]))
  BY DEF Stored, HeldAt
<1>. DEFINE r == to_record(ring[i])
<1>2. /\ r.seq = high + 1 /\ high \in Nat /\ seq \in Nat
      /\ r.what = ring[i].what /\ r.prev = ring[i].prev /\ r.hash = ring[i].hash
  BY <1>1 DEF to_record, IInv, AuditTypeOK
<1>. HIDE DEF r
<1>3. /\ DOMAIN log' = DOMAIN log \cup {high + 1}
      /\ log'[high + 1] = r
      /\ \A s \in DOMAIN log : s # high + 1 => log'[s] = log[s]
  <2>1. log' = Upsert(r) /\ r.seq \in Nat
    BY <1>1, <1>2 DEF r
  <2>. QED  BY <1>2, <2>1, UpsertShape DEF IInv
<1>4. /\ DOMAIN log = 1 .. Newest /\ high <= Newest /\ Newest \in Nat
      /\ Len(ring) \in Nat
      /\ \A k \in 1 .. Len(ring) : ring[k].seq = seq - 1 - Len(ring) + k
  BY NewestIsNewest DEF ChainInv, Numbered, IInv, RingOK
<1>5. Newest' = IF high + 1 <= Newest THEN Newest ELSE high + 1
  <2>. DEFINE m == IF high + 1 <= Newest THEN Newest ELSE high + 1
  <2>1. m \in Nat /\ DOMAIN log' = 1 .. m
    BY <1>2, <1>3, <1>4
  <2>. HIDE DEF m
  <2>2. Newest' = m
    BY <2>1, NewestWillBe
  <2>. QED  BY <2>2 DEF m
<1>6. Numbered'
  <2>1. DOMAIN log' = 1 .. Newest' /\ high' <= Newest'
    BY <1>2, <1>3, <1>4, <1>5
  <2>. QED  BY <2>1 DEF ChainInv, Numbered
<1>7. ASSUME other = "none" PROVE LogChain' /\ RingChain' /\ Joined'
  <2>1. LogChain /\ RingChain /\ Joined
    BY <1>7 DEF ChainInv
  <2>2. up /\ ~sealed
    BY DEF IInv, Discipline
  <2>3. \A s \in DOMAIN log : log'[s] = log[s]
    <3>1. high + 1 \in DOMAIN log => log[high + 1] = r
      BY <1>1, <1>7, <2>2 DEF r, IInv, Agree
    <3>. QED  BY <1>3, <3>1
  <2>4. /\ r.hash = Digest(r.prev, high + 1, r.what)
        /\ r.what \in Nat /\ r.what <= whats
        /\ r.prev = IF high = 0 THEN NoHash ELSE log[high].hash
        /\ \A s \in DOMAIN log : s < high + 1 => log[s].what < r.what
    BY <1>1, <1>2, <2>1, <2>2 DEF RingChain, Joined
  <2>5. high # 0 => high \in DOMAIN log
    BY <1>2, <1>4
  <2>6. LogChain'
    <3>1. ASSUME NEW s \in DOMAIN log'
          PROVE  /\ log'[s].hash = Digest(log'[s].prev, s, log'[s].what)
                 /\ log'[s].prev = IF s = 1 THEN NoHash ELSE log'[s - 1].hash
                 /\ log'[s].what \in Nat /\ log'[s].what <= whats'
      <4>1. CASE s = high + 1
        <5>1. high # 0 => log'[high] = log[high]
          BY <2>3, <2>5
        <5>. QED  BY <1>2, <1>3, <2>4, <4>1, <5>1
      <4>2. CASE s # high + 1
        <5>1. s \in DOMAIN log /\ log'[s] = log[s]
          BY <1>3, <2>3, <4>2
        <5>2. s # 1 => s - 1 \in DOMAIN log
          BY <1>4, <5>1
        <5>3. s # 1 => log'[s - 1] = log[s - 1]
          BY <2>3, <5>2
        <5>. QED  BY <2>1, <5>1, <5>3 DEF LogChain
      <4>. QED  BY <4>1, <4>2
    <3>2. ASSUME NEW s \in DOMAIN log', NEW u \in DOMAIN log', s < u
          PROVE  log'[s].what < log'[u].what
      <4>1. s \in Nat /\ u \in Nat
        BY <1>2, <1>3, <1>4
      <4>2. CASE s \in DOMAIN log /\ u \in DOMAIN log
        BY <2>1, <2>3, <3>2, <4>2 DEF LogChain
      <4>3. CASE u = high + 1 /\ s \in DOMAIN log
        BY <1>3, <2>3, <2>4, <3>2, <4>3
      <4>4. CASE s = high + 1 /\ u # high + 1
        <5>1. u \in DOMAIN log
          BY <1>3, <4>4
        <5>2. s \in DOMAIN log
          BY <1>2, <1>4, <3>2, <4>4, <5>1
        <5>. QED  BY <4>2, <5>1, <5>2
      <4>. QED  BY <1>3, <3>2, <4>1, <4>2, <4>3, <4>4
    <3>. QED  BY <3>1, <3>2 DEF LogChain
  <2>7. RingChain'
    BY <2>1 DEF RingChain
  <2>8. Joined'
    <3>1. ASSUME NEW j \in 1 .. Len(ring'), ring'[j].seq = high' + 1
          PROVE  ring'[j].prev = IF high' = 0 THEN NoHash ELSE log'[high'].hash
      <4>1. ring' = ring /\ j \in 1 .. Len(ring)
        BY <3>1
      <4>2. CASE high' = high
        <5>1. high # 0 => log'[high] = log[high]
          BY <2>3, <2>5
        <5>. QED  BY <2>1, <2>2, <3>1, <4>1, <4>2, <5>1 DEF Joined
      <4>3. CASE high' = high + 1
        <5>1. ring[j].seq = high + 2 /\ ring[i].seq = high + 1
          BY <1>1, <1>2, <3>1, <4>1, <4>3
        <5>2. j = i + 1 /\ i = j - 1 /\ j > 1
          <6>1. /\ seq \in Nat /\ high \in Nat /\ Len(ring) \in Nat
                /\ i \in 1 .. Len(ring) /\ j \in 1 .. Len(ring)
            BY <1>1, <1>4, <4>1 DEF IInv, AuditTypeOK
          <6>2. /\ high + 1 = seq - 1 - Len(ring) + i
                /\ high + 2 = seq - 1 - Len(ring) + j
            BY <1>4, <5>1, <6>1
          <6>. QED  BY <6>1, <6>2, NextToIt
        <5>3. ring[j].prev = ring[i].hash
          BY <2>1, <4>1, <5>2 DEF RingChain
        <5>. QED  BY <1>2, <1>3, <4>1, <4>3, <5>3
      <4>. QED  BY <4>2, <4>3
    <3>2. ASSUME NEW j \in 1 .. Len(ring'), NEW s \in DOMAIN log', s < ring'[j].seq
          PROVE  log'[s].what < ring'[j].what
      <4>1. ring' = ring /\ j \in 1 .. Len(ring)
        BY <3>2
      <4>2. CASE s \in DOMAIN log
        BY <2>1, <2>3, <3>2, <4>1, <4>2 DEF Joined
      <4>3. CASE s = high + 1
        <5>1. ring[i].seq < ring[j].seq
          BY <1>1, <3>2, <4>1, <4>3
        <5>2. i < j
          BY <1>2, <1>4, <4>1, <5>1
        <5>. QED  BY <1>2, <1>3, <2>1, <4>1, <4>3, <5>2 DEF RingChain
      <4>. QED  BY <1>3, <4>2, <4>3
    <3>. QED  BY <2>2, <3>1, <3>2 DEF Joined
  <2>. QED  BY <2>6, <2>7, <2>8
<1>. QED  BY <1>6, <1>7 DEF ChainInv

(* A new entry is chained to the back of the ring, or begins the log. *)
LEMMA PushChain ==
    ASSUME IInv, ChainInv, NEW t \in Recorders, Push(t)
    PROVE  ChainInv'
<1>. DEFINE prev == IF ring = <<>> THEN NoHash ELSE ring[Len(ring)].hash
            e    == Entry(Rec(prev, seq, whats + 1), TRUE)
            k    == IF Len(ring) >= Cap THEN 1 ELSE 0
            L    == Len(ring)
            M    == Len(ring) + 1 - k
<1>1. /\ \E S : ring' \in Seq(S)
      /\ Len(ring') \in Nat /\ Len(ring') >= 1
      /\ ring'[Len(ring')] = e
      /\ Len(ring') = M
      /\ \A i \in 1 .. L - k : ring'[i] = ring[i + k]
  BY PushShape DEF IInv, Push
<1>2. /\ e.seq = seq /\ e.what = whats + 1 /\ e.prev = prev
      /\ e.hash = Digest(prev, seq, whats + 1)
  BY DEF Entry, Rec
<1>3. /\ L \in Nat /\ seq \in Nat /\ high \in Nat /\ high < seq /\ whats \in Nat /\ L < seq
      /\ Cap \in Nat /\ Cap >= 1
      /\ L = 0 <=> ring = <<>>
      /\ DOMAIN log = 1 .. Newest /\ high <= Newest /\ Newest \in Nat
      /\ \A i \in 1 .. L : ring[i].seq = seq - 1 - L + i
  BY NewestIsNewest, AuditAssumption DEF IInv, RingOK, AuditTypeOK, ChainInv, Numbered
<1>4. UNCHANGED <<log, up, high, sealed, other>> /\ seq' = seq + 1 /\ whats' = whats + 1 /\ up
  BY DEF Push
<1>5. k \in {0, 1} /\ (k = 1 => L >= 1) /\ M \in Nat /\ M = L + 1 - k /\ M >= 1
  BY <1>3
<1>6. Newest' = Newest
  BY <1>4 DEF Newest
<1>. HIDE DEF e, k, L, M
<1>7. \A i \in 1 .. M : \/ i = M /\ ring'[i] = e
                        \/ i < M /\ i + k \in 1 .. L /\ ring'[i] = ring[i + k]
  BY <1>1, <1>3, <1>5
<1>8. Numbered'
  <2>1. \A i \in 1 .. M : ring'[i].seq = seq' - 1 - M + i
    <3>. TAKE i \in 1 .. M
    <3>1. CASE i = M /\ ring'[i] = e
      BY <1>2, <1>3, <1>4, <1>5, <3>1
    <3>2. CASE i < M /\ i + k \in 1 .. L /\ ring'[i] = ring[i + k]
      <4>1. ring[i + k].seq = seq - 1 - L + (i + k)
        BY <1>3, <3>2
      <4>2. seq - 1 - L + (i + k) = (seq + 1) - 1 - M + i
        <5>1. i \in Int
          OBVIOUS
        <5>. QED  BY <1>3, <1>5, <5>1, MovedUp
      <4>. QED  BY <1>4, <3>2, <4>1, <4>2
    <3>. QED  BY <1>7, <3>1, <3>2
  <2>2. M < seq' /\ M # 0
    BY <1>3, <1>4, <1>5
  <2>. QED  BY <1>1, <1>3, <1>4, <1>6, <2>1, <2>2 DEF Numbered
<1>9. ASSUME other = "none" PROVE LogChain' /\ RingChain' /\ Joined'
  <2>1. LogChain /\ RingChain /\ Joined
    BY <1>9 DEF ChainInv
  <2>2. LogChain'
    BY <1>3, <1>4, <2>1 DEF LogChain
  <2>3. \A i \in 1 .. L : ring[i].what \in Nat /\ ring[i].what <= whats
    BY <2>1 DEF RingChain, L
  <2>4. RingChain'
    <3>1. ASSUME NEW i \in 1 .. M
          PROVE  /\ ring'[i].hash = Digest(ring'[i].prev, ring'[i].seq, ring'[i].what)
                 /\ ring'[i].what \in Nat /\ ring'[i].what <= whats'
                 /\ i > 1 => ring'[i].prev = ring'[i - 1].hash
      <4>1. CASE i = M /\ ring'[i] = e
        <5>1. i > 1 => ring'[i - 1] = ring[L] /\ ring # <<>>
          <6>. SUFFICES ASSUME i > 1 PROVE ring'[i - 1] = ring[L] /\ ring # <<>>
            OBVIOUS
          <6>1. i - 1 \in 1 .. M /\ i - 1 # M /\ (i - 1) + k = L
            BY <1>5, <1>3, <4>1
          <6>2. (i - 1) + k \in 1 .. L /\ ring'[i - 1] = ring[(i - 1) + k]
            BY <1>7, <6>1
          <6>. QED  BY <1>3, <6>1, <6>2
        <5>2. i > 1 => ring'[i].prev = ring'[i - 1].hash
          BY <1>2, <4>1, <5>1 DEF L
        <5>. QED  BY <1>2, <1>3, <1>4, <4>1, <5>2
      <4>2. CASE i < M /\ i + k \in 1 .. L /\ ring'[i] = ring[i + k]
        <5>1. /\ ring[i + k].hash = Digest(ring[i + k].prev, ring[i + k].seq, ring[i + k].what)
              /\ i + k > 1 => ring[i + k].prev = ring[(i + k) - 1].hash
          <6>1. \A p \in 1 .. L :
                   /\ ring[p].hash = Digest(ring[p].prev, ring[p].seq, ring[p].what)
                   /\ p > 1 => ring[p].prev = ring[p - 1].hash
            BY <2>1 DEF RingChain, L
          <6>. QED  BY <4>2, <6>1
        <5>2. i > 1 => ring'[i - 1] = ring[(i + k) - 1]
          <6>. SUFFICES ASSUME i > 1 PROVE ring'[i - 1] = ring[(i + k) - 1]
            OBVIOUS
          <6>1. i - 1 \in 1 .. M /\ i - 1 # M /\ (i - 1) + k = (i + k) - 1
            BY <1>5, <4>2
          <6>. QED  BY <1>7, <6>1
        <5>3. i > 1 => i + k > 1
          BY <1>5
        <5>. QED  BY <1>3, <1>4, <2>3, <4>2, <5>1, <5>2, <5>3
      <4>. QED  BY <1>7, <4>1, <4>2
    <3>2. ASSUME NEW i \in 1 .. M, NEW j \in 1 .. M, i < j
          PROVE  ring'[i].what < ring'[j].what
      <4>1. i # M /\ i + k \in 1 .. L /\ ring'[i] = ring[i + k]
        BY <1>5, <1>7, <3>2
      <4>2. CASE j = M /\ ring'[j] = e
        <5>1. ring[i + k].what \in Nat /\ ring[i + k].what <= whats
          BY <2>3, <4>1
        <5>2. ring'[j].what = whats + 1 /\ whats \in Nat
          BY <1>2, <1>3, <4>2
        <5>. QED  BY <4>1, <5>1, <5>2
      <4>3. CASE j < M /\ j + k \in 1 .. L /\ ring'[j] = ring[j + k]
        <5>1. i + k < j + k
          BY <1>5, <3>2
        <5>. QED  BY <2>1, <4>1, <4>3, <5>1 DEF RingChain, L
      <4>. QED  BY <1>7, <4>2, <4>3
    <3>. QED  BY <1>1, <3>1, <3>2 DEF RingChain
  <2>5. Joined'
    <3>1. ASSUME ~sealed, NEW i \in 1 .. M, ring'[i].seq = high + 1
          PROVE  ring'[i].prev = IF high = 0 THEN NoHash ELSE log[high].hash
      <4>1. CASE i = M /\ ring'[i] = e
        <5>1. seq = high + 1
          BY <1>2, <3>1, <4>1
        <5>2. CASE L = 0
          <6>1. seq = 1
            BY <1>4, <1>9, <5>2 DEF ChainInv, Numbered, L
          <6>. QED  BY <1>2, <1>3, <4>1, <5>1, <5>2, <6>1
        <5>3. CASE L # 0
          <6>1. L \in 1 .. L /\ ring[L].seq = high /\ high # 0 /\ high \in DOMAIN log
            BY <1>3, <5>1, <5>3
          <6>2. to_record(ring[L]) = log[high]
            BY <1>4, <1>9, <3>1, <6>1 DEF IInv, Agree, L
          <6>3. ring[L].hash = log[high].hash
            BY <6>2 DEF to_record
          <6>. QED  BY <1>2, <1>3, <4>1, <5>3, <6>1, <6>3 DEF L
        <5>. QED  BY <5>2, <5>3
      <4>2. CASE i < M /\ i + k \in 1 .. L /\ ring'[i] = ring[i + k]
        BY <2>1, <3>1, <4>2 DEF Joined, L
      <4>. QED  BY <1>7, <4>1, <4>2
    <3>2. ASSUME NEW i \in 1 .. M, NEW s \in DOMAIN log, sealed \/ s < ring'[i].seq
          PROVE  log[s].what < ring'[i].what
      <4>1. CASE i = M /\ ring'[i] = e
        <5>1. log[s].what \in Nat /\ log[s].what <= whats
          BY <2>1 DEF LogChain
        <5>. QED  BY <1>2, <1>3, <4>1, <5>1
      <4>2. CASE i < M /\ i + k \in 1 .. L /\ ring'[i] = ring[i + k]
        BY <2>1, <3>2, <4>2 DEF Joined, L
      <4>. QED  BY <1>7, <4>1, <4>2
    <3>. QED  BY <1>1, <1>4, <3>1, <3>2 DEF Joined
  <2>. QED  BY <2>2, <2>4, <2>5
<1>. QED  BY <1>4, <1>8, <1>9 DEF ChainInv

(* What a reconciled ring is: the numbers start behind the newest record,  *)
(* or stay where they are when they are higher.                            *)
LEMMA ReconcileShape ==
    ASSUME IInv, Numbered, NEW t \in Threads, Reconcile(t)
    PROVE  \E from \in Nat : \E anchor :
              /\ from >= Newest + 1 /\ from >= seq - Len(ring)
              /\ from = Newest + 1 \/ from = seq - Len(ring)
              /\ from = Newest + 1 => anchor = NewestHash
              /\ Len(ring') = Len(ring)
              /\ \A i \in 1 .. Len(ring) :
                    /\ ring'[i].seq = from + i - 1 /\ ring'[i].what = ring[i].what
                    /\ ring'[i].hash = Digest(ring'[i].prev, ring'[i].seq, ring'[i].what)
                    /\ ring'[i].prev = IF i = 1 THEN anchor ELSE ring'[i - 1].hash
              /\ seq' = from + Len(ring)
              /\ top' = [top EXCEPT ![t] = from + Len(ring) - 1]
              /\ high' = Newest
<1>1. PICK first \in 1 .. Len(ring) :
        LET from   == fetch_max(Newest + 1, ring[first].seq)
            anchor == IF from = Newest + 1 THEN NewestHash ELSE ring[first].prev
            last   == from + Len(ring) - first
        IN  /\ ring[first].here /\ \A i \in 1 .. first - 1 : ~ring[i].here
            /\ ring' = Rebased(first, from, anchor)
            /\ top' = [top EXCEPT ![t] = last]
            /\ seq' = fetch_max(seq, last + 1)
  BY DEF Reconcile
<1>. DEFINE from   == fetch_max(Newest + 1, ring[1].seq)
            anchor == IF from = Newest + 1 THEN NewestHash ELSE ring[1].prev
<1>2. sealed /\ high' = fetch_max(high, Newest)
  BY DEF IInv, Discipline, Reconcile
<1>3. /\ Len(ring) \in Nat /\ Len(ring) >= 1 /\ Len(ring) < seq
      /\ seq \in Nat /\ high \in Nat /\ Newest \in Nat /\ high <= Newest
      /\ \A i \in 1 .. Len(ring) : ring[i].seq = seq - 1 - Len(ring) + i
  <2>1. Len(ring) \in Nat /\ Len(ring) >= 1
    BY DEF IInv, RingOK
  <2>2. seq \in Nat /\ high \in Nat
    BY DEF IInv, AuditTypeOK
  <2>3. Newest \in Nat
    BY NewestIsNewest DEF IInv
  <2>. QED  BY <2>1, <2>2, <2>3 DEF Numbered
<1>4. first = 1
  <2>1. ring[1].here
    BY <1>2, <1>3 DEF IInv, RingOK
  <2>2. Len(ring) \in Nat
    BY <1>3
  <2>3. \A i \in 1 .. first - 1 : ~ring[i].here
    BY <1>1
  <2>4. first \in Nat /\ first >= 1 /\ (first # 1 => 1 \in 1 .. first - 1)
    BY <2>2
  <2>. QED  BY <2>1, <2>3, <2>4
<1>5. /\ ring' = Rebased(1, from, anchor) /\ seq' = fetch_max(seq, from + Len(ring) - 1 + 1)
      /\ top' = [top EXCEPT ![t] = from + Len(ring) - 1]
  BY <1>1, <1>4
<1>6. ring[1].seq = seq - Len(ring) /\ seq - Len(ring) \in Nat
  BY <1>3
<1>7. /\ from \in Nat /\ from >= Newest + 1 /\ from >= seq - Len(ring)
      /\ from = Newest + 1 \/ from = seq - Len(ring)
  BY <1>3, <1>6 DEF fetch_max
<1>8. from = Newest + 1 => anchor = NewestHash
  OBVIOUS
<1>. HIDE DEF from, anchor
<1>9. /\ Len(ring') = Len(ring)
      /\ \A i \in 1 .. Len(ring) :
            /\ ring'[i].seq = from + i - 1 /\ ring'[i].what = ring[i].what
            /\ ring'[i].hash = Digest(ring'[i].prev, ring'[i].seq, ring'[i].what)
            /\ ring'[i].prev = IF i = 1 THEN anchor ELSE ring'[i - 1].hash
  <2>1. ring' = Rebased(1, from, anchor) /\ from \in Nat /\ RingOK
    BY <1>5, <1>7 DEF IInv
  <2>. QED  BY <2>1, RebasedShape
<1>10. seq' = from + Len(ring)
  <2>1. from + Len(ring) - 1 + 1 = from + Len(ring) /\ seq <= from + Len(ring)
    BY <1>3, <1>7
  <2>. DEFINE m == from + Len(ring)
  <2>2. seq' = fetch_max(seq, m)
    BY <1>5, <2>1
  <2>3. seq \in Nat /\ m \in Nat /\ seq <= m
    BY <1>3, <1>7, <2>1
  <2>. HIDE DEF m
  <2>4. seq' = m
    BY <2>2, <2>3 DEF fetch_max
  <2>. QED  BY <2>4 DEF m
<1>11. high' = Newest
  BY <1>2, <1>3 DEF fetch_max
<1>. QED  BY <1>5, <1>7, <1>8, <1>9, <1>10, <1>11

(* The rebased ring follows the newest record, or keeps its numbers when   *)
(* they are higher; its mutations come after those of the store.           *)
LEMMA ReconcileChain ==
    ASSUME IInv, ChainInv, NEW t \in Threads, Reconcile(t)
    PROVE  ChainInv'
<1>. DEFINE L == Len(ring)
<1>1. PICK from \in Nat : \E anchor :
              /\ from >= Newest + 1 /\ from >= seq - L
              /\ from = Newest + 1 \/ from = seq - L
              /\ from = Newest + 1 => anchor = NewestHash
              /\ Len(ring') = L
              /\ \A i \in 1 .. L :
                    /\ ring'[i].seq = from + i - 1 /\ ring'[i].what = ring[i].what
                    /\ ring'[i].hash = Digest(ring'[i].prev, ring'[i].seq, ring'[i].what)
                    /\ ring'[i].prev = IF i = 1 THEN anchor ELSE ring'[i - 1].hash
              /\ seq' = from + L
              /\ top' = [top EXCEPT ![t] = from + L - 1]
              /\ high' = Newest
  BY ReconcileShape DEF ChainInv
<1>2. sealed /\ up
  BY DEF IInv, Discipline, Reconcile
<1>3. /\ L \in Nat /\ L >= 1 /\ seq \in Nat /\ high \in Nat /\ whats \in Nat /\ L < seq
      /\ DOMAIN log = 1 .. Newest /\ high <= Newest /\ Newest \in Nat
      /\ \A i \in 1 .. L : ring[i].seq = seq - 1 - L + i
  <2>1. Len(ring) \in Nat /\ Len(ring) >= 1
    BY DEF IInv, Reconcile, RingOK
  <2>2. seq \in Nat /\ high \in Nat
    BY DEF IInv, AuditTypeOK
  <2>3. Newest \in Nat
    BY NewestIsNewest DEF IInv
  <2>. QED  BY <2>1, <2>2, <2>3 DEF ChainInv, Numbered
<1>. HIDE DEF L
<1>4. /\ from \in Nat /\ from >= Newest + 1 /\ from >= seq - L
      /\ seq' = from + L /\ Len(ring') = L
  BY <1>1
<1>5. PICK anchor :
        /\ from = Newest + 1 => anchor = NewestHash
        /\ \A i \in 1 .. L :
              /\ ring'[i].seq = from + i - 1 /\ ring'[i].what = ring[i].what
              /\ ring'[i].hash = Digest(ring'[i].prev, ring'[i].seq, ring'[i].what)
              /\ ring'[i].prev = IF i = 1 THEN anchor ELSE ring'[i - 1].hash
  BY <1>1
<1>6. from = Newest + 1 => anchor = IF Newest = 0 THEN NoHash ELSE log[Newest].hash
  <2>1. DOMAIN log = {} <=> Newest = 0
    BY <1>3
  <2>2. NewestHash = IF Newest = 0 THEN NoHash ELSE log[Newest].hash
    BY <2>1 DEF NewestHash
  <2>. QED  BY <1>5, <2>2
<1>7. UNCHANGED <<log, up, other, whats>> /\ sealed' = FALSE
  BY DEF Reconcile, ghosts
<1>8. Newest' = Newest /\ high' = Newest
  BY <1>1, <1>7 DEF Newest
<1>9. Numbered'
  <2>1. \A i \in 1 .. L : ring'[i].seq = seq' - 1 - L + i
    <3>. TAKE i \in 1 .. L
    <3>1. ring'[i].seq = from + i - 1 /\ i \in Nat
      BY <1>3, <1>5
    <3>2. L \in Nat /\ from \in Nat
      BY <1>3, <1>4
    <3>. QED  BY <1>4, <3>1, <3>2
  <2>2. L < seq' /\ L # 0
    BY <1>3, <1>4
  <2>. QED  BY <1>3, <1>4, <1>7, <1>8, <2>1, <2>2 DEF Numbered
<1>10. ASSUME other = "none" PROVE LogChain' /\ RingChain' /\ Joined'
  <2>1. LogChain /\ RingChain /\ Joined
    BY <1>10 DEF ChainInv
  <2>2. LogChain'
    BY <1>3, <1>7, <2>1 DEF LogChain
  <2>3. RingChain'
    <3>1. /\ \A i \in 1 .. L : ring[i].what \in Nat /\ ring[i].what <= whats
          /\ \A i, j \in 1 .. L : i < j => ring[i].what < ring[j].what
      BY <2>1 DEF RingChain, L
    <3>2. \A i \in 1 .. L : i > 1 => i # 1
      BY <1>3
    <3>3. whats' = whats /\ Len(ring') = L
      BY <1>4, <1>7
    <3>4. \A i, j \in 1 .. L : i < j => ring'[i].what < ring'[j].what
      BY <1>5, <3>1
    <3>5. \A i \in 1 .. L : /\ ring'[i].what \in Nat /\ ring'[i].what <= whats'
                            /\ i > 1 => ring'[i].prev = ring'[i - 1].hash
                            /\ ring'[i].hash = Digest(ring'[i].prev, ring'[i].seq, ring'[i].what)
      BY <1>5, <3>1, <3>2, <3>3
    <3>. QED  BY <3>3, <3>4, <3>5 DEF RingChain
  <2>4. Joined'
    <3>1. ASSUME NEW i \in 1 .. L, ring'[i].seq = Newest + 1
          PROVE  ring'[i].prev = IF Newest = 0 THEN NoHash ELSE log[Newest].hash
      <4>1. i = 1 /\ from = Newest + 1
        BY <1>3, <1>4, <1>5, <3>1
      <4>. QED  BY <1>6, <1>5, <4>1
    <3>2. ASSUME NEW i \in 1 .. L, NEW s \in DOMAIN log
          PROVE  log[s].what < ring'[i].what
      BY <1>2, <1>5, <2>1 DEF Joined, L
    <3>. QED  BY <1>4, <1>7, <1>8, <3>1, <3>2 DEF Joined
  <2>. QED  BY <2>2, <2>3, <2>4
<1>. QED  BY <1>7, <1>9, <1>10 DEF ChainInv

(* The tail of a log that is a prefix of the numbers is its latest part.   *)
LEMMA TailIsLatest ==
    ASSUME DOMAIN log = 1 .. Newest, Newest \in Nat, NEW n \in Nat,
           NEW idx \in [1 .. n -> DOMAIN log], IsTail(idx, Cap)
    PROVE  /\ \A i \in 1 .. n : idx[i] = Newest - n + i
           /\ n = 0 => Newest = 0
<1>1. Len(idx) = n /\ DOMAIN idx = 1 .. n
  BY DEF IsTail
<1>2. /\ \A i, j \in 1 .. n : i < j => idx[i] < idx[j]
      /\ \A s \in 1 .. Newest :
            \/ \E i \in 1 .. n : idx[i] = s
            \/ n = Cap /\ \A i \in 1 .. n : s < idx[i]
      /\ \A i \in 1 .. n : idx[i] \in Nat /\ idx[i] >= 1 /\ idx[i] <= Newest
  <2>1. \A i \in 1 .. n : idx[i] \in 1 .. Newest
    OBVIOUS
  <2>2. /\ \A i, j \in 1 .. n : i < j => idx[i] < idx[j]
        /\ \A s \in 1 .. Newest :
              \/ \E i \in 1 .. n : idx[i] = s
              \/ n = Cap /\ \A i \in 1 .. n : s < idx[i]
    BY <1>1, Zenon DEF IsTail
  <2>. QED  BY <2>1, <2>2
<1>3. n = 0 => Newest = 0
  <2>. SUFFICES ASSUME n = 0, Newest # 0 PROVE FALSE
    OBVIOUS
  <2>1. 1 \in 1 .. Newest
    OBVIOUS
  <2>2. n = Cap
    BY <1>2, <2>1
  <2>. QED  BY <2>2, AuditAssumption
\* Counted from the back: were d the first place that fails, the one behind it
\* would leave no number between them.
<1>. DEFINE Bad == {d \in Nat : d < n /\ idx[n - d] # Newest - d}
<1>4. Bad = {}
  <2>. SUFFICES ASSUME Bad # {} PROVE FALSE
    OBVIOUS
  <2>1. PICK d \in Bad : \A c \in Bad : ~(<<c, d>> \in OpToRel(<, Nat))
    BY WFMin, NatLessThanWellFounded
  <2>2. d \in Nat /\ d < n /\ idx[n - d] # Newest - d
    BY <2>1
  <2>3. \A c \in Nat : c < d => idx[n - c] = Newest - c
    <3>. TAKE c \in Nat
    <3>. HAVE c < d
    <3>1. <<c, d>> \in OpToRel(<, Nat)
      BY <2>2 DEF OpToRel
    <3>2. c \notin Bad
      BY <2>1, <3>1
    <3>. QED  BY <2>2, <3>2
  <2>. HIDE DEF Bad
  <2>. DEFINE i == n - d
  <2>4. i \in 1 .. n /\ idx[i] \in 1 .. Newest
    <3>1. i \in 1 .. n
      BY <2>2
    <3>. HIDE DEF i
    <3>. QED  BY <1>2, <3>1
  <2>5. idx[i] < Newest - d + 1
    <3>1. CASE d = 0
      BY <1>2, <2>2, <3>1
    <3>2. CASE d # 0
      <4>1. d - 1 \in Nat /\ d - 1 < d /\ n - (d - 1) = i + 1 /\ i + 1 \in 1 .. n
        BY <2>2, <3>2
      <4>2. idx[i + 1] = Newest - (d - 1)
        BY <2>3, <4>1
      <4>3. idx[i] < idx[i + 1]
        BY <1>2, <2>2, <2>4, <4>1
      <4>. QED  BY <2>2, <4>2, <4>3
    <3>. QED  BY <3>1, <3>2
  <2>. DEFINE s == Newest - d
  <2>6. s \in 1 .. Newest /\ idx[i] < s
    BY <1>2, <2>2, <2>4, <2>5
  <2>7. \A j \in 1 .. n : j <= i => idx[j] < s
    <3>. TAKE j \in 1 .. n
    <3>. HAVE j <= i
    <3>1. j = i \/ idx[j] < idx[i]
      BY <1>2, <2>2, <2>4
    <3>. QED  BY <1>2, <2>6, <2>4, <3>1
  <2>8. \A j \in 1 .. n : j > i => idx[j] > s
    <3>. TAKE j \in 1 .. n
    <3>. HAVE j > i
    <3>1. n - j \in Nat /\ n - j < d /\ n - (n - j) = j
      BY <2>2
    <3>2. idx[j] = Newest - (n - j)
      BY <2>3, <3>1
    <3>. QED  BY <2>2, <3>1, <3>2
  <2>9. \A j \in 1 .. n : idx[j] # s
    <3>. TAKE j \in 1 .. n
    <3>1. s \in Int /\ idx[j] \in Int /\ (j <= i \/ j > i)
      BY <1>2, <2>2
    <3>. QED  BY <2>7, <2>8, <3>1
  <2>10. ~ \A j \in 1 .. n : s < idx[j]
    BY <1>2, <2>4, <2>6
  <2>. QED  BY <1>2, <2>6, <2>9, <2>10
<1>5. ASSUME NEW i \in 1 .. n PROVE idx[i] = Newest - n + i
  <2>1. n - i \in Nat /\ n - i < n /\ n - (n - i) = i
    OBVIOUS
  <2>2. idx[i] = Newest - (n - i)
    BY <1>4, <2>1
  <2>. QED  BY <2>2
<1>. QED  BY <1>3, <1>5

(* The log of this process alone verifies, so that the boot takes its tail *)
(* for genuine: nothing is sealed and the ring is that tail.               *)
LEMMA BootReadShape ==
    ASSUME IInv, ChainInv, Boot, BootRead
    PROVE  /\ seq' = Newest + 1 /\ high' = Newest
           /\ sealed' => other # "none" /\ Len(ring') = 0
           /\ ~sealed' =>
                /\ Len(ring') \in Nat /\ Len(ring') <= Newest
                /\ Len(ring') = 0 => Newest = 0
                /\ \A i \in 1 .. Len(ring') :
                     /\ ring'[i] = Entry(log[Newest - Len(ring') + i], FALSE)
                     /\ Newest - Len(ring') + i \in DOMAIN log
<1>1. PICK n \in 0 .. Cap : \E idx \in [1 .. n -> DOMAIN log] :
        LET tail == [i \in 1 .. n |-> log[idx[i]]]
        IN  /\ IsTail(idx, Cap)
            /\ seq' = Newest + 1
            /\ high' = Newest
            /\ sealed' = ~Verifies(tail)
            /\ ring' = IF Verifies(tail) THEN [i \in 1 .. n |-> Entry(tail[i], FALSE)]
                       ELSE <<>>
  BY DEF BootRead
<1>2. PICK idx \in [1 .. n -> DOMAIN log] :
        LET tail == [i \in 1 .. n |-> log[idx[i]]]
        IN  /\ IsTail(idx, Cap)
            /\ seq' = Newest + 1
            /\ high' = Newest
            /\ sealed' = ~Verifies(tail)
            /\ ring' = IF Verifies(tail) THEN [i \in 1 .. n |-> Entry(tail[i], FALSE)]
                       ELSE <<>>
  BY <1>1
<1>. DEFINE tail == [i \in 1 .. n |-> log[idx[i]]]
            full == [i \in 1 .. n |-> Entry(tail[i], FALSE)]
<1>3. Newest \in Nat /\ DOMAIN log = 1 .. Newest /\ n \in Nat
  BY NewestIsNewest, AuditAssumption DEF IInv, ChainInv, Numbered
<1>4. /\ \A i \in 1 .. n : idx[i] = Newest - n + i
      /\ n = 0 => Newest = 0
  BY <1>2, <1>3, TailIsLatest
<1>5. /\ seq' = Newest + 1 /\ high' = Newest
      /\ sealed' = ~Verifies(tail)
      /\ Verifies(tail) => ring' = full
      /\ ~Verifies(tail) => ring' = <<>>
  BY <1>2
<1>6. n <= Newest
  <2>. SUFFICES ASSUME n > Newest PROVE FALSE
    BY <1>3
  <2>1. 1 \in 1 .. n
    BY <1>3
  <2>2. idx[1] = Newest - n + 1 /\ idx[1] \in 1 .. Newest
    BY <1>3, <1>4, <2>1
  <2>. QED  BY <1>3, <2>2
<1>7. \A i \in 1 .. n : /\ tail[i] = log[Newest - n + i] /\ Newest - n + i \in DOMAIN log
                        /\ full[i] = Entry(log[Newest - n + i], FALSE)
  BY <1>3, <1>4
<1>8. DOMAIN tail = 1 .. n /\ Len(full) = n
  BY <1>3
<1>. HIDE DEF tail, full
<1>9. other = "none" => Verifies(tail)
  <2>. SUFFICES ASSUME other = "none", NEW i \in 1 .. n
                PROVE  /\ tail[i].hash = Digest(tail[i].prev, tail[i].seq, tail[i].what)
                       /\ i > 1 => tail[i].prev = tail[i - 1].hash
    BY <1>8 DEF Verifies
  <2>. DEFINE s == Newest - n + i
  <2>1. s \in DOMAIN log /\ s \in Nat /\ tail[i] = log[s] /\ log[s].seq = s
    BY <1>3, <1>7 DEF IInv, AuditTypeOK
  <2>2. i > 1 => s # 1 /\ tail[i - 1] = log[s - 1]
    <3>. SUFFICES ASSUME i > 1 PROVE s # 1 /\ tail[i - 1] = log[s - 1]
      OBVIOUS
    <3>1. i - 1 \in 1 .. n /\ Newest - n + (i - 1) = s - 1 /\ s > 1
      BY <1>3, <1>6
    <3>2. tail[i - 1] = log[Newest - n + (i - 1)]
      BY <1>7, <3>1
    <3>. QED  BY <3>1, <3>2
  <2>. HIDE DEF s
  <2>3. /\ log[s].hash = Digest(log[s].prev, s, log[s].what)
        /\ s # 1 => log[s].prev = log[s - 1].hash
    BY <2>1 DEF ChainInv, LogChain
  <2>. QED  BY <2>1, <2>2, <2>3
<1>10. CASE Verifies(tail)
  BY <1>3, <1>4, <1>5, <1>6, <1>7, <1>8, <1>10
<1>11. CASE ~Verifies(tail)
  <2>1. Len(ring') = 0
    BY <1>5, <1>11
  <2>. QED  BY <1>5, <1>9, <1>11, <2>1
<1>. QED  BY <1>10, <1>11

LEMMA BootReadChain ==
    ASSUME IInv, ChainInv, Boot, BootRead
    PROVE  ChainInv'
<1>1. UNCHANGED <<log, other, whats>> /\ up' = TRUE
  BY DEF Boot
<1>2. /\ Newest \in Nat /\ DOMAIN log = 1 .. Newest /\ whats \in Nat
      /\ Newest' = Newest
  <2>1. Newest' = Newest
    BY <1>1 DEF Newest
  <2>2. Newest \in Nat
    BY NewestIsNewest DEF IInv
  <2>. QED  BY <2>1, <2>2 DEF ChainInv, Numbered
<1>3. /\ seq' = Newest + 1 /\ high' = Newest
      /\ sealed' => other # "none" /\ Len(ring') = 0
      /\ ~sealed' =>
           /\ Len(ring') \in Nat /\ Len(ring') <= Newest
           /\ Len(ring') = 0 => Newest = 0
           /\ \A i \in 1 .. Len(ring') :
                /\ ring'[i] = Entry(log[Newest - Len(ring') + i], FALSE)
                /\ Newest - Len(ring') + i \in DOMAIN log
  BY BootReadShape
<1>4. CASE sealed'
  <2>1. Len(ring') = 0 /\ other' # "none"
    BY <1>1, <1>3, <1>4
  <2>. QED  BY <1>1, <1>2, <1>3, <2>1 DEF ChainInv, Numbered
<1>5. CASE ~sealed'
  <2>. DEFINE L     == Len(ring')
              at(i) == Newest - L + i
  <2>1. /\ L \in Nat /\ L <= Newest /\ (L = 0 => Newest = 0)
        /\ \A i \in 1 .. L : at(i) \in DOMAIN log /\ ring'[i] = Entry(log[at(i)], FALSE)
    BY <1>3, <1>5
  <2>2. \A i \in 1 .. L : /\ ring'[i].seq = at(i) /\ ring'[i].what = log[at(i)].what
                          /\ ring'[i].prev = log[at(i)].prev /\ ring'[i].hash = log[at(i)].hash
    <3>1. \A s \in DOMAIN log : log[s].seq = s
      BY DEF IInv, AuditTypeOK
    <3>. TAKE i \in 1 .. L
    <3>2. at(i) \in DOMAIN log /\ ring'[i] = Entry(log[at(i)], FALSE)
      BY <2>1
    <3>. HIDE DEF at
    <3>. QED  BY <3>1, <3>2 DEF Entry
  <2>3. \A i \in 1 .. L : /\ at(i) \in Nat /\ at(i) <= Newest
                          /\ i > 1 => at(i - 1) = at(i) - 1 /\ at(i) # 1
    <3>1. L \in Nat /\ Newest \in Nat /\ L <= Newest
      BY <1>2, <2>1
    <3>. TAKE i \in 1 .. L
    <3>. HIDE DEF L
    <3>2. i \in Nat /\ 1 <= i /\ i <= L
      BY <3>1
    <3>. QED  BY <3>1, <3>2
  <2>4. \A i, j \in 1 .. L : i < j => at(i) < at(j)
    BY <1>2, <2>1
  <2>. HIDE DEF L
  <2>5. Numbered'
    <3>1. \A i \in 1 .. L : at(i) = seq' - 1 - L + i
      BY <1>2, <1>3, <2>1
    <3>2. L < seq' /\ (L = 0 => seq' = 1) /\ high' <= Newest'
      BY <1>2, <1>3, <2>1
    <3>. HIDE DEF at
    <3>3. \A i \in 1 .. L : ring'[i].seq = seq' - 1 - L + i
      BY <2>2, <3>1
    <3>. QED  BY <1>1, <1>2, <3>2, <3>3 DEF Numbered, L
  <2>. HIDE DEF at
  <2>6. ASSUME other = "none" PROVE LogChain' /\ RingChain' /\ Joined'
    <3>1. LogChain
      BY <2>6 DEF ChainInv
    <3>2. LogChain'
      BY <1>1, <3>1 DEF LogChain
    <3>3. RingChain'
      <4>1. ASSUME NEW i \in 1 .. L
            PROVE  /\ ring'[i].hash = Digest(ring'[i].prev, ring'[i].seq, ring'[i].what)
                   /\ ring'[i].what \in Nat /\ ring'[i].what <= whats'
                   /\ i > 1 => ring'[i].prev = ring'[i - 1].hash
        <5>1. /\ at(i) \in DOMAIN log
              /\ log[at(i)].hash = Digest(log[at(i)].prev, at(i), log[at(i)].what)
              /\ log[at(i)].what \in Nat /\ log[at(i)].what <= whats
              /\ log[at(i)].prev = IF at(i) = 1 THEN NoHash ELSE log[at(i) - 1].hash
          BY <2>1, <3>1 DEF LogChain
        <5>2. i > 1 => i - 1 \in 1 .. L
          BY <2>1
        <5>3. i > 1 => ring'[i - 1].hash = log[at(i) - 1].hash
          BY <2>2, <2>3, <5>2
        <5>. QED  BY <1>1, <2>2, <2>3, <5>1, <5>3
      <4>2. ASSUME NEW i \in 1 .. L, NEW j \in 1 .. L, i < j
            PROVE  ring'[i].what < ring'[j].what
        BY <2>1, <2>2, <2>4, <3>1, <4>2 DEF LogChain
      <4>. QED  BY <4>1, <4>2 DEF RingChain, L
    <3>4. Joined'
      <4>1. \A i \in 1 .. L : ring'[i].seq # high' + 1
        BY <1>2, <1>3, <2>2, <2>3
      <4>2. ASSUME NEW i \in 1 .. L, NEW s \in DOMAIN log, s < ring'[i].seq
            PROVE  log[s].what < ring'[i].what
        BY <2>1, <2>2, <3>1, <4>2 DEF LogChain
      <4>. QED  BY <1>1, <1>5, <4>1, <4>2 DEF Joined, L
    <3>. QED  BY <3>2, <3>3, <3>4
  <2>. QED  BY <1>1, <2>5, <2>6 DEF ChainInv
<1>. QED  BY <1>4, <1>5

(* A boot that could not read, and the end of the process: an empty ring. *)
LEMMA EmptyChain ==
    ASSUME IInv, ChainInv, UNCHANGED <<log, other, whats>>,
           ring' = <<>>, seq' = 1, high' = 0
    PROVE  ChainInv'
<1>1. Len(ring') = 0
  OBVIOUS
<1>2. Newest' = Newest /\ Newest \in Nat
  BY NewestIsNewest DEF Newest, IInv
<1>3. Numbered'
  BY <1>1, <1>2 DEF ChainInv, Numbered
<1>4. other = "none" => LogChain'
  BY DEF ChainInv, LogChain
<1>. QED  BY <1>1, <1>3, <1>4 DEF ChainInv, RingChain, Joined

(* Another process writes, at the end of the log: it stays a prefix. *)
LEMMA OtherWriterChain == IInv /\ ChainInv /\ OtherWriter => ChainInv'
<1>. SUFFICES ASSUME IInv, ChainInv, OtherWriter PROVE ChainInv'
  OBVIOUS
<1>1. PICK s \in {Newest, Newest + 1} \ {0} :
        log' = Upsert(Rec(IF s - 1 \in DOMAIN log THEN log[s - 1].hash ELSE NoHash, s, 0))
  BY DEF OtherWriter
<1>. DEFINE r == Rec(IF s - 1 \in DOMAIN log THEN log[s - 1].hash ELSE NoHash, s, 0)
<1>2. Newest \in Nat /\ DOMAIN log = 1 .. Newest /\ high <= Newest /\ high \in Nat
  BY NewestIsNewest DEF IInv, AuditTypeOK, ChainInv, Numbered
<1>3. r.seq = s /\ s \in Nat /\ log' = Upsert(r)
  BY <1>1, <1>2 DEF Rec
<1>. HIDE DEF r
<1>4. DOMAIN log' = DOMAIN log \cup {s}
  BY <1>3, UpsertShape DEF IInv
<1>5. CASE s = Newest
  <2>1. DOMAIN log' = 1 .. Newest
    <3>1. s \in DOMAIN log
      BY <1>1, <1>2, <1>5
    <3>. QED  BY <1>2, <1>4, <3>1
  <2>2. Newest' = Newest
    BY <1>2, <2>1, NewestWillBe
  <2>3. DOMAIN log' = 1 .. Newest' /\ high <= Newest'
    BY <1>2, <2>1, <2>2
  <2>. QED  BY <2>3 DEF OtherWriter, ChainInv, Numbered
<1>6. CASE s = Newest + 1
  <2>1. DOMAIN log' = 1 .. Newest + 1 /\ Newest + 1 \in Nat
    BY <1>2, <1>4, <1>6
  <2>2. Newest' = Newest + 1
    BY <2>1, NewestWillBe
  <2>. QED  BY <1>2, <2>1, <2>2 DEF OtherWriter, ChainInv, Numbered
<1>. QED  BY <1>1, <1>5, <1>6

LEMMA TamperChain == IInv /\ ChainInv /\ Tamper => ChainInv'
<1>. SUFFICES ASSUME IInv, ChainInv, Tamper PROVE ChainInv'
  OBVIOUS
<1>1. Newest \in Nat /\ DOMAIN log = 1 .. Newest
  BY NewestIsNewest DEF IInv, ChainInv, Numbered
<1>2. DOMAIN log' = DOMAIN log
  BY DEF Tamper
<1>3. Newest' = Newest
  BY <1>1, <1>2, NewestWillBe
<1>. QED  BY <1>1, <1>2, <1>3 DEF Tamper, ChainInv, Numbered

LEMMA NextChain == IInv /\ ChainInv /\ [AuditNext]_auditVars => ChainInv'
<1>. SUFFICES ASSUME IInv, ChainInv, [AuditNext]_auditVars PROVE ChainInv'
  OBVIOUS
<1>1. CASE Boot
  BY <1>1, BootReadChain, EmptyChain DEF Boot, BootBlind
<1>2. CASE Crash
  BY <1>2, EmptyChain DEF Crash
<1>3. CASE OtherWriter \/ Tamper
  BY <1>3, OtherWriterChain, TamperChain
<1>4. CASE \E t \in Recorders : Push(t) \/ Valve(t)
  <2>1. ASSUME NEW t \in Recorders, Valve(t) PROVE ChainInv'
    BY <2>1, FrameChain DEF Valve, ghosts
  <2>. QED  BY <1>4, <2>1, PushChain
<1>5. CASE Flush
  BY <1>5, FrameChain DEF Flush, ghosts
<1>6. ASSUME NEW t \in Threads, WriteThrough(t) PROVE ChainInv'
  <2>1. CASE Enter(t) \/ ReconcileFails(t) \/ Check(t) \/ CheckFails(t) \/ Hole(t)
    <3>1. UNCHANGED <<log, up, ring, seq, high, sealed, other, whats>>
      BY <2>1 DEF Enter, ReconcileFails, Check, CheckFails, Hole, ghosts, Fault
    <3>. QED  BY <3>1, FrameChain
  <2>2. CASE Reconcile(t)
    BY <2>2, ReconcileChain
  <2>3. CASE AppendOk(t)
    <3>1. /\ pc[t] = "append" /\ Stored(high + 1) /\ high' \in {high, high + 1}
          /\ UNCHANGED <<up, ring, seq, sealed, other, whats>>
      BY <2>3 DEF AppendOk, ghosts
    <3>. QED  BY <3>1, StoredChain
  <2>4. CASE AppendFails(t)
    <3>1. /\ pc[t] = "append" /\ (UNCHANGED log \/ Stored(high + 1)) /\ high' \in {high, high + 1}
          /\ UNCHANGED <<up, ring, seq, high, sealed, other, whats>>
      BY <2>4 DEF AppendFails
    <3>. QED  BY <3>1, StoredChain, FrameChain
  <2>. QED  BY <1>6, <2>1, <2>2, <2>3, <2>4 DEF WriteThrough
<1>7. CASE UNCHANGED auditVars
  BY <1>7, FrameChain DEF auditVars
<1>. QED  BY <1>1, <1>2, <1>3, <1>4, <1>5, <1>6, <1>7 DEF AuditNext

(* Whatever fails, and wherever the process ends: while nobody else writes *)
(* to the log, it has every number once, verifies from the first record on *)
(* and holds the mutations in the order they were made, none of them twice.*)
THEOREM AuditChain == AuditSpec => []ChainVerifies
<1>1. AuditInit => IInv /\ ChainInv
  BY InitIInv, InitChain
<1>2. IInv /\ ChainInv /\ [AuditNext]_auditVars => (IInv /\ ChainInv)'
  BY NextIInv, NextChain
<1>3. ChainInv => ChainVerifies
  BY DEF ChainInv, Numbered, LogChain, ChainVerifies
<1>. QED  BY <1>1, <1>2, <1>3, PTL DEF AuditSpec

-----------------------------------------------------------------------------
(* Whoever waits to write through waits for an entry of the ring, one that *)
(* is not durable yet once it appends.                                     *)
Tops ==
    \A t \in Threads : pc[t] # "idle" => top[t] < seq /\ (pc[t] = "append" => top[t] > high)

(* The recorders that have pushed k or a later number and are not back. *)
Waiting(k) == {t \in Recorders : pc[t] # "idle" /\ top[t] >= k}

(* Beyond the headroom every number was given to a recorder that waits. *)
Valved == \A k \in high + Headroom .. seq : seq - k <= Cardinality(Waiting(k))

(* The ring reaches down to what is durable. *)
Covered == Len(ring) >= seq - 1 - high

(* A log that did not verify at boot is left as it was found. *)
Untouched == other # "none" /\ high = Newest /\ Len(ring) <= seq - 1 - high

PruneInv == Tops /\ (up /\ calm => (sink => Valved /\ Covered) /\ (sealed => sink /\ Untouched))

-----------------------------------------------------------------------------
(* The headroom leaves a quarter of the ring in reserve. *)
LEMMA Room ==
    /\ Headroom \in Nat /\ Headroom >= 1
    /\ Cap \in Nat /\ Headroom <= Cap /\ Cap \div 4 = Cap - Headroom
<1>1. Cap \in Nat /\ Cap >= 1
  BY AuditAssumption
<1>2. Cap \div 4 \in Nat /\ Cap \div 4 < Cap
  BY <1>1
<1>. QED  BY <1>1, <1>2 DEF Headroom

LEMMA Fewer ==
    ASSUME NEW S \in SUBSET Recorders, NEW T \in SUBSET S
    PROVE  Cardinality(T) \in Nat /\ Cardinality(S) \in Nat /\ Cardinality(T) <= Cardinality(S)
<1>1. IsFiniteSet(S)
  BY AuditAssumption, FS_Subset
<1>2. IsFiniteSet(T) /\ Cardinality(T) <= Cardinality(S)
  BY <1>1, FS_Subset
<1>. QED  BY <1>1, <1>2, FS_CardinalityType

LEMMA InRange ==
    ASSUME NEW a \in Nat, NEW b \in Nat, NEW c \in Nat, NEW n \in Nat, b <= a,
           NEW k \in a + c .. n
    PROVE  k \in b + c .. n /\ k \in Nat
OBVIOUS

LEMMA AtLeast ==
    ASSUME NEW a \in Nat, NEW c \in Nat, NEW n \in Nat, NEW k \in a + c .. n, NEW x \in Nat, x >= k
    PROVE  x >= a + c
OBVIOUS

(* A step on which nobody leaves who waits for what lies beyond the        *)
(* headroom.                                                               *)
LEMMA ValvedKept ==
    ASSUME AuditTypeOK, AuditTypeOK', Valved, seq' = seq, high' >= high,
           \A r \in Recorders : pc[r] # "idle" /\ top[r] >= high' + Headroom
                                  => pc'[r] # "idle" /\ top'[r] >= top[r]
    PROVE  Valved'
<1>. SUFFICES ASSUME NEW k \in high' + Headroom .. seq
              PROVE  seq - k <= Cardinality(Waiting(k)')
  BY DEF Valved
<1>1. /\ high \in Nat /\ high' \in Nat /\ seq \in Nat
      /\ \A r \in Recorders : top[r] \in Nat /\ top'[r] \in Nat
  BY DEF AuditTypeOK, Threads
<1>2. Headroom \in Nat
  BY Room
<1>3. k \in high + Headroom .. seq /\ k \in Nat
  <2>1. high' \in Nat /\ high \in Nat /\ seq \in Nat /\ high <= high'
    BY <1>1
  <2>. QED  BY <1>2, <2>1, InRange
<1>4. seq - k <= Cardinality(Waiting(k))
  BY <1>3 DEF Valved
<1>5. Waiting(k) \subseteq Waiting(k)'
  <2>. SUFFICES ASSUME NEW r \in Recorders, pc[r] # "idle", top[r] >= k
                PROVE  pc'[r] # "idle" /\ top'[r] >= k
    BY DEF Waiting
  <2>1. /\ high' \in Nat /\ seq \in Nat /\ Headroom \in Nat
        /\ k \in Nat /\ top[r] \in Nat /\ top'[r] \in Nat
    BY <1>1, <1>2, <1>3
  <2>2. top[r] >= high' + Headroom
    BY <2>1, AtLeast
  <2>3. pc'[r] # "idle" /\ top'[r] >= top[r]
    BY <2>2
  <2>. QED  BY <2>1, <2>3
<1>6. Waiting(k)' \in SUBSET Recorders
  BY DEF Waiting
<1>7. /\ Cardinality(Waiting(k)) \in Nat /\ Cardinality(Waiting(k)') \in Nat
      /\ Cardinality(Waiting(k)) <= Cardinality(Waiting(k)')
  BY <1>5, <1>6, Fewer
<1>. QED  BY <1>1, <1>3, <1>4, <1>7

(* A step of one thread that leaves the ring, the store, the numbers and   *)
(* the sink alone.                                                         *)
LEMMA FramePrune ==
    ASSUME IInv, IInv', PruneInv, NEW t \in Threads,
           UNCHANGED <<log, up, ring, seq, high, other>>,
           \A u \in Threads : u # t => pc'[u] = pc[u] /\ top'[u] = top[u],
           pc'[t] # "idle" => top'[t] < seq /\ (pc'[t] = "append" => top'[t] > high),
           calm' => /\ calm /\ sealed' = sealed
                    /\ sink' => sink /\ (t \in Recorders =>
                         (pc[t] # "idle" /\ top[t] >= high + Headroom
                            => pc'[t] # "idle" /\ top'[t] >= top[t]))
                    /\ sealed => sink' = sink
    PROVE  PruneInv'
<1>1. Tops'
  BY DEF PruneInv, Tops
<1>2. ASSUME up', calm', sink' PROVE Valved' /\ Covered'
  <2>1. Valved /\ Covered
    BY <1>2 DEF PruneInv
  <2>2. Covered'
    BY <2>1 DEF Covered
  <2>3. AuditTypeOK /\ AuditTypeOK' /\ seq' = seq /\ high' = high /\ high \in Nat
    BY DEF IInv, AuditTypeOK
  <2>4. \A r \in Recorders : r \in Threads /\ top[r] \in Nat
    BY <2>3 DEF AuditTypeOK, Threads
  <2>5. \A r \in Recorders : pc[r] # "idle" /\ top[r] >= high' + Headroom
                               => pc'[r] # "idle" /\ top'[r] >= top[r]
    <3>. TAKE r \in Recorders
    <3>. HAVE pc[r] # "idle" /\ top[r] >= high' + Headroom
    <3>1. CASE r = t
      BY <1>2, <2>3, <3>1
    <3>2. CASE r # t
      BY <2>4, <3>2
    <3>. QED  BY <3>1, <3>2
  <2>6. Valved'
    BY <2>1, <2>3, <2>5, ValvedKept
  <2>. QED  BY <2>2, <2>6
<1>3. ASSUME up', calm', sealed' PROVE sink' /\ Untouched'
  <2>1. sink /\ Untouched /\ sink' = sink
    BY <1>3 DEF PruneInv
  <2>2. Newest' = Newest
    BY DEF Newest
  <2>. QED  BY <2>1, <2>2 DEF Untouched
<1>. QED  BY <1>1, <1>2, <1>3 DEF PruneInv

(* A recorder that pushes joins those that wait.  When the ring is full    *)
(* and prunes, too few can be waiting for the pruned number to be pending. *)
LEMMA PushPrune ==
    ASSUME IInv, IInv', ChainInv, PruneInv, NEW t \in Recorders, Push(t)
    PROVE  PruneInv'
<1>1. /\ UNCHANGED <<log, up, high, sealed, sink, other>> /\ seq' = seq + 1
      /\ calm' => calm /\ Cardinality(PastValve') <= Cap \div 4 + 1
      /\ pc[t] = "idle" /\ t \in Threads
      /\ pc'[t] = "valve" /\ top'[t] = seq
      /\ \A u \in Threads : u # t => pc'[u] = pc[u] /\ top'[u] = top[u]
  BY DEF Push, Goto, IInv, AuditTypeOK, Threads
<1>2. /\ seq \in Nat /\ high \in Nat /\ high < seq
      /\ \A u \in Threads : top[u] \in Nat
      /\ Len(ring) \in Nat /\ Len(ring) <= Cap /\ Cap \in Nat
  BY AuditAssumption DEF IInv, AuditTypeOK, RingOK
<1>3. Len(ring') = Len(ring) + 1 - (IF Len(ring) >= Cap THEN 1 ELSE 0)
  BY PushShape DEF IInv, Push
<1>4. Tops'
  <2>. SUFFICES ASSUME NEW u \in Threads, pc'[u] # "idle"
                PROVE  top'[u] < seq' /\ (pc'[u] = "append" => top'[u] > high')
    BY DEF Tops
  <2>1. CASE u = t
    BY <1>1, <1>2, <2>1
  <2>2. CASE u # t
    <3>1. top[u] < seq /\ (pc[u] = "append" => top[u] > high)
      BY <1>1, <2>2 DEF PruneInv, Tops
    <3>. QED  BY <1>1, <1>2, <2>2, <3>1
  <2>. QED  BY <2>1, <2>2
<1>5. ASSUME up, calm, sealed PROVE sink' /\ Untouched'
  <2>1. sink /\ other # "none" /\ high = Newest /\ Len(ring) <= seq - 1 - high
    BY <1>5 DEF PruneInv, Untouched
  <2>2. Newest' = Newest
    BY <1>1 DEF Newest
  <2>3. Len(ring') <= seq' - 1 - high
    BY <1>1, <1>2, <1>3, <2>1
  <2>. QED  BY <1>1, <2>1, <2>2, <2>3 DEF Untouched
<1>6. ASSUME up, calm', sink PROVE Valved' /\ Covered'
  <2>1. Valved /\ Len(ring) >= seq - 1 - high
    BY <1>1, <1>6 DEF PruneInv, Covered
  <2>2. ASSUME NEW k \in high + Headroom .. seq
        PROVE  /\ seq - k <= Cardinality(Waiting(k))
               /\ Cardinality(Waiting(k)) \in Nat
               /\ Cardinality(Waiting(k)') = Cardinality(Waiting(k)) + 1
               /\ Cardinality(Waiting(k)') <= Cap - Headroom + 1
    <3>1. k \in Nat /\ k <= seq
      BY <1>2, Room
    <3>2. t \notin Waiting(k) /\ Waiting(k) \in SUBSET Recorders
      BY <1>1 DEF Waiting
    <3>3. Waiting(k)' = Waiting(k) \cup {t}
      BY <1>1, <3>1 DEF Waiting, Threads
    <3>4. IsFiniteSet(Waiting(k))
      BY AuditAssumption, <3>2, FS_Subset
    <3>5. Cardinality(Waiting(k)') = Cardinality(Waiting(k)) + 1
      BY <3>2, <3>3, <3>4, FS_AddElement
    <3>6. PastValve' \in SUBSET Recorders /\ Waiting(k)' \in SUBSET PastValve'
      <4>1. k >= high' + Headroom
        BY <1>1, <1>2, Room
      <4>2. \A u \in Recorders : top'[u] \in Nat
        BY DEF IInv, AuditTypeOK, Threads
      <4>3. \A u \in Recorders : top'[u] >= k => top'[u] >= high' + Headroom
        BY <1>1, <1>2, <3>1, <4>1, <4>2, Room
      <4>. QED  BY <4>3 DEF Waiting, PastValve
    <3>7. /\ Cardinality(Waiting(k)') \in Nat /\ Cardinality(PastValve') \in Nat
          /\ Cardinality(Waiting(k)') <= Cardinality(PastValve')
      BY <3>6, Fewer
    <3>8. Cardinality(Waiting(k)) \in Nat
      BY <3>4, FS_CardinalityType
    <3>9. Cardinality(Waiting(k)') <= Cap - Headroom + 1
      BY <1>1, <1>6, <3>7, Room
    <3>. QED  BY <2>1, <3>5, <3>8, <3>9 DEF Valved
  <2>3. Valved'
    <3>. SUFFICES ASSUME NEW k \in high' + Headroom .. seq'
                  PROVE  seq' - k <= Cardinality(Waiting(k)')
      BY DEF Valved
    <3>0. k \in high + Headroom .. seq + 1 /\ seq' = seq + 1
      BY <1>1
    <3>1. Headroom \in Nat
      BY Room
    <3>2. CASE k = seq + 1
      <4>1. Waiting(k)' \in SUBSET Recorders
        BY DEF Waiting
      <4>2. Cardinality(Waiting(k)') \in Nat
        BY <4>1, Fewer
      <4>. QED  BY <1>2, <3>0, <3>2, <4>2
    <3>3. CASE k # seq + 1
      <4>1. k \in high + Headroom .. seq /\ k \in Nat
        BY <1>2, <3>0, <3>1, <3>3
      <4>2. /\ seq - k <= Cardinality(Waiting(k)) /\ Cardinality(Waiting(k)) \in Nat
            /\ Cardinality(Waiting(k)') = Cardinality(Waiting(k)) + 1
        BY <2>2, <4>1
      <4>. QED  BY <1>2, <3>0, <4>1, <4>2
    <3>. QED  BY <3>2, <3>3
  <2>4. CASE Len(ring) < Cap
    BY <1>1, <1>2, <1>3, <2>1, <2>3, <2>4 DEF Covered
  <2>5. CASE Len(ring) >= Cap
    <3>. DEFINE k == high + Headroom
    <3>1. k \in Nat /\ Headroom \in Nat /\ Headroom <= Cap
      BY <1>2, Room
    <3>2. seq - high <= Cap
      <4>1. CASE k <= seq
        <5>1. k \in high + Headroom .. seq
          BY <1>2, <3>1, <4>1
        <5>. HIDE DEF k
        <5>2. /\ seq - k <= Cardinality(Waiting(k)) /\ Cardinality(Waiting(k)) \in Nat
              /\ Cardinality(Waiting(k)) + 1 <= Cap - Headroom + 1
          BY <2>2, <5>1
        <5>. QED  BY <1>2, <3>1, <5>2 DEF k
      <4>2. CASE k > seq
        BY <1>2, <3>1, <4>2
      <4>. QED  BY <1>2, <3>1, <4>1, <4>2
    <3>. QED  BY <1>1, <1>2, <1>3, <2>3, <2>5, <3>2 DEF Covered
  <2>. QED  BY <1>2, <2>4, <2>5
<1>. QED  BY <1>1, <1>4, <1>5, <1>6 DEF PruneInv

(* The valve lets a recorder go only while there is headroom. *)
LEMMA ValvePrune ==
    ASSUME IInv, IInv', PruneInv, NEW t \in Recorders, Valve(t)
    PROVE  PruneInv'
<1>1. /\ UNCHANGED <<log, up, ring, seq, high, sealed, sink, top, other, calm>>
      /\ t \in Threads /\ pc[t] = "valve"
      /\ pc'[t] = IF sink /\ top[t] - high >= Headroom THEN "lock" ELSE "idle"
      /\ \A u \in Threads : u # t => pc'[u] = pc[u]
  BY DEF Valve, Goto, ghosts, IInv, AuditTypeOK, Threads
<1>2. top[t] < seq
  BY <1>1 DEF PruneInv, Tops
<1>3. top[t] \in Nat /\ high \in Nat /\ Headroom \in Nat
  BY <1>1, Room DEF IInv, AuditTypeOK
<1>4. sink /\ top[t] >= high + Headroom => pc'[t] # "idle"
  BY <1>1, <1>3
<1>5. /\ pc'[t] # "append" /\ top'[t] < seq /\ top'[t] >= top[t]
      /\ \A u \in Threads : u # t => pc'[u] = pc[u] /\ top'[u] = top[u]
  BY <1>1, <1>2, <1>3
<1>. QED  BY <1>1, <1>4, <1>5, FramePrune

LEMMA FlushPrune == IInv /\ IInv' /\ PruneInv /\ Flush => PruneInv'
<1>. SUFFICES ASSUME IInv, IInv', PruneInv, Flush PROVE PruneInv'
  OBVIOUS
<1>1. /\ UNCHANGED <<log, up, ring, seq, high, sealed, sink, other, calm>>
      /\ Flusher \in Threads /\ Flusher \notin Recorders
      /\ pc'[Flusher] = "lock" /\ top'[Flusher] = ring[Len(ring)].seq
      /\ \A u \in Threads : u # Flusher => pc'[u] = pc[u] /\ top'[u] = top[u]
  BY AuditAssumption DEF Flush, Goto, ghosts, IInv, AuditTypeOK, Threads
<1>2. Len(ring) \in 1 .. Len(ring)
  BY DEF Flush, IInv, RingOK
<1>3. top'[Flusher] < seq
  BY <1>1, <1>2 DEF IInv, RingOK
<1>. QED  BY <1>1, <1>3, FramePrune

(* Nothing is said of a process that is down, or of one whose store has    *)
(* failed since it booted.                                                 *)
LEMMA NotCalmPrune == Tops' /\ (~up' \/ ~calm') => PruneInv'
BY DEF PruneInv

LEMMA EnterPrune ==
    ASSUME IInv, IInv', PruneInv, NEW t \in Threads, Enter(t)
    PROVE  PruneInv'
<1>1. /\ UNCHANGED <<log, up, ring, seq, high, sealed, sink, top, other, calm>>
      /\ pc[t] = "lock" /\ pc'[t] \in {"reconcile", "check"}
      /\ \A u \in Threads : u # t => pc'[u] = pc[u]
  BY DEF Enter, Goto, IInv, AuditTypeOK
<1>2. pc[t] # "idle" /\ pc'[t] # "idle" /\ pc'[t] # "append" /\ top[t] \in Nat
  BY <1>1 DEF IInv, AuditTypeOK
<1>3. /\ top'[t] < seq /\ top'[t] >= top[t]
      /\ \A u \in Threads : u # t => pc'[u] = pc[u] /\ top'[u] = top[u]
  BY <1>1, <1>2 DEF PruneInv, Tops
<1>. QED  BY <1>1, <1>2, <1>3, FramePrune

(* Past the check with the sink: to append, or out with a durable target. *)
LEMMA ProceedPrune ==
    ASSUME IInv, IInv', PruneInv, NEW t \in Threads, pc[t] = "check", Proceed(t),
           UNCHANGED <<log, up, ring, seq, high, sealed, top, other>>,
           calm' => calm /\ sink' = sink
    PROVE  PruneInv'
<1>1. \A u \in Threads : u # t => pc'[u] = pc[u]
  BY DEF Proceed, Leave, Goto, IInv, AuditTypeOK
<1>2. \/ top[t] > high /\ pc'[t] = "append"
      \/ top[t] <= high /\ pc'[t] = "idle"
  BY DEF Proceed, Leave, Goto, IInv, AuditTypeOK
<1>3. top[t] < seq
  BY DEF PruneInv, Tops
<1>4. top[t] \in Nat /\ high \in Nat /\ Headroom \in Nat /\ Headroom >= 1
  BY Room DEF IInv, AuditTypeOK
<1>5. pc[t] # "idle" /\ top[t] >= high + Headroom => pc'[t] # "idle" /\ top'[t] >= top[t]
  BY <1>2, <1>4
<1>6. pc'[t] # "idle" => top'[t] < seq /\ (pc'[t] = "append" => top'[t] > high)
  BY <1>2, <1>3
<1>7. \A u \in Threads : u # t => pc'[u] = pc[u] /\ top'[u] = top[u]
  BY <1>1
<1>. QED  BY <1>5, <1>6, <1>7, FramePrune

LEMMA CheckPrune ==
    ASSUME IInv, IInv', PruneInv, NEW t \in Threads, Check(t)
    PROVE  PruneInv'
<1>1. /\ UNCHANGED <<log, up, ring, seq, high, sealed, top, other, calm>>
      /\ pc[t] = "check" /\ ~sealed
  BY DEF Check, IInv, Discipline
<1>2. CASE Proceed(t) /\ UNCHANGED sink
  BY <1>1, <1>2, ProceedPrune
<1>3. CASE sink' = FALSE /\ Leave(t)
  <2>1. /\ pc'[t] = "idle"
        /\ \A u \in Threads : u # t => pc'[u] = pc[u] /\ top'[u] = top[u]
    BY <1>1, <1>3 DEF Leave, Goto, IInv, AuditTypeOK
  <2>. QED  BY <1>1, <1>3, <2>1, FramePrune
<1>. QED  BY <1>2, <1>3 DEF Check

LEMMA CheckFailsPrune ==
    ASSUME IInv, IInv', PruneInv, NEW t \in Threads, CheckFails(t)
    PROVE  PruneInv'
<1>1. /\ UNCHANGED <<log, up, ring, seq, high, sealed, top, other>>
      /\ pc[t] = "check" /\ Proceed(t) /\ ~calm'
  BY DEF CheckFails, Fault
<1>. QED  BY <1>1, ProceedPrune

(* The entry to store next is in the ring, unless it was pruned. *)
LEMMA HolePrune ==
    ASSUME IInv, IInv', ChainInv, PruneInv, NEW t \in Threads, Hole(t)
    PROVE  PruneInv'
<1>1. /\ UNCHANGED <<log, up, ring, seq, high, sealed, sink, top, other, calm>>
      /\ pc[t] = "append" /\ HeldAt(high + 1) = {} /\ ~sealed /\ up
      /\ pc'[t] = "idle"
      /\ \A u \in Threads : u # t => pc'[u] = pc[u] /\ top'[u] = top[u]
  BY DEF Hole, Leave, Goto, ghosts, IInv, AuditTypeOK, Discipline
<1>2. top[t] < seq /\ top[t] > high
  BY <1>1 DEF PruneInv, Tops
<1>3. /\ top[t] \in Nat /\ high \in Nat /\ seq \in Nat /\ Len(ring) \in Nat
      /\ \A i \in 1 .. Len(ring) : ring[i].seq = seq - 1 - Len(ring) + i
  <2>1. Len(ring) \in Nat
    BY DEF IInv, RingOK
  <2>2. top[t] \in Nat /\ high \in Nat /\ seq \in Nat
    BY DEF IInv, AuditTypeOK
  <2>. QED  BY <2>1, <2>2 DEF ChainInv, Numbered
<1>4. ASSUME calm, sink PROVE FALSE
  <2>1. Len(ring) >= seq - 1 - high
    BY <1>1, <1>4 DEF PruneInv, Covered
  <2>. DEFINE i == high + 1 - (seq - 1 - Len(ring))
  <2>2. i \in 1 .. Len(ring) /\ seq - 1 - Len(ring) + i = high + 1
    BY <1>2, <1>3, <2>1
  <2>. HIDE DEF i
  <2>3. ring[i].seq = high + 1
    BY <1>3, <2>2
  <2>. QED  BY <1>1, <2>2, <2>3 DEF HeldAt
<1>. QED  BY <1>1, <1>4, FramePrune

LEMMA ReconcileFailsPrune ==
    ASSUME IInv, IInv', PruneInv, NEW t \in Threads, ReconcileFails(t)
    PROVE  PruneInv'
<1>1. /\ UNCHANGED <<seq, high, top>> /\ ~calm' /\ pc'[t] = "idle"
      /\ \A u \in Threads : u # t => pc'[u] = pc[u] /\ top'[u] = top[u]
  BY DEF ReconcileFails, Fault, Leave, Goto, IInv, AuditTypeOK
<1>2. Tops'
  BY <1>1 DEF PruneInv, Tops
<1>. QED  BY <1>1, <1>2, NotCalmPrune

LEMMA AppendFailsPrune ==
    ASSUME IInv, IInv', PruneInv, NEW t \in Threads, AppendFails(t)
    PROVE  PruneInv'
<1>1. /\ UNCHANGED <<seq, high, top>> /\ ~calm' /\ pc'[t] = "idle"
      /\ \A u \in Threads : u # t => pc'[u] = pc[u] /\ top'[u] = top[u]
  BY DEF AppendFails, Fault, Leave, Goto, IInv, AuditTypeOK
<1>2. Tops'
  BY <1>1 DEF PruneInv, Tops
<1>. QED  BY <1>1, <1>2, NotCalmPrune

(* The entry is durable, and what lies beyond the headroom moves with it. *)
LEMMA AppendOkPrune ==
    ASSUME IInv, IInv', PruneInv, NEW t \in Threads, AppendOk(t)
    PROVE  PruneInv'
<1>1. /\ UNCHANGED <<up, ring, seq, sealed, sink, top, calm>>
      /\ high' = high + 1
      /\ pc[t] = "append" /\ ~sealed /\ lock = t
      /\ pc'[t] = IF high + 1 = top[t] THEN "idle" ELSE "append"
      /\ \A u \in Threads : u # t => pc'[u] = pc[u]
  BY DEF AppendOk, Leave, Goto, ghosts, IInv, AuditTypeOK, Discipline
<1>2. /\ seq \in Nat /\ high \in Nat /\ Len(ring) \in Nat
      /\ \A u \in Threads : top[u] \in Nat
      /\ \A u \in Threads : u # t => pc[u] # "append"
      /\ Headroom \in Nat /\ Headroom >= 1
  BY <1>1, Room DEF IInv, AuditTypeOK, RingOK, Discipline
<1>3. Tops'
  <2>. SUFFICES ASSUME NEW u \in Threads, pc'[u] # "idle"
                PROVE  top'[u] < seq' /\ (pc'[u] = "append" => top'[u] > high')
    BY DEF Tops
  <2>1. CASE u = t
    <3>1. top[t] < seq /\ top[t] > high /\ high + 1 # top[t]
      BY <1>1, <2>1 DEF PruneInv, Tops
    <3>. QED  BY <1>1, <1>2, <2>1, <3>1
  <2>2. CASE u # t
    BY <1>1, <1>2, <2>2 DEF PruneInv, Tops
  <2>. QED  BY <2>1, <2>2
<1>4. ASSUME up, calm, sink PROVE Valved' /\ Covered'
  <2>1. Valved /\ Len(ring) >= seq - 1 - high
    BY <1>4 DEF PruneInv, Covered
  <2>2. Covered'
    <3>1. Len(ring) >= seq - 1 - (high + 1)
      BY <1>2, <2>1
    <3>. QED  BY <1>1, <3>1 DEF Covered
  <2>3. \A r \in Recorders : pc[r] # "idle" /\ top[r] >= high' + Headroom
                               => pc'[r] # "idle" /\ top'[r] >= top[r]
    <3>. TAKE r \in Recorders
    <3>. HAVE pc[r] # "idle" /\ top[r] >= high' + Headroom
    <3>1. r \in Threads /\ top[r] \in Nat /\ top[r] # high + 1
      BY <1>1, <1>2 DEF Threads
    <3>2. top'[r] >= top[r]
      BY <1>1, <3>1
    <3>3. pc'[r] # "idle"
      BY <1>1, <3>1
    <3>. QED  BY <3>2, <3>3
  <2>4. high' >= high /\ seq' = seq /\ AuditTypeOK /\ AuditTypeOK'
    BY <1>1, <1>2 DEF IInv
  <2>5. Valved'
    BY <2>1, <2>3, <2>4, ValvedKept
  <2>. QED  BY <2>2, <2>5
<1>. QED  BY <1>1, <1>3, <1>4 DEF PruneInv

(* A boot that read a log which does not verify has numbered from behind   *)
(* it, so that the first write-through keeps the numbers as they are.      *)
LEMMA ReconcilePrune ==
    ASSUME IInv, IInv', ChainInv, PruneInv, NEW t \in Threads, Reconcile(t)
    PROVE  PruneInv'
<1>. DEFINE L == Len(ring)
<1>1. PICK from \in Nat : \E anchor :
              /\ from >= Newest + 1 /\ from >= seq - L
              /\ from = Newest + 1 \/ from = seq - L
              /\ from = Newest + 1 => anchor = NewestHash
              /\ Len(ring') = L
              /\ \A i \in 1 .. L :
                    /\ ring'[i].seq = from + i - 1 /\ ring'[i].what = ring[i].what
                    /\ ring'[i].hash = Digest(ring'[i].prev, ring'[i].seq, ring'[i].what)
                    /\ ring'[i].prev = IF i = 1 THEN anchor ELSE ring'[i - 1].hash
              /\ seq' = from + L
              /\ top' = [top EXCEPT ![t] = from + L - 1]
              /\ high' = Newest
  BY ReconcileShape DEF ChainInv
<1>2. /\ UNCHANGED <<log, up, sink, other, calm>> /\ sealed' = FALSE
      /\ pc[t] = "reconcile" /\ pc'[t] = "check" /\ sealed /\ up
      /\ \A u \in Threads : u # t => pc'[u] = pc[u]
  BY DEF Reconcile, Goto, ghosts, IInv, AuditTypeOK, Discipline
<1>3. /\ L \in Nat /\ L >= 1 /\ seq \in Nat /\ high \in Nat /\ L < seq
      /\ high <= Newest /\ Newest \in Nat
  <2>1. Len(ring) \in Nat /\ Len(ring) >= 1
    BY DEF IInv, Reconcile, RingOK
  <2>2. seq \in Nat /\ high \in Nat
    BY DEF IInv, AuditTypeOK
  <2>3. Newest \in Nat
    BY NewestIsNewest DEF IInv
  <2>. QED  BY <2>1, <2>2, <2>3 DEF ChainInv, Numbered
<1>. HIDE DEF L
<1>4. /\ from \in Nat /\ from >= Newest + 1 /\ from >= seq - L
      /\ from = Newest + 1 \/ from = seq - L
      /\ seq' = from + L /\ high' = Newest
      /\ top' = [top EXCEPT ![t] = from + L - 1]
  BY <1>1
<1>5. Len(ring') = L
  BY <1>1
<1>6. seq' = from + L /\ seq' >= seq /\ high' = Newest
  BY <1>3, <1>4
<1>7. /\ top'[t] = from + L - 1
      /\ \A u \in Threads : top[u] \in Nat /\ (u # t => top'[u] = top[u])
  BY <1>4 DEF IInv, AuditTypeOK
<1>8. top[t] < seq /\ \A u \in Threads : pc[u] # "idle" => top[u] < seq
  BY <1>2 DEF PruneInv, Tops
<1>9. \A u \in Threads : pc[u] # "append"
  BY <1>2 DEF IInv, Discipline
<1>10. Tops'
  <2>. SUFFICES ASSUME NEW u \in Threads, pc'[u] # "idle"
                PROVE  top'[u] < seq' /\ pc'[u] # "append"
    BY DEF Tops
  <2>1. CASE u = t
    BY <1>2, <1>3, <1>4, <1>6, <1>7, <2>1
  <2>2. CASE u # t
    <3>1. top'[u] = top[u] /\ top[u] < seq /\ top[u] \in Nat /\ pc'[u] # "append"
      BY <1>2, <1>7, <1>8, <1>9, <2>2
    <3>. QED  BY <1>3, <1>4, <1>6, <3>1
  <2>. QED  BY <2>1, <2>2
<1>11. ASSUME calm PROVE Valved' /\ Covered'
  <2>1. Valved /\ L >= seq - 1 - high /\ high = Newest /\ L <= seq - 1 - high
    <3>1. up /\ calm /\ sealed
      BY <1>2, <1>11
    <3>2. Valved /\ Covered /\ Untouched
      BY <3>1 DEF PruneInv
    <3>. QED  BY <3>2 DEF Covered, Untouched, L
  <2>2. seq' = seq /\ high' = high /\ top'[t] = seq - 1
    <3>1. from = seq - L
      BY <1>3, <1>4, <2>1
    <3>. QED  BY <1>3, <1>6, <1>7, <2>1, <3>1
  <2>3. Covered'
    BY <1>5, <2>1, <2>2 DEF Covered
  <2>4. top'[t] >= top[t]
    BY <1>3, <1>7, <1>8, <2>2
  <2>5. \A r \in Recorders : pc[r] # "idle" /\ top[r] >= high' + Headroom
                               => pc'[r] # "idle" /\ top'[r] >= top[r]
    <3>. TAKE r \in Recorders
    <3>. HAVE pc[r] # "idle" /\ top[r] >= high' + Headroom
    <3>1. CASE r = t
      BY <1>2, <2>4, <3>1
    <3>2. CASE r # t
      BY <1>2, <1>7, <3>2 DEF Threads
    <3>. QED  BY <3>1, <3>2
  <2>6. high' >= high /\ AuditTypeOK /\ AuditTypeOK'
    BY <1>3, <2>2 DEF IInv
  <2>7. Valved'
    BY <2>1, <2>2, <2>5, <2>6, ValvedKept
  <2>. QED  BY <2>3, <2>7
<1>. QED  BY <1>2, <1>10, <1>11 DEF PruneInv

LEMMA BootReadPrune ==
    ASSUME IInv, ChainInv, Boot, BootRead
    PROVE  PruneInv'
<1>1. /\ UNCHANGED <<log, other>> /\ sink' = TRUE
      /\ pc' = [u \in Threads |-> "idle"]
  BY DEF Boot
<1>2. Tops'
  BY <1>1 DEF Tops
<1>3. /\ seq' = Newest + 1 /\ high' = Newest
      /\ sealed' => other # "none" /\ Len(ring') = 0
      /\ ~sealed' => Len(ring') \in Nat
  BY BootReadShape
<1>4. Newest' = Newest /\ Newest \in Nat
  BY <1>1, NewestIsNewest DEF Newest, IInv
<1>5. Len(ring') \in Nat
  BY <1>3
<1>6. Covered'
  BY <1>3, <1>4, <1>5 DEF Covered
<1>7. sealed' => Untouched'
  BY <1>1, <1>3, <1>4 DEF Untouched
<1>8. Valved'
  <2>. SUFFICES ASSUME NEW k \in high' + Headroom .. seq'
                PROVE  seq' - k <= Cardinality(Waiting(k)')
    BY DEF Valved
  <2>1. Headroom \in Nat /\ Headroom >= 1
    BY Room
  <2>2. k = seq' /\ seq' \in Nat
    BY <1>3, <1>4, <2>1
  <2>3. Waiting(k)' \in SUBSET Recorders
    BY DEF Waiting
  <2>4. Cardinality(Waiting(k)') \in Nat
    BY <2>3, Fewer
  <2>. QED  BY <2>2, <2>4
<1>. QED  BY <1>1, <1>2, <1>6, <1>7, <1>8 DEF PruneInv

LEMMA OtherWriterPrune == PruneInv /\ OtherWriter => PruneInv'
<1>. SUFFICES ASSUME PruneInv, OtherWriter PROVE PruneInv'
  OBVIOUS
<1>1. /\ UNCHANGED <<up, ring, seq, high, sealed, sink, pc, top, calm>>
      /\ other = "none"
  BY DEF OtherWriter
<1>2. Tops' /\ (Valved => Valved') /\ (Covered => Covered')
  BY <1>1 DEF PruneInv, Tops, Valved, Covered, Waiting
<1>3. ~(up /\ calm /\ sealed)
  BY <1>1 DEF PruneInv, Untouched
<1>. QED  BY <1>1, <1>2, <1>3 DEF PruneInv

LEMMA StutterPrune == PruneInv /\ UNCHANGED auditVars => PruneInv'
<1>. SUFFICES ASSUME PruneInv, UNCHANGED auditVars PROVE PruneInv'
  OBVIOUS
<1>1. Newest' = Newest
  BY DEF Newest, auditVars
<1>2. /\ Tops' = Tops /\ Valved' = Valved /\ Covered' = Covered
      /\ Untouched' = Untouched
  BY <1>1 DEF Tops, Valved, Covered, Untouched, Waiting, auditVars
<1>. QED  BY <1>2 DEF PruneInv, auditVars

LEMMA NextPrune == IInv /\ ChainInv /\ PruneInv /\ [AuditNext]_auditVars => PruneInv'
<1>. SUFFICES ASSUME IInv, ChainInv, PruneInv, [AuditNext]_auditVars PROVE PruneInv'
  OBVIOUS
<1>0. IInv'
  BY NextIInv
<1>1. CASE Boot
  <2>1. CASE BootRead
    BY <1>1, <2>1, BootReadPrune
  <2>2. CASE BootBlind
    <3>1. ~calm' /\ pc' = [u \in Threads |-> "idle"]
      BY <1>1, <2>2 DEF Boot, BootBlind, Fault
    <3>2. Tops'
      BY <3>1 DEF Tops
    <3>. QED  BY <3>1, <3>2, NotCalmPrune
  <2>. QED  BY <1>1, <2>1, <2>2 DEF Boot
<1>2. CASE Crash
  <2>1. ~up' /\ pc' = [u \in Threads |-> "idle"]
    BY <1>2 DEF Crash
  <2>2. Tops'
    BY <2>1 DEF Tops
  <2>. QED  BY <2>1, <2>2, NotCalmPrune
<1>3. CASE OtherWriter
  BY <1>3, OtherWriterPrune
<1>4. CASE Tamper
  <2>1. ~up' /\ UNCHANGED <<seq, high, pc, top>>
    BY <1>4 DEF Tamper
  <2>2. Tops'
    BY <2>1 DEF PruneInv, Tops
  <2>. QED  BY <2>1, <2>2, NotCalmPrune
<1>5. CASE \E t \in Recorders : Push(t) \/ Valve(t)
  BY <1>0, <1>5, PushPrune, ValvePrune
<1>6. CASE Flush
  BY <1>0, <1>6, FlushPrune
<1>7. CASE \E t \in Threads : WriteThrough(t)
  BY <1>0, <1>7, EnterPrune, ReconcilePrune, ReconcileFailsPrune, CheckPrune,
     CheckFailsPrune, HolePrune, AppendOkPrune, AppendFailsPrune DEF WriteThrough
<1>8. CASE UNCHANGED auditVars
  BY <1>8, StutterPrune
<1>. QED  BY <1>1, <1>2, <1>3, <1>4, <1>5, <1>6, <1>7, <1>8 DEF AuditNext

(* While the store answers and no more recorders are past the valve at     *)
(* once than the ring's reserve and one, an entry that is not durable is   *)
(* in the ring: every number beyond the headroom belongs to one of them.   *)
THEOREM AuditKept == AuditSpec => []NothingPruned
<1>1. AuditInit => IInv /\ ChainInv /\ PruneInv
  <2>1. AuditInit => PruneInv
    BY DEF AuditInit, PruneInv, Tops
  <2>. QED  BY <2>1, InitIInv, InitChain
<1>2. IInv /\ ChainInv /\ PruneInv /\ [AuditNext]_auditVars => (IInv /\ ChainInv /\ PruneInv)'
  BY NextIInv, NextChain, NextPrune
<1>3. IInv /\ ChainInv /\ PruneInv => NothingPruned
  <2>. SUFFICES ASSUME IInv, ChainInv, PruneInv, up, sink, calm,
                       NEW s \in high + 1 .. seq - 1
                PROVE  HeldAt(s) # {}
    BY DEF NothingPruned
  <2>1. /\ high \in Nat /\ seq \in Nat /\ Len(ring) \in Nat
        /\ \A i \in 1 .. Len(ring) : ring[i].seq = seq - 1 - Len(ring) + i
        /\ Len(ring) >= seq - 1 - high
    BY DEF IInv, AuditTypeOK, RingOK, ChainInv, Numbered, PruneInv, Covered
  <2>. DEFINE i == s - (seq - 1 - Len(ring))
  <2>2. i \in 1 .. Len(ring) /\ seq - 1 - Len(ring) + i = s
    BY <2>1
  <2>. HIDE DEF i
  <2>3. ring[i].seq = s
    BY <2>1, <2>2
  <2>. QED  BY <2>2, <2>3 DEF HeldAt
<1>. QED  BY <1>1, <1>2, <1>3, PTL DEF AuditSpec
=============================================================================
