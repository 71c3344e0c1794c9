--------------------------- MODULE LaneCellsProofs ---------------------------
(***************************************************************************)
(* Every probe was won on its own cell, a hard-down reaches every cell of  *)
(* its lane and a config apply forgets no trip, for any number of          *)
(* requests, pools and lanes.                                              *)
(***************************************************************************)
EXTENDS LaneCells, WellFoundedInduction, TLAPS

(* Where a request stands on a lane, it is one of the lanes. *)
OnLane ==
    \A r \in Requests :
        req[r].pc \in {"create", "acquire", "inflight", "down"} => req[r].lane \in Lanes

(* The write lock of pool_cells: its holder is the one that creates a cell,*)
(* which does not exist yet and will not start out HalfOpen.               *)
Creating ==
    /\ writer # NoOne => req[writer].pc = "create"
    /\ \A r \in Requests : req[r].pc = "create" =>
         /\ writer = r
         /\ req[r].pool \in Pools
         /\ ~Exists(cell[req[r].lane][req[r].pool])
         /\ req[r].st \in {"Closed", "Open"}

(* The owner of a probe was dropped or is about to answer it; that of the  *)
(* default cell, not with a hard-down, which begins with that cell.        *)
ProbeOwned ==
    \A l \in Lanes, p \in Keys : cell[l][p].st = "HalfOpen" =>
        \/ cell[l][p].probe = Dropped
        \/ \E r \in Requests :
             /\ cell[l][p].probe = r
             /\ req[r].pc = "inflight" \/ (req[r].pc = "down" /\ p # Default)
             /\ req[r].lane = l /\ req[r].pool = p

NextHasNoProbe == \A l \in Lanes, p \in Keys : next[l][p].st # "HalfOpen"

(* What a hard-down has to reach: a cell that does not exist has a default *)
(* that is not Closed to be copied from, and one being created was copied  *)
(* from such a one or meets the sweep.                                     *)
Reaches ==
    \A l \in Lanes, p \in Pools : <<l, p>> \in owed =>
        /\ ~Exists(cell[l][p]) => cell[l][Default].st # "Closed"
        /\ Exists(cell[l][p]) => cell[l][p].st # "Closed" \/ Sweeping(l)
        /\ \A r \in Requests : req[r].pc = "create" /\ req[r].lane = l /\ req[r].pool = p
             => req[r].st # "Closed" \/ Sweeping(l)

(* What an apply has to carry over is tripped, in both stores once it has  *)
(* been exported.                                                          *)
Exported(l, p) ==
    \/ l \notin apply.todo
    \/ apply.pc = "pools" /\ p = Default /\ l = Min(apply.todo)

Carrying ==
    /\ apply.pc = "idle" => must = {}
    /\ apply.pc = "swap" => apply.todo = {}
    /\ \A l \in Lanes, p \in Keys : <<l, p>> \in must =>
         /\ cell[l][p].st \in {"Open", "HalfOpen"}
         /\ Exported(l, p) => next[l][p].st = "Open"

IInv ==
    /\ TypeOK /\ OnLane /\ Creating
    /\ ProbeOwned /\ NextHasNoProbe
    /\ Reaches /\ Carrying

-----------------------------------------------------------------------------
(* The smallest of a set of lanes is one of them. *)
LEMMA MinIn ==
    ASSUME NEW S \in SUBSET Lanes, S # {}
    PROVE  Min(S) \in S
<1>1. S \subseteq Nat
  BY LaneCellsAssumption
<1>2. PICK x \in S : \A y \in S : ~(<<y, x>> \in OpToRel(<, Nat))
  BY <1>1, WFMin, NatLessThanWellFounded
<1>3. \A y \in S : ~(y < x)
  BY <1>1, <1>2 DEF OpToRel
<1>4. \A y \in S : x <= y
  BY <1>1, <1>3
<1> QED
  BY <1>4 DEF Min

(***************************************************************************)
(* What each action does, cell by cell and request by request              *)
(***************************************************************************)
(* Only request r moves. *)
Only(r) ==
    /\ req' \in [Requests -> Calls]
    /\ \A s \in Requests : s # r => req'[s] = req[s]

(* Only the cell of pool p on lane l changes, and it becomes c. *)
Becomes(l, p, c) ==
    /\ cell' \in Stores
    /\ \A k \in Lanes, q \in Keys : cell'[k][q] = IF k = l /\ q = p THEN c ELSE cell[k][q]

(* Only the cells of lane l change, and become f. *)
LaneBecomes(l, f) ==
    /\ cell' \in Stores
    /\ \A k \in Lanes, q \in Keys : cell'[k][q] = IF k = l THEN f[q] ELSE cell[k][q]

(* Put writes one cell. *)
LEMMA PutAt ==
    ASSUME cell \in Stores, NEW l \in Lanes, NEW p \in Keys, NEW c \in Cells, Put(l, p, c)
    PROVE  Becomes(l, p, c)
BY DEF Put, Stores, Becomes

(* A sweep writes the cells of one lane. *)
LEMMA SweepAt ==
    ASSUME cell \in Stores, NEW l \in Lanes, NEW f \in [Keys -> Cells],
           cell' = [cell EXCEPT ![l] = f]
    PROVE  LaneBecomes(l, f)
BY DEF Stores, LaneBecomes

(* A request that is replaced leaves the others alone. *)
LEMMA ReqAt ==
    ASSUME req \in [Requests -> Calls], NEW r \in Requests, NEW c \in Calls,
           req' = [req EXCEPT ![r] = c]
    PROVE  Only(r) /\ req'[r] = c
BY DEF Only

(* The state of a request between two calls is one. *)
LEMMA IdleCall == Idle \in Calls /\ Idle.pc = "idle"
BY DEF Idle, Calls, Keys

(* A request that is done is idle. *)
LEMMA DoneAt ==
    ASSUME req \in [Requests -> Calls], NEW r \in Requests, Done(r)
    PROVE  Only(r) /\ req'[r].pc = "idle"
BY IdleCall, ReqAt DEF Done

(* A request that goes on keeps its lane and its pool. *)
LEMMA ToAt ==
    ASSUME req \in [Requests -> Calls], NEW r \in Requests,
           NEW pc \in {"filter", "inflight", "down"}, To(r, pc)
    PROVE  /\ Only(r)
           /\ req'[r].pc = pc /\ req'[r].lane = req[r].lane /\ req'[r].pool = req[r].pool
<1>1. req[r] \in Calls
  OBVIOUS
<1>2. req'[r] = [req[r] EXCEPT !.pc = pc]
  BY DEF To
<1>3. req'[r] \in Calls
  BY <1>1, <1>2 DEF Calls
<1> QED
  BY <1>1, <1>2, <1>3 DEF To, Calls, Only

(* The steps of a selection that touch no cell. *)
Selecting(r) ==
    (\E p \in Keys : Start(r, p)) \/ Filter(r) \/ NoneHealthy(r) \/ Select(r)

(* They move one request, which is on a lane when it goes on to acquire.   *)
LEMMA SelectingAt ==
    ASSUME TypeOK, NEW r \in Requests, Selecting(r)
    PROVE  /\ Only(r)
           /\ req[r].pc \in {"idle", "filter"}
           /\ req'[r].pc \in {"idle", "filter", "acquire"}
           /\ req'[r].pc = "acquire" => req'[r].lane \in Lanes
           /\ UNCHANGED <<cell, next, writer, prober, apply, owed, must>>
<1> DEFINE G == /\ Only(r)
                /\ req[r].pc \in {"idle", "filter"}
                /\ req'[r].pc \in {"idle", "filter", "acquire"}
                /\ req'[r].pc = "acquire" => req'[r].lane \in Lanes
<1>0. req \in [Requests -> Calls] /\ req[r] \in Calls
  BY DEF TypeOK
<1>1. ASSUME NEW p \in Keys, Start(r, p) PROVE G
  <2>1. CASE p = Default
    <3>1. PICK l \in Lanes :
             req' = [req EXCEPT ![r] = [Idle EXCEPT !.pc = "acquire", !.lane = l]]
      BY <1>1, <2>1 DEF Start
    <3>2. [Idle EXCEPT !.pc = "acquire", !.lane = l] \in Calls
      BY IdleCall DEF Idle, Calls
    <3> QED
      BY <1>0, <1>1, <3>1, <3>2, ReqAt DEF Start, Idle
  <2>2. CASE p # Default
    <3> DEFINE c == [Idle EXCEPT !.pc = "filter", !.pool = p, !.todo = Lanes]
    <3>1. c \in Calls /\ c.pc = "filter"
      BY IdleCall DEF Idle, Calls
    <3>2. req' = [req EXCEPT ![r] = c]
      BY <1>1, <2>2 DEF Start
    <3> HIDE DEF c
    <3> QED
      BY <1>0, <1>1, <3>1, <3>2, ReqAt DEF Start
  <2> QED
    BY <2>1, <2>2
<1>2. ASSUME Filter(r) PROVE G
  <2> DEFINE l == Min(req[r].todo)
             h == IF Ready(cell[l][req[r].pool]) THEN req[r].healthy \cup {l}
                                                 ELSE req[r].healthy
             c == [req[r] EXCEPT !.todo = @ \ {l}, !.healthy = h]
  <2>1. l \in Lanes
    BY <1>0, <1>2, MinIn DEF Filter, Calls
  <2>2. c \in Calls /\ c.pc = req[r].pc
    BY <1>0, <2>1 DEF Calls
  <2>3. req' = [req EXCEPT ![r] = c]
    BY <1>0, <1>2 DEF Filter, Calls
  <2> HIDE DEF c
  <2> QED
    BY <1>0, <1>2, <2>2, <2>3, ReqAt DEF Filter
<1>3. ASSUME NoneHealthy(r) PROVE G
  BY <1>0, <1>3, DoneAt DEF NoneHealthy
<1>4. ASSUME Select(r) PROVE G
  <2>1. PICK l \in req[r].healthy :
           req' = [req EXCEPT ![r].pc = "acquire", ![r].lane = l, ![r].healthy = {}]
    BY <1>4 DEF Select
  <2> DEFINE c == [req[r] EXCEPT !.pc = "acquire", !.lane = l, !.healthy = {}]
  <2>2. c \in Calls /\ c.pc = "acquire" /\ c.lane \in Lanes
    BY <1>0 DEF Calls
  <2>3. req' = [req EXCEPT ![r] = c]
    BY <1>0, <2>1
  <2> HIDE DEF c
  <2> QED
    BY <1>0, <1>4, <2>2, <2>3, ReqAt DEF Select
<1> QED
  BY <1>1, <1>2, <1>3, <1>4 DEF Selecting, Start, Filter, NoneHealthy, Select

(* The writer of pool_cells claims a cell that does not exist. *)
LEMMA CreateReadAt ==
    ASSUME TypeOK, NEW r \in Requests, CreateRead(r)
    PROVE  /\ Only(r)
           /\ req[r].pc = "filter" /\ req'[r].pc = "create"
           /\ req'[r].lane \in Lanes /\ req'[r].pool \in Pools
           /\ ~Exists(cell[req'[r].lane][req'[r].pool])
           /\ req'[r].st = Inherited(cell[req'[r].lane][Default].st)
           /\ req'[r].st \in {"Closed", "Open"}
           /\ writer = NoOne /\ writer' = r
           /\ UNCHANGED <<cell, next, prober, apply, owed, must>>
<1> DEFINE l == Min(req[r].todo)
           c == [req[r] EXCEPT !.pc = "create", !.lane = l,
                               !.st = Inherited(cell[l][Default].st)]
<1>0. req \in [Requests -> Calls] /\ req[r] \in Calls
  BY DEF TypeOK
<1>1. l \in Lanes
  BY <1>0, MinIn DEF CreateRead, Calls
<1>2. /\ cell[l][Default].st \in States /\ Exists(cell[l][Default])
      /\ ~Exists(cell[l][req[r].pool])
  BY <1>1 DEF TypeOK, Stores, Cells, Keys, CreateRead
<1>3. Inherited(cell[l][Default].st) \in {"Closed", "Open"}
  BY <1>2 DEF Inherited, States, Exists
<1>4. req[r].pool \in Pools
  BY <1>0, <1>2 DEF Calls, Keys
<1>5. /\ c \in Calls /\ c.pc = "create" /\ c.lane = l /\ c.pool = req[r].pool
      /\ c.st = Inherited(cell[l][Default].st)
  BY <1>0, <1>1, <1>3 DEF Calls, States
<1>6. req' = [req EXCEPT ![r] = c]
  BY <1>0 DEF CreateRead
<1>7. Only(r) /\ req'[r] = c
  <2> HIDE DEF c
  <2> QED BY <1>0, <1>5, <1>6, ReqAt
<1> HIDE DEF c, l
<1> QED
  BY <1>1, <1>2, <1>3, <1>4, <1>5, <1>7 DEF CreateRead

(* The operations on a cell return a cell, and none makes one exist. *)
LEMMA CellOpsTyped ==
    ASSUME NEW c \in Cells
    PROVE  /\ Trip(c) \in Cells /\ Trip(c).st = "Open"
           /\ Close(c) \in Cells /\ Close(c).st = "Closed"
           /\ Carried(c) \in Cells /\ Carried(c).st = Inherited(c.st)
           /\ \A d \in Failed(c) :
                /\ d \in Cells
                /\ Exists(d) <=> Exists(c)
                /\ d.st # "HalfOpen"
                /\ d.st = "Closed" => c.st = "Closed"
<1>1. Trip(c) \in Cells /\ Trip(c).st = "Open"
  BY DEF Trip, Cells, States
<1>2. Close(c) \in Cells /\ Close(c).st = "Closed"
  BY DEF Close, Cells, States
<1>3. Carried(c) \in Cells /\ Carried(c).st = Inherited(c.st)
  BY DEF Carried, Fresh, NoCell, Cells, States, Inherited
<1>4. ASSUME NEW d \in Failed(c)
      PROVE  /\ d \in Cells
             /\ Exists(d) <=> Exists(c)
             /\ d.st # "HalfOpen"
             /\ d.st = "Closed" => c.st = "Closed"
  <2>1. CASE c.st \in {"none", "Open"}
    BY <1>4, <2>1 DEF Failed
  <2>2. CASE c.st \notin {"none", "Open"}
    <3>1. PICK st \in (IF c.st = "Closed" THEN {"Open", "Closed"} ELSE {"Open"}) :
             d = [c EXCEPT !.st = st, !.hot = TRUE, !.probe = NoOne]
      BY <1>4, <2>2 DEF Failed
    <3> QED
      BY <2>2, <3>1 DEF Cells, States, Exists
  <2> QED
    BY <2>1, <2>2
<1> QED
  BY <1>1, <1>2, <1>3, <1>4

(* The new cell takes the state read before and the cooldown of now. *)
LEMMA CreateStoreAt ==
    ASSUME TypeOK, OnLane, Creating, NEW r \in Requests, CreateStore(r)
    PROVE  /\ Only(r)
           /\ req[r].pc = "create" /\ req'[r].pc = "filter"
           /\ \E c \in Cells : c.st = req[r].st /\ Becomes(req[r].lane, req[r].pool, c)
           /\ writer' = NoOne
           /\ UNCHANGED <<next, prober, apply, owed, must>>
<1> DEFINE l == req[r].lane
           c == [Fresh EXCEPT !.st = req[r].st, !.hot = cell[l][Default].hot]
<1>0. req \in [Requests -> Calls] /\ req[r] \in Calls
  BY DEF TypeOK
<1>1. l \in Lanes /\ req[r].pool \in Keys /\ req[r].st \in {"Closed", "Open"}
  BY DEF OnLane, Creating, CreateStore, Keys
<1>2. cell[l][Default].hot \in BOOLEAN
  BY <1>1 DEF TypeOK, Stores, Cells, Keys
<1>3. c \in Cells /\ c.st = req[r].st
  BY <1>1, <1>2 DEF Cells, States, Fresh, NoCell
<1>4. Put(l, req[r].pool, c) /\ cell \in Stores
  BY DEF CreateStore, TypeOK
<1>5. Becomes(l, req[r].pool, c)
  <2> HIDE DEF c, l
  <2> QED BY <1>1, <1>3, <1>4, PutAt
<1> HIDE DEF c
<1> QED
  BY <1>0, <1>3, <1>5, ToAt DEF CreateStore

(* A cell that stays as it is. *)
LEMMA StaysAt ==
    ASSUME cell \in Stores, NEW l \in Lanes, NEW p \in Keys, UNCHANGED cell
    PROVE  Becomes(l, p, cell[l][p])
BY DEF Becomes

(* The cell of an attempt. *)
LEMMA MineIsCell ==
    ASSUME TypeOK, OnLane, NEW r \in Requests, req[r].pc \in {"acquire", "inflight", "down"}
    PROVE  /\ req[r].lane \in Lanes /\ req[r].pool \in Keys
           /\ Mine(r) = cell[req[r].lane][req[r].pool] /\ Mine(r) \in Cells
           /\ cell \in Stores /\ req \in [Requests -> Calls]
<1>1. req \in [Requests -> Calls] /\ cell \in Stores /\ req[r] \in Calls
  BY DEF TypeOK
<1>2. req[r].lane \in Lanes
  BY DEF OnLane
<1>3. req[r].pool \in Keys
  BY <1>1 DEF Calls
<1> QED
  BY <1>1, <1>2, <1>3 DEF Mine, Stores

(* An attempt is admitted as it is, with the probe, or not at all. *)
LEMMA AcquireAt ==
    ASSUME TypeOK, OnLane, NEW r \in Requests, Acquire(r)
    PROVE  /\ Only(r)
           /\ req[r].pc = "acquire" /\ req'[r].pc \in {"idle", "inflight"}
           /\ req'[r].pc = "inflight" =>
                req'[r].lane = req[r].lane /\ req'[r].pool = req[r].pool
           /\ \E c \in Cells :
                /\ Becomes(req[r].lane, req[r].pool, c)
                /\ \/ c = Mine(r)
                   \/ /\ Mine(r).st = "Open" /\ c.st = "HalfOpen" /\ c.probe = r
                      /\ req'[r].pc = "inflight"
           /\ UNCHANGED <<next, writer, prober, apply, owed, must>>
<1>0. req[r].pc = "acquire"
  BY DEF Acquire
<1>1. /\ req[r].lane \in Lanes /\ req[r].pool \in Keys
      /\ Mine(r) = cell[req[r].lane][req[r].pool] /\ Mine(r) \in Cells
      /\ cell \in Stores /\ req \in [Requests -> Calls]
  BY <1>0, MineIsCell
<1>2. CASE Ready(Mine(r)) /\ Mine(r).st = "Closed"
  <2>1. To(r, "inflight") /\ UNCHANGED cell
    BY <1>2 DEF Acquire
  <2> QED
    BY <1>0, <1>1, <2>1, ToAt, StaysAt DEF Acquire
<1>3. CASE Ready(Mine(r)) /\ Mine(r).st = "Open"
  <2> DEFINE c == [Mine(r) EXCEPT !.st = "HalfOpen", !.probe = r]
  <2>1. To(r, "inflight") /\ Put(req[r].lane, req[r].pool, c)
    BY <1>3 DEF Acquire
  <2>2. c \in Cells /\ c.st = "HalfOpen" /\ c.probe = r
    BY <1>1 DEF Cells, States
  <2> HIDE DEF c
  <2>3. Becomes(req[r].lane, req[r].pool, c)
    BY <1>1, <2>1, <2>2, PutAt
  <2> QED
    BY <1>0, <1>1, <1>3, <2>1, <2>2, <2>3, ToAt DEF Acquire
<1>4. CASE ~Ready(Mine(r))
  <2>1. Done(r) /\ UNCHANGED cell
    BY <1>4 DEF Acquire
  <2> QED
    BY <1>0, <1>1, <2>1, DoneAt, StaysAt DEF Acquire
<1> QED
  BY <1>2, <1>3, <1>4 DEF Ready

(* A success closes a HalfOpen cell. *)
LEMMA SuccessAt ==
    ASSUME TypeOK, OnLane, NEW r \in Requests, Success(r)
    PROVE  /\ Only(r)
           /\ req[r].pc = "inflight" /\ req'[r].pc = "idle"
           /\ \/ UNCHANGED <<cell, owed, must>> /\ Mine(r).st # "HalfOpen"
              \/ /\ Mine(r).st = "HalfOpen"
                 /\ Closes({<<req[r].lane, req[r].pool>>})
                 /\ \E c \in Cells :
                      c.st = "Closed" /\ Becomes(req[r].lane, req[r].pool, c)
           /\ UNCHANGED <<next, writer, prober, apply>>
<1>0. req[r].pc = "inflight"
  BY DEF Success
<1>1. /\ req[r].lane \in Lanes /\ req[r].pool \in Keys
      /\ Mine(r) = cell[req[r].lane][req[r].pool] /\ Mine(r) \in Cells
      /\ cell \in Stores /\ req \in [Requests -> Calls]
  BY <1>0, MineIsCell
<1>2. Close(Mine(r)) \in Cells /\ Close(Mine(r)).st = "Closed"
  BY <1>1, CellOpsTyped
<1>3. Only(r) /\ req'[r].pc = "idle"
  BY <1>1, DoneAt DEF Success
<1>4. CASE Mine(r).st = "HalfOpen"
  <2>1. Becomes(req[r].lane, req[r].pool, Close(Mine(r)))
    BY <1>1, <1>2, <1>4, PutAt DEF Success
  <2> QED
    BY <1>0, <1>2, <1>3, <1>4, <2>1 DEF Success
<1>5. CASE Mine(r).st # "HalfOpen"
  BY <1>0, <1>3, <1>5 DEF Success
<1> QED
  BY <1>4, <1>5

(* A failure trips the cell, lets it cool down or changes nothing. *)
LEMMA FailureAt ==
    ASSUME TypeOK, OnLane, NEW r \in Requests, Failure(r)
    PROVE  /\ Only(r)
           /\ req[r].pc = "inflight" /\ req'[r].pc = "idle"
           /\ \E c \in Failed(Mine(r)) : Becomes(req[r].lane, req[r].pool, c)
           /\ UNCHANGED <<next, writer, prober, apply, owed, must>>
<1>0. req[r].pc = "inflight"
  BY DEF Failure
<1>1. /\ req[r].lane \in Lanes /\ req[r].pool \in Keys /\ Mine(r) \in Cells
      /\ cell \in Stores /\ req \in [Requests -> Calls]
  BY <1>0, MineIsCell
<1>2. PICK c \in Failed(Mine(r)) : Put(req[r].lane, req[r].pool, c)
  BY DEF Failure
<1>3. Becomes(req[r].lane, req[r].pool, c)
  BY <1>1, <1>2, CellOpsTyped, PutAt
<1> QED
  BY <1>0, <1>1, <1>3, DoneAt DEF Failure

(* The ways to leave an attempt without an outcome. *)
Leaves(r) == Release(r) \/ Bail(r) \/ Cancel(r)

(* A probe given back reopens its cell, and one left behind is Dropped. *)
LEMMA LeavesAt ==
    ASSUME TypeOK, OnLane, NEW r \in Requests, Leaves(r)
    PROVE  /\ Only(r)
           /\ req[r].pc = "inflight" /\ req'[r].pc = "idle"
           /\ \E c \in Cells :
                /\ Becomes(req[r].lane, req[r].pool, c)
                /\ \/ c = Mine(r) /\ ~(c.st = "HalfOpen" /\ c.probe = r)
                   \/ Mine(r).st = "HalfOpen" /\ c.st = "Open"
                   \/ Mine(r).st = "HalfOpen" /\ c.st = "HalfOpen" /\ c.probe = Dropped
           /\ UNCHANGED <<next, writer, prober, apply, owed, must>>
<1>0. req[r].pc = "inflight"
  BY DEF Leaves, Release, Bail, Cancel
<1>1. /\ req[r].lane \in Lanes /\ req[r].pool \in Keys
      /\ Mine(r) = cell[req[r].lane][req[r].pool] /\ Mine(r) \in Cells
      /\ cell \in Stores /\ req \in [Requests -> Calls]
  BY <1>0, MineIsCell
<1>2. /\ Done(r)
      /\ UNCHANGED <<next, writer, prober, apply, owed, must>>
  BY DEF Leaves, Release, Bail, Cancel
<1>3. Only(r) /\ req'[r].pc = "idle"
  BY <1>1, <1>2, DoneAt
<1>4. CASE Mine(r).st = "HalfOpen" /\ Put(req[r].lane, req[r].pool, Reopen(Mine(r)))
  <2> DEFINE c == Reopen(Mine(r))
  <2>1. c \in Cells /\ c.st = "Open"
    BY <1>1 DEF Cells, States, Reopen
  <2> HIDE DEF c
  <2>2. Becomes(req[r].lane, req[r].pool, c)
    BY <1>1, <1>4, <2>1, PutAt DEF c
  <2> QED
    BY <1>0, <1>2, <1>3, <1>4, <2>1, <2>2
<1>5. CASE /\ Mine(r).st = "HalfOpen"
           /\ Put(req[r].lane, req[r].pool, [Mine(r) EXCEPT !.probe = Dropped])
  <2> DEFINE c == [Mine(r) EXCEPT !.probe = Dropped]
  <2>1. c \in Cells /\ c.st = "HalfOpen" /\ c.probe = Dropped
    BY <1>1, <1>5 DEF Cells
  <2> HIDE DEF c
  <2>2. Becomes(req[r].lane, req[r].pool, c)
    BY <1>1, <1>5, <2>1, PutAt DEF c
  <2> QED
    BY <1>0, <1>2, <1>3, <1>5, <2>1, <2>2
<1>6. CASE UNCHANGED cell /\ ~(Mine(r).st = "HalfOpen" /\ Mine(r).probe = r)
  BY <1>0, <1>1, <1>2, <1>3, <1>6, StaysAt
<1> QED
  BY <1>4, <1>5, <1>6 DEF Leaves, Release, Bail, Cancel, Owns

(* A hard-down trips the default cell of the lane first, *)
LEMMA TripDefaultAt ==
    ASSUME TypeOK, NEW l \in Lanes, TripDefault(l)
    PROVE  /\ \E c \in Cells : c.st = "Open" /\ Becomes(l, Default, c)
           /\ owed' = owed \cup ({l} \X Pools)
<1>0. cell \in Stores /\ Default \in Keys
  BY DEF TypeOK, Keys
<1>1. cell[l][Default] \in Cells
  BY <1>0 DEF Stores
<1> DEFINE c == Trip(cell[l][Default])
<1>2. c \in Cells /\ c.st = "Open"
  BY <1>1, CellOpsTyped
<1>3. Becomes(l, Default, c)
  BY <1>0, <1>2, PutAt DEF TripDefault
<1> QED
  BY <1>2, <1>3 DEF TripDefault

(* then every pool's cell that exists, when no cell is being created. *)
LEMMA TripPoolsAt ==
    ASSUME TypeOK, NEW l \in Lanes, TripPools(l)
    PROVE  /\ writer = NoOne
           /\ \E f \in [Keys -> Cells] :
                /\ LaneBecomes(l, f)
                /\ \A p \in Keys :
                     IF p # Default /\ Exists(cell[l][p])
                     THEN f[p].st = "Open" ELSE f[p] = cell[l][p]
<1> DEFINE f == [p \in Keys |-> IF p # Default /\ Exists(cell[l][p])
                                THEN Trip(cell[l][p]) ELSE cell[l][p]]
<1>1. cell \in Stores
  BY DEF TypeOK
<1>2. \A p \in Keys : cell[l][p] \in Cells
  BY <1>1 DEF Stores
<1>3. f \in [Keys -> Cells]
  BY <1>2, CellOpsTyped
<1>4. \A p \in Keys : IF p # Default /\ Exists(cell[l][p])
                      THEN f[p].st = "Open" ELSE f[p] = cell[l][p]
  BY <1>2, CellOpsTyped
<1>5. cell' = [cell EXCEPT ![l] = f]
  BY <1>1 DEF TripPools, TripEach
<1> HIDE DEF f
<1>6. LaneBecomes(l, f)
  BY <1>1, <1>3, <1>5, SweepAt
<1> QED
  BY <1>3, <1>4, <1>6 DEF TripPools

(* A request that spreads a hard-down goes on and is done. *)
LEMMA HardDownAt ==
    ASSUME TypeOK, OnLane, NEW r \in Requests, HardDown(r) \/ HardDownPools(r)
    PROVE  /\ Only(r) /\ req[r].lane \in Lanes
           /\ IF HardDown(r)
              THEN /\ TripDefault(req[r].lane)
                   /\ req[r].pc = "inflight" /\ req'[r].pc = "down"
                   /\ req'[r].lane = req[r].lane /\ req'[r].pool = req[r].pool
              ELSE /\ TripPools(req[r].lane) /\ UNCHANGED owed
                   /\ req[r].pc = "down" /\ req'[r].pc = "idle"
           /\ UNCHANGED <<next, writer, prober, apply, must>>
<1>0. req[r].lane \in Lanes /\ req \in [Requests -> Calls]
  BY DEF HardDown, HardDownPools, OnLane, TypeOK
<1>1. CASE HardDown(r)
  BY <1>0, <1>1, ToAt DEF HardDown
<1>2. CASE HardDownPools(r) /\ ~HardDown(r)
  BY <1>0, <1>2, DoneAt DEF HardDownPools
<1> QED
  BY <1>1, <1>2

(* A prober moves alone. *)
LEMMA ProbingAt ==
    ASSUME TypeOK, NEW l \in Lanes, NEW from,
           NEW to \in {"idle", "down", "fail", "pools"}, Probing(l, from, to)
    PROVE  /\ prober' \in [Lanes -> {"idle", "down", "fail", "pools"}]
           /\ prober[l] = from /\ prober'[l] = to
           /\ \A k \in Lanes : k # l => prober'[k] = prober[k]
BY DEF TypeOK, Probing

(* What a prober's step leaves alone. *)
LEMMA ProberAt ==
    ASSUME TypeOK, NEW l \in Lanes, ProberStep(l)
    PROVE  /\ prober' \in [Lanes -> {"idle", "down", "fail", "pools"}]
           /\ \A k \in Lanes : prober[k] = "down" /\ prober'[k] # "down"
                                 => k = l /\ ProbeDownPools(l)
           /\ ProbeDown(l) => prober'[l] = "down"
           /\ UNCHANGED <<next, writer, req, apply>>
<1>1. CASE ProbeDown(l)
  <2>1. Probing(l, "idle", "down")
    BY <1>1 DEF ProbeDown
  <2> QED
    BY <1>1, <2>1, ProbingAt DEF ProbeDown
<1>2. CASE ProbeDownPools(l)
  <2>1. Probing(l, "down", "idle")
    BY <1>2 DEF ProbeDownPools
  <2>2. prober[l] = "down"
    BY <2>1 DEF Probing
  <2>3. ~ProbeDown(l)
    BY <2>2 DEF ProbeDown, Probing
  <2> QED
    BY <1>2, <2>1, <2>3, ProbingAt DEF ProbeDownPools
<1>3. CASE (ProbeFails(l) \/ ProbeFailsPools(l) \/ Recover(l) \/ RecoverPools(l)) /\ ~ProbeDown(l)
  <2>1. PICK from \in {"idle", "fail", "pools"}, to \in {"idle", "fail", "pools"} :
          Probing(l, from, to)
    BY <1>3 DEF ProbeFails, ProbeFailsPools, Recover, RecoverPools
  <2>2. UNCHANGED <<next, writer, req, apply>>
    BY <1>3 DEF ProbeFails, ProbeFailsPools, Recover, RecoverPools
  <2> QED
    BY <1>3, <2>1, <2>2, ProbingAt
<1> QED
  BY <1>1, <1>2, <1>3 DEF ProberStep

(* The prober's failure of a default cell, *)
LEMMA ProbeFailsAt ==
    ASSUME TypeOK, NEW l \in Lanes, ProbeFails(l)
    PROVE  /\ \E c \in Failed(cell[l][Default]) : Becomes(l, Default, c)
           /\ UNCHANGED <<next, writer, req, apply, owed, must>>
<1>0. cell \in Stores /\ Default \in Keys
  BY DEF TypeOK, Keys
<1>1. cell \in Stores /\ Default \in Keys /\ cell[l][Default] \in Cells
  BY <1>0 DEF Stores
<1>2. PICK c \in Failed(cell[l][Default]) : Put(l, Default, c)
  BY DEF ProbeFails
<1>3. Becomes(l, Default, c)
  BY <1>1, <1>2, CellOpsTyped, PutAt
<1> QED
  BY <1>3 DEF ProbeFails

(* and of the others. *)
LEMMA ProbeFailsPoolsAt ==
    ASSUME TypeOK, NEW l \in Lanes, ProbeFailsPools(l)
    PROVE  /\ \E f \in [Keys -> Cells] :
                /\ LaneBecomes(l, f)
                /\ f[Default] = cell[l][Default]
                /\ \A p \in Pools : f[p] \in Failed(cell[l][p])
           /\ UNCHANGED <<next, writer, req, apply, owed, must>>
<1>1. cell \in Stores
  BY DEF TypeOK
<1>2. \A p \in Keys : cell[l][p] \in Cells
  BY <1>1 DEF Stores
<1>3. PICK g \in [Pools -> UNION {Failed(cell[l][p]) : p \in Pools}] :
         /\ \A p \in Pools : g[p] \in Failed(cell[l][p])
         /\ cell' = [cell EXCEPT ![l] = [p \in Keys |-> IF p = Default THEN @[p] ELSE g[p]]]
  BY DEF ProbeFailsPools
<1> DEFINE f == [p \in Keys |-> IF p = Default THEN cell[l][p] ELSE g[p]]
<1>4. \A p \in Pools : g[p] \in Cells
  BY <1>2, <1>3, CellOpsTyped DEF Keys
<1>5. f \in [Keys -> Cells]
  BY <1>2, <1>4 DEF Keys
<1>6. f[Default] = cell[l][Default] /\ \A p \in Pools : f[p] = g[p]
  BY LaneCellsAssumption DEF Keys
<1>7. cell' = [cell EXCEPT ![l] = f]
  BY <1>1, <1>3
<1> HIDE DEF f
<1>9. LaneBecomes(l, f)
  BY <1>1, <1>5, <1>7, SweepAt
<1> QED
  BY <1>3, <1>5, <1>6, <1>9 DEF ProbeFailsPools

(* A successful health probe closes the default cell of the lane, *)
LEMMA RecoverAt ==
    ASSUME TypeOK, NEW l \in Lanes, Recover(l)
    PROVE  /\ \E c \in Cells : c.st = "Closed" /\ Becomes(l, Default, c)
           /\ Closes({<<l, Default>>})
           /\ UNCHANGED <<next, writer, req, apply>>
<1>0. cell \in Stores /\ Default \in Keys
  BY DEF TypeOK, Keys
<1>1. cell \in Stores /\ Default \in Keys /\ cell[l][Default] \in Cells
  BY <1>0 DEF Stores
<1> DEFINE c == Close(cell[l][Default])
<1>2. c \in Cells /\ c.st = "Closed"
  BY <1>1, CellOpsTyped
<1>3. Becomes(l, Default, c)
  BY <1>1, <1>2, PutAt DEF Recover
<1> QED
  BY <1>2, <1>3 DEF Recover

(* then the pools' cells that are tripped or cooling down. *)
LEMMA RecoverPoolsAt ==
    ASSUME TypeOK, NEW l \in Lanes, RecoverPools(l)
    PROVE  /\ \E S \in SUBSET Pools :
                /\ \A p \in S : Exists(cell[l][p])
                /\ Closes({<<l, p>> : p \in S})
                /\ \E f \in [Keys -> Cells] :
                     /\ LaneBecomes(l, f)
                     /\ \A p \in Keys :
                          IF p \in S THEN f[p].st = "Closed"
                                     ELSE f[p] = cell[l][p]
           /\ UNCHANGED <<next, writer, req, apply>>
<1> DEFINE S == {p \in Pools : Suppressed(cell[l][p])}
           f == [p \in Keys |-> IF p \in S THEN Close(cell[l][p]) ELSE cell[l][p]]
<1>1. cell \in Stores
  BY DEF TypeOK
<1>2. \A p \in Keys : cell[l][p] \in Cells
  BY <1>1 DEF Stores
<1>3. f \in [Keys -> Cells]
  BY <1>2, CellOpsTyped
<1>4. \A p \in Keys : IF p \in S THEN f[p].st = "Closed" ELSE f[p] = cell[l][p]
  BY <1>2, CellOpsTyped
<1>5. cell' = [cell EXCEPT ![l] = f] /\ Closes({<<l, p>> : p \in S})
  BY <1>1 DEF RecoverPools
<1>6. S \in SUBSET Pools /\ \A p \in S : Exists(cell[l][p])
  BY DEF Suppressed
<1> HIDE DEF f, S
<1>8. LaneBecomes(l, f)
  BY <1>1, <1>3, <1>5, SweepAt
<1> QED
  BY <1>1, <1>3, <1>4, <1>5, <1>6, <1>8 DEF RecoverPools

(* A cooldown that runs out leaves the state of the cell. *)
LEMMA CoolAt ==
    ASSUME TypeOK, NEW l \in Lanes, NEW p \in Keys, Cool(l, p)
    PROVE  /\ \E c \in Cells : /\ c.st = cell[l][p].st /\ c.probe = cell[l][p].probe
                               /\ Becomes(l, p, c)
           /\ UNCHANGED <<next, writer, req, prober, apply, owed, must>>
<1> DEFINE c == [cell[l][p] EXCEPT !.hot = FALSE]
<1>1. cell \in Stores /\ cell[l][p] \in Cells
  BY DEF TypeOK, Stores
<1>2. c \in Cells /\ c.st = cell[l][p].st /\ c.probe = cell[l][p].probe
  BY <1>1 DEF Cells
<1>3. Put(l, p, c)
  BY DEF Cool
<1> HIDE DEF c
<1>4. Becomes(l, p, c)
  BY <1>1, <1>2, <1>3, PutAt
<1> QED
  BY <1>2, <1>4 DEF Cool

(* A new store has its default cells, Closed, and no other. *)
LEMMA NewStoreAt ==
    /\ NewStore \in Stores
    /\ \A l \in Lanes, p \in Keys :
         NewStore[l][p].st = IF p = Default THEN "Closed" ELSE "none"
<1>1. NoCell \in Cells /\ NoCell.st = "none"
  BY DEF NoCell, Cells, States
<1>2. Fresh \in Cells /\ Fresh.st = "Closed"
  BY <1>1 DEF Fresh, NoCell, Cells, States
<1> QED
  BY <1>1, <1>2 DEF NewStore, Stores

(* The export of a default cell, *)
LEMMA ExportDefaultAt ==
    ASSUME TypeOK, ExportDefault
    PROVE  /\ next' \in Stores
           /\ \A k \in Lanes, q \in Keys :
                next'[k][q] = IF k = Min(apply.todo) /\ q = Default
                              THEN Carried(cell[k][q]) ELSE next[k][q]
           /\ apply.pc = "default"
           /\ apply' \in [pc : {"pools"}, todo : {apply.todo}]
           /\ UNCHANGED <<cell, writer, req, prober, owed, must>>
<1> DEFINE l == Min(apply.todo)
<1>1. next' = [next EXCEPT ![l][Default] = Carried(cell[l][Default])]
  BY DEF ExportDefault
<1>2. next \in Stores /\ cell \in Stores /\ Default \in Keys
  BY DEF TypeOK, Keys
<1>3. \A k \in Lanes : Carried(cell[k][Default]) \in Cells
  BY <1>2, CellOpsTyped DEF Stores
<1> HIDE DEF l
<1>4. /\ next' \in Stores
      /\ \A k \in Lanes, q \in Keys :
           next'[k][q] = IF k = l /\ q = Default THEN Carried(cell[k][q]) ELSE next[k][q]
  BY <1>1, <1>2, <1>3 DEF Stores
<1>5. apply.pc = "default" /\ apply' \in [pc : {"pools"}, todo : {apply.todo}]
  BY DEF ExportDefault, TypeOK
<1> QED
  BY <1>4, <1>5 DEF ExportDefault, l

(* and of the pools' cells of a lane. *)
LEMMA ExportPoolsAt ==
    ASSUME TypeOK, ExportPools
    PROVE  /\ next' \in Stores
           /\ \A k \in Lanes, q \in Keys :
                next'[k][q] = IF k = Min(apply.todo) /\ q # Default /\ Exists(cell[k][q])
                              THEN Carried(cell[k][q]) ELSE next[k][q]
           /\ apply.pc = "pools"
           /\ apply'.todo = apply.todo \ {Min(apply.todo)}
           /\ apply'.pc = IF apply'.todo = {} THEN "swap" ELSE "default"
           /\ apply' \in [pc : {"idle", "default", "pools", "swap"}, todo : SUBSET Lanes]
           /\ UNCHANGED <<cell, writer, req, prober, owed, must>>
<1> DEFINE l == Min(apply.todo)
           f == [p \in Keys |-> IF p # Default /\ Exists(cell[l][p])
                                THEN Carried(cell[l][p]) ELSE next[l][p]]
<1>1. next' = [next EXCEPT ![l] = [p \in Keys |-> IF p # Default /\ Exists(cell[l][p])
                                                  THEN Carried(cell[l][p]) ELSE @[p]]]
  BY DEF ExportPools
<1>2. next \in Stores /\ cell \in Stores
  BY DEF TypeOK
<1>3. \A k \in Lanes, q \in Keys : Carried(cell[k][q]) \in Cells
  BY <1>2, CellOpsTyped DEF Stores
<1>4. /\ apply.pc = "pools" /\ apply'.todo = apply.todo \ {l}
      /\ apply'.pc = IF apply'.todo = {} THEN "swap" ELSE "default"
      /\ apply' \in [pc : {"idle", "default", "pools", "swap"}, todo : SUBSET Lanes]
  BY DEF ExportPools, ExportNext, TypeOK
<1>5. \A k \in Lanes : next'[k] = IF k = l THEN f ELSE next[k]
  BY <1>1, <1>2 DEF Stores
<1>6. l \in Lanes => f \in [Keys -> Cells]
  BY <1>2, <1>3 DEF Stores
<1>7. next' \in Stores
  <2> HIDE DEF f, l
  <2> QED BY <1>1, <1>2, <1>5, <1>6 DEF Stores
<1>8. \A k \in Lanes, q \in Keys :
        next'[k][q] = IF k = l /\ q # Default /\ Exists(cell[k][q])
                      THEN Carried(cell[k][q]) ELSE next[k][q]
  <2> TAKE k \in Lanes, q \in Keys
  <2>1. next'[k] = IF k = l THEN f ELSE next[k]
    BY <1>5
  <2>2. f[q] = IF q # Default /\ Exists(cell[l][q]) THEN Carried(cell[l][q]) ELSE next[l][q]
    OBVIOUS
  <2> HIDE DEF f, l
  <2> QED
    BY <2>1, <2>2
<1> QED
  BY <1>4, <1>7, <1>8 DEF ExportPools

(***************************************************************************)
(* The inductive invariant, one conjunct after the other                   *)
(***************************************************************************)
(* Every step keeps the types. *)
LEMMA StepTypes ==
    ASSUME TypeOK, OnLane, Creating, [Next]_vars
    PROVE  TypeOK' /\ OnLane'
<1> USE LaneCellsAssumption DEF TypeOK, OnLane
<1>0. Default \in Keys /\ Pools \subseteq Keys
  BY DEF Keys
<1>a. \A l \in Lanes, p \in Keys : cell[l][p] \in Cells
  BY DEF Stores
<1>1. ASSUME NEW r \in Requests, Selecting(r) PROVE TypeOK' /\ OnLane'
  BY <1>0, <1>1, SelectingAt DEF Only
<1>2. ASSUME NEW r \in Requests, CreateRead(r) PROVE TypeOK' /\ OnLane'
  BY <1>0, <1>2, CreateReadAt DEF Only
<1>3. ASSUME NEW r \in Requests, CreateStore(r) PROVE TypeOK' /\ OnLane'
  BY <1>0, <1>3, CreateStoreAt DEF Only, Becomes, Creating, Exists
<1>4. ASSUME NEW r \in Requests, Acquire(r) PROVE TypeOK' /\ OnLane'
  BY <1>0, <1>4, AcquireAt, MineIsCell DEF Only, Becomes, Exists
<1>5. ASSUME NEW r \in Requests, Success(r) PROVE TypeOK' /\ OnLane'
  BY <1>0, <1>5, SuccessAt DEF Only, Becomes, Exists, Closes
<1>6. ASSUME NEW r \in Requests, Failure(r) PROVE TypeOK' /\ OnLane'
  BY <1>0, <1>6, FailureAt, MineIsCell, CellOpsTyped DEF Only, Becomes
<1>7. ASSUME NEW r \in Requests, Leaves(r) PROVE TypeOK' /\ OnLane'
  BY <1>0, <1>7, LeavesAt, MineIsCell DEF Only, Becomes, Exists
<1>8. ASSUME NEW l \in Lanes, TripDefault(l)
      PROVE  /\ cell' \in Stores /\ \A k \in Lanes : Exists(cell'[k][Default])
             /\ owed' \subseteq Lanes \X Pools
  BY <1>0, <1>8, TripDefaultAt DEF Becomes, Exists
<1>9. ASSUME NEW l \in Lanes, TripPools(l)
      PROVE  cell' \in Stores /\ \A k \in Lanes : Exists(cell'[k][Default])
  BY <1>0, <1>9, TripPoolsAt DEF LaneBecomes, Exists, Keys
<1>10. ASSUME NEW r \in Requests, HardDown(r) \/ HardDownPools(r) PROVE TypeOK' /\ OnLane'
  <2>1. CASE HardDown(r)
    BY <1>0, <1>8, <1>10, <2>1, HardDownAt DEF Only
  <2>2. CASE HardDownPools(r) /\ ~HardDown(r)
    BY <1>0, <1>9, <1>10, <2>2, HardDownAt DEF Only
  <2> QED
    BY <1>10, <2>1, <2>2
<1>11. ASSUME NEW l \in Lanes, ProberStep(l) PROVE TypeOK' /\ OnLane'
  <2>0. /\ UNCHANGED <<next, writer, req, apply>>
        /\ prober' \in [Lanes -> {"idle", "down", "fail", "pools"}]
    BY <1>11, ProberAt
  <2>1. ASSUME /\ cell' \in Stores /\ \A k \in Lanes : Exists(cell'[k][Default])
               /\ owed' \subseteq Lanes \X Pools /\ must' \subseteq Lanes \X Keys
        PROVE  TypeOK' /\ OnLane'
    BY <2>0, <2>1
  <2>2. CASE ProbeDown(l)
    BY <1>8, <2>1, <2>2 DEF ProbeDown
  <2>3. CASE ProbeDownPools(l)
    BY <1>9, <2>1, <2>3 DEF ProbeDownPools
  <2>4. CASE ProbeFails(l)
    <3>1. PICK c \in Failed(cell[l][Default]) : Becomes(l, Default, c)
      BY <2>4, ProbeFailsAt
    <3> QED
      BY <1>0, <1>a, <2>1, <2>4, <3>1, CellOpsTyped DEF Becomes, ProbeFails
  <2>5. CASE ProbeFailsPools(l)
    <3>1. PICK f \in [Keys -> Cells] : LaneBecomes(l, f) /\ f[Default] = cell[l][Default]
      BY <2>5, ProbeFailsPoolsAt
    <3> QED
      BY <1>0, <2>1, <2>5, <3>1 DEF LaneBecomes, ProbeFailsPools
  <2>6. CASE Recover(l)
    BY <1>0, <2>1, <2>6, RecoverAt DEF Becomes, Exists, Closes
  <2>7. CASE RecoverPools(l)
    BY <1>0, <2>1, <2>7, RecoverPoolsAt DEF LaneBecomes, Keys, Closes
  <2> QED
    BY <1>11, <2>2, <2>3, <2>4, <2>5, <2>6, <2>7 DEF ProberStep
<1>14. ASSUME NEW l \in Lanes, NEW p \in Keys, Cool(l, p) PROVE TypeOK' /\ OnLane'
  BY <1>0, <1>14, CoolAt DEF Becomes, Exists
<1>15. ASSUME ApplyBegin PROVE TypeOK' /\ OnLane'
  BY <1>0, <1>15, NewStoreAt DEF ApplyBegin, Exists, Keys
<1>16. ASSUME ExportDefault PROVE TypeOK' /\ OnLane'
  BY <1>0, <1>16, <1>a, ExportDefaultAt, CellOpsTyped DEF Exists, Inherited
<1>17. ASSUME ExportPools PROVE TypeOK' /\ OnLane'
  BY <1>0, <1>17, ExportPoolsAt DEF Exists, Keys
<1>18. ASSUME Swap PROVE TypeOK' /\ OnLane'
  BY <1>0, <1>18, NewStoreAt, IdleCall DEF Swap, Exists, Keys
<1>19. CASE UNCHANGED vars
  BY <1>19 DEF vars
<1> QED
  BY <1>1, <1>2, <1>3, <1>4, <1>5, <1>6, <1>7, <1>10, <1>11, <1>14,
     <1>15, <1>16, <1>17, <1>18, <1>19 DEF Next, RequestStep, Selecting, Leaves

(* The steps that neither create a cell nor swap the store. *)
AttemptStep(r) == Acquire(r) \/ Success(r) \/ Failure(r) \/ Leaves(r)

LaneStep ==
    \/ \E r \in Requests : HardDown(r) \/ HardDownPools(r)
    \/ \E l \in Lanes : ProberStep(l)
    \/ \E l \in Lanes, p \in Keys : Cool(l, p)

(* They leave every cell in being or in not being. *)
LEMMA ExistenceKept ==
    ASSUME TypeOK, OnLane, (\E r \in Requests : AttemptStep(r)) \/ LaneStep
    PROVE  \A k \in Lanes, q \in Keys : Exists(cell'[k][q]) <=> Exists(cell[k][q])
<1> DEFINE G == \A k \in Lanes, q \in Keys : Exists(cell'[k][q]) <=> Exists(cell[k][q])
<1>0. Default \in Keys /\ Pools \subseteq Keys /\ Keys = Pools \cup {Default}
  BY DEF Keys
<1>a. \A l \in Lanes, p \in Keys : cell[l][p] \in Cells
  BY DEF TypeOK, Stores
<1>b. \A l \in Lanes : Exists(cell[l][Default])
  BY DEF TypeOK
<1>1. ASSUME NEW r \in Requests, Acquire(r) PROVE G
  BY <1>1, AcquireAt, MineIsCell DEF Becomes, Exists
<1>2. ASSUME NEW r \in Requests, Success(r) PROVE G
  <2>1. CASE UNCHANGED cell
    BY <2>1
  <2>2. CASE /\ Mine(r).st = "HalfOpen"
             /\ \E c \in Cells : c.st = "Closed" /\ Becomes(req[r].lane, req[r].pool, c)
    BY <2>2 DEF Becomes, Exists, Mine
  <2> QED
    BY <1>2, <2>1, <2>2, SuccessAt
<1>3. ASSUME NEW r \in Requests, Failure(r) PROVE G
  BY <1>3, FailureAt, MineIsCell, CellOpsTyped DEF Becomes
<1>4. ASSUME NEW r \in Requests, Leaves(r) PROVE G
  BY <1>4, LeavesAt, MineIsCell DEF Becomes, Exists
<1>5. ASSUME NEW l \in Lanes, TripDefault(l) PROVE G
  BY <1>b, <1>5, TripDefaultAt DEF Becomes, Exists
<1>6. ASSUME NEW l \in Lanes, TripPools(l) PROVE G
  BY <1>6, TripPoolsAt DEF LaneBecomes, Exists
<1>7. ASSUME NEW l \in Lanes, Recover(l) PROVE G
  <2>1. PICK c \in Cells : c.st = "Closed" /\ Becomes(l, Default, c)
    BY <1>7, RecoverAt
  <2> QED
    BY <1>b, <2>1 DEF Becomes, Exists
<1>8. ASSUME NEW l \in Lanes, ProbeFails(l) PROVE G
  <2>1. PICK c \in Failed(cell[l][Default]) : Becomes(l, Default, c)
    BY <1>8, ProbeFailsAt
  <2> QED
    BY <1>0, <1>a, <2>1, CellOpsTyped DEF Becomes
<1>9. ASSUME NEW l \in Lanes, ProbeFailsPools(l) PROVE G
  <2>1. PICK f \in [Keys -> Cells] :
           /\ LaneBecomes(l, f) /\ f[Default] = cell[l][Default]
           /\ \A p \in Pools : f[p] \in Failed(cell[l][p])
    BY <1>9, ProbeFailsPoolsAt
  <2> QED
    BY <1>0, <1>a, <2>1, CellOpsTyped DEF LaneBecomes
<1>10. ASSUME NEW l \in Lanes, RecoverPools(l) PROVE G
  <2>1. PICK S \in SUBSET Pools :
           /\ \A p \in S : Exists(cell[l][p])
           /\ \E f \in [Keys -> Cells] :
                /\ LaneBecomes(l, f)
                /\ \A p \in Keys : IF p \in S THEN f[p].st = "Closed"
                                             ELSE f[p] = cell[l][p]
    BY <1>10, RecoverPoolsAt
  <2> QED
    BY <2>1 DEF LaneBecomes, Exists
<1>11. ASSUME NEW l \in Lanes, NEW p \in Keys, Cool(l, p) PROVE G
  BY <1>11, CoolAt DEF Becomes, Exists
<1>12. ASSUME NEW r \in Requests, HardDown(r) \/ HardDownPools(r) PROVE G
  BY <1>5, <1>6, <1>12, HardDownAt
<1>13. ASSUME NEW l \in Lanes, ProberStep(l) PROVE G
  BY <1>5, <1>6, <1>7, <1>8, <1>9, <1>10, <1>13 DEF ProberStep, ProbeDown, ProbeDownPools
<1> QED
  BY <1>1, <1>2, <1>3, <1>4, <1>11, <1>12, <1>13 DEF AttemptStep, LaneStep

(* The steps as the proofs below take them apart. *)
LEMMA StepCases ==
    ASSUME [Next]_vars
    PROVE  \/ \E r \in Requests : Selecting(r) \/ CreateRead(r) \/ CreateStore(r) \/ AttemptStep(r)
           \/ LaneStep
           \/ ApplyBegin \/ ExportDefault \/ ExportPools \/ Swap
           \/ UNCHANGED vars
BY DEF Next, RequestStep, Selecting, AttemptStep, Leaves, LaneStep

(* A cell is created by the holder of the write lock, and by no other. *)
LEMMA StepCreating ==
    ASSUME TypeOK, OnLane, Creating, [Next]_vars
    PROVE  Creating'
<1> USE LaneCellsAssumption
<1>0. Pools \subseteq Keys
  BY DEF Keys
<1>1. ASSUME NEW r \in Requests, Selecting(r) PROVE Creating'
  BY <1>1, SelectingAt DEF Only, Creating, TypeOK
<1>2. ASSUME NEW r \in Requests, CreateRead(r) PROVE Creating'
  BY <1>2, CreateReadAt DEF Only, Creating
<1>3. ASSUME NEW r \in Requests, CreateStore(r) PROVE Creating'
  BY <1>3, CreateStoreAt DEF Only, Creating
<1>4. ASSUME UNCHANGED writer,
             \A s \in Requests : (req'[s].pc = "create" <=> req[s].pc = "create"),
             \A s \in Requests : req[s].pc = "create" => req'[s] = req[s],
             \A k \in Lanes, q \in Keys : Exists(cell'[k][q]) <=> Exists(cell[k][q])
      PROVE  Creating'
  <2>1. writer' # NoOne => req'[writer'].pc = "create"
    BY <1>4 DEF Creating, TypeOK
  <2>2. ASSUME NEW r \in Requests, req'[r].pc = "create"
        PROVE  /\ writer' = r
               /\ req'[r].pool \in Pools
               /\ ~Exists(cell'[req'[r].lane][req'[r].pool])
               /\ req'[r].st \in {"Closed", "Open"}
    <3>1. req[r].pc = "create" /\ req'[r] = req[r]
      BY <1>4, <2>2
    <3>2. req[r].lane \in Lanes /\ req[r].pool \in Pools
      BY <3>1 DEF OnLane, Creating
    <3> QED
      BY <1>0, <1>4, <3>1, <3>2 DEF Creating
  <2> QED
    BY <2>1, <2>2 DEF Creating
<1>5. ASSUME NEW r \in Requests, AttemptStep(r) PROVE Creating'
  <2>1. /\ UNCHANGED writer /\ Only(r)
        /\ req[r].pc \in {"acquire", "inflight"} /\ req'[r].pc \in {"idle", "inflight"}
    BY <1>5, AcquireAt, SuccessAt, FailureAt, LeavesAt DEF AttemptStep
  <2> QED
    BY <1>4, <1>5, <2>1, ExistenceKept DEF Only
<1>6. ASSUME LaneStep PROVE Creating'
  <2>1. \A k \in Lanes, q \in Keys : Exists(cell'[k][q]) <=> Exists(cell[k][q])
    BY <1>6, ExistenceKept
  <2>2. ASSUME NEW r \in Requests, HardDown(r) \/ HardDownPools(r) PROVE Creating'
    <3>1. /\ UNCHANGED writer /\ Only(r)
          /\ req[r].pc \in {"inflight", "down"} /\ req'[r].pc \in {"down", "idle"}
      BY <2>2, HardDownAt
    <3> QED
      BY <1>4, <2>1, <3>1 DEF Only
  <2>3. CASE UNCHANGED <<req, writer>>
    BY <1>4, <2>1, <2>3
  <2> QED
    BY <1>6, <2>2, <2>3, ProberAt DEF LaneStep, Cool
<1>7. ASSUME Swap PROVE Creating'
  BY <1>7, IdleCall DEF Swap, Creating
<1>8. ASSUME UNCHANGED <<cell, writer, req>> PROVE Creating'
  BY <1>8 DEF Creating
<1> QED
  BY <1>1, <1>2, <1>3, <1>5, <1>6, <1>7, <1>8, StepCases
     DEF ApplyBegin, ExportDefault, ExportPools, vars

(* A HalfOpen cell keeps the request that answers for it. *)
LEMMA StepProbes ==
    ASSUME TypeOK, OnLane, Creating, ProbeOwned, NextHasNoProbe, [Next]_vars
    PROVE  ProbeOwned'
<1> USE LaneCellsAssumption
<1>0. Default \in Keys /\ Pools \subseteq Keys /\ Keys = Pools \cup {Default}
  BY DEF Keys
<1>a. \A l \in Lanes, p \in Keys : cell[l][p] \in Cells
  BY DEF TypeOK, Stores
<1>1. ASSUME NEW r \in Requests, Selecting(r) \/ CreateRead(r) PROVE ProbeOwned'
  <2>1. /\ UNCHANGED cell /\ Only(r) /\ req[r].pc \in {"idle", "filter"}
    BY <1>1, SelectingAt, CreateReadAt
  <2> QED
    BY <2>1 DEF ProbeOwned, Only
<1>2. ASSUME NEW r \in Requests, CreateStore(r) PROVE ProbeOwned'
  BY <1>2, CreateStoreAt DEF ProbeOwned, Only, Becomes, Creating
<1>3. ASSUME NEW r \in Requests, Acquire(r) PROVE ProbeOwned'
  BY <1>3, AcquireAt, MineIsCell DEF ProbeOwned, Only, Becomes
<1>4. ASSUME NEW r \in Requests, Only(r), req[r].pc = "inflight",
             NEW c, Becomes(req[r].lane, req[r].pool, c),
             c.st = "HalfOpen" => c.probe = Dropped \/ (c = Mine(r) /\ c.probe # r)
      PROVE  ProbeOwned'
  <2>1. /\ req[r].lane \in Lanes /\ req[r].pool \in Keys
        /\ Mine(r) = cell[req[r].lane][req[r].pool]
    BY <1>4, MineIsCell
  <2>2. ASSUME NEW l \in Lanes, NEW p \in Keys, cell'[l][p].st = "HalfOpen"
        PROVE  \/ cell'[l][p].probe = Dropped
               \/ cell'[l][p] = cell[l][p] /\ cell[l][p].probe # r
    <3>1. CASE l = req[r].lane /\ p = req[r].pool
      <4>1. cell'[l][p] = c
        BY <1>4, <3>1 DEF Becomes
      <4> QED
        BY <1>4, <2>1, <2>2, <3>1, <4>1
    <3>2. CASE ~(l = req[r].lane /\ p = req[r].pool)
      <4>1. cell'[l][p] = cell[l][p]
        BY <1>4, <3>2 DEF Becomes
      <4> QED
        BY <2>1, <2>2, <3>2, <4>1 DEF ProbeOwned
    <3> QED
      BY <3>1, <3>2
  <2> QED
    BY <1>4, <2>2 DEF ProbeOwned, Only
<1>5. ASSUME NEW r \in Requests, Success(r) PROVE ProbeOwned'
  <2>1. Only(r) /\ req[r].pc = "inflight"
    BY <1>5, SuccessAt
  <2>2. CASE UNCHANGED cell /\ Mine(r).st # "HalfOpen"
    <3>1. req[r].lane \in Lanes /\ req[r].pool \in Keys /\ cell \in Stores
      BY <2>1, MineIsCell
    <3>2. Becomes(req[r].lane, req[r].pool, Mine(r))
      BY <2>2, <3>1, StaysAt DEF Mine
    <3> QED
      BY <1>4, <2>1, <2>2, <3>2
  <2>3. CASE \E c \in Cells : c.st = "Closed" /\ Becomes(req[r].lane, req[r].pool, c)
    BY <1>4, <2>1, <2>3
  <2> QED
    BY <1>5, <2>2, <2>3, SuccessAt
<1>6. ASSUME NEW r \in Requests, Failure(r) PROVE ProbeOwned'
  BY <1>4, <1>6, FailureAt, MineIsCell, CellOpsTyped
<1>7. ASSUME NEW r \in Requests, Leaves(r) PROVE ProbeOwned'
  BY <1>4, <1>7, LeavesAt
<1>8. ASSUME NEW r \in Requests, HardDown(r) \/ HardDownPools(r) PROVE ProbeOwned'
  <2>1. CASE HardDown(r)
    <3>1. /\ Only(r) /\ req[r].lane \in Lanes
          /\ req[r].pc = "inflight" /\ req'[r].pc = "down"
          /\ req'[r].lane = req[r].lane /\ req'[r].pool = req[r].pool
      BY <2>1, HardDownAt
    <3>2. PICK c \in Cells : c.st = "Open" /\ Becomes(req[r].lane, Default, c)
      BY <2>1, HardDownAt, TripDefaultAt
    <3>3. SUFFICES ASSUME NEW l \in Lanes, NEW p \in Keys, cell'[l][p].st = "HalfOpen",
                          cell'[l][p].probe # Dropped
                   PROVE  \E s \in Requests :
                             /\ cell'[l][p].probe = s
                             /\ req'[s].pc = "inflight" \/ (req'[s].pc = "down" /\ p # Default)
                             /\ req'[s].lane = l /\ req'[s].pool = p
      BY DEF ProbeOwned
    <3>4. /\ cell'[l][p] = cell[l][p]
          /\ ~(l = req[r].lane /\ p = Default)
      BY <1>0, <3>2, <3>3 DEF Becomes
    <3>5. PICK s \in Requests :
             /\ cell[l][p].probe = s
             /\ req[s].pc = "inflight" \/ (req[s].pc = "down" /\ p # Default)
             /\ req[s].lane = l /\ req[s].pool = p
      BY <3>3, <3>4 DEF ProbeOwned
    <3>6. CASE s = r
      BY <3>1, <3>4, <3>5, <3>6
    <3>7. CASE s # r
      BY <3>1, <3>4, <3>5, <3>7 DEF Only
    <3> QED
      BY <3>6, <3>7
  <2>2. CASE HardDownPools(r) /\ ~HardDown(r)
    <3>1. /\ Only(r) /\ req[r].lane \in Lanes
          /\ req[r].pc = "down" /\ req'[r].pc = "idle"
      BY <1>8, <2>2, HardDownAt
    <3>2. PICK f \in [Keys -> Cells] :
             /\ LaneBecomes(req[r].lane, f)
             /\ \A p \in Keys : IF p # Default /\ Exists(cell[req[r].lane][p])
                                THEN f[p].st = "Open" ELSE f[p] = cell[req[r].lane][p]
      BY <1>8, <2>2, HardDownAt, TripPoolsAt
    <3>3. SUFFICES ASSUME NEW l \in Lanes, NEW p \in Keys, cell'[l][p].st = "HalfOpen",
                          cell'[l][p].probe # Dropped
                   PROVE  \E s \in Requests :
                             /\ cell'[l][p].probe = s
                             /\ req'[s].pc = "inflight" \/ (req'[s].pc = "down" /\ p # Default)
                             /\ req'[s].lane = l /\ req'[s].pool = p
      BY DEF ProbeOwned
    <3>4. /\ cell'[l][p] = cell[l][p]
          /\ ~(l = req[r].lane /\ p # Default)
      BY <3>2, <3>3 DEF LaneBecomes, Exists
    <3>5. PICK s \in Requests :
             /\ cell[l][p].probe = s
             /\ req[s].pc = "inflight" \/ (req[s].pc = "down" /\ p # Default)
             /\ req[s].lane = l /\ req[s].pool = p
      BY <3>3, <3>4 DEF ProbeOwned
    <3>6. s # r
      BY <3>1, <3>4, <3>5
    <3> QED
      BY <3>1, <3>4, <3>5, <3>6 DEF Only
  <2> QED
    BY <1>8, <2>1, <2>2
<1>10. ASSUME UNCHANGED req,
              \A k \in Lanes, q \in Keys :
                cell'[k][q].st = "HalfOpen" =>
                  cell[k][q].st = "HalfOpen" /\ cell'[k][q].probe = cell[k][q].probe
       PROVE  ProbeOwned'
  BY <1>10 DEF ProbeOwned
<1>11. ASSUME NEW l \in Lanes, Recover(l) PROVE ProbeOwned'
  <2>1. PICK c \in Cells : c.st = "Closed" /\ Becomes(l, Default, c)
    BY <1>11, RecoverAt
  <2> QED
    BY <1>10, <1>11, <2>1 DEF Becomes, Recover
<1>12. ASSUME NEW l \in Lanes, ProbeFails(l) PROVE ProbeOwned'
  <2>1. PICK c \in Failed(cell[l][Default]) : Becomes(l, Default, c)
    BY <1>12, ProbeFailsAt
  <2>2. c.st # "HalfOpen"
    BY <1>0, <1>a, CellOpsTyped
  <2> QED
    BY <1>10, <1>12, <2>1, <2>2 DEF Becomes, ProbeFails
<1>13. ASSUME NEW l \in Lanes, ProbeFailsPools(l) PROVE ProbeOwned'
  <2>1. PICK f \in [Keys -> Cells] :
           /\ LaneBecomes(l, f) /\ f[Default] = cell[l][Default]
           /\ \A p \in Pools : f[p] \in Failed(cell[l][p])
    BY <1>13, ProbeFailsPoolsAt
  <2>2. \A p \in Pools : f[p].st # "HalfOpen"
    <3>1. \A p \in Pools : cell[l][p] \in Cells
      BY <1>0, <1>a
    <3> QED
      BY <2>1, <3>1, CellOpsTyped
  <2>3. ASSUME NEW k \in Lanes, NEW q \in Keys, cell'[k][q].st = "HalfOpen"
        PROVE  cell'[k][q] = cell[k][q]
    <3>1. CASE k = l /\ q # Default
      BY <1>0, <2>1, <2>2, <2>3, <3>1 DEF LaneBecomes
    <3>2. CASE ~(k = l /\ q # Default)
      BY <2>1, <3>2 DEF LaneBecomes
    <3> QED
      BY <3>1, <3>2
  <2> QED
    BY <1>10, <1>13, <2>3 DEF ProbeFailsPools
<1>14. ASSUME NEW l \in Lanes, RecoverPools(l) PROVE ProbeOwned'
  <2>1. PICK S \in SUBSET Pools, f \in [Keys -> Cells] :
           /\ LaneBecomes(l, f)
           /\ \A p \in Keys : IF p \in S THEN f[p].st = "Closed"
                                         ELSE f[p] = cell[l][p]
    BY <1>14, RecoverPoolsAt
  <2> QED
    BY <1>10, <1>14, <2>1 DEF LaneBecomes, RecoverPools
<1>9. ASSUME NEW l \in Lanes, ProbeDown(l) \/ ProbeDownPools(l) PROVE ProbeOwned'
  <2>1. CASE ProbeDown(l)
    BY <1>10, <2>1, TripDefaultAt DEF Becomes, ProbeDown
  <2>2. CASE ProbeDownPools(l)
    <3>1. PICK f \in [Keys -> Cells] :
             /\ LaneBecomes(l, f)
             /\ \A p \in Keys : IF p # Default /\ Exists(cell[l][p])
                                THEN f[p].st = "Open" ELSE f[p] = cell[l][p]
      BY <2>2, TripPoolsAt DEF ProbeDownPools
    <3> QED
      BY <1>10, <2>2, <3>1 DEF LaneBecomes, ProbeDownPools
  <2> QED
    BY <1>9, <2>1, <2>2
<1>15. ASSUME NEW l \in Lanes, NEW p \in Keys, Cool(l, p) PROVE ProbeOwned'
  BY <1>10, <1>15, CoolAt DEF Becomes
<1>16. ASSUME Swap PROVE ProbeOwned'
  BY <1>16 DEF Swap, NextHasNoProbe, ProbeOwned
<1>17. ASSUME UNCHANGED <<cell, req>> PROVE ProbeOwned'
  BY <1>10, <1>17
<1>18. ASSUME LaneStep PROVE ProbeOwned'
  BY <1>8, <1>9, <1>11, <1>12, <1>13, <1>14, <1>15, <1>18 DEF LaneStep, ProberStep
<1>19. ASSUME NEW r \in Requests, AttemptStep(r) PROVE ProbeOwned'
  BY <1>3, <1>5, <1>6, <1>7, <1>19 DEF AttemptStep
<1> QED
  BY <1>1, <1>2, <1>16, <1>17, <1>18, <1>19, StepCases
     DEF ApplyBegin, ExportDefault, ExportPools, vars

(* No probe is exported. *)
LEMMA StepNext ==
    ASSUME TypeOK, NextHasNoProbe, [Next]_vars
    PROVE  NextHasNoProbe'
<1>a. \A l \in Lanes, p \in Keys : cell[l][p] \in Cells
  BY DEF TypeOK, Stores
<1>1. ASSUME ApplyBegin \/ Swap PROVE NextHasNoProbe'
  BY <1>1, NewStoreAt DEF ApplyBegin, Swap, NextHasNoProbe
<1>2. ASSUME ExportDefault PROVE NextHasNoProbe'
  BY <1>a, <1>2, ExportDefaultAt, CellOpsTyped DEF NextHasNoProbe, Inherited
<1>3. ASSUME ExportPools PROVE NextHasNoProbe'
  BY <1>a, <1>3, ExportPoolsAt, CellOpsTyped DEF NextHasNoProbe, Inherited
<1>4. ASSUME UNCHANGED next PROVE NextHasNoProbe'
  BY <1>4 DEF NextHasNoProbe
<1> QED
  BY <1>1, <1>2, <1>3, <1>4
     DEF Next, RequestStep, Start, Filter, CreateRead, CreateStore, NoneHealthy, Select, Acquire,
         Success, Failure, Release, Bail, Cancel, HardDown, HardDownPools,
         ProberStep, ProbeDown, ProbeDownPools, Recover, ProbeFails,
         ProbeFailsPools, RecoverPools, Cool, vars

(* A cell that closes leaves what is owed, and with a default cell those   *)
(* that would be copied from it.                                           *)
LEMMA ClosesAt ==
    ASSUME NEW S, Closes(S), TypeOK
    PROVE  /\ owed' \subseteq owed /\ must' = must \ S
           /\ \A x \in S : x \notin owed'
           /\ \A l \in Lanes, p \in Pools :
                <<l, p>> \in owed' /\ <<l, Default>> \in S => Exists(cell[l][p])
BY DEF Closes

(* A request does not fall behind what a hard-down owes. *)
LEMMA StepReaches ==
    ASSUME TypeOK, OnLane, Creating, Reaches, [Next]_vars
    PROVE  Reaches'
<1> USE LaneCellsAssumption
<1>0. Default \in Keys /\ Pools \subseteq Keys /\ Keys = Pools \cup {Default}
  BY DEF Keys
<1>a. \A l \in Lanes, p \in Keys : cell[l][p] \in Cells
  BY DEF TypeOK, Stores
<1> DEFINE Kept == \A k \in Lanes, q \in Keys : Exists(cell'[k][q]) <=> Exists(cell[k][q])
           Creators == \A s \in Requests :
                         req'[s].pc = "create" \/ req[s].pc = "create" => req'[s] = req[s]
           Sweeps == \A k \in Lanes : Sweeping(k) => Sweeping(k)'
           NoneCloses == \A k \in Lanes, q \in Keys :
                           cell'[k][q].st = "Closed" => cell[k][q].st = "Closed"
\* A step that closes only what it takes off the list.
<1>1. ASSUME owed' \subseteq owed, Kept, Creators, Sweeps,
             \A k \in Lanes, q \in Keys :
               cell'[k][q].st = "Closed" =>
                 \/ cell[k][q].st = "Closed"
                 \/ /\ <<k, q>> \notin owed'
                    /\ q = Default => \A p \in Pools : <<k, p>> \in owed' => Exists(cell[k][p])
      PROVE  Reaches'
  <2> SUFFICES ASSUME NEW l \in Lanes, NEW p \in Pools, <<l, p>> \in owed'
               PROVE  /\ ~Exists(cell'[l][p]) => cell'[l][Default].st # "Closed"
                      /\ Exists(cell'[l][p]) => cell'[l][p].st # "Closed" \/ Sweeping(l)'
                      /\ \A r \in Requests :
                           req'[r].pc = "create" /\ req'[r].lane = l /\ req'[r].pool = p
                             => req'[r].st # "Closed" \/ Sweeping(l)'
    BY DEF Reaches
  <2>1. Sweeping(l) => Sweeping(l)'
    BY <1>1
  <2>2. ~Exists(cell'[l][p]) => cell'[l][Default].st # "Closed"
    BY <1>0, <1>1 DEF Reaches
  <2>3. Exists(cell'[l][p]) => cell'[l][p].st # "Closed" \/ Sweeping(l)'
    BY <1>0, <1>1, <2>1 DEF Reaches
  <2>4. \A r \in Requests : req'[r].pc = "create" /\ req'[r].lane = l /\ req'[r].pool = p
                              => req'[r].st # "Closed" \/ Sweeping(l)'
    BY <1>1, <2>1 DEF Reaches
  <2> QED
    BY <2>2, <2>3, <2>4
<1>2. ASSUME NEW r \in Requests, Selecting(r) PROVE Reaches'
  BY <1>1, <1>2, SelectingAt DEF Only, Sweeping
<1>3. ASSUME NEW r \in Requests, CreateRead(r) PROVE Reaches'
  <2> DEFINE m == req'[r].lane
  <2>1. /\ Only(r) /\ UNCHANGED <<cell, owed, prober>> /\ req[r].pc = "filter" /\ req'[r].pc = "create"
        /\ m \in Lanes /\ req'[r].pool \in Pools /\ ~Exists(cell[m][req'[r].pool])
        /\ req'[r].st = Inherited(cell[m][Default].st)
    BY <1>3, CreateReadAt
  <2>2. \A l \in Lanes : Sweeping(l) => Sweeping(l)'
    BY <2>1 DEF Sweeping, Only
  <2>3. <<m, req'[r].pool>> \in owed => req'[r].st # "Closed"
    BY <2>1 DEF Reaches, Inherited
  <2> QED
    BY <2>1, <2>2, <2>3 DEF Reaches, Only
<1>4. ASSUME NEW r \in Requests, CreateStore(r) PROVE Reaches'
  <2> DEFINE m == req[r].lane
             n == req[r].pool
  <2>1. PICK c \in Cells : c.st = req[r].st /\ Becomes(m, n, c)
    BY <1>4, CreateStoreAt
  <2>2. /\ Only(r) /\ UNCHANGED <<owed, prober>> /\ req[r].pc = "create" /\ req'[r].pc = "filter"
        /\ m \in Lanes /\ n \in Pools /\ \A s \in Requests : s # r => req[s].pc # "create"
    BY <1>4, CreateStoreAt DEF Creating, OnLane
  <2>3. \A l \in Lanes : Sweeping(l) => Sweeping(l)'
    BY <2>2 DEF Sweeping, Only
  <2>4. \A s \in Requests : req'[s].pc # "create"
    BY <2>2 DEF Only
  <2>5. \A l \in Lanes : cell'[l][Default] = cell[l][Default]
    BY <1>0, <2>1, <2>2 DEF Becomes
  <2>6. <<m, n>> \in owed => c.st # "Closed" \/ Sweeping(m)
    BY <2>1, <2>2 DEF Reaches
  <2> SUFFICES ASSUME NEW l \in Lanes, NEW p \in Pools, <<l, p>> \in owed
               PROVE  /\ ~Exists(cell'[l][p]) => cell'[l][Default].st # "Closed"
                      /\ Exists(cell'[l][p]) => cell'[l][p].st # "Closed" \/ Sweeping(l)'
    BY <2>2, <2>4 DEF Reaches
  <2>7. CASE l = m /\ p = n
    <3>1. cell'[l][p] = c /\ Exists(c)
      BY <1>0, <2>1, <2>2, <2>7 DEF Becomes, Creating, Exists
    <3> QED
      BY <2>3, <2>6, <2>7, <3>1
  <2>8. CASE ~(l = m /\ p = n)
    <3>1. cell'[l][p] = cell[l][p]
      BY <1>0, <2>1, <2>8 DEF Becomes
    <3> QED
      BY <2>3, <2>5, <3>1 DEF Reaches
  <2> QED
    BY <2>7, <2>8
<1>5. ASSUME NEW r \in Requests, AttemptStep(r) PROVE Reaches'
  <2>1. Only(r) /\ req[r].pc \in {"acquire", "inflight"} /\ req'[r].pc \in {"idle", "inflight"}
    BY <1>5, AcquireAt, SuccessAt, FailureAt, LeavesAt DEF AttemptStep
  <2>2. Creators /\ Sweeps /\ Kept
    <3>1. UNCHANGED prober
      BY <1>5, AcquireAt, SuccessAt, FailureAt, LeavesAt DEF AttemptStep
    <3> QED
      BY <1>5, <2>1, <3>1, ExistenceKept DEF Only, Sweeping
  <2>3. ASSUME NoneCloses, UNCHANGED owed PROVE Reaches'
    BY <1>1, <2>2, <2>3
  <2>4. CASE Acquire(r)
    BY <2>3, <2>4, AcquireAt, MineIsCell DEF Becomes
  <2>5. CASE Failure(r)
    BY <2>3, <2>5, FailureAt, MineIsCell, CellOpsTyped DEF Becomes
  <2>6. CASE Leaves(r)
    BY <2>3, <2>6, LeavesAt, MineIsCell DEF Becomes
  <2>7. CASE Success(r)
    <3>1. CASE UNCHANGED <<cell, owed>>
      BY <2>3, <3>1
    <3>2. CASE /\ Closes({<<req[r].lane, req[r].pool>>})
               /\ \E c \in Cells : Becomes(req[r].lane, req[r].pool, c)
      <4> DEFINE m == req[r].lane
                 n == req[r].pool
      <4>1. \A k \in Lanes, q \in Keys : cell'[k][q] = cell[k][q] \/ (k = m /\ q = n)
        BY <3>2 DEF Becomes
      <4>2. owed' \subseteq owed /\ <<m, n>> \notin owed'
        BY <3>2, ClosesAt
      <4>3. \A l \in Lanes, p \in Pools :
               <<l, p>> \in owed' /\ l = m /\ n = Default => Exists(cell[l][p])
        BY <3>2, ClosesAt
      <4> HIDE DEF m, n
      <4> QED
        BY <1>1, <2>2, <4>1, <4>2, <4>3
    <3> QED
      BY <2>7, <3>1, <3>2, SuccessAt
  <2> QED
    BY <1>5, <2>4, <2>5, <2>6, <2>7 DEF AttemptStep
\* The first half of a hard-down, by whomever.
<1>6. ASSUME NEW m \in Lanes, TripDefault(m), Creators, Sweeps, Sweeping(m)' PROVE Reaches'
  <2>1. PICK c \in Cells : c.st = "Open" /\ Becomes(m, Default, c)
    BY <1>6, TripDefaultAt
  <2>2. owed' = owed \cup ({m} \X Pools)
    BY <1>6, TripDefaultAt
  <2>4. \A l \in Lanes, p \in Pools : cell'[l][p] = cell[l][p]
    BY <1>0, <2>1 DEF Becomes
  <2>5. \A l \in Lanes : cell'[l][Default] = IF l = m THEN c ELSE cell[l][Default]
    BY <1>0, <2>1 DEF Becomes
  <2>7. \A l \in Lanes, p \in Pools : <<l, p>> \in owed' => l = m \/ <<l, p>> \in owed
    BY <2>2
  <2> SUFFICES ASSUME NEW l \in Lanes, NEW p \in Pools, <<l, p>> \in owed'
               PROVE  /\ ~Exists(cell'[l][p]) => cell'[l][Default].st # "Closed"
                      /\ Exists(cell'[l][p]) => cell'[l][p].st # "Closed" \/ Sweeping(l)'
                      /\ \A s \in Requests :
                           req'[s].pc = "create" /\ req'[s].lane = l /\ req'[s].pool = p
                             => req'[s].st # "Closed" \/ Sweeping(l)'
    BY DEF Reaches
  <2>8. CASE l = m
    BY <1>6, <2>1, <2>5, <2>8
  <2>9. CASE l # m
    <3>1. <<l, p>> \in owed /\ cell'[l][p] = cell[l][p] /\ cell'[l][Default] = cell[l][Default]
      BY <2>4, <2>5, <2>7, <2>9
    <3>2. \A s \in Requests : req'[s].pc = "create" /\ req'[s].lane = l /\ req'[s].pool = p
                               => req'[s].st # "Closed" \/ Sweeping(l)'
      BY <1>6, <3>1 DEF Reaches
    <3> QED
      BY <1>6, <3>1, <3>2 DEF Reaches
  <2> QED
    BY <2>8, <2>9
\* The second half.
<1>7. ASSUME NEW m \in Lanes, TripPools(m), UNCHANGED owed,
             \A s \in Requests : req'[s].pc # "create",
             \A k \in Lanes : k # m /\ Sweeping(k) => Sweeping(k)'
      PROVE  Reaches'
  <2>1. PICK f \in [Keys -> Cells] :
           /\ LaneBecomes(m, f)
           /\ \A p \in Keys : IF p # Default /\ Exists(cell[m][p])
                              THEN f[p].st = "Open" ELSE f[p] = cell[m][p]
    BY <1>7, TripPoolsAt
  <2>4. \A l \in Lanes : cell'[l][Default] = cell[l][Default]
    BY <1>0, <2>1 DEF LaneBecomes
  <2>6. \A p \in Pools : IF Exists(cell[m][p]) THEN cell'[m][p].st = "Open"
                                               ELSE cell'[m][p] = cell[m][p]
    BY <1>0, <2>1 DEF LaneBecomes
  <2>7. \A l \in Lanes, p \in Pools : l # m => cell'[l][p] = cell[l][p]
    BY <1>0, <2>1 DEF LaneBecomes
  <2> SUFFICES ASSUME NEW l \in Lanes, NEW p \in Pools, <<l, p>> \in owed
               PROVE  /\ ~Exists(cell'[l][p]) => cell'[l][Default].st # "Closed"
                      /\ Exists(cell'[l][p]) => cell'[l][p].st # "Closed" \/ Sweeping(l)'
    BY <1>7 DEF Reaches
  <2>8. CASE l = m
    BY <2>4, <2>6, <2>8 DEF Reaches, Exists
  <2>9. CASE l # m
    BY <1>7, <2>4, <2>7, <2>9 DEF Reaches
  <2> QED
    BY <2>8, <2>9
<1>16. ASSUME NEW r \in Requests, HardDown(r) \/ HardDownPools(r) PROVE Reaches'
  <2>1. Only(r) /\ req[r].lane \in Lanes /\ UNCHANGED prober
    BY <1>16, HardDownAt
  <2>2. CASE HardDown(r)
    <3>1. /\ TripDefault(req[r].lane)
          /\ req[r].pc = "inflight" /\ req'[r].pc = "down" /\ req'[r].lane = req[r].lane
      BY <2>2, HardDownAt
    <3>2. Creators /\ Sweeps /\ Sweeping(req[r].lane)'
      BY <2>1, <3>1 DEF Only, Sweeping
    <3> QED
      BY <1>6, <2>1, <3>1, <3>2
  <2>3. CASE HardDownPools(r) /\ ~HardDown(r)
    <3>1. /\ TripPools(req[r].lane) /\ UNCHANGED owed
          /\ req[r].pc = "down" /\ req'[r].pc = "idle"
      BY <2>3, HardDownAt
    <3>2. \A s \in Requests : req'[s].pc # "create"
      BY <2>1, <3>1 DEF Only, Creating, TripPools
    <3>3. \A k \in Lanes : k # req[r].lane /\ Sweeping(k) => Sweeping(k)'
      BY <2>1, <3>1 DEF Only, Sweeping
    <3> QED
      BY <1>7, <2>1, <3>1, <3>2, <3>3
  <2> QED
    BY <1>16, <2>2, <2>3
<1>17. ASSUME NEW l \in Lanes, ProberStep(l)
       PROVE  /\ UNCHANGED <<req, writer>> /\ Creators
              /\ \A k \in Lanes : Sweeping(k) /\ ~Sweeping(k)' => k = l /\ ProbeDownPools(l)
              /\ ProbeDown(l) => Sweeping(l)'
  BY <1>17, ProberAt DEF Sweeping
<1>18. ASSUME NEW l \in Lanes, ProbeDown(l) PROVE Reaches'
  <2>1. ~ProbeDownPools(l) /\ ProberStep(l)
    BY <1>18 DEF ProbeDown, ProbeDownPools, Probing, ProberStep
  <2> QED
    BY <1>6, <1>17, <1>18, <2>1 DEF ProbeDown
<1>19. ASSUME NEW l \in Lanes, ProbeDownPools(l) PROVE Reaches'
  <2>1. UNCHANGED <<req, writer>> /\ writer = NoOne
    BY <1>19 DEF ProbeDownPools, TripPools
  <2>2. \A s \in Requests : req'[s].pc # "create"
    BY <2>1 DEF Creating
  <2> QED
    BY <1>7, <1>17, <1>19, <2>2 DEF ProbeDownPools, ProberStep
<1>8. ASSUME LaneStep, UNCHANGED <<req, owed>>, Sweeps, NoneCloses PROVE Reaches'
  <2>1. Kept
    BY <1>8, ExistenceKept
  <2> QED
    BY <1>1, <1>8, <2>1
<1>20. ASSUME NEW l \in Lanes, ProbeFails(l) \/ ProbeFailsPools(l) \/ Recover(l) \/ RecoverPools(l)
       PROVE  LaneStep /\ UNCHANGED req /\ Sweeps /\ Kept
  <2>1. ~ProbeDownPools(l) /\ ProberStep(l)
    BY <1>20 DEF ProbeFails, ProbeFailsPools, Recover, RecoverPools, ProbeDownPools, Probing,
                 ProberStep
  <2> QED
    BY <1>17, <2>1, ExistenceKept DEF LaneStep
<1>9. ASSUME NEW l \in Lanes, Recover(l) PROVE Reaches'
  <2>1. PICK c \in Cells : c.st = "Closed" /\ Becomes(l, Default, c)
    BY <1>9, RecoverAt
  <2>2. Closes({<<l, Default>>})
    BY <1>9, RecoverAt
  <2> QED
    BY <1>0, <1>1, <1>9, <1>20, <2>1, <2>2, ClosesAt DEF Becomes
<1>10. ASSUME NEW l \in Lanes, ProbeFails(l) PROVE Reaches'
  <2>1. PICK c \in Failed(cell[l][Default]) : Becomes(l, Default, c)
    BY <1>10, ProbeFailsAt
  <2>2. c.st = "Closed" => cell[l][Default].st = "Closed"
    BY <1>0, <1>a, CellOpsTyped
  <2>3. NoneCloses
    BY <2>1, <2>2 DEF Becomes
  <2> QED
    BY <1>8, <1>10, <1>20, <2>3 DEF ProbeFails
<1>11. ASSUME NEW l \in Lanes, ProbeFailsPools(l) PROVE Reaches'
  <2>1. PICK f \in [Keys -> Cells] :
           /\ LaneBecomes(l, f) /\ f[Default] = cell[l][Default]
           /\ \A p \in Pools : f[p] \in Failed(cell[l][p])
    BY <1>11, ProbeFailsPoolsAt
  <2>2. \A p \in Keys : f[p].st = "Closed" => cell[l][p].st = "Closed"
    BY <1>0, <1>a, <2>1, CellOpsTyped
  <2>3. NoneCloses
    BY <2>1, <2>2 DEF LaneBecomes
  <2> QED
    BY <1>8, <1>11, <1>20, <2>3 DEF ProbeFailsPools
<1>12. ASSUME NEW l \in Lanes, RecoverPools(l) PROVE Reaches'
  <2>1. PICK S \in SUBSET Pools :
           /\ \A p \in S : Exists(cell[l][p])
           /\ Closes({<<l, p>> : p \in S})
           /\ \E f \in [Keys -> Cells] :
                /\ LaneBecomes(l, f)
                /\ \A p \in Keys : IF p \in S THEN f[p].st = "Closed"
                                             ELSE f[p] = cell[l][p]
    BY <1>12, RecoverPoolsAt
  <2>2. PICK f \in [Keys -> Cells] :
           /\ LaneBecomes(l, f)
           /\ \A p \in Keys : IF p \in S THEN f[p].st = "Closed"
                                         ELSE f[p] = cell[l][p]
    BY <2>1
  <2>4. owed' \subseteq owed /\ \A p \in S : <<l, p>> \notin owed'
    BY <2>1, ClosesAt
  <2>5. \A k \in Lanes, q \in Keys : cell'[k][q].st = "Closed" =>
          cell[k][q].st = "Closed" \/ (k = l /\ q \in S)
    BY <2>2 DEF LaneBecomes
  <2>6. Default \notin S
    BY <2>1
  <2> QED
    BY <1>1, <1>12, <1>20, <2>4, <2>5, <2>6
<1>13. ASSUME NEW l \in Lanes, NEW p \in Keys, Cool(l, p) PROVE Reaches'
  <2>1. NoneCloses
    BY <1>13, CoolAt DEF Becomes
  <2>2. Sweeps
    BY <1>13 DEF Cool, Sweeping
  <2> QED
    BY <1>8, <1>13, <2>1, <2>2 DEF LaneStep, Cool
<1>14. ASSUME Swap PROVE Reaches'
  BY <1>14 DEF Swap, Reaches
<1>15. ASSUME UNCHANGED <<cell, req, prober, owed>> PROVE Reaches'
  BY <1>1, <1>15 DEF Sweeping
<1> QED
  BY <1>2, <1>3, <1>4, <1>5, <1>9, <1>10, <1>11, <1>12, <1>13, <1>14, <1>15, <1>16, <1>18, <1>19,
     StepCases DEF LaneStep, ProberStep, ApplyBegin, ExportDefault, ExportPools, vars

(* What an apply has to carry over stays tripped until it closes, which    *)
(* takes it off the list, and is Open in the next store once exported.     *)
LEMMA StepCarrying ==
    ASSUME TypeOK, OnLane, Creating, Carrying, [Next]_vars
    PROVE  Carrying'
<1> USE LaneCellsAssumption
<1>0. Default \in Keys /\ Pools \subseteq Keys /\ Keys = Pools \cup {Default}
  BY DEF Keys
<1>a. \A l \in Lanes, p \in Keys : cell[l][p] \in Cells
  BY DEF TypeOK, Stores
<1> DEFINE Stays == \A k \in Lanes, q \in Keys :
                      cell[k][q].st \in {"Open", "HalfOpen"}
                        => cell'[k][q].st \in {"Open", "HalfOpen"} \/ <<k, q>> \notin must'
<1>1. ASSUME UNCHANGED <<next, apply>>, must' \subseteq must, Stays PROVE Carrying'
  BY <1>1 DEF Carrying, Exported
<1>2. ASSUME NEW r \in Requests, Selecting(r) \/ CreateRead(r) PROVE Carrying'
  BY <1>1, <1>2, SelectingAt, CreateReadAt
<1>3. ASSUME NEW r \in Requests, CreateStore(r) PROVE Carrying'
  <2>1. PICK c \in Cells : Becomes(req[r].lane, req[r].pool, c)
    BY <1>3, CreateStoreAt
  <2>2. Stays
    BY <1>3, <2>1 DEF Becomes, Creating, CreateStore, Exists
  <2> QED
    BY <1>1, <1>3, <2>2, CreateStoreAt
<1>4. ASSUME NEW r \in Requests, Acquire(r) PROVE Carrying'
  <2>1. Stays
    BY <1>4, AcquireAt, MineIsCell DEF Becomes
  <2> QED
    BY <1>1, <1>4, <2>1, AcquireAt
<1>5. ASSUME NEW r \in Requests, Success(r) PROVE Carrying'
  <2>1. CASE UNCHANGED <<cell, must>>
    BY <1>1, <1>5, <2>1, SuccessAt
  <2>2. CASE /\ Closes({<<req[r].lane, req[r].pool>>})
             /\ \E c \in Cells : Becomes(req[r].lane, req[r].pool, c)
    <3>1. must' = must \ {<<req[r].lane, req[r].pool>>}
      BY <2>2, ClosesAt
    <3>2. Stays
      BY <2>2, <3>1 DEF Becomes
    <3> QED
      BY <1>1, <1>5, <3>1, <3>2, SuccessAt
  <2> QED
    BY <1>5, <2>1, <2>2, SuccessAt
<1>6. ASSUME NEW r \in Requests, Failure(r) PROVE Carrying'
  <2>1. PICK c \in Failed(Mine(r)) : Becomes(req[r].lane, req[r].pool, c)
    BY <1>6, FailureAt
  <2>2. /\ Mine(r) = cell[req[r].lane][req[r].pool] /\ Mine(r) \in Cells
    BY <1>6, FailureAt, MineIsCell
  <2>3. Mine(r).st \in {"Open", "HalfOpen"} => c.st \in {"Open", "HalfOpen"}
    BY <2>2, CellOpsTyped DEF Cells, States, Exists
  <2>4. Stays
    BY <2>1, <2>2, <2>3 DEF Becomes
  <2> QED
    BY <1>1, <1>6, <2>4, FailureAt
<1>7. ASSUME NEW r \in Requests, Leaves(r) PROVE Carrying'
  <2>1. Stays
    <3>1. PICK c \in Cells : /\ Becomes(req[r].lane, req[r].pool, c)
                             /\ c = Mine(r) \/ c.st \in {"Open", "HalfOpen"}
      BY <1>7, LeavesAt
    <3> QED
      BY <3>1 DEF Becomes, Mine
  <2> QED
    BY <1>1, <1>7, <2>1, LeavesAt
<1>8. ASSUME NEW l \in Lanes, TripDefault(l) \/ TripPools(l) PROVE Stays
  BY <1>8, TripDefaultAt, TripPoolsAt DEF Becomes, LaneBecomes
<1>9. ASSUME NEW r \in Requests, HardDown(r) \/ HardDownPools(r) PROVE Carrying'
  BY <1>1, <1>8, <1>9, HardDownAt
<1>20. ASSUME NEW l \in Lanes, ProbeDown(l) \/ ProbeDownPools(l) PROVE Carrying'
  BY <1>1, <1>8, <1>20 DEF ProbeDown, ProbeDownPools
<1>10. ASSUME NEW l \in Lanes, Recover(l) PROVE Carrying'
  <2>1. PICK c \in Cells : Becomes(l, Default, c)
    BY <1>10, RecoverAt
  <2>2. must' = must \ {<<l, Default>>}
    BY <1>10, RecoverAt, ClosesAt
  <2>3. Stays
    BY <2>1, <2>2 DEF Becomes
  <2> QED
    BY <1>1, <1>10, <2>2, <2>3 DEF Recover
<1>11. ASSUME NEW l \in Lanes, ProbeFails(l) PROVE Carrying'
  <2>1. PICK c \in Failed(cell[l][Default]) : Becomes(l, Default, c)
    BY <1>11, ProbeFailsAt
  <2>2. cell[l][Default].st \in {"Open", "HalfOpen"} => c.st \in {"Open", "HalfOpen"}
    BY <1>0, <1>a, CellOpsTyped DEF Cells, States, Exists
  <2>3. Stays
    BY <2>1, <2>2 DEF Becomes
  <2> QED
    BY <1>1, <1>11, <2>3 DEF ProbeFails
<1>12. ASSUME NEW l \in Lanes, ProbeFailsPools(l) PROVE Carrying'
  <2>1. PICK f \in [Keys -> Cells] :
           /\ LaneBecomes(l, f) /\ f[Default] = cell[l][Default]
           /\ \A p \in Pools : f[p] \in Failed(cell[l][p])
    BY <1>12, ProbeFailsPoolsAt
  <2>2. \A p \in Pools : cell[l][p].st \in {"Open", "HalfOpen"}
                           => f[p].st \in {"Open", "HalfOpen"}
    <3>1. \A p \in Pools : cell[l][p] \in Cells
      BY <1>0, <1>a
    <3>2. \A p \in Pools : f[p] \in Cells
      BY <1>0, <2>1
    <3> QED
      BY <2>1, <3>1, <3>2, CellOpsTyped DEF Cells, States, Exists
  <2>3. Stays
    <3>1. \A k \in Lanes, q \in Keys :
            cell'[k][q] = IF k = l THEN f[q] ELSE cell[k][q]
      BY <2>1 DEF LaneBecomes
    <3> QED
      BY <1>0, <2>1, <2>2, <3>1
  <2> QED
    BY <1>1, <1>12, <2>3 DEF ProbeFailsPools
<1>13. ASSUME NEW l \in Lanes, RecoverPools(l) PROVE Carrying'
  <2>1. PICK S \in SUBSET Pools :
           /\ Closes({<<l, p>> : p \in S})
           /\ \E f \in [Keys -> Cells] :
                /\ LaneBecomes(l, f)
                /\ \A p \in Keys : IF p \in S THEN f[p].st = "Closed"
                                             ELSE f[p] = cell[l][p]
    BY <1>13, RecoverPoolsAt
  <2>2. must' = must \ {<<l, p>> : p \in S}
    BY <2>1, ClosesAt
  <2>3. \A k \in Lanes, q \in Keys :
           cell'[k][q] = cell[k][q] \/ (k = l /\ q \in S)
    BY <2>1 DEF LaneBecomes
  <2>4. Stays
    BY <2>2, <2>3
  <2> QED
    BY <1>1, <1>13, <2>2, <2>4 DEF RecoverPools
<1>14. ASSUME NEW l \in Lanes, NEW p \in Keys, Cool(l, p) PROVE Carrying'
  <2>1. Stays
    BY <1>14, CoolAt DEF Becomes
  <2> QED
    BY <1>1, <1>14, <2>1 DEF Cool
\* The export begins with every lane to do.
<1>15. ASSUME ApplyBegin PROVE Carrying'
  BY <1>15 DEF ApplyBegin, Carrying, Exported
<1>16. ASSUME ExportDefault PROVE Carrying'
  <2> DEFINE m == Min(apply.todo)
  <2>1. /\ \A k \in Lanes, q \in Keys :
             next'[k][q] = IF k = m /\ q = Default THEN Carried(cell[k][q]) ELSE next[k][q]
        /\ apply.pc = "default" /\ apply'.pc = "pools" /\ apply'.todo = apply.todo
        /\ UNCHANGED <<cell, must>>
    BY <1>16, ExportDefaultAt
  <2>2. ASSUME NEW l \in Lanes, NEW p \in Keys, <<l, p>> \in must, Exported(l, p)'
        PROVE  next'[l][p].st = "Open"
    <3>1. cell[l][p].st \in {"Open", "HalfOpen"}
      BY <2>2 DEF Carrying
    <3>2. CASE l = m /\ p = Default
      BY <1>a, <2>1, <3>1, <3>2, CellOpsTyped DEF Inherited
    <3>3. CASE ~(l = m /\ p = Default)
      BY <2>1, <2>2, <3>3 DEF Carrying, Exported
    <3> QED
      BY <3>2, <3>3
  <2> QED
    BY <2>1, <2>2 DEF Carrying
<1>17. ASSUME ExportPools PROVE Carrying'
  <2> DEFINE m == Min(apply.todo)
  <2>1. /\ \A k \in Lanes, q \in Keys :
             next'[k][q] = IF k = m /\ q # Default /\ Exists(cell[k][q])
                           THEN Carried(cell[k][q]) ELSE next[k][q]
        /\ apply.pc = "pools" /\ apply'.todo = apply.todo \ {m}
        /\ apply'.pc = IF apply'.todo = {} THEN "swap" ELSE "default"
        /\ UNCHANGED <<cell, must>>
    BY <1>17, ExportPoolsAt
  <2>2. ASSUME NEW l \in Lanes, NEW p \in Keys, <<l, p>> \in must, Exported(l, p)'
        PROVE  next'[l][p].st = "Open"
    <3>1. cell[l][p].st \in {"Open", "HalfOpen"}
      BY <2>2 DEF Carrying
    <3>2. CASE l = m /\ p # Default
      <4>1. next'[l][p] = Carried(cell[l][p])
        BY <2>1, <3>1, <3>2 DEF Exists
      <4> QED
        BY <1>a, <3>1, <4>1, CellOpsTyped DEF Inherited
    <3>3. CASE ~(l = m /\ p # Default)
      <4>1. next'[l][p] = next[l][p]
        BY <2>1, <3>3
      <4>2. Exported(l, p)
        BY <2>1, <2>2, <3>3 DEF Exported
      <4> QED
        BY <2>2, <4>1, <4>2 DEF Carrying
    <3> QED
      BY <3>2, <3>3
  <2> QED
    BY <2>1, <2>2 DEF Carrying
<1>18. ASSUME Swap PROVE Carrying'
  BY <1>18 DEF Swap, Carrying, TypeOK
<1>19. ASSUME UNCHANGED vars PROVE Carrying'
  BY <1>1, <1>19 DEF vars
<1> QED
  BY <1>2, <1>3, <1>4, <1>5, <1>6, <1>7, <1>9, <1>10, <1>11, <1>12, <1>13, <1>14,
     <1>15, <1>16, <1>17, <1>18, <1>19, <1>20, StepCases DEF AttemptStep, LaneStep, ProberStep

-----------------------------------------------------------------------------
(* The invariant holds of the store the process starts with, *)
LEMMA InitIInv == Init => IInv
<1> SUFFICES ASSUME Init PROVE IInv
  OBVIOUS
<1> USE LaneCellsAssumption, NewStoreAt, IdleCall DEF Init
<1>1. TypeOK
  BY DEF TypeOK, Exists, Keys
<1>2. OnLane /\ Creating
  BY DEF OnLane, Creating
<1>3. ProbeOwned /\ NextHasNoProbe
  BY DEF ProbeOwned, NextHasNoProbe
<1>4. Reaches /\ Carrying
  BY DEF Reaches, Carrying
<1> QED
  BY <1>1, <1>2, <1>3, <1>4 DEF IInv

(* every step keeps it, *)
LEMMA NextIInv == IInv /\ [Next]_vars => IInv'
BY StepTypes, StepCreating, StepProbes, StepNext, StepReaches, StepCarrying DEF IInv

(* and it holds for good. *)
LEMMA Inductive == Spec => []IInv
BY InitIInv, NextIInv, PTL DEF Spec

(* For any requests, pools and lanes the state keeps its types, and every  *)
(* lane its default cell.                                                  *)
THEOREM CellsTypeCorrect == Spec => []TypeOK
<1>1. IInv => TypeOK
  BY DEF IInv
<1> QED
  BY <1>1, Inductive, PTL

(* A HalfOpen cell was won by a request on that very cell, which answers   *)
(* for it or was dropped there: the lazy creation of a pool's cell and the *)
(* restore of a snapshot never make one on their own.                      *)
THEOREM ProbesCorrect == Spec => []ProbesAccounted
<1>1. IInv => ProbesAccounted
  <2>1. ASSUME IInv, NEW l \in Lanes, NEW p \in Keys, cell[l][p].st = "HalfOpen"
        PROVE  /\ cell[l][p].probe # NoOne
               /\ cell[l][p].probe # Dropped =>
                    /\ req[cell[l][p].probe].pc \in {"inflight", "down"}
                    /\ req[cell[l][p].probe].lane = l /\ req[cell[l][p].probe].pool = p
    BY <2>1, LaneCellsAssumption DEF IInv, ProbeOwned
  <2> QED
    BY <2>1 DEF ProbesAccounted
<1> QED
  BY <1>1, Inductive, PTL

(* After record_hard_down_all_cells every pool's cell of the lane is       *)
(* tripped, the ones created between its two halves included.              *)
THEOREM HardDownCorrect == Spec => []HardDownReachesAll
<1>1. ASSUME IInv PROVE HardDownReachesAll
  <2>1. ASSUME NEW x \in owed, Exists(cell[x[1]][x[2]]),
               ~Sweeping(x[1])
        PROVE  cell[x[1]][x[2]].st # "Closed"
    <3>1. PICK l \in Lanes, p \in Pools : x = <<l, p>>
      BY <1>1 DEF IInv, TypeOK
    <3> QED
      BY <1>1, <2>1, <3>1 DEF IInv, Reaches
  <2> QED
    BY <2>1 DEF HardDownReachesAll
<1> QED
  BY <1>1, Inductive, PTL

(* A config apply carries every trip over: what was tripped when the       *)
(* export began and has not closed since is Open in the new store.         *)
THEOREM ApplyCorrect == Spec => ApplyKeepsTrips
<1>1. ASSUME IInv, Swap PROVE \A x \in must : cell'[x[1]][x[2]].st = "Open"
  <2>1. ASSUME NEW x \in must PROVE cell'[x[1]][x[2]].st = "Open"
    <3>1. PICK l \in Lanes, p \in Keys : x = <<l, p>>
      BY <1>1 DEF IInv, TypeOK
    <3> QED
      BY <1>1, <3>1 DEF IInv, Carrying, Exported, Swap
  <2> QED
    BY <2>1
<1>2. IInv => [Swap => \A x \in must : cell'[x[1]][x[2]].st = "Open"]_vars
  BY <1>1
<1> QED
  BY <1>2, Inductive, PTL DEF ApplyKeepsTrips

=============================================================================
