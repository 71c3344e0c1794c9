------------------------------ MODULE LaneCells ------------------------------
(***************************************************************************)
(* The cells of the lanes of a pool and what moves between them            *)
(* (store/in_memory/mod.rs, store/in_memory/availability.rs): the lazy     *)
(* creation of a pool's cell from its lane's default cell, a hard-down and *)
(* a health probe that reach every cell of a lane, and the carry-over of   *)
(* health into the store of the next configuration.                        *)
(*                                                                         *)
(* A cell is reduced to what crosses from one to another; the transitions  *)
(* of a single cell, with their loads and locks, are in BreakerCell.  The  *)
(* cooldown is the flag hot: armed and not over yet.                       *)
(***************************************************************************)
EXTENDS Integers, FiniteSets, FiniteSetsExt

CONSTANTS Requests,
          Pools,          \* named pools; Default is the cell of direct routes
          Lanes,          \* indices of the lanes, candidates of every pool
          Default, NoOne,
          Dropped         \* owner of a probe whose request is gone without a trace

ASSUME LaneCellsAssumption ==
    /\ Lanes \subseteq Nat /\ IsFiniteSet(Lanes)
    /\ Default \notin Pools
    /\ NoOne \notin Requests
    /\ Dropped \notin Requests \cup {NoOne}

Keys  == Pools \cup {Default}

VARIABLES
    cell,       \* cell[l][p]: the cell of pool p on lane l of the store
    next,       \* next[l][p]: of the store a config apply is building
    writer,     \* holds the write lock of pool_cells, or NoOne
    req,        \* the requests
    prober,     \* prober[l]: what the health prober of lane l is doing
    apply,      \* a config apply: export, restore, swap
    owed,       \* history: pool cells that a hard-down has to reach
    must        \* history: tripped cells that the apply has to carry over

vars == <<cell, next, writer, req, prober, apply, owed, must>>

NoCell  == [st |-> "none", hot |-> FALSE, probe |-> NoOne]
Fresh   == [NoCell EXCEPT !.st = "Closed"]
Idle    == [pc |-> "idle", pool |-> Default, lane |-> 0,
            todo |-> {}, healthy |-> {}, st |-> ""]

(* new_with_limits: every lane has its default cell and no other. *)
NewStore == [l \in Lanes |-> [p \in Keys |-> IF p = Default THEN Fresh ELSE NoCell]]

Init ==
    /\ cell = NewStore
    /\ next = NewStore
    /\ writer = NoOne
    /\ req = [r \in Requests |-> Idle]
    /\ prober = [l \in Lanes |-> "idle"]
    /\ apply = [pc |-> "idle", todo |-> {}]
    /\ owed = {}
    /\ must = {}

(***************************************************************************)
(* One cell                                                                *)
(***************************************************************************)
Ready(c)  == c.st \in {"Closed", "Open"} /\ ~c.hot
Exists(c) == c.st # "none"

(* The trip of record_hard_down_all_cells: Open, a sticky cooldown, and    *)
(* any probe in flight released.                                           *)
Trip(c)  == [c EXCEPT !.st = "Open", !.hot = TRUE, !.probe = NoOne]
Close(c) == [c EXCEPT !.st = "Closed", !.hot = FALSE, !.probe = NoOne]

Put(l, p, c) == cell' = [cell EXCEPT ![l][p] = c]

(* History: the cells of S close.  A cell that does not exist yet takes    *)
(* the state of its default cell, so that one's recovery is its own.       *)
Closes(S) ==
    /\ must' = must \ S
    /\ owed' = {x \in owed \ S : <<x[1], Default>> \in S => Exists(cell[x[1]][x[2]])}

Mine(r) == cell[req[r].lane][req[r].pool]

To(r, pc) == req' = [req EXCEPT ![r].pc = pc]
Done(r)   == req' = [req EXCEPT ![r] = Idle]

(***************************************************************************)
(* Selection: select_weighted_for                                          *)
(***************************************************************************)
(* A request takes the current store and keeps it; a direct route names    *)
(* its lane, a pool's request filters the candidates.                       *)
Start(r, p) ==
    /\ req[r].pc = "idle"
    /\ \/ /\ p = Default
          /\ \E l \in Lanes :
               req' = [req EXCEPT ![r] = [Idle EXCEPT !.pc = "acquire", !.lane = l]]
       \/ /\ p # Default
          /\ req' = [req EXCEPT ![r] =
                       [Idle EXCEPT !.pc = "filter", !.pool = p,
                                    !.todo = Lanes]]
    /\ UNCHANGED <<cell, next, writer, prober, apply, owed, must>>

(* The next candidate: its cell is found, and kept if it is ready. *)
Filter(r) ==
    /\ req[r].pc = "filter" /\ req[r].todo # {}
    /\ LET l == Min(req[r].todo)
           c == cell[l][req[r].pool]
       IN  /\ Exists(c)
           /\ req' = [req EXCEPT ![r].todo = @ \ {l},
                                 ![r].healthy = IF Ready(c) THEN @ \cup {l} ELSE @]
    /\ UNCHANGED <<cell, next, writer, prober, apply, owed, must>>

\* Mutant: a HalfOpen state is copied.
MutInherited(st) == st

(* HalfOpen belongs to the cell whose probe is in flight, so neither a new *)
(* cell nor a restored one takes it (restored_breaker_state).              *)
Inherited(st) == IF st = "HalfOpen" THEN "Open" ELSE st

(* cell(): the cell is missing.  Under the write lock the default cell's   *)
(* state is read first,                                                    *)
CreateRead(r) ==
    /\ req[r].pc = "filter" /\ req[r].todo # {}
    /\ writer = NoOne
    /\ LET l == Min(req[r].todo)
       IN  /\ ~Exists(cell[l][req[r].pool])
           /\ req' = [req EXCEPT ![r].pc = "create", ![r].lane = l,
                        ![r].st = Inherited(cell[l][Default].st)]
    /\ writer' = r
    /\ UNCHANGED <<cell, next, prober, apply, owed, must>>

(* then its cooldown, which a transition may have changed in between.      *)
CreateStore(r) ==
    /\ req[r].pc = "create"
    /\ Put(req[r].lane, req[r].pool,
           [Fresh EXCEPT !.st = req[r].st,
                         !.hot = cell[req[r].lane][Default].hot])
    /\ writer' = NoOne
    /\ To(r, "filter")
    /\ UNCHANGED <<next, prober, apply, owed, must>>

NoneHealthy(r) ==
    /\ req[r].pc = "filter" /\ req[r].todo = {} /\ req[r].healthy = {}
    /\ Done(r)
    /\ UNCHANGED <<cell, next, writer, prober, apply, owed, must>>

(* Which of the cells found ready is taken is SwrrSelect's business. *)
Select(r) ==
    /\ req[r].pc = "filter" /\ req[r].todo = {}
    /\ \E l \in req[r].healthy :
         req' = [req EXCEPT ![r].pc = "acquire", ![r].lane = l, ![r].healthy = {}]
    /\ UNCHANGED <<cell, next, writer, prober, apply, owed, must>>

(***************************************************************************)
(* The attempt and its outcome                                             *)
(***************************************************************************)
(* cell_acquire_breaker: a Closed cell admits, an Open one whose cooldown  *)
(* is over gives out its one probe.                                        *)
Acquire(r) ==
    /\ req[r].pc = "acquire"
    /\ CASE Ready(Mine(r)) /\ Mine(r).st = "Closed" ->
              To(r, "inflight") /\ UNCHANGED cell
         [] Ready(Mine(r)) /\ Mine(r).st = "Open" ->
              /\ To(r, "inflight")
              /\ Put(req[r].lane, req[r].pool,
                     [Mine(r) EXCEPT !.st = "HalfOpen", !.probe = r])
         [] OTHER -> Done(r) /\ UNCHANGED cell
    /\ UNCHANGED <<next, writer, prober, apply, owed, must>>

(* record_success_for: a HalfOpen cell closes. *)
Success(r) ==
    /\ req[r].pc = "inflight"
    /\ IF Mine(r).st = "HalfOpen"
       THEN /\ Put(req[r].lane, req[r].pool, Close(Mine(r)))
            /\ Closes({<<req[r].lane, req[r].pool>>})
       ELSE UNCHANGED <<cell, owed, must>>
    /\ Done(r)
    /\ UNCHANGED <<next, writer, prober, apply>>

(* cell_record_failure: the cell trips or, while Closed, may only cool     *)
(* down; on an Open cell a failure changes nothing.                        *)
Failed(c) ==
    IF c.st \in {"none", "Open"} THEN {c}
    ELSE {[c EXCEPT !.st = st, !.hot = TRUE, !.probe = NoOne] :
            st \in IF c.st = "Closed" THEN {"Open", "Closed"} ELSE {"Open"}}

Failure(r) ==
    /\ req[r].pc = "inflight"
    /\ \E c \in Failed(Mine(r)) : Put(req[r].lane, req[r].pool, c)
    /\ Done(r)
    /\ UNCHANGED <<next, writer, prober, apply, owed, must>>

Owns(r) == Mine(r).st = "HalfOpen" /\ Mine(r).probe = r

Reopen(c) == [c EXCEPT !.st = "Open", !.probe = NoOne]

(* cell_release_probe_owned, of a ProbeGuard and of a client fault: only   *)
(* the probe that is the request's own is given back.                      *)
Release(r) ==
    /\ req[r].pc = "inflight"
    /\ IF Owns(r) THEN Put(req[r].lane, req[r].pool, Reopen(Mine(r)))
       ELSE UNCHANGED cell
    /\ Done(r)
    /\ UNCHANGED <<next, writer, prober, apply, owed, must>>

(* cell_release_probe, of the main path's bails before it dispatches:      *)
(* whoever owns the probe.                                                 *)
Bail(r) ==
    /\ req[r].pc = "inflight"
    /\ IF Mine(r).st = "HalfOpen"
       THEN Put(req[r].lane, req[r].pool, Reopen(Mine(r)))
       ELSE UNCHANGED cell
    /\ Done(r)
    /\ UNCHANGED <<next, writer, prober, apply, owed, must>>

(* The main path awaits the upstream with no guard: when its future is     *)
(* dropped there, the probe stays in flight and nobody answers it.         *)
Cancel(r) ==
    /\ req[r].pc = "inflight"
    /\ IF Owns(r)
       THEN Put(req[r].lane, req[r].pool, [Mine(r) EXCEPT !.probe = Dropped])
       ELSE UNCHANGED cell
    /\ Done(r)
    /\ UNCHANGED <<next, writer, prober, apply, owed, must>>

(***************************************************************************)
(* A whole lane                                                            *)
(***************************************************************************)
(* record_hard_down_all_cells: the default cell first,                     *)
TripDefault(l) ==
    /\ Put(l, Default, Trip(cell[l][Default]))
    /\ owed' = owed \cup ({l} \X Pools)

TripEach(l) ==
    cell' = [cell EXCEPT ![l] =
       [p \in Keys |-> IF p # Default /\ Exists(@[p]) THEN Trip(@[p]) ELSE @[p]]]

\* Mutant: the sweep does not wait for a cell being created.
MutTripPools(l) == TripEach(l)

(* then, under the read lock of the map, every pool's cell.  Each trip     *)
(* holds only its own cell's lock and touches no other cell.               *)
TripPools(l) == writer = NoOne /\ TripEach(l)

(* A request that learns that the lane is down *)
HardDown(r) ==
    /\ req[r].pc = "inflight"
    /\ TripDefault(req[r].lane)
    /\ To(r, "down")
    /\ UNCHANGED <<next, writer, prober, apply, must>>

HardDownPools(r) ==
    /\ req[r].pc = "down"
    /\ TripPools(req[r].lane)
    /\ Done(r)
    /\ UNCHANGED <<next, writer, prober, apply, owed, must>>

(* and the lane's prober, one task for each lane, on such an answer.       *)
Probing(l, from, to) == prober[l] = from /\ prober' = [prober EXCEPT ![l] = to]

ProbeDown(l) ==
    /\ Probing(l, "idle", "down")
    /\ TripDefault(l)
    /\ UNCHANGED <<next, writer, req, apply, must>>

ProbeDownPools(l) ==
    /\ Probing(l, "down", "idle")
    /\ TripPools(l)
    /\ UNCHANGED <<next, writer, req, apply, owed, must>>

(* lane_needs_probe: a cell of the lane is tripped or cooling down.        *)
Suppressed(c)  == Exists(c) /\ (c.st # "Closed" \/ c.hot)
NeedsProbe(l)  == \E p \in Keys : Suppressed(cell[l][p])

(* record_probe_failure_all_cells: a failure for the default cell.  In the *)
(* mode Active the prober asks a healthy lane too, and in the mode Dead    *)
(* the lane may have recovered while it asked.                             *)
ProbeFails(l) ==
    /\ Probing(l, "idle", "fail")
    /\ \E c \in Failed(cell[l][Default]) : Put(l, Default, c)
    /\ UNCHANGED <<next, writer, req, apply, owed, must>>

(* then for every pool's cell. *)
ProbeFailsPools(l) ==
    /\ Probing(l, "fail", "idle")
    /\ writer = NoOne
    /\ \E f \in [Pools -> UNION {Failed(cell[l][p]) : p \in Pools}] :
         /\ \A p \in Pools : f[p] \in Failed(cell[l][p])
         /\ cell' = [cell EXCEPT ![l] =
                       [p \in Keys |-> IF p = Default THEN @[p] ELSE f[p]]]
    /\ UNCHANGED <<next, writer, req, apply, owed, must>>

(* recover_lane, after a health probe that succeeded on a lane that needs  *)
(* it: the default cell,                                                   *)
Recover(l) ==
    /\ Probing(l, "idle", "pools") /\ NeedsProbe(l)
    /\ Put(l, Default, Close(cell[l][Default]))
    /\ Closes({<<l, Default>>})
    /\ UNCHANGED <<next, writer, req, apply>>

(* then the pools' cells that are tripped or cooling down. *)
RecoverPools(l) ==
    LET S == {p \in Pools : Suppressed(cell[l][p])}
    IN  /\ Probing(l, "pools", "idle")
        /\ writer = NoOne
        /\ cell' = [cell EXCEPT ![l] =
                      [p \in Keys |-> IF p \in S THEN Close(@[p]) ELSE @[p]]]
        /\ Closes({<<l, p>> : p \in S})
        /\ UNCHANGED <<next, writer, req, apply>>

(* A cooldown runs out. *)
Cool(l, p) ==
    /\ cell[l][p].hot
    /\ Put(l, p, [cell[l][p] EXCEPT !.hot = FALSE])
    /\ UNCHANGED <<next, writer, req, prober, apply, owed, must>>

(***************************************************************************)
(* A config apply                                                          *)
(***************************************************************************)
(* restore_health_impl: state and cooldown; no probe is carried over. *)
Carried(c) == [Fresh EXCEPT !.st = Inherited(c.st), !.hot = c.hot]

ApplyBegin ==
    /\ apply.pc = "idle"
    /\ next' = NewStore
    /\ apply' = [pc |-> "default", todo |-> Lanes]
    /\ must' = {x \in Lanes \X Keys : cell[x[1]][x[2]].st \in {"Open", "HalfOpen"}}
    /\ UNCHANGED <<cell, writer, req, prober, owed>>

(* export_health: lane by lane, the default cell's state and cooldown as   *)
(* one pair under its lock,                                                *)
ExportDefault ==
    LET l == Min(apply.todo)
    IN  /\ apply.pc = "default"
        /\ next' = [next EXCEPT ![l][Default] = Carried(cell[l][Default])]
        /\ apply' = [apply EXCEPT !.pc = "pools"]
        /\ UNCHANGED <<cell, writer, req, prober, owed, must>>

ExportNext == LET rest == apply.todo \ {Min(apply.todo)}
              IN  apply' = [pc   |-> IF rest = {} THEN "swap" ELSE "default",
                            todo |-> rest]

\* Mutant: the cells of the pools are not exported.
MutExportPools ==
    /\ apply.pc = "pools"
    /\ writer = NoOne
    /\ ExportNext
    /\ UNCHANGED <<cell, next, writer, req, prober, owed, must>>

(* then those of its pools, under the read lock of the map. *)
ExportPools ==
    LET l == Min(apply.todo)
    IN  /\ apply.pc = "pools"
        /\ writer = NoOne
        /\ next' = [next EXCEPT ![l] =
             [p \in Keys |-> IF p # Default /\ Exists(cell[l][p])
                             THEN Carried(cell[l][p]) ELSE @[p]]]
        /\ ExportNext
        /\ UNCHANGED <<cell, writer, req, prober, owed, must>>

(* The new store takes over.  Requests in flight and the probers' sweeps   *)
(* keep the old one to their end, where nobody selects any more: they and  *)
(* what they still record there leave the model.                           *)
Swap ==
    /\ apply.pc = "swap"
    /\ cell' = next
    /\ next' = NewStore
    /\ writer' = NoOne
    /\ req' = [r \in Requests |-> Idle]
    /\ prober' = [l \in Lanes |-> "idle"]
    /\ apply' = [apply EXCEPT !.pc = "idle"]
    /\ owed' = {}
    /\ must' = {}

RequestStep(r) ==
    \/ \E p \in Keys : Start(r, p)
    \/ Filter(r) \/ CreateRead(r) \/ CreateStore(r) \/ NoneHealthy(r)
    \/ Select(r) \/ Acquire(r)
    \/ Success(r) \/ Failure(r) \/ Release(r) \/ Bail(r) \/ Cancel(r)
    \/ HardDown(r) \/ HardDownPools(r)

ProberStep(l) ==
    \/ ProbeDown(l) \/ ProbeDownPools(l)
    \/ ProbeFails(l) \/ ProbeFailsPools(l)
    \/ Recover(l) \/ RecoverPools(l)

Next ==
    \/ \E r \in Requests : RequestStep(r)
    \/ \E l \in Lanes : ProberStep(l)
    \/ \E l \in Lanes, p \in Keys : Cool(l, p)
    \/ ApplyBegin \/ ExportDefault \/ ExportPools \/ Swap

Spec == Init /\ [][Next]_vars

(***************************************************************************)
(* Properties                                                              *)
(***************************************************************************)
States == {"none", "Closed", "Open", "HalfOpen"}

Cells  == [st : States, hot : BOOLEAN, probe : Requests \cup {NoOne, Dropped}]
Stores == [Lanes -> [Keys -> Cells]]
Calls  == [pc : {"idle", "filter", "create", "acquire", "inflight", "down"},
           pool : Keys, lane : Lanes \cup {0}, todo : SUBSET Lanes,
           healthy : SUBSET Lanes, st : States \cup {""}]

(* The shape of the state; a default cell always exists. *)
TypeOK ==
    /\ cell \in Stores /\ next \in Stores
    /\ \A l \in Lanes : Exists(cell[l][Default]) /\ Exists(next[l][Default])
    /\ writer \in Requests \cup {NoOne}
    /\ req \in [Requests -> Calls]
    /\ prober \in [Lanes -> {"idle", "down", "fail", "pools"}]
    /\ apply \in [pc : {"idle", "default", "pools", "swap"}, todo : SUBSET Lanes]
    /\ owed \subseteq Lanes \X Pools
    /\ must \subseteq Lanes \X Keys

(* A HalfOpen cell refuses everybody until its probe is answered.  So every *)
(* one was won as that very cell: by a request that still has to answer it, *)
(* if only with the hard-down it is about to spread, or by one dropped on   *)
(* the main path, whose cell only a health probe, a hard-down, a late       *)
(* outcome or the next apply frees.                                         *)
(* Neither a cell created from a HalfOpen default nor one restored from a   *)
(* snapshot starts out HalfOpen, with a probe that nobody ever sent.        *)
ProbesAccounted ==
    \A l \in Lanes, p \in Keys :
        LET c == cell[l][p]
        IN  c.st = "HalfOpen" =>
              /\ c.probe # NoOne
              /\ c.probe # Dropped =>
                   LET q == req[c.probe]
                   IN  q.pc \in {"inflight", "down"} /\ q.lane = l /\ q.pool = p

Sweeping(l) ==
    \/ prober[l] = "down"
    \/ \E r \in Requests : req[r].pc = "down" /\ req[r].lane = l

(* Once record_hard_down_all_cells has returned no pool admits freely on   *)
(* the lane, a pool whose cell was being created meanwhile included, until *)
(* a probe of its own or the prober has closed its cell.                   *)
HardDownReachesAll ==
    \A x \in owed :
        Exists(cell[x[1]][x[2]]) /\ ~Sweeping(x[1]) => cell[x[1]][x[2]].st # "Closed"

(* A config apply forgets no trip: a cell that was tripped when the export *)
(* began and has not closed since is tripped in the store that takes over. *)
ApplyKeepsTrips ==
    [][Swap => \A x \in must : cell'[x[1]][x[2]].st = "Open"]_vars
=============================================================================
