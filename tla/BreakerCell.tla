----------------------------- MODULE BreakerCell -----------------------------
(***************************************************************************)
(* One (pool, lane) breaker cell under concurrency: requests that are      *)
(* admitted through it and record their outcome on it, the out-of-band     *)
(* health prober, and the clock.                                           *)
(*                                                                         *)
(* Transitions run under the cell's transition_lock, but the cell's        *)
(* `breaker_state`, `cooldown_until` and `probe_epoch` are three separate  *)
(* atomics that admission reads WITHOUT the lock.  `cell` is the value the *)
(* latest transition decided; while its holder is still storing, the       *)
(* fields in `todo` keep their value in `old` for every lock-free load.    *)
(***************************************************************************)
EXTENDS CellOps

CONSTANTS
    Requests,    \* requests served, each by its own task
    Routes,      \* the dispatch paths in use, see `Route`
    MaxTime,     \* bound: seconds the clock advances
    MaxProbes    \* bound: health probes sent; 0 = probing disabled

(* forward_with_pool, forward_once with a probe epoch, and forward_once    *)
(* from handle_least_bad, which bypasses the breaker.                      *)
Route == {"main", "guarded", "leastbad"}

ASSUME RoutesValid == Routes \subseteq Route
(* The clock stays below u64::MAX. *)
ASSUME BoundsValid == MaxTime \in Nat /\ MaxTime < TimeMax /\ MaxProbes \in Nat

Prober == "prober"
NoOne  == "no one"
ASSUME ActorsDistinct == {Prober, NoOne} \cap Requests = {}

Actors  == Requests \cup {Prober}
NoToken == 0 - 1
Fields  == {"state", "cooldown", "epoch"}

VARIABLES
    now,      \* wall clock, in seconds
    cell,     \* the cell as decided under transition_lock
    old,      \* the cell before the transition still being stored
    todo,     \* the fields its holder has not stored yet
    first,    \* the field that transition stores first
    holder,   \* who holds transition_lock
    window,   \* outcome_window
    pc,       \* where each actor is
    t,        \* the `now` an actor read when it entered the store
    reg,      \* the cooldown an actor loaded
    tok,      \* Admit.probe_epoch of a request
    ra,       \* the Retry-After of the failure being recorded
    route,    \* the dispatch path of a request
    probes    \* health probes sent so far

vars == <<now, cell, old, todo, first, holder, window, pc, t, reg, tok, ra,
          route, probes>>

lockVars  == <<cell, old, todo, first, holder>>
actorVars == <<t, reg, tok, ra, route>>

RequestPCs == {"new", "verdict", "verdict2", "acquire", "acqClosed",
               "acqOpen", "acqLock", "token", "ready", "sent", "body",
               "succeed", "fail", "harddown", "drop", "done"}
ProberPCs  == {"idle", "observe", "observe2", "close", "recovered",
               "succeed", "fail", "harddown"}

(* Type invariant. *)
TypeOK ==
    /\ now \in Nat
    /\ cell \in Cells
    /\ old \in Cells
    /\ todo \in SUBSET Fields
    /\ first \in {"state", "cooldown"}
    /\ holder \in Actors \cup {NoOne}
    /\ window \in Seq(Outcomes)
    /\ pc \in [Actors -> RequestPCs \cup ProberPCs]
    /\ t \in [Actors -> Nat]
    /\ reg \in [Actors -> Nat]
    /\ tok \in [Requests -> Nat \cup {NoToken}]
    /\ ra \in [Actors -> RetryAfters \cup {NoRetryAfter}]
    /\ route \in [Requests -> Route \cup {"none"}]
    /\ probes \in Nat

Init ==
    /\ now = 0
    /\ cell = NewCell
    /\ old = NewCell
    /\ todo = {}
    /\ first = "cooldown"
    /\ holder = NoOne
    /\ window = <<>>
    /\ pc = [a \in Actors |-> IF a = Prober THEN "idle" ELSE "new"]
    /\ t = [a \in Actors |-> 0]
    /\ reg = [a \in Actors |-> 0]
    /\ tok = [r \in Requests |-> NoToken]
    /\ ra = [a \in Actors |-> NoRetryAfter]
    /\ route = [r \in Requests |-> "none"]
    /\ probes = 0

-----------------------------------------------------------------------------
(* Lock-free loads, and the transition lock. *)

SeenState    == IF "state" \in todo THEN old.state ELSE cell.state
SeenCooldown == IF "cooldown" \in todo THEN old.cooldown ELSE cell.cooldown
SeenEpoch    == IF "epoch" \in todo THEN old.epoch ELSE cell.epoch

Free == holder = NoOne

(* Actor a holds the lock and decides `new`; the fields that change become *)
(* visible one at a time, f before the others.                             *)
Changed(new) == (IF new.state # cell.state THEN {"state"} ELSE {})
           \cup (IF new.cooldown # cell.cooldown THEN {"cooldown"} ELSE {})
           \cup (IF new.epoch # cell.epoch THEN {"epoch"} ELSE {})

Commit(a, new, f) ==
    /\ Free
    /\ cell' = new
    /\ todo' = Changed(new)
    /\ old' = IF Changed(new) = {} THEN new ELSE cell
    /\ first' = f
    /\ holder' = IF Changed(new) = {} THEN NoOne ELSE a

(* The holder's next store; the last one ends the critical section. *)
Publish(f) ==
    /\ f \in todo
    /\ first \in todo => f = first
    /\ todo' = todo \ {f}
    /\ holder' = IF todo' = {} THEN NoOne ELSE holder
    /\ old' = IF todo' = {} THEN cell ELSE old
    /\ UNCHANGED <<now, cell, first, window, pc, actorVars, probes>>

Goto(a, l) == pc' = [pc EXCEPT ![a] = l]

-----------------------------------------------------------------------------
(* try_admit / try_admit_breaker on this cell.  The lane's own gates (dead,*)
(* budget, permit) are modelled in the lane modules.                       *)

Begin(r, k) ==
    /\ pc[r] = "new"
    /\ k \in Routes \ {"leastbad"}
    /\ t' = [t EXCEPT ![r] = now]
    /\ route' = [route EXCEPT ![r] = k]
    /\ Goto(r, "verdict")
    /\ UNCHANGED <<now, lockVars, window, reg, tok, ra, probes>>

(* handle_least_bad dispatches whatever the breaker says. *)
LeastBad(r) ==
    /\ pc[r] = "new"
    /\ "leastbad" \in Routes
    /\ route' = [route EXCEPT ![r] = "leastbad"]
    /\ Goto(r, "sent")
    /\ UNCHANGED <<now, lockVars, window, t, reg, tok, ra, probes>>

VerdictCooldown(r) ==
    /\ pc[r] = "verdict"
    /\ reg' = [reg EXCEPT ![r] = SeenCooldown]
    /\ Goto(r, "verdict2")
    /\ UNCHANGED <<now, lockVars, window, t, tok, ra, route, probes>>

VerdictState(r) ==
    /\ pc[r] = "verdict2"
    /\ Goto(r, IF Admits(breaker_verdict(SeenState, reg[r], t[r]))
               THEN "acquire" ELSE "done")
    /\ UNCHANGED <<now, lockVars, window, actorVars, probes>>

(* cell_acquire_breaker: the lock-free part ... *)
AcquireState(r) ==
    /\ pc[r] = "acquire"
    /\ Goto(r, CASE SeenState = "Closed"   -> "acqClosed"
                 [] SeenState = "Open"     -> "acqOpen"
                 [] SeenState = "HalfOpen" -> "done")
    /\ UNCHANGED <<now, lockVars, window, actorVars, probes>>

(* Mutant: a Closed cell admits without looking at its soft cooldown. *)
AcquireClosedNoCooldown(r) ==
    /\ pc[r] = "acqClosed"
    /\ Goto(r, "token")
    /\ UNCHANGED <<now, lockVars, window, actorVars, probes>>

AcquireClosed(r) ==
    /\ pc[r] = "acqClosed"
    /\ Goto(r, IF t[r] >= SeenCooldown THEN "token" ELSE "done")
    /\ UNCHANGED <<now, lockVars, window, actorVars, probes>>

AcquireOpen(r) ==
    /\ pc[r] = "acqOpen"
    /\ Goto(r, IF t[r] >= SeenCooldown THEN "acqLock" ELSE "done")
    /\ UNCHANGED <<now, lockVars, window, actorVars, probes>>

(* ... and the part under the lock, which reads the pair again. *)
AcquireLocked(r) ==
    /\ pc[r] = "acqLock"
    /\ Free
    /\ IF MayProbe(cell, t[r])
       THEN Commit(r, win_probe(cell), "state") /\ Goto(r, "token")
       ELSE UNCHANGED lockVars /\ Goto(r, "done")
    /\ UNCHANGED <<now, window, actorVars, probes>>

(* The owner token is a load of its own, after the lock is released. *)
ReadToken(r) ==
    /\ pc[r] = "token" /\ holder # r
    /\ tok' = [tok EXCEPT ![r] = SeenEpoch]
    /\ Goto(r, "ready")
    /\ UNCHANGED <<now, lockVars, window, t, reg, ra, route, probes>>

-----------------------------------------------------------------------------
(* Dispatch and its outcomes. *)

Send(r) ==
    /\ pc[r] = "ready"
    /\ Goto(r, "sent")
    /\ UNCHANGED <<now, lockVars, window, actorVars, probes>>

(* A pre-dispatch bail: the main path releases unowned, forward_once drops *)
(* its ProbeGuard.                                                         *)
Bail(r) ==
    /\ pc[r] = "ready"
    /\ Commit(r, IF route[r] = "main"
                 THEN cell_release_probe(cell)
                 ELSE cell_release_probe_owned(cell, tok[r]), "state")
    /\ Goto(r, "done")
    /\ UNCHANGED <<now, window, actorVars, probes>>

(* The client goes away and the request's future is dropped at an await:   *)
(* only forward_once has a guard to drop.                                  *)
Cancel(r) ==
    /\ pc[r] = "sent"
    /\ Goto(r, IF route[r] = "guarded" THEN "drop" ELSE "done")
    /\ UNCHANGED <<now, lockVars, window, actorVars, probes>>

GuardDrop(r) ==
    /\ pc[r] = "drop"
    /\ Commit(r, cell_release_probe_owned(cell, tok[r]), "state")
    /\ Goto(r, "done")
    /\ UNCHANGED <<now, window, actorVars, probes>>

(* Passthrough 401/403, ClientFault and ContextLength on the main path. *)
ClientFault(r) ==
    /\ pc[r] = "sent" /\ route[r] = "main"
    /\ Commit(r, cell_release_probe_owned(cell, tok[r]), "state")
    /\ Goto(r, "done")
    /\ UNCHANGED <<now, window, actorVars, probes>>

(* A 2xx: record_success_in, which also disarms forward_once's guard. *)
Success(r) ==
    /\ pc[r] = "sent"
    /\ t' = [t EXCEPT ![r] = now]
    /\ tok' = [tok EXCEPT ![r] = NoToken]
    /\ Goto(r, "succeed")
    /\ UNCHANGED <<now, lockVars, window, reg, ra, route, probes>>

EndBody(r) ==
    /\ pc[r] = "body" /\ holder # r
    /\ Goto(r, "done")
    /\ UNCHANGED <<now, lockVars, window, actorVars, probes>>

(* cell_record_failure before its lock: the outcome goes into the window.  *)
(* Only the main path passes on the upstream's Retry-After.                *)
Fail(r, x) ==
    /\ pc[r] \in {"sent", "body"} /\ holder # r
    /\ x = NoRetryAfter \/ (pc[r] = "sent" /\ route[r] = "main")
    /\ t' = [t EXCEPT ![r] = now]
    /\ ra' = [ra EXCEPT ![r] = x]
    /\ window' = push(window, now, TRUE)
    /\ Goto(r, "fail")
    /\ UNCHANGED <<now, lockVars, reg, tok, route, probes>>

(* An auth or billing answer; only the main path classifies. *)
HardDown(r) ==
    /\ pc[r] = "sent" /\ route[r] = "main"
    /\ t' = [t EXCEPT ![r] = now]
    /\ Goto(r, "harddown")
    /\ UNCHANGED <<now, lockVars, window, reg, tok, ra, route, probes>>

-----------------------------------------------------------------------------
(* The transitions that both a request and the prober reach. *)

AfterOutcome(a) ==
    IF a = Prober THEN "idle"
    ELSE IF route[a] = "guarded" /\ tok[a] # NoToken THEN "drop" ELSE "done"

RecordFailure(a) ==
    /\ pc[a] = "fail"
    /\ \E new \in cell_record_failure(cell, window, t[a], ra[a]) :
           Commit(a, new, "cooldown")
    /\ Goto(a, AfterOutcome(a))
    /\ UNCHANGED <<now, window, actorVars, probes>>

RecordSuccess(a) ==
    /\ pc[a] = "succeed"
    /\ Commit(a, cell_record_success(cell), "state")
    /\ window' = window_after_success(cell, window, t[a])
    /\ Goto(a, IF a = Prober THEN "idle" ELSE "body")
    /\ UNCHANGED <<now, actorVars, probes>>

RecordHardDown(a) ==
    /\ pc[a] = "harddown"
    /\ Commit(a, hard_down(cell, t[a]), "cooldown")
    /\ Goto(a, AfterOutcome(a))
    /\ UNCHANGED <<now, window, actorVars, probes>>

-----------------------------------------------------------------------------
(* The health prober: probe_lane, on this cell. *)

SendProbe(l) ==
    /\ pc[Prober] = "idle"
    /\ probes < MaxProbes
    /\ probes' = probes + 1
    /\ t' = [t EXCEPT ![Prober] = now]
    /\ Goto(Prober, l)
    /\ UNCHANGED <<now, lockVars, reg, tok, route>>

(* 2xx: recover_lane observes the cell without the lock, closes it under   *)
(* the lock, and then the success is recorded.  (probe_lane first asks     *)
(* lane_needs_probe; a "no" skips recover_lane, as a cell that is observed *)
(* unsuppressed does.)                                                     *)
ProbeOk == SendProbe("observe") /\ UNCHANGED <<window, ra>>

ProbeFail(x) ==
    /\ SendProbe("fail")
    /\ ra' = [ra EXCEPT ![Prober] = x]
    /\ window' = push(window, now, TRUE)

ProbeHardDown == SendProbe("harddown") /\ UNCHANGED <<window, ra>>

ObserveCooldown ==
    /\ pc[Prober] = "observe"
    /\ reg' = [reg EXCEPT ![Prober] = SeenCooldown]
    /\ Goto(Prober, "observe2")
    /\ UNCHANGED <<now, lockVars, window, t, tok, ra, route, probes>>

ObserveState ==
    /\ pc[Prober] = "observe2"
    /\ Goto(Prober, IF suppressed(SeenState, reg[Prober], t[Prober])
                    THEN "close" ELSE "recovered")
    /\ UNCHANGED <<now, lockVars, window, actorVars, probes>>

RecoverClose ==
    /\ pc[Prober] = "close"
    /\ Commit(Prober,
              cell_closed_if_recoverable(cell, t[Prober], reg[Prober]),
              "cooldown")
    /\ window' = IF Recoverable(cell, t[Prober], reg[Prober])
                 THEN <<>> ELSE window
    /\ Goto(Prober, "recovered")
    /\ UNCHANGED <<now, actorVars, probes>>

(* record_probe_success_all_cells reads the clock again. *)
ProbeSuccess ==
    /\ pc[Prober] = "recovered" /\ holder # Prober
    /\ t' = [t EXCEPT ![Prober] = now]
    /\ Goto(Prober, "succeed")
    /\ UNCHANGED <<now, lockVars, window, reg, tok, ra, route, probes>>

-----------------------------------------------------------------------------
Tick ==
    /\ now < MaxTime
    /\ now' = now + 1
    /\ UNCHANGED <<lockVars, window, pc, actorVars, probes>>

(* Everything served and probed: nothing is left to do. *)
Finished ==
    /\ \A r \in Requests : pc[r] = "done"
    /\ pc[Prober] = "idle" /\ probes = MaxProbes
    /\ Free
    /\ UNCHANGED vars

Admission(r) ==
    \/ \E k \in Route : Begin(r, k)
    \/ LeastBad(r)
    \/ VerdictCooldown(r) \/ VerdictState(r)
    \/ AcquireState(r) \/ AcquireClosed(r) \/ AcquireOpen(r)
    \/ AcquireLocked(r) \/ ReadToken(r)

Dispatch(r) ==
    \/ Send(r) \/ Bail(r) \/ Cancel(r) \/ GuardDrop(r) \/ ClientFault(r)
    \/ Success(r) \/ EndBody(r) \/ HardDown(r)
    \/ \E x \in RetryAfters \cup {NoRetryAfter} : Fail(r, x)

Probing ==
    \/ ProbeOk \/ ProbeHardDown
    \/ \E x \in RetryAfters \cup {NoRetryAfter} : ProbeFail(x)
    \/ ObserveCooldown \/ ObserveState \/ RecoverClose \/ ProbeSuccess

Record(a) == RecordFailure(a) \/ RecordSuccess(a) \/ RecordHardDown(a)

Next ==
    \/ \E r \in Requests : Admission(r) \/ Dispatch(r)
    \/ \E a \in Actors : Record(a)
    \/ \E f \in Fields : Publish(f)
    \/ Probing
    \/ Tick
    \/ Finished

Spec == Init /\ [][Next]_vars

(* Every task is polled until it ends: an upstream call is bounded by the  *)
(* client's timeout, so it ends in one of its outcomes.                    *)
Fairness ==
    /\ \A r \in Requests : WF_vars(Admission(r)) /\ WF_vars(Dispatch(r))
    /\ \A a \in Actors : WF_vars(Record(a))
    /\ WF_vars(\E f \in Fields : Publish(f))
    /\ WF_vars(Probing)

FairSpec == Spec /\ Fairness

-----------------------------------------------------------------------------
(* Correctness properties. *)

(* No upstream and no configuration parks a lane for longer than the       *)
(* largest of its three caps: a Retry-After is clamped, and the back-off   *)
(* doubles only up to its cap, however stale the recorder's clock is.      *)
MaxPark == Max2(MaxCooldown, Max2(MaxHonoredRetryAfter, HardDownCooldown))

ParkBounded == cell.cooldown <= now + MaxPark

(* The outcome of actor a reaches the cell in this step. *)
Records(a, outcome) == pc[a] = outcome /\ pc'[a] # pc[a]

(* A cell parked Open with time left on its cooldown stays Open until then,*)
(* whatever late success, failure, release or probe attempt is in flight   *)
(* for it: nothing but another hard-down moves its cooldown, and only a    *)
(* health probe that succeeded may close it early, if it saw the cell      *)
(* parked as long as it is now (a hard-down that came after the probe's    *)
(* look at the cell survives it, unless it parks no longer).               *)
HardDownSticks ==
    [][cell.state = "Open" /\ now < cell.cooldown =>
         \/ /\ cell'.state = "Open"
            /\ \/ cell'.cooldown = cell.cooldown
               \/ \E a \in Actors : Records(a, "harddown")
         \/ /\ pc[Prober] = "close" /\ pc'[Prober] = "recovered"
            /\ cell.cooldown <= reg[Prober]]_vars

(* The owner of the running probe was dispatched by forward_with_pool and  *)
(* ended without recording an outcome or releasing the probe: its future   *)
(* was dropped at an await, and that path has no ProbeGuard.               *)
Orphaned ==
    \E r \in Requests :
        route[r] = "main" /\ pc[r] = "done" /\ tok[r] = cell.epoch

(* A cell that goes HalfOpen leaves it again, whichever path won the probe *)
(* and whatever the other requests do meanwhile: the winner records an     *)
(* outcome or releases the probe.  The one exception is Orphaned.          *)
NoWedge == (cell.state = "HalfOpen") ~> (cell.state # "HalfOpen" \/ Orphaned)
=============================================================================
