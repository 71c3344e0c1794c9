------------------------------- MODULE CellOps -------------------------------
(***************************************************************************)
(* The functions of store/in_memory/breaker.rs on ONE circuit-breaker      *)
(* cell: the sliding outcome window, the trip test, the back-off, and the  *)
(* transitions of the Closed / Open / HalfOpen machine.  Every operator    *)
(* maps the cell a transition finds under `transition_lock` to the cell it *)
(* leaves behind; who calls it, and when its stores become visible to the  *)
(* lock-free readers, is said by the modules that extend this one.         *)
(***************************************************************************)
EXTENDS Integers, Sequences, FiniteSets

CONSTANTS
    BaseCooldown,          \* BreakerCfg.base_cooldown_secs
    MaxCooldown,           \* BreakerCfg.max_cooldown_secs
    MaxHonoredRetryAfter,  \* limits.max_honored_retry_after_secs
    HardDownCooldown,      \* limits.hard_down_cooldown_secs
    TripMode,              \* TripConfig.mode
    ConsecutiveN,          \* TripConfig.consecutive_n
    WindowSecs,            \* TripConfig.window_s
    MinRequests,           \* TripConfig.min_requests
    ThresholdNum,          \* TripConfig.threshold, as a fraction
    ThresholdDen,
    WindowCapacity,        \* OUTCOME_WINDOW_CAPACITY
    TimeMax,               \* u64::MAX, where `saturating_add` stops
    RetryAfters            \* the Retry-After values an upstream may send

NoRetryAfter == 0 - 1

(* What config_validate enforces on a pool's breaker block. *)
ASSUME CooldownsValid ==
    /\ BaseCooldown \in Nat \ {0}
    /\ MaxCooldown \in Nat \ {0}
    /\ BaseCooldown <= MaxCooldown
    /\ MaxHonoredRetryAfter \in Nat
    /\ HardDownCooldown \in Nat \ {0}
    /\ TimeMax \in Nat \ {0}
    /\ RetryAfters \subseteq Nat

ASSUME TripValid ==
    /\ TripMode \in {"ErrorRate", "Consecutive"}
    /\ ConsecutiveN \in Nat \ {0}
    /\ WindowSecs \in Nat \ {0}
    /\ MinRequests \in Nat \ {0}
    /\ ThresholdDen \in Nat \ {0}
    /\ ThresholdNum \in 1 .. ThresholdDen
    /\ WindowCapacity \in Nat \ {0}

-----------------------------------------------------------------------------
States == {"Closed", "Open", "HalfOpen"}

(* The atomics of a BreakerCell the machine moves. *)
Cells == [state : States, cooldown : Nat, probe : BOOLEAN,
          epoch : Nat, streak : Nat]

NewCell == [state |-> "Closed", cooldown |-> 0, probe |-> FALSE,
            epoch |-> 0, streak |-> 0]

Outcomes == [ts : Nat, is_error : BOOLEAN]

Min2(a, b) == IF a <= b THEN a ELSE b
Max2(a, b) == IF a >= b THEN a ELSE b

(* u64 saturating_add *)
SatAdd(a, b) == Min2(a + b, TimeMax)

-----------------------------------------------------------------------------
(* The outcome window. *)

push(w, ts, is_error) ==
    LET kept == IF Len(w) >= WindowCapacity THEN Tail(w) ELSE w
    IN  Append(kept, [ts |-> ts, is_error |-> is_error])

InWindow(w, now) == {i \in 1 .. Len(w) : w[i].ts >= now - WindowSecs}

should_trip(w, streak, now) ==
    IF TripMode = "Consecutive"
    THEN streak >= ConsecutiveN
    ELSE LET count  == Cardinality(InWindow(w, now))
             errors == Cardinality({i \in InWindow(w, now) : w[i].is_error})
         IN  /\ count >= MinRequests
             /\ errors * ThresholdDen >= ThresholdNum * count

-----------------------------------------------------------------------------
(* The back-off.  The jitter is a hash of the clock, the cell's address    *)
(* and the streak: any value of its band.                                  *)

Backoff(streak) ==
    IF streak = 0 THEN BaseCooldown
    ELSE Min2(BaseCooldown * 2^Min2(streak, 63), MaxCooldown)

Clamp(x, lo, hi) == Max2(lo, Min2(x, hi))

Jittered(d) ==
    LET r == Max2(d \div 10, 1)
    IN  {Clamp(Max2(d + j, 0), Max2(d \div 2, 1), MaxCooldown) : j \in -r .. r}

(* Mutant: an honoured Retry-After is taken as it comes. *)
RetryAfterVerbatim(d, ra) == IF ra = NoRetryAfter THEN d ELSE ra

(* A Retry-After is a floor, capped at MaxHonoredRetryAfter. *)
WithRetryAfter(d, ra) ==
    IF ra = NoRetryAfter THEN d ELSE Max2(d, Min2(ra, MaxHonoredRetryAfter))

compute_cooldown(streak, ra) ==
    {WithRetryAfter(d, ra) : d \in Jittered(Backoff(streak))}

-----------------------------------------------------------------------------
(* What a reader of the cell concludes. *)

breaker_verdict(state, until, now) ==
    CASE state = "HalfOpen"                     -> "HalfOpen"
      [] state # "HalfOpen" /\ now < until      -> "Open"
      [] state = "Closed" /\ now >= until       -> "Ready"
      [] state = "Open" /\ now >= until         -> "ProbeWinnable"

Admits(verdict) == verdict \in {"Ready", "ProbeWinnable"}

cell_ready(c, now) == Admits(breaker_verdict(c.state, c.cooldown, now))

(* Suppressed, as recover_lane and lane_needs_probe see it. *)
suppressed(state, until, now) == state # "Closed" \/ until > now

-----------------------------------------------------------------------------
(* The transitions. *)

OpenUntil(c, until) ==
    [c EXCEPT !.cooldown = until, !.state = "Open", !.probe = FALSE]

(* cell_open_locked, with the back-off already drawn *)
cell_open(c, now, d) == OpenUntil(c, SatAdd(now, d))

(* the trip of record_hard_down_all_cells *)
hard_down(c, now) == OpenUntil(c, SatAdd(now, HardDownCooldown))

cell_closed(c) ==
    [c EXCEPT !.streak = 0, !.cooldown = 0, !.state = "Closed",
              !.probe = FALSE]

Recoverable(c, now, observed) ==
    /\ c.cooldown <= observed
    /\ suppressed(c.state, c.cooldown, now)

cell_closed_if_recoverable(c, now, observed) ==
    IF Recoverable(c, now, observed) THEN cell_closed(c) ELSE c

cell_release_probe(c) ==
    [c EXCEPT !.state = IF @ = "HalfOpen" THEN "Open" ELSE @,
              !.probe = FALSE]

(* Mutant: a release clears the flag and forgets the state. *)
release_flag_only(c, owned_epoch) ==
    IF c.epoch = owned_epoch THEN [c EXCEPT !.probe = FALSE] ELSE c

cell_release_probe_owned(c, owned_epoch) ==
    IF c.epoch = owned_epoch THEN cell_release_probe(c) ELSE c

(* The part of cell_acquire_breaker that runs under the lock. *)
MayProbe(c, now) == c.state = "Open" /\ now >= c.cooldown

win_probe(c) ==
    [c EXCEPT !.state = "HalfOpen", !.epoch = @ + 1, !.probe = TRUE]

(* cell_record_failure: the cells it may leave; w is the window after the  *)
(* push that precedes the lock.                                            *)
trips(c, w, now) ==
    c.state = "Closed" /\ should_trip(w, c.streak + 1, now)

cell_record_failure(c, w, now, ra) ==
    LET b == [c EXCEPT !.streak = @ + 1]
        D == compute_cooldown(b.streak, ra)
    IN  IF c.state = "Open" THEN {c}
        ELSE IF c.state = "HalfOpen" \/ trips(c, w, now)
             THEN {cell_open(b, now, d) : d \in D}
             ELSE {[b EXCEPT !.cooldown = SatAdd(now, d)] : d \in D}

(* Mutant: a success closes the cell without comparing its state first. *)
record_success_no_cas(c) == cell_closed(c)

cell_record_success(c) ==
    CASE c.state = "HalfOpen" -> cell_closed(c)
      [] c.state = "Closed"   -> [c EXCEPT !.streak = 0]
      [] c.state = "Open"     -> c

(* The window after it: a success is pushed, and a close empties it. *)
window_after_success(c, w, now) ==
    IF c.state = "HalfOpen" THEN <<>> ELSE push(w, now, FALSE)

=============================================================================
