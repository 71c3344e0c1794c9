-------------------------- MODULE BreakerCellProofs --------------------------
(***************************************************************************)
(* The safety of one breaker cell, for any number of requests and probes,  *)
(* any clock and every valid configuration.                                *)
(*                                                                         *)
(* The argument has one idea: whoever holds transition_lock replaces the   *)
(* cell by a Legal successor and then publishes it field by field.  The    *)
(* lemma StepShape shows that no action does anything else to the cell;    *)
(* everything below follows from the shape of a step.                      *)
(***************************************************************************)
EXTENDS BreakerHistory, FiniteSetTheorems, TLAPS

(***************************************************************************)
(* The operators of CellOps, for every configuration that config_validate  *)
(* accepts: the back-off is at least one second and at most its cap, and   *)
(* every transition keeps a cell well formed.                              *)
(***************************************************************************)
(* A power of two is a positive integer: it counts the subsets of 1..k. *)
LEMMA PowerPositive ==
    ASSUME NEW k \in Nat
    PROVE  2^k \in Nat \ {0}
<1>1. IsFiniteSet(1 .. k) /\ Cardinality(1 .. k) = k
  BY FS_Interval
<1>2. IsFiniteSet(SUBSET (1 .. k)) /\ Cardinality(SUBSET (1 .. k)) = 2^k
  BY <1>1, FS_SUBSET
<1>3. Cardinality(SUBSET (1 .. k)) \in Nat
  BY <1>2, FS_CardinalityType
<1>4. Cardinality(SUBSET (1 .. k)) # 0
  <2>1. {} \in SUBSET (1 .. k)
    OBVIOUS
  <2> QED
    BY <1>2, <2>1, FS_EmptySet
<1> QED
  BY <1>2, <1>3, <1>4

(* The back-off of compute_cooldown_with_retry_after is never zero (the    *)
(* shift does not wrap) and never above max_cooldown_secs.                 *)
LEMMA BackoffBounds ==
    ASSUME NEW streak \in Nat
    PROVE  Backoff(streak) \in 1 .. MaxCooldown
<1>1. CASE streak = 0
  BY <1>1, CooldownsValid DEF Backoff
<1>2. CASE streak # 0
  <2> DEFINE k == Min2(streak, 63)
  <2>1. k \in Nat
    BY DEF Min2
  <2>2. 2^k \in Nat \ {0}
    BY <2>1, PowerPositive
  <2> DEFINE p == 2^k
  <2>3. BaseCooldown * p \in Nat \ {0}
    <3> HIDE DEF p
    <3>1. p \in Nat \ {0}
      BY <2>2 DEF p
    <3>2. BaseCooldown * p >= 1 /\ BaseCooldown * p \in Nat
      BY <3>1, CooldownsValid
    <3> QED
      BY <3>2
  <2>4. Backoff(streak) = Min2(BaseCooldown * p, MaxCooldown)
    BY <1>2 DEF Backoff
  <2> HIDE DEF p
  <2> QED
    BY <2>3, <2>4, CooldownsValid DEF Min2
<1> QED
  BY <1>1, <1>2

(* Whatever the jitter and the Retry-After, a cooldown lasts at least one  *)
(* second and at most the larger of the two caps.                          *)
LEMMA CooldownBounds ==
    ASSUME NEW streak \in Nat,
           NEW hint \in RetryAfters \cup {NoRetryAfter},
           NEW d \in compute_cooldown(streak, hint)
    PROVE  d \in 1 .. Max2(MaxCooldown, MaxHonoredRetryAfter)
<1> DEFINE b == Backoff(streak)
<1>1. b \in 1 .. MaxCooldown
  BY BackoffBounds
<1> HIDE DEF b
<1>2. PICK e \in Jittered(b) : d = WithRetryAfter(e, hint)
  BY DEF compute_cooldown, b
<1>3. e \in 1 .. MaxCooldown
  BY <1>1, <1>2, CooldownsValid DEF Jittered, Clamp, Max2, Min2
<1>4. hint = NoRetryAfter => d = e
  BY <1>2 DEF WithRetryAfter
<1>5. hint # NoRetryAfter => hint \in Nat /\ d = Max2(e, Min2(hint, MaxHonoredRetryAfter))
  BY <1>2, CooldownsValid DEF WithRetryAfter
<1> QED
  BY <1>3, <1>4, <1>5, CooldownsValid DEF Max2, Min2

(***************************************************************************)
(* The cell                                                                *)
(***************************************************************************)
(* The stores in progress belong to the holder of the lock. *)
LockDiscipline ==
    /\ Free => todo = {}
    /\ todo = {} => old = cell

(* A clock value read earlier is not in the future. *)
ClocksSane == now <= MaxTime /\ \A a \in Actors : t[a] <= now

(* The probe flag is set while the cell is HalfOpen, and a tripped cell    *)
(* has a cooldown to expire.                                               *)
ProbeFlagExact ==
    /\ cell.probe <=> cell.state = "HalfOpen"
    /\ cell.state # "Closed" => cell.cooldown >= 1

Inv ==
    /\ TypeOK
    /\ LockDiscipline
    /\ ClocksSane
    /\ ProbeFlagExact
    /\ ParkBounded

(* What an Open cell with time left may become. *)
Sticks(n) ==
    \/ /\ n.state = "Open"
       /\ n.cooldown = cell.cooldown \/ \E a \in Actors : Records(a, "harddown")
    \/ pc[Prober] = "close" /\ pc'[Prober] = "recovered" /\ cell.cooldown <= reg[Prober]

(* A cell that is not Closed keeps its cooldown, or was tripped by an      *)
(* outcome recorded in this step.                                          *)
Parked(n) ==
    \/ cell.state # "Closed" /\ n.cooldown = cell.cooldown
    \/ n.state = "Open" /\ \E a \in Actors : Records(a, "fail") \/ Records(a, "harddown")

(* The cells a transition may leave behind. *)
Legal(n) ==
    /\ n \in Cells
    /\ n.probe <=> n.state = "HalfOpen"
    /\ n.state # "Closed" => n.cooldown >= 1
    /\ n.cooldown <= now + MaxPark
    /\ cell.state = "Open" /\ now < cell.cooldown => Sticks(n)
    /\ n.state # "Closed" => Parked(n)
    /\ n.state = "HalfOpen"
         => cell.state # "Closed" /\ n.cooldown = cell.cooldown
    /\ cell.state = "HalfOpen" /\ n.state = "Closed" => n.cooldown = 0

Transition == \E a \in Actors, n \in Cells, f \in {"state", "cooldown"} :
                  Commit(a, n, f) /\ Legal(n)

Store == \E f \in todo :
             /\ todo' = todo \ {f}
             /\ holder' = IF todo' = {} THEN NoOne ELSE holder
             /\ old' = IF todo' = {} THEN cell ELSE old
             /\ UNCHANGED <<cell, first>>

LockStep == UNCHANGED lockVars \/ Transition \/ Store

-----------------------------------------------------------------------------
(* Each function on the cell leaves a Legal cell. *)

(* Each of the three caps is a natural number below MaxPark. *)
LEMMA ParkCaps ==
    /\ MaxPark \in Nat
    /\ Max2(MaxCooldown, MaxHonoredRetryAfter) <= MaxPark
    /\ HardDownCooldown \in 1 .. MaxPark
BY CooldownsValid DEF MaxPark, Max2

(* cell_open_locked leaves a legal cell if its cooldown is within the caps. *)
LEMMA LegalOpen ==
    ASSUME Inv, NEW a \in Actors, NEW s \in Nat, NEW n,
           NEW d \in 1 .. MaxPark,
           n = OpenUntil([cell EXCEPT !.streak = s], SatAdd(t[a], d)),
           \/ Records(a, "harddown")
           \/ Records(a, "fail") /\ cell.state # "Open"
    PROVE  Legal(n)
<1> DEFINE u == SatAdd(t[a], d)
<1>1. t[a] \in Nat /\ t[a] <= now /\ now \in Nat
  BY DEF Inv, TypeOK, ClocksSane
<1>2. u \in Nat /\ u >= 1 /\ u <= now + MaxPark
  BY <1>1, ParkCaps, CooldownsValid DEF SatAdd, Min2
<1> HIDE DEF u
<1>3. cell \in Cells
  BY DEF Inv, TypeOK
<1>4. n \in Cells /\ n.state = "Open" /\ n.probe = FALSE /\ n.cooldown = u
  BY <1>2, <1>3 DEF OpenUntil, Cells, States, u
<1>5. (cell.state = "Open" => Sticks(n)) /\ Parked(n)
  BY <1>4 DEF Sticks, Parked
<1> QED
  BY <1>2, <1>4, <1>5 DEF Legal

(* cell_record_failure leaves a legal cell, tripped or not. *)
LEMMA LegalFailure ==
    ASSUME Inv, NEW a \in Actors,
           NEW n \in cell_record_failure(cell, window, t[a], ra[a]),
           Records(a, "fail")
    PROVE  Legal(n)
<1> DEFINE b == [cell EXCEPT !.streak = @ + 1]
           D == compute_cooldown(b.streak, ra[a])
<1>1. b.streak \in Nat /\ b = [cell EXCEPT !.streak = cell.streak + 1]
      /\ cell.streak + 1 \in Nat
  BY DEF Inv, TypeOK, Cells
<1>2. \A d \in D : d \in 1 .. MaxPark
  <2> SUFFICES ASSUME NEW d \in D
               PROVE  d \in 1 .. MaxPark
    OBVIOUS
  <2>1. ra[a] \in RetryAfters \cup {NoRetryAfter}
    BY DEF Inv, TypeOK
  <2> HIDE DEF b
  <2>2. d \in 1 .. Max2(MaxCooldown, MaxHonoredRetryAfter)
    BY <1>1, <2>1, CooldownBounds
  <2> QED
    BY <2>2, ParkCaps, CooldownsValid DEF Max2
<1>3. CASE cell.state = "Open"
  <2>1. n = cell
    BY <1>3 DEF cell_record_failure
  <2> QED
    BY <1>3, <2>1 DEF Inv, TypeOK, ProbeFlagExact, ParkBounded, Legal, Sticks, Parked, Cells
<1>4. CASE cell.state # "Open" /\ (cell.state = "HalfOpen" \/ trips(cell, window, t[a]))
  <2>1. PICK d \in D : n = cell_open(b, t[a], d)
    BY <1>4 DEF cell_record_failure
  <2> HIDE DEF D
  <2>2. n = OpenUntil([cell EXCEPT !.streak = cell.streak + 1], SatAdd(t[a], d))
    BY <1>1, <2>1 DEF cell_open
  <2> QED
    BY <1>1, <1>2, <1>4, <2>1, <2>2, LegalOpen
<1>5. CASE cell.state # "Open" /\ ~(cell.state = "HalfOpen" \/ trips(cell, window, t[a]))
  <2>1. PICK d \in D : n = [b EXCEPT !.cooldown = SatAdd(t[a], d)]
    BY <1>5 DEF cell_record_failure
  <2>2. d \in 1 .. MaxPark
    BY <1>2, <2>1
  <2>3. t[a] \in Nat /\ t[a] <= now /\ now \in Nat
    BY DEF Inv, TypeOK, ClocksSane
  <2>4. SatAdd(t[a], d) \in Nat /\ SatAdd(t[a], d) <= now + MaxPark
    BY <2>2, <2>3, ParkCaps, CooldownsValid DEF SatAdd, Min2
  <2>5. cell \in Cells /\ cell.state = "Closed" /\ cell.probe = FALSE
    BY <1>5 DEF Inv, TypeOK, ProbeFlagExact, Cells, States
  <2> HIDE DEF D
  <2> QED
    BY <1>1, <2>1, <2>4, <2>5 DEF Legal, Cells, States
<1> QED
  BY <1>3, <1>4, <1>5

(* The sticky parking of record_hard_down leaves a legal cell. *)
LEMMA LegalHardDown ==
    ASSUME Inv, NEW a \in Actors, Records(a, "harddown")
    PROVE  Legal(hard_down(cell, t[a]))
<1>1. cell = [cell EXCEPT !.streak = cell.streak] /\ cell.streak \in Nat
  BY DEF Inv, TypeOK, Cells
<1> QED
  BY <1>1, ParkCaps, LegalOpen DEF hard_down

(* A transition that decides nothing leaves a legal cell. *)
LEMMA LegalSame ==
    ASSUME Inv
    PROVE  Legal(cell)
BY DEF Inv, TypeOK, ProbeFlagExact, ParkBounded, Legal, Sticks, Parked, Cells, States

(* cell_closed_locked leaves a legal cell. *)
LEMMA LegalClosed ==
    ASSUME Inv, cell.state = "Open" =>
                   /\ pc[Prober] = "close" /\ pc'[Prober] = "recovered"
                   /\ cell.cooldown <= reg[Prober]
    PROVE  Legal(cell_closed(cell))
<1> DEFINE n == cell_closed(cell)
<1>1. cell \in Cells /\ now \in Nat
  BY DEF Inv, TypeOK
<1>2. n \in Cells /\ n.state = "Closed" /\ n.probe = FALSE /\ n.cooldown = 0
  BY <1>1 DEF cell_closed, Cells, States
<1> HIDE DEF n
<1> QED
  <2>1. Legal(n)
    BY <1>1, <1>2, ParkCaps DEF Legal, Sticks
  <2> QED
    BY <2>1 DEF n

(* cell_record_success leaves a legal cell, HalfOpen or not. *)
LEMMA LegalSuccess ==
    ASSUME Inv
    PROVE  Legal(cell_record_success(cell))
<1>1. cell \in Cells /\ cell.state \in States
  BY DEF Inv, TypeOK, Cells
<1>2. CASE cell.state = "HalfOpen"
  BY <1>2, LegalClosed DEF cell_record_success
<1>3. CASE cell.state = "Closed"
  BY <1>1, <1>3, LegalSame
     DEF cell_record_success, Legal, Sticks, Parked, Cells, States
<1>4. CASE cell.state = "Open"
  BY <1>4, LegalSame DEF cell_record_success
<1> QED
  BY <1>1, <1>2, <1>3, <1>4 DEF States

(* An unowned release of the probe leaves a legal cell. *)
LEMMA LegalRelease ==
    ASSUME Inv
    PROVE  Legal(cell_release_probe(cell))
BY DEF Inv, TypeOK, ProbeFlagExact, ParkBounded, Legal, Sticks, Parked,
   cell_release_probe, Cells, States

(* An owner-checked release leaves a legal cell. *)
LEMMA LegalReleaseOwned ==
    ASSUME Inv, NEW e
    PROVE  Legal(cell_release_probe_owned(cell, e))
BY LegalRelease, LegalSame DEF cell_release_probe_owned

(* recover_lane's close leaves a legal cell, taken or not. *)
LEMMA LegalRecover ==
    ASSUME Inv, pc[Prober] = "close", pc'[Prober] = "recovered", NEW u
    PROVE  Legal(cell_closed_if_recoverable(cell, u, reg[Prober]))
BY LegalClosed, LegalSame DEF cell_closed_if_recoverable, Recoverable

(* Winning the single-flight probe leaves a legal cell. *)
LEMMA LegalWin ==
    ASSUME Inv, NEW a \in Actors, MayProbe(cell, t[a])
    PROVE  Legal(win_probe(cell))
<1> DEFINE n == win_probe(cell)
<1>1. cell \in Cells /\ now \in Nat /\ t[a] \in Nat /\ t[a] <= now
  BY DEF Inv, TypeOK, ClocksSane
<1>2. n \in Cells /\ n.state = "HalfOpen" /\ n.probe = TRUE
      /\ n.cooldown = cell.cooldown
  <2>1. n.probe = TRUE /\ n.state = "HalfOpen" /\ n.cooldown = cell.cooldown
    BY <1>1 DEF win_probe, Cells
  <2>2. cell.epoch + 1 \in Nat
    BY <1>1 DEF Cells
  <2>3. n = [[[cell EXCEPT !.state = "HalfOpen"] EXCEPT !.epoch = cell.epoch + 1]
               EXCEPT !.probe = TRUE]
    BY <1>1 DEF win_probe, Cells
  <2>4. n \in Cells
    <3>1. [cell EXCEPT !.state = "HalfOpen"] \in Cells
      BY <1>1 DEF Cells, States
    <3>2. \A c \in Cells, e \in Nat : [c EXCEPT !.epoch = e] \in Cells
      BY DEF Cells
    <3>3. \A c \in Cells : [c EXCEPT !.probe = TRUE] \in Cells
      BY DEF Cells
    <3> HIDE DEF n
    <3> QED
      BY <2>2, <2>3, <3>1, <3>2, <3>3
  <2> QED
    BY <2>1, <2>4
<1>3. cell.state = "Open" /\ cell.cooldown <= now /\ cell.cooldown >= 1
      /\ cell.cooldown <= now + MaxPark /\ cell.cooldown \in Nat
  BY <1>1 DEF MayProbe, Inv, ProbeFlagExact, ParkBounded, Cells
<1> HIDE DEF n
<1> QED
  <2>1. Legal(n)
    BY <1>1, <1>2, <1>3 DEF Legal, Parked
  <2> QED
    BY <2>1 DEF n

-----------------------------------------------------------------------------
(* A commit of a legal cell is a legal step of the lock. *)
LEMMA CommitLegal ==
    ASSUME NEW a \in Actors, NEW n, NEW f \in {"state", "cooldown"},
           Legal(n), Commit(a, n, f)
    PROVE  LockStep
<1>1. n \in Cells
  BY DEF Legal
<1> QED
  BY <1>1 DEF LockStep, Transition

(* What a step may do to the cell: nothing, a Legal transition under the   *)
(* lock, or one more store of the transition in progress.                  *)
LEMMA StepShape ==
    ASSUME Inv, [Next]_vars
    PROVE  LockStep
<1>0. /\ Prober \in Actors /\ \A r \in Requests : r \in Actors
      /\ pc \in [Actors -> RequestPCs \cup ProberPCs]
  BY DEF Actors, Inv, TypeOK
<1>1. ASSUME NEW r \in Requests, Admission(r)
      PROVE  LockStep
  <2>1. CASE AcquireLocked(r)
    <3>1. CASE MayProbe(cell, t[r])
      BY <1>0, <2>1, <3>1, LegalWin, CommitLegal DEF AcquireLocked
    <3>2. CASE ~MayProbe(cell, t[r])
      BY <2>1, <3>2 DEF AcquireLocked, LockStep
    <3> QED
      BY <3>1, <3>2
  <2>2. CASE ~AcquireLocked(r)
    BY <1>1, <2>2 DEF Admission, Begin, LeastBad, VerdictCooldown,
       VerdictState, AcquireState, AcquireClosed, AcquireOpen, ReadToken,
       LockStep
  <2> QED
    BY <2>1, <2>2
<1>2. ASSUME NEW r \in Requests, Dispatch(r)
      PROVE  LockStep
  <2>1. CASE Bail(r)
    <3>1. PICK n : Commit(r, n, "state") /\ Legal(n)
      BY <2>1, LegalRelease, LegalReleaseOwned DEF Bail
    <3> QED
      BY <1>0, <3>1, CommitLegal
  <2>2. CASE GuardDrop(r)
    BY <1>0, <2>2, LegalReleaseOwned, CommitLegal DEF GuardDrop
  <2>3. CASE ClientFault(r)
    BY <1>0, <2>3, LegalReleaseOwned, CommitLegal DEF ClientFault
  <2>4. CASE \/ Send(r) \/ Cancel(r) \/ Success(r) \/ EndBody(r)
             \/ HardDown(r)
             \/ \E x \in RetryAfters \cup {NoRetryAfter} : Fail(r, x)
    BY <2>4 DEF Send, Cancel, Success, EndBody, HardDown, Fail, LockStep
  <2> QED
    BY <1>2, <2>1, <2>2, <2>3, <2>4 DEF Dispatch
<1>3. ASSUME NEW a \in Actors, Record(a)
      PROVE  LockStep
  <2>1. CASE RecordFailure(a)
    <3>1. PICK n \in cell_record_failure(cell, window, t[a], ra[a]) :
              Commit(a, n, "cooldown")
      BY <2>1 DEF RecordFailure
    <3>2. Records(a, "fail")
      BY <1>0, <2>1 DEF RecordFailure, Goto, AfterOutcome, Records
    <3> QED
      BY <3>1, <3>2, LegalFailure, CommitLegal
  <2>2. CASE RecordSuccess(a)
    BY <2>2, LegalSuccess, CommitLegal DEF RecordSuccess
  <2>3. CASE RecordHardDown(a)
    <3>1. Records(a, "harddown")
      BY <1>0, <2>3 DEF RecordHardDown, Goto, AfterOutcome, Records
    <3> QED
      BY <2>3, <3>1, LegalHardDown, CommitLegal DEF RecordHardDown
  <2> QED
    BY <1>3, <2>1, <2>2, <2>3 DEF Record
<1>4. ASSUME NEW f \in Fields, Publish(f)
      PROVE  LockStep
  BY <1>4 DEF Publish, Store, LockStep
<1>5. ASSUME Probing
      PROVE  LockStep
  <2>1. CASE RecoverClose
    BY <1>0, <2>1, LegalRecover, CommitLegal DEF RecoverClose, Goto
  <2>2. CASE ~RecoverClose
    BY <1>5, <2>2 DEF Probing, ProbeOk, ProbeFail, ProbeHardDown, SendProbe,
       ObserveCooldown, ObserveState, ProbeSuccess, LockStep
  <2> QED
    BY <2>1, <2>2
<1>6. CASE Tick \/ Finished \/ UNCHANGED vars
  BY <1>6 DEF Tick, Finished, vars, lockVars, LockStep
<1> QED
  BY <1>1, <1>2, <1>3, <1>4, <1>5, <1>6 DEF Next

-----------------------------------------------------------------------------
(* The variables outside the lock: the clock, the window, and what each    *)
(* actor keeps.                                                            *)
LocalTypeOK ==
    /\ now \in Nat
    /\ window \in Seq(Outcomes)
    /\ pc \in [Actors -> RequestPCs \cup ProberPCs]
    /\ t \in [Actors -> Nat]
    /\ reg \in [Actors -> Nat]
    /\ tok \in [Requests -> Nat \cup {NoToken}]
    /\ ra \in [Actors -> RetryAfters \cup {NoRetryAfter}]
    /\ route \in [Requests -> Route \cup {"none"}]
    /\ probes \in Nat

(* push keeps the outcome window a sequence of outcomes. *)
LEMMA PushType ==
    ASSUME NEW w \in Seq(Outcomes), NEW ts \in Nat, NEW e \in BOOLEAN
    PROVE  push(w, ts, e) \in Seq(Outcomes)
<1>1. [ts |-> ts, is_error |-> e] \in Outcomes
  BY DEF Outcomes
<1>2. Len(w) >= WindowCapacity => w # <<>>
  BY TripValid
<1>3. CASE Len(w) >= WindowCapacity
  <2>1. Tail(w) \in Seq(Outcomes)
    BY <1>2, <1>3
  <2> QED
    BY <1>1, <1>3, <2>1 DEF push
<1>4. CASE ~(Len(w) >= WindowCapacity)
  BY <1>1, <1>4 DEF push
<1> QED
  BY <1>3, <1>4

(* So does the push of a success or of a failure at a legal clock. *)
LEMMA PushTypes ==
    \A w \in Seq(Outcomes), ts \in Nat :
        push(w, ts, TRUE) \in Seq(Outcomes) /\ push(w, ts, FALSE) \in Seq(Outcomes)
<1> TAKE w \in Seq(Outcomes), ts \in Nat
<1>1. TRUE \in BOOLEAN /\ FALSE \in BOOLEAN
  OBVIOUS
<1> QED
  BY <1>1, PushType, Zenon

(* What a lock-free load returns has the type of the field. *)
LEMMA SeenTypes ==
    ASSUME Inv
    PROVE  SeenCooldown \in Nat /\ SeenEpoch \in Nat /\ SeenState \in States
BY DEF Inv, TypeOK, SeenCooldown, SeenEpoch, SeenState, Cells

PCs == RequestPCs \cup ProberPCs

(* A step that moves one actor and keeps its registers. *)
LEMMA QuietStep ==
    ASSUME LocalTypeOK, ClocksSane, NEW a \in Actors, NEW l \in PCs,
           Goto(a, l), UNCHANGED <<now, actorVars, probes>>,
           window' \in Seq(Outcomes)
    PROVE  LocalTypeOK' /\ ClocksSane' /\ now <= now'
<1>1. pc' \in [Actors -> RequestPCs \cup ProberPCs]
  BY DEF Goto, LocalTypeOK, PCs
<1> QED
  BY <1>1 DEF LocalTypeOK, ClocksSane, actorVars

(* A step that moves one actor and has it read the clock. *)
LEMMA ClockStep ==
    ASSUME LocalTypeOK, ClocksSane, NEW a \in Actors, NEW l \in PCs,
           Goto(a, l), t' = [t EXCEPT ![a] = now], now' = now
    PROVE  /\ pc' \in [Actors -> RequestPCs \cup ProberPCs]
           /\ t' \in [Actors -> Nat]
           /\ ClocksSane' /\ now <= now'
BY DEF Goto, LocalTypeOK, PCs, ClocksSane

(* Every step keeps the actors' own variables well typed. *)
LEMMA LocalStep ==
    ASSUME Inv, [Next]_vars
    PROVE  LocalTypeOK' /\ ClocksSane' /\ now <= now'
<1> USE DEF LocalTypeOK, ClocksSane, RequestPCs, ProberPCs, Goto
<1>0. /\ LocalTypeOK /\ ClocksSane
      /\ Prober \in Actors /\ \A r \in Requests : r \in Actors
  BY DEF Inv, TypeOK, Actors
<1>1. ASSUME NEW r \in Requests, Admission(r)
      PROVE  LocalTypeOK' /\ ClocksSane' /\ now <= now'
  <2>1. CASE \E k \in Route : Begin(r, k)
    BY <1>0, <2>1 DEF Begin, RoutesValid
  <2>2. CASE LeastBad(r)
    BY <1>0, <2>2 DEF LeastBad, Route
  <2>3. CASE VerdictCooldown(r)
    BY <1>0, <2>3, SeenTypes DEF VerdictCooldown
  <2>4. CASE \/ VerdictState(r) \/ AcquireClosed(r) \/ AcquireOpen(r)
    <3>1. PICK l \in PCs : Goto(r, l)
      BY <2>4 DEF VerdictState, AcquireClosed, AcquireOpen, PCs
    <3>2. UNCHANGED <<now, window, actorVars, probes>>
      BY <2>4 DEF VerdictState, AcquireClosed, AcquireOpen
    <3> QED
      BY <1>0, <3>1, <3>2, QuietStep
  <2>5. CASE AcquireState(r)
    <3>1. PICK l \in PCs : Goto(r, l)
      BY <2>5, SeenTypes DEF AcquireState, PCs, States
    <3>2. UNCHANGED <<now, window, actorVars, probes>>
      BY <2>5 DEF AcquireState
    <3> QED
      BY <1>0, <3>1, <3>2, QuietStep
  <2>6. CASE AcquireLocked(r)
    <3>1. PICK l \in PCs : Goto(r, l)
      BY <2>6 DEF AcquireLocked, PCs
    <3>2. UNCHANGED <<now, window, actorVars, probes>>
      BY <2>6 DEF AcquireLocked
    <3> QED
      BY <1>0, <3>1, <3>2, QuietStep
  <2>7. CASE ReadToken(r)
    BY <1>0, <2>7, SeenTypes DEF ReadToken
  <2> QED
    BY <1>1, <2>1, <2>2, <2>3, <2>4, <2>5, <2>6, <2>7 DEF Admission
<1>2. ASSUME NEW r \in Requests, Dispatch(r)
      PROVE  LocalTypeOK' /\ ClocksSane' /\ now <= now'
  <2>1. CASE Send(r) \/ Bail(r) \/ Cancel(r) \/ GuardDrop(r)
             \/ ClientFault(r) \/ EndBody(r)
    <3>1. PICK l \in PCs : Goto(r, l)
      BY <2>1 DEF Send, Bail, Cancel, GuardDrop, ClientFault, EndBody, PCs
    <3>2. UNCHANGED <<now, window, actorVars, probes>>
      BY <2>1 DEF Send, Bail, Cancel, GuardDrop, ClientFault, EndBody
    <3> QED
      BY <1>0, <3>1, <3>2, QuietStep
  <2>2. CASE Success(r)
    BY <1>0, <2>2 DEF Success
  <2>3. CASE HardDown(r)
    BY <1>0, <2>3 DEF HardDown
  <2>4. ASSUME NEW x \in RetryAfters \cup {NoRetryAfter}, Fail(r, x)
        PROVE  LocalTypeOK' /\ ClocksSane' /\ now <= now'
    <3>1. window' \in Seq(Outcomes)
      BY <1>0, <2>4, PushType DEF Fail
    <3>2. Goto(r, "fail") /\ t' = [t EXCEPT ![r] = now] /\ now' = now
      BY <2>4 DEF Fail
    <3>3. /\ pc' \in [Actors -> RequestPCs \cup ProberPCs]
          /\ t' \in [Actors -> Nat] /\ ClocksSane' /\ now <= now'
      <4>1. "fail" \in PCs
        BY DEF PCs
      <4> QED
        BY <1>0, <3>2, <4>1, ClockStep
    <3>4. ra' \in [Actors -> RetryAfters \cup {NoRetryAfter}]
      BY <1>0, <2>4 DEF Fail
    <3> QED
      BY <1>0, <2>4, <3>1, <3>3, <3>4 DEF Fail
  <2> QED
    BY <1>2, <2>1, <2>2, <2>3, <2>4 DEF Dispatch
<1>3. ASSUME NEW a \in Actors, Record(a)
      PROVE  LocalTypeOK' /\ ClocksSane' /\ now <= now'
  <2>1. CASE RecordFailure(a) \/ RecordHardDown(a)
    <3>1. AfterOutcome(a) \in PCs
      BY DEF AfterOutcome, PCs
    <3>2. Goto(a, AfterOutcome(a)) /\ UNCHANGED <<now, window, actorVars, probes>>
      BY <2>1 DEF RecordFailure, RecordHardDown
    <3> QED
      BY <1>0, <3>1, <3>2, QuietStep
  <2>2. CASE RecordSuccess(a)
    <3>1. window_after_success(cell, window, t[a]) \in Seq(Outcomes)
      <4>0. window \in Seq(Outcomes) /\ t[a] \in Nat
        BY <1>0
      <4>1. push(window, t[a], FALSE) \in Seq(Outcomes)
        BY <4>0, PushTypes
      <4>2. <<>> \in Seq(Outcomes)
        OBVIOUS
      <4> QED
        BY <4>1, <4>2, Zenon DEF window_after_success
    <3>2. PICK l \in PCs : Goto(a, l)
      BY <2>2 DEF RecordSuccess, PCs
    <3> QED
      BY <1>0, <2>2, <3>1, <3>2, QuietStep DEF RecordSuccess
  <2> QED
    BY <1>3, <2>1, <2>2 DEF Record
<1>4. ASSUME NEW f \in Fields, Publish(f)
      PROVE  LocalTypeOK' /\ ClocksSane' /\ now <= now'
  BY <1>0, <1>4 DEF Publish, actorVars
<1>5. ASSUME Probing
      PROVE  LocalTypeOK' /\ ClocksSane' /\ now <= now'
  <2>1. CASE ProbeOk \/ ProbeHardDown
    <3>1. PICK l \in {"observe", "harddown"} : SendProbe(l)
      BY <2>1 DEF ProbeOk, ProbeHardDown
    <3>2. l \in PCs
      BY <3>1 DEF PCs
    <3>3. /\ pc' \in [Actors -> RequestPCs \cup ProberPCs]
          /\ t' \in [Actors -> Nat] /\ ClocksSane' /\ now <= now'
      BY <1>0, <3>1, <3>2, ClockStep DEF SendProbe
    <3> QED
      BY <1>0, <2>1, <3>1, <3>3 DEF ProbeOk, ProbeHardDown, SendProbe
  <2>2. ASSUME NEW x \in RetryAfters \cup {NoRetryAfter}, ProbeFail(x)
        PROVE  LocalTypeOK' /\ ClocksSane' /\ now <= now'
    <3>1. window' \in Seq(Outcomes)
      BY <1>0, <2>2, PushType DEF ProbeFail
    <3>2. "fail" \in PCs
      BY DEF PCs
    <3>3. /\ pc' \in [Actors -> RequestPCs \cup ProberPCs]
          /\ t' \in [Actors -> Nat] /\ ClocksSane' /\ now <= now'
      <4>1. Goto(Prober, "fail") /\ t' = [t EXCEPT ![Prober] = now]
            /\ now' = now
        BY <2>2 DEF ProbeFail, SendProbe
      <4> HIDE DEF Goto, LocalTypeOK, ClocksSane, RequestPCs, ProberPCs
      <4> QED
        BY <1>0, <3>2, <4>1, ClockStep
    <3>4. ra' \in [Actors -> RetryAfters \cup {NoRetryAfter}]
      BY <1>0, <2>2 DEF ProbeFail
    <3> QED
      <4>1. UNCHANGED <<now, reg, tok, route>> /\ probes' = probes + 1
        BY <2>2 DEF ProbeFail, SendProbe
      <4>2. probes' \in Nat
        BY <1>0, <4>1
      <4> QED
        BY <1>0, <3>1, <3>3, <3>4, <4>1, <4>2
  <2>3. CASE ObserveCooldown
    BY <1>0, <2>3, SeenTypes DEF ObserveCooldown
  <2>4. CASE ObserveState
    BY <1>0, <2>4 DEF ObserveState, actorVars
  <2>5. CASE RecoverClose
    BY <1>0, <2>5 DEF RecoverClose, actorVars
  <2>6. CASE ProbeSuccess
    BY <1>0, <2>6 DEF ProbeSuccess
  <2> QED
    BY <1>5, <2>1, <2>2, <2>3, <2>4, <2>5, <2>6 DEF Probing
<1>6. CASE Tick
  BY <1>0, <1>6, BoundsValid DEF Tick, actorVars
<1>7. CASE Finished \/ UNCHANGED vars
  BY <1>0, <1>7 DEF Finished, vars
<1> QED
  BY <1>1, <1>2, <1>3, <1>4, <1>5, <1>6, <1>7 DEF Next

-----------------------------------------------------------------------------
(* The lock's variables stay well formed. *)
LEMMA LockInv ==
    ASSUME Inv, LockStep, now' \in Nat, now <= now'
    PROVE  /\ cell' \in Cells /\ old' \in Cells /\ todo' \in SUBSET Fields
           /\ first' \in {"state", "cooldown"}
           /\ holder' \in Actors \cup {NoOne}
           /\ LockDiscipline' /\ ProbeFlagExact' /\ ParkBounded'
<1> USE DEF LockDiscipline, ProbeFlagExact, ParkBounded, Free
<1>0. /\ cell \in Cells /\ old \in Cells /\ todo \in SUBSET Fields
      /\ first \in {"state", "cooldown"} /\ holder \in Actors \cup {NoOne}
      /\ cell.cooldown \in Nat /\ now \in Nat /\ MaxPark \in Nat
      /\ LockDiscipline /\ ProbeFlagExact /\ ParkBounded
  BY ParkCaps DEF Inv, TypeOK, Cells
<1>1. CASE UNCHANGED lockVars
  BY <1>0, <1>1 DEF lockVars
<1>2. CASE Transition
  <2>1. PICK a \in Actors, n \in Cells, f \in {"state", "cooldown"} :
            Commit(a, n, f) /\ Legal(n)
    BY <1>2 DEF Transition
  <2>2. cell' = n /\ first' = f
    BY <2>1 DEF Commit
  <2>3. Changed(n) \in SUBSET Fields
    BY DEF Changed, Fields
  <2>4. todo' = Changed(n) /\ old' \in {n, cell} /\ holder' \in {a, NoOne}
    BY <2>1 DEF Commit
  <2>5. LockDiscipline'
    <3>1. a # NoOne
      BY ActorsDistinct DEF Actors, Prober, NoOne
    <3> QED
      BY <2>1, <3>1 DEF Commit
  <2>6. ProbeFlagExact' /\ ParkBounded'
    <3>1. n.cooldown \in Nat
      BY DEF Cells
    <3> QED
      BY <1>0, <2>1, <2>2, <3>1 DEF Legal
  <2> QED
    BY <1>0, <2>1, <2>2, <2>3, <2>4, <2>5, <2>6
<1>3. CASE Store
  BY <1>0, <1>3 DEF Store
<1> QED
  BY <1>1, <1>2, <1>3 DEF LockStep

(* A new cell, before any request, is in the invariant. *)
LEMMA InitInv == Init => Inv
<1> SUFFICES ASSUME Init PROVE Inv
  OBVIOUS
<1>1. TypeOK
  <2>1. NewCell \in Cells
    BY DEF NewCell, Cells, States
  <2>2. window \in Seq(Outcomes)
    BY DEF Init
  <2> QED
    BY <2>1, <2>2 DEF Init, TypeOK, RequestPCs, ProberPCs, Actors
<1>2. LockDiscipline /\ ClocksSane
  BY BoundsValid DEF Init, LockDiscipline, ClocksSane
<1>3. ProbeFlagExact /\ ParkBounded
  BY ParkCaps DEF Init, NewCell, ProbeFlagExact, ParkBounded
<1> QED
  BY <1>1, <1>2, <1>3 DEF Inv

(* Every step of an actor or of the clock keeps the invariant. *)
LEMMA NextInv == Inv /\ [Next]_vars => Inv'
<1> SUFFICES ASSUME Inv, [Next]_vars PROVE Inv'
  OBVIOUS
<1>1. LockStep
  BY StepShape
<1>2. LocalTypeOK' /\ ClocksSane' /\ now <= now'
  BY LocalStep
<1>3. now' \in Nat
  BY <1>2 DEF LocalTypeOK
<1> QED
  BY <1>1, <1>2, <1>3, LockInv DEF Inv, TypeOK, LocalTypeOK

(* The inductive invariant of the breaker cell. *)
THEOREM Invariance == Spec => []Inv
BY InitInv, NextInv, PTL DEF Spec

(* The variables of the breaker keep their types: in particular no cooldown*)
(* underflows and no state is stored that the match arms do not know.      *)
THEOREM TypeCorrect == Spec => []TypeOK
<1>1. Inv => TypeOK
  BY DEF Inv
<1> QED
  BY <1>1, Invariance, PTL

(* No Retry-After and no streak parks a lane for longer than MaxPark. *)
THEOREM ParkCorrect == Spec => []ParkBounded
<1>1. Inv => ParkBounded
  BY DEF Inv
<1> QED
  BY <1>1, Invariance, PTL

(* A cell parked Open with time left is moved only by a hard-down, and     *)
(* closed early only by a recover_lane that saw it parked as long.         *)
THEOREM HardDownCorrect == Spec => HardDownSticks
<1>1. Inv /\ [Next]_vars
        => [cell.state = "Open" /\ now < cell.cooldown =>
              \/ /\ cell'.state = "Open"
                 /\ \/ cell'.cooldown = cell.cooldown
                    \/ \E a \in Actors : Records(a, "harddown")
              \/ /\ pc[Prober] = "close" /\ pc'[Prober] = "recovered"
                 /\ cell.cooldown <= reg[Prober]]_vars
  <2> SUFFICES ASSUME Inv, [Next]_vars,
                      cell.state = "Open", now < cell.cooldown
               PROVE  Sticks(cell')
    BY DEF Sticks
  <2>1. LockStep
    BY StepShape
  <2>2. CASE UNCHANGED lockVars \/ Store
    BY <2>2 DEF lockVars, Store, Sticks
  <2>3. CASE Transition
    BY <2>3 DEF Transition, Commit, Legal
  <2> QED
    BY <2>1, <2>2, <2>3 DEF LockStep
<1> QED
  BY <1>1, Invariance, PTL DEF Spec, HardDownSticks

-----------------------------------------------------------------------------
(* Admission, with the history variable of BreakerHistory. *)

(* In the transition being stored, a half-open cell closes with its        *)
(* cooldown cleared, and a Closed cell never goes HalfOpen directly.       *)
PairOK ==
    /\ old.state = "HalfOpen" /\ cell.state = "Closed" => cell.cooldown = 0
    /\ old.state = "Closed" => cell.state # "HalfOpen"

(* fit is set as soon as the cell is ready, and a request that has loaded  *)
(* Closed from a cell that was never ready still has a cooldown to meet.   *)
FitOK ==
    /\ fit \in [Requests -> BOOLEAN]
    /\ \A r \in Requests :
         /\ pc[r] \in Acquiring /\ Fit(r) => fit[r]
         /\ pc[r] = "acqClosed" /\ ~fit[r]
              => cell.cooldown > t[r] /\ old.cooldown > t[r]

(* The cooldown of a cell that is not Closed is past its last trip. *)
TrippedOK == tripped \in Nat /\ (cell.state # "Closed" => cell.cooldown > tripped)

HInv == Inv /\ PairOK /\ FitOK /\ TrippedOK

(* When a cell admits at time x, in terms of its state and cooldown. *)
LEMMA ReadyIff ==
    ASSUME NEW c \in Cells, NEW u \in Nat
    PROVE  cell_ready(c, u) <=> c.state # "HalfOpen" /\ u >= c.cooldown
BY DEF cell_ready, breaker_verdict, Admits, Cells, States

(* A step of the lock keeps the link between the stored cell and the decided one. *)
LEMMA PairStep ==
    ASSUME Inv, PairOK, LockStep
    PROVE  PairOK'
<1>1. CASE UNCHANGED lockVars
  BY <1>1 DEF PairOK, lockVars
<1>2. CASE Transition
  <2>1. PICK a \in Actors, n \in Cells, f \in {"state", "cooldown"} :
            Commit(a, n, f) /\ Legal(n)
    BY <1>2 DEF Transition
  <2> QED
    BY <2>1 DEF Commit, Legal, PairOK
<1>3. CASE Store
  BY <1>3 DEF Store, PairOK
<1> QED
  BY <1>1, <1>2, <1>3 DEF LockStep

(* The cooldown of a cell that is never ready for t stays ahead of t. *)
LEMMA AheadStep ==
    ASSUME Inv, Inv', LockStep, NEW u \in Nat,
           cell.cooldown > u, old.cooldown > u,
           ~cell_ready(cell', u)
    PROVE  cell'.cooldown > u /\ old'.cooldown > u
<1>0. /\ cell \in Cells /\ cell' \in Cells /\ old \in Cells
      /\ cell'.cooldown \in Nat
  BY DEF Inv, TypeOK, Cells
<1>1. CASE UNCHANGED lockVars
  BY <1>1 DEF lockVars
<1>2. CASE Transition
  <2>1. PICK a \in Actors, n \in Cells, f \in {"state", "cooldown"} :
            Commit(a, n, f) /\ Legal(n)
    BY <1>2 DEF Transition
  <2>2. cell' = n /\ old' \in {cell, n}
    BY <2>1 DEF Commit
  <2>3. n.state = "HalfOpen" => n.cooldown = cell.cooldown
    BY <2>1 DEF Legal
  <2>4. n.state # "HalfOpen" => n.cooldown > u
    BY <1>0, <2>2, ReadyIff
  <2> QED
    BY <2>2, <2>3, <2>4
<1>3. CASE Store
  BY <1>3 DEF Store
<1> QED
  BY <1>1, <1>2, <1>3 DEF LockStep

(* A request that loads Closed while the cell is not ready for it. *)
LEMMA LoadedClosed ==
    ASSUME Inv, PairOK, NEW r \in Requests, SeenState = "Closed", ~Fit(r)
    PROVE  cell.cooldown > t[r] /\ old.cooldown > t[r]
<1>1. /\ cell \in Cells /\ old \in Cells /\ t[r] \in Nat
      /\ cell.cooldown \in Nat /\ old.cooldown \in Nat
      /\ cell.state \in States /\ old.state \in States
  BY DEF Inv, TypeOK, Cells, Actors
<1>2. /\ cell.state # "HalfOpen" => cell.cooldown > t[r]
      /\ old.state # "HalfOpen" => old.cooldown > t[r]
  BY <1>1, ReadyIff DEF Fit
<1> QED
  BY <1>1, <1>2 DEF SeenState, PairOK

(* A request's program counter and clock are its own. *)
LEMMA OwnMoves ==
    ASSUME Inv, [Next]_vars, NEW r \in Requests,
           ~Admission(r), ~Dispatch(r), ~Record(r)
    PROVE  pc'[r] = pc[r] /\ t'[r] = t[r]
<1> USE DEF Goto
<1>0. /\ pc \in [Actors -> RequestPCs \cup ProberPCs] /\ t \in [Actors -> Nat]
      /\ r \in Actors /\ Prober \in Actors /\ r # Prober
  BY ActorsDistinct DEF Inv, TypeOK, Actors
<1>1. ASSUME NEW q \in Requests, q # r, Admission(q)
      PROVE  pc'[r] = pc[r] /\ t'[r] = t[r]
  <2>1. q \in Actors
    BY DEF Actors
  <2>2. CASE \E k \in Route : Begin(q, k)
    BY <1>0, <1>1, <2>1, <2>2 DEF Begin
  <2>3. CASE LeastBad(q) \/ VerdictCooldown(q) \/ ReadToken(q)
    BY <1>0, <1>1, <2>1, <2>3 DEF LeastBad, VerdictCooldown, ReadToken
  <2>4. CASE \/ VerdictState(q) \/ AcquireState(q) \/ AcquireClosed(q)
             \/ AcquireOpen(q) \/ AcquireLocked(q)
    <3>1. t' = t /\ \E l : pc' = [pc EXCEPT ![q] = l]
      BY <2>4 DEF VerdictState, AcquireState, AcquireClosed, AcquireOpen,
         AcquireLocked, actorVars
    <3> QED
      BY <1>0, <1>1, <2>1, <3>1
  <2> QED
    BY <1>1, <2>2, <2>3, <2>4 DEF Admission
<1>2. ASSUME NEW q \in Requests, q # r, Dispatch(q)
      PROVE  pc'[r] = pc[r] /\ t'[r] = t[r]
  <2>1. q \in Actors
    BY DEF Actors
  <2>2. /\ t' = t \/ t' = [t EXCEPT ![q] = now]
        /\ \E l : pc' = [pc EXCEPT ![q] = l]
    BY <1>2 DEF Dispatch, Send, Bail, Cancel, GuardDrop, ClientFault, Success,
       EndBody, HardDown, Fail, actorVars
  <2> QED
    BY <1>0, <1>2, <2>1, <2>2
<1>3. ASSUME NEW a \in Actors, a # r, Record(a)
      PROVE  pc'[r] = pc[r] /\ t'[r] = t[r]
  <2>1. t' = t /\ \E l : pc' = [pc EXCEPT ![a] = l]
    BY <1>3 DEF Record, RecordFailure, RecordSuccess, RecordHardDown, actorVars
  <2> QED
    BY <1>0, <1>3, <2>1
<1>4. ASSUME Probing
      PROVE  pc'[r] = pc[r] /\ t'[r] = t[r]
  <2>1. /\ t' = t \/ t' = [t EXCEPT ![Prober] = now]
        /\ \E l : pc' = [pc EXCEPT ![Prober] = l]
    BY <1>4 DEF Probing, ProbeOk, ProbeFail, ProbeHardDown, SendProbe,
       ObserveCooldown, ObserveState, RecoverClose, ProbeSuccess, actorVars
  <2> QED
    BY <1>0, <2>1
<1>5. CASE (\E f \in Fields : Publish(f)) \/ Tick \/ Finished \/ UNCHANGED vars
  BY <1>5 DEF Publish, Tick, Finished, vars, actorVars
<1> QED
  BY <1>1, <1>2, <1>3, <1>4, <1>5 DEF Next

(* How a request comes to have loaded Closed, and how it is admitted. *)
LEMMA AdmissionMoves ==
    ASSUME Inv, [Next]_vars, NEW r \in Requests
    PROVE  /\ pc'[r] = "acqClosed"
                => \/ pc[r] = "acqClosed" /\ t'[r] = t[r]
                   \/ /\ SeenState = "Closed" /\ t'[r] = t[r]
                      /\ pc[r] \in Acquiring /\ UNCHANGED lockVars
           /\ pc[r] \in Acquiring /\ pc'[r] = "token"
                => \/ pc[r] = "acqClosed" /\ t[r] >= SeenCooldown
                   \/ MayProbe(cell, t[r])
<1> USE DEF Goto, Acquiring
<1>0. pc \in [Actors -> RequestPCs \cup ProberPCs] /\ r \in Actors
  BY DEF Inv, TypeOK, Actors
<1>1. CASE Admission(r)
  <2>1. CASE AcquireState(r)
    BY <1>0, <2>1, SeenTypes DEF AcquireState, actorVars, lockVars, States
  <2>2. CASE AcquireClosed(r)
    BY <1>0, <2>2 DEF AcquireClosed
  <2>3. CASE AcquireLocked(r)
    BY <1>0, <2>3 DEF AcquireLocked
  <2>4. CASE (\E k \in Route : Begin(r, k)) \/ LeastBad(r) \/ ReadToken(r)
             \/ VerdictCooldown(r) \/ VerdictState(r) \/ AcquireOpen(r)
    <3>1. PICK l \in {"verdict", "sent", "ready", "verdict2", "acquire", "done",
                     "acqLock"} : pc' = [pc EXCEPT ![r] = l]
      BY <2>4 DEF Begin, LeastBad, ReadToken, VerdictCooldown, VerdictState,
         AcquireOpen
    <3> QED
      BY <1>0, <3>1
  <2> QED
    BY <1>1, <2>1, <2>2, <2>3, <2>4 DEF Admission
<1>2. CASE Dispatch(r) \/ Record(r)
  <2>1. pc[r] \notin Acquiring
    BY <1>2 DEF Dispatch, Send, Bail, Cancel, GuardDrop, ClientFault, Success,
       EndBody, HardDown, Fail, Record, RecordFailure, RecordSuccess,
       RecordHardDown
  <2>2. PICK l : pc' = [pc EXCEPT ![r] = l] /\ l # "acqClosed"
    <3>1. CASE Dispatch(r)
      BY <3>1 DEF Dispatch, Send, Bail, Cancel, GuardDrop, ClientFault,
         Success, EndBody, HardDown, Fail
    <3>2. CASE Record(r)
      BY <3>2 DEF Record, RecordFailure, RecordSuccess, RecordHardDown,
         AfterOutcome
    <3> QED
      BY <1>2, <3>1, <3>2
  <2> QED
    BY <1>0, <2>1, <2>2
<1>3. CASE ~Admission(r) /\ ~Dispatch(r) /\ ~Record(r)
  BY <1>3, OwnMoves
<1> QED
  BY <1>1, <1>2, <1>3

(* A step keeps what is known of a request that loaded Closed. *)
LEMMA FitStep ==
    ASSUME HInv, [HNext]_hvars, Inv', PairOK'
    PROVE  FitOK'
<1>1. CASE UNCHANGED hvars
  BY <1>1 DEF HInv, FitOK, Fit, hvars, vars
<1>2. CASE HNext
  <2>0. Inv /\ PairOK /\ FitOK /\ Next /\ LockStep
    BY <1>2, StepShape DEF HInv, HNext
  <2>1. fit' \in [Requests -> BOOLEAN]
    BY <1>2 DEF HNext
  <2>2. ASSUME NEW r \in Requests, pc'[r] \in Acquiring, Fit(r)'
        PROVE  fit'[r]
    BY <1>2, <2>2 DEF HNext
  <2>3. ASSUME NEW r \in Requests, pc'[r] = "acqClosed", ~fit'[r]
        PROVE  cell'.cooldown > t'[r] /\ old'.cooldown > t'[r]
    <3>1. ~Fit(r)'
      BY <2>2, <2>3 DEF Acquiring
    <3>2. t[r] \in Nat
      BY <2>0 DEF Inv, TypeOK, Actors
    <3>3. CASE pc[r] = "acqClosed" /\ t'[r] = t[r]
      <4>1. ~fit[r]
        BY <1>2, <2>3, <3>3 DEF HNext, Acquiring
      <4>2. cell.cooldown > t[r] /\ old.cooldown > t[r]
        BY <2>0, <3>3, <4>1 DEF FitOK
      <4>3. ~cell_ready(cell', t[r])
        BY <3>1, <3>3 DEF Fit
      <4> QED
        BY <2>0, <3>2, <3>3, <4>2, <4>3, AheadStep
    <3>4. CASE SeenState = "Closed" /\ t'[r] = t[r] /\ UNCHANGED lockVars
      <4>1. ~Fit(r)
        BY <3>1, <3>4 DEF Fit, lockVars
      <4> QED
        BY <2>0, <3>4, <4>1, LoadedClosed DEF lockVars
    <3> QED
      BY <2>0, <2>3, <3>3, <3>4, AdmissionMoves
  <2> QED
    BY <2>1, <2>2, <2>3 DEF FitOK
<1> QED
  BY <1>1, <1>2

(* An outcome reaches the cell by the record functions and nothing else. *)
LEMMA OutcomeMoves ==
    ASSUME Inv, [Next]_vars, NEW a \in Actors
    PROVE  /\ Records(a, "fail") => RecordFailure(a)
           /\ Records(a, "harddown") => RecordHardDown(a)
<1> SUFFICES ASSUME pc[a] \in {"fail", "harddown"}, pc'[a] # pc[a]
             PROVE  Record(a)
  BY DEF Records, Record, RecordFailure, RecordSuccess, RecordHardDown
<1>0. /\ pc \in [Actors -> RequestPCs \cup ProberPCs]
      /\ Prober \in Actors /\ Prober \notin Requests
  BY ActorsDistinct DEF Inv, TypeOK, Actors
<1>1. CASE a \in Requests
  <2>1. ~Admission(a)
    BY DEF Admission, Begin, LeastBad, VerdictCooldown, VerdictState, AcquireState,
       AcquireClosed, AcquireOpen, AcquireLocked, ReadToken
  <2>2. ~Dispatch(a)
    BY DEF Dispatch, Send, Bail, Cancel, GuardDrop, ClientFault, Success, EndBody,
       HardDown, Fail
  <2> QED
    BY <1>1, <2>1, <2>2, OwnMoves
<1>2. CASE a = Prober
  <2>1. ASSUME NEW q \in Requests, Admission(q) PROVE FALSE
    <3>1. \E l : pc' = [pc EXCEPT ![q] = l]
      BY <2>1 DEF Admission, Begin, LeastBad, VerdictCooldown, VerdictState,
         AcquireState, AcquireClosed, AcquireOpen, AcquireLocked, ReadToken, Goto
    <3> QED
      BY <1>0, <1>2, <3>1
  <2>2. ASSUME NEW q \in Requests, Dispatch(q) PROVE FALSE
    <3>1. \E l : pc' = [pc EXCEPT ![q] = l]
      BY <2>2 DEF Dispatch, Send, Bail, Cancel, GuardDrop, ClientFault, Success,
         EndBody, HardDown, Fail, Goto
    <3> QED
      BY <1>0, <1>2, <3>1
  <2>3. ASSUME NEW b \in Actors, b # a, Record(b) PROVE FALSE
    <3>1. \E l : pc' = [pc EXCEPT ![b] = l]
      BY <2>3 DEF Record, RecordFailure, RecordSuccess, RecordHardDown, Goto
    <3> QED
      BY <1>0, <2>3, <3>1
  <2>4. ~Probing
    BY <1>2 DEF Probing, ProbeOk, ProbeFail, ProbeHardDown, SendProbe,
       ObserveCooldown, ObserveState, RecoverClose, ProbeSuccess
  <2>5. ~(Tick \/ Finished \/ UNCHANGED vars \/ \E f \in Fields : Publish(f))
    BY DEF Tick, Finished, vars, Publish
  <2> QED
    BY <2>1, <2>2, <2>3, <2>4, <2>5 DEF Next
<1> QED
  BY <1>1, <1>2 DEF Actors

(* A trip parks the cell beyond the clock of whoever recorded it. *)
LEMMA TripParks ==
    ASSUME Inv, [Next]_vars, NEW a \in Actors, Trips(a)
    PROVE  cell'.cooldown > t[a]
<1>1. /\ t[a] \in Nat /\ t[a] < TimeMax /\ TimeMax \in Nat
      /\ cell \in Cells /\ cell.streak + 1 \in Nat
      /\ ra[a] \in RetryAfters \cup {NoRetryAfter}
  BY BoundsValid, CooldownsValid DEF Inv, TypeOK, ClocksSane, Cells
<1>2. \A d \in Nat \ {0} : SatAdd(t[a], d) > t[a] /\ SatAdd(t[a], d) \in Nat
  BY <1>1 DEF SatAdd, Min2
<1>3. \A c \in Cells, u \in Nat : OpenUntil(c, u).cooldown = u
  BY DEF OpenUntil, Cells
<1>4. CASE Records(a, "harddown")
  <2>1. cell' = OpenUntil(cell, SatAdd(t[a], HardDownCooldown))
    BY <1>4, OutcomeMoves DEF RecordHardDown, Commit, hard_down
  <2> QED
    BY <1>1, <1>2, <1>3, <2>1, CooldownsValid
<1>5. CASE Records(a, "fail")
  <2> DEFINE b == [cell EXCEPT !.streak = @ + 1]
             D == compute_cooldown(b.streak, ra[a])
  <2>1. cell' \in cell_record_failure(cell, window, t[a], ra[a])
    BY <1>5, OutcomeMoves DEF RecordFailure, Commit
  <2>2. b \in Cells /\ b.streak \in Nat /\ b.state = cell.state
    BY <1>1 DEF Cells
  <2>3. \A d \in D : d \in Nat \ {0}
    <3> HIDE DEF b
    <3>1. \A d \in D : d \in 1 .. Max2(MaxCooldown, MaxHonoredRetryAfter)
      BY <1>1, <2>2, CooldownBounds
    <3> QED
      BY <3>1
  <2>4. cell' # cell /\ cell'.state = "Open"
    BY DEF Trips
  <2>5. PICK d \in D : \/ cell' = cell_open(b, t[a], d)
                       \/ cell' = [b EXCEPT !.cooldown = SatAdd(t[a], d)]
    BY <2>1, <2>4 DEF cell_record_failure
  <2>6. d \in Nat \ {0}
    BY <2>3, <2>5
  <2> HIDE DEF b, D
  <2>7. cell'.cooldown = SatAdd(t[a], d)
    BY <1>2, <1>3, <2>2, <2>5, <2>6 DEF cell_open, Cells
  <2> QED
    BY <1>2, <2>6, <2>7
<1> QED
  BY <1>4, <1>5 DEF Trips

(* A step keeps the cooldown beyond the last trip. *)
LEMMA TrippedStep ==
    ASSUME HInv, [HNext]_hvars
    PROVE  TrippedOK'
<1>1. CASE UNCHANGED hvars
  BY <1>1 DEF HInv, TrippedOK, hvars, vars
<1>2. CASE HNext
  <2>0. Inv /\ TrippedOK /\ Next /\ LockStep
    BY <1>2, StepShape DEF HInv, HNext
  <2>1. CASE \E a \in Actors : Trips(a)
    <3>1. PICK a \in Actors : Trips(a) /\ tripped' = t[a]
      BY <1>2, <2>1 DEF HNext
    <3>2. t[a] \in Nat
      BY <2>0 DEF Inv, TypeOK
    <3> QED
      BY <2>0, <3>1, <3>2, TripParks DEF TrippedOK
  <2>2. CASE ~\E a \in Actors : Trips(a)
    <3>1. tripped' = tripped
      BY <1>2, <2>2 DEF HNext
    <3>2. CASE UNCHANGED lockVars \/ Store
      BY <2>0, <3>1, <3>2 DEF TrippedOK, lockVars, Store
    <3>3. CASE Transition
      <4>1. cell'.state # "Closed" => Parked(cell')
        BY <3>3 DEF Transition, Commit, Legal
      <4>2. Parked(cell') => cell.state # "Closed" /\ cell'.cooldown = cell.cooldown
        BY <2>2 DEF Parked, Trips
      <4> QED
        BY <2>0, <3>1, <4>1, <4>2 DEF TrippedOK
    <3> QED
      BY <2>0, <3>2, <3>3 DEF LockStep
  <2> QED
    BY <2>1, <2>2
<1> QED
  BY <1>1, <1>2

(* No request has begun to acquire the cell at first. *)
LEMMA HInitInv == HInit => HInv
<1> SUFFICES ASSUME HInit PROVE HInv
  OBVIOUS
<1>1. Inv
  BY InitInv DEF HInit
<1>2. PairOK
  BY DEF HInit, Init, NewCell, PairOK
<1>3. FitOK
  <2>1. \A r \in Requests : pc[r] = "new"
    BY ActorsDistinct DEF HInit, Init, Actors
  <2> QED
    BY <2>1 DEF HInit, FitOK, Acquiring
<1>4. TrippedOK
  BY DEF HInit, Init, NewCell, TrippedOK
<1> QED
  BY <1>1, <1>2, <1>3, <1>4 DEF HInv

(* Every step keeps the history's invariant. *)
LEMMA HNextInv == HInv /\ [HNext]_hvars => HInv'
<1> SUFFICES ASSUME HInv, [HNext]_hvars PROVE HInv'
  OBVIOUS
<1>1. Inv /\ PairOK /\ [Next]_vars
  BY DEF HInv, HNext, hvars
<1>2. Inv'
  BY <1>1, NextInv
<1>3. PairOK'
  BY <1>1, StepShape, PairStep
<1> QED
  BY <1>2, <1>3, FitStep, TrippedStep DEF HInv

(* A request is admitted only if, at one instant of cell_acquire_breaker,  *)
(* the whole cell would have admitted it: its lock-free loads are as good  *)
(* as a load under the lock.                                               *)
THEOREM AdmissionCorrect == HSpec => AdmissionSound
<1>1. HInv /\ [HNext]_hvars
        => [\A r \in Requests :
              pc[r] \in Acquiring /\ pc'[r] = "token" => fit[r]]_hvars
  <2> SUFFICES ASSUME HInv, [HNext]_hvars, NEW r \in Requests,
                      pc[r] \in Acquiring, pc'[r] = "token"
               PROVE  fit[r]
    OBVIOUS
  <2>0. Inv /\ FitOK /\ [Next]_vars
    BY DEF HInv, HNext, hvars
  <2>1. CASE pc[r] = "acqClosed" /\ t[r] >= SeenCooldown
    <3>1. /\ t[r] \in Nat /\ cell.cooldown \in Nat /\ old.cooldown \in Nat
      BY <2>0 DEF Inv, TypeOK, Cells, Actors
    <3> QED
      BY <2>0, <2>1, <3>1 DEF FitOK, SeenCooldown
  <2>2. CASE MayProbe(cell, t[r])
    <3>1. cell \in Cells /\ t[r] \in Nat
      BY <2>0 DEF Inv, TypeOK, Actors
    <3>2. Fit(r)
      BY <2>2, <3>1, ReadyIff DEF MayProbe, Fit
    <3> QED
      BY <2>0, <3>2 DEF FitOK
  <2> QED
    BY <2>0, <2>1, <2>2, AdmissionMoves
<1> QED
  BY <1>1, HInitInv, HNextInv, PTL DEF HSpec, AdmissionSound

(* No lane is probed in the second in which it tripped, and none is parked *)
(* for longer than the largest of the caps.                                *)
THEOREM TripCorrect == HSpec => TripLasts
<1>1. HInv /\ HInv' /\ [HNext]_hvars
        => [/\ \A r \in Requests :
                  pc[r] = "acqLock" /\ pc'[r] = "token" => t[r] > tripped
            /\ cell'.cooldown <= now' + MaxPark]_hvars
  <2> SUFFICES ASSUME HInv, HInv', [HNext]_hvars
               PROVE  /\ \A r \in Requests :
                           pc[r] = "acqLock" /\ pc'[r] = "token" => t[r] > tripped
                      /\ cell'.cooldown <= now' + MaxPark
    OBVIOUS
  <2>1. Inv /\ TrippedOK /\ Inv' /\ [Next]_vars
    BY DEF HInv, HNext, hvars
  <2>2. ASSUME NEW r \in Requests, pc[r] = "acqLock", pc'[r] = "token"
        PROVE  t[r] > tripped
    <3>1. MayProbe(cell, t[r])
      BY <2>1, <2>2, AdmissionMoves DEF Acquiring
    <3>2. t[r] \in Nat /\ cell.cooldown \in Nat
      BY <2>1 DEF Inv, TypeOK, Cells, Actors
    <3> QED
      BY <2>1, <3>1, <3>2 DEF MayProbe, TrippedOK
  <2>3. cell'.cooldown <= now' + MaxPark
    BY <2>1 DEF Inv, ParkBounded
  <2> QED
    BY <2>2, <2>3
<1> QED
  BY <1>1, HInitInv, HNextInv, PTL DEF HSpec, TripLasts
=============================================================================
