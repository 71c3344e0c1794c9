----------------------------- MODULE UsageFlush -----------------------------
(***************************************************************************)
(* The write-behind of one budget bucket, on several nodes that share a    *)
(* durable store: GovState::try_admit's charge and its sweep of stale      *)
(* cells, record_usage, refund_request, delete_key, reclaim_group_cells,   *)
(* flush_budgets, hydrate_budgets (governance/state.rs), the flusher task  *)
(* (governance/mod.rs) and the final flush of run() (main.rs).             *)
(*                                                                         *)
(* Windows of the bucket are numbered.  One number stands for the counters *)
(* of a cell (requests, billable requests, tokens per model and tier):     *)
(* each is charged, snapshotted, sent and acknowledged by the same lines,  *)
(* and only billable requests also go down.  A flush reads the cell under  *)
(* its shard lock, writes to the store without it and takes it again for   *)
(* the answer: three steps, between which requests and other flushes run.  *)
(***************************************************************************)
EXTENDS Integers, FiniteSetsExt

CONSTANTS
    Nodes,
    MaxWindow,    \* windows 0..MaxWindow (bound)
    MaxCounts,    \* charges and accruals, all nodes together (bound)
    MaxErrors,    \* store errors (bound)
    MaxEnds,      \* crashes and graceful stops (bound)
    MaxDrops      \* cells dropped and rows deleted (bound)

ASSUME FlushBounds ==
    /\ IsFiniteSet(Nodes)
    /\ {MaxWindow, MaxCounts, MaxErrors, MaxEnds, MaxDrops} \subseteq Nat

Windows == 0..MaxWindow
Writers == {"gate", "main"}   \* whoever holds the flush gate; run() itself

VARIABLES
    window,   \* the window the wall clock is in
    mode,     \* mode[n]: "up", "stopping", "exiting" or "down"
    arm,      \* arm[n]: the flusher task's loop is running
    cell,     \* cell[n]: the node's BudgetCell of this bucket
    open,     \* open[n][w]: admitted requests whose charged_at is in window w
    flight,   \* flight[n][s]: the DirtySnap writer s is persisting
    store,    \* store[w]: the durable ledger of window w
    \* history
    spent,    \* spent[w]: what all nodes counted on cells of window w
    slips,    \* what happened that loses or repeats: see Slips
    counts, errors, ends, drops   \* how many of each (bounds)

vars == <<window, mode, arm, cell, open, flight, store, spent, slips,
          counts, errors, ends, drops>>

Slips == {"rolled", "dropped", "deleted", "down", "ack lost", "error at stop", "overlap"}

\* BudgetCell::fresh; NoCell is the absent map entry (older than every window).
Fresh(w) == [win |-> w, cur |-> 0, flushed |-> 0, dirty |-> FALSE]
NoCell   == Fresh(-1)

\* stray (history): the cell that the snapshot was taken of has been dropped.
Idle == [st |-> "idle", win |-> 0, delta |-> 0, cur |-> 0, stray |-> FALSE]

Alive(n) == mode[n] # "down"

Init ==
    /\ window = 0
    /\ mode   = [n \in Nodes |-> "up"]
    /\ arm    = [n \in Nodes |-> TRUE]
    /\ cell   = [n \in Nodes |-> NoCell]
    /\ open   = [n \in Nodes |-> [w \in Windows |-> 0]]
    /\ flight = [n \in Nodes |-> [s \in Writers |-> Idle]]
    /\ store  = [w \in Windows |-> 0]
    /\ spent  = [w \in Windows |-> 0]
    /\ slips = {} /\ counts = 0 /\ errors = 0 /\ ends = 0 /\ drops = 0

\* What a writer of n has sent (st = "sent") or written without having seen
\* the answer (st = "landed") for window w.
InFlight(n, s, st, w) ==
    IF flight[n][s].st = st /\ flight[n][s].win = w THEN flight[n][s].delta ELSE 0

Sent(n, w)   == InFlight(n, "gate", "sent", w) + InFlight(n, "main", "sent", w)
Landed(n, w) == InFlight(n, "gate", "landed", w) + InFlight(n, "main", "landed", w)

\* Of that, what belongs to a cell that n has dropped since.
OfDropped(n, s, w) ==
    IF flight[n][s].stray /\ flight[n][s].win = w THEN flight[n][s].delta ELSE 0

Stray(n, w) == OfDropped(n, "gate", w) + OfDropped(n, "main", w)

Lapsed == {n \in Nodes : \E s \in Writers : flight[n][s].stray}

\* What n counted on its cell of window w and has not sent.
Owed(n, w) ==
    IF cell[n].win = w
    THEN cell[n].cur - cell[n].flushed - (Sent(n, w) + Landed(n, w) - Stray(n, w))
    ELSE 0

\* The cell that a count pinned to window w lands on: a stale or absent cell
\* is replaced, the same or a newer window is counted in place.
CellFor(c, w) == IF w > c.win THEN Fresh(w) ELSE c

Counted(c, w) == [CellFor(c, w) EXCEPT !.cur = @ + 1, !.dirty = TRUE]

\* A count in window w leaves something behind unsent.
Rolls(n, w) == w > cell[n].win /\ \E v \in Windows : Owed(n, v) # 0

CountOn(n, w) ==
    LET c == Counted(cell[n], w) IN
    /\ counts < MaxCounts
    /\ counts' = counts + 1
    /\ cell'  = [cell EXCEPT ![n] = c]
    /\ spent' = [spent EXCEPT ![c.win] = @ + 1]
    /\ slips' = IF Rolls(n, w) THEN slips \cup {"rolled"} ELSE slips

\* try_admit, PASS 2.  charged_at is read when the headers arrive: the window
\* may have rolled since.
Charge(n, w) ==
    /\ mode[n] \in {"up", "stopping"}
    /\ w \in {window - 1, window} \cap Windows
    /\ CountOn(n, w)
    /\ open' = [open EXCEPT ![n][w] = @ + 1]
    /\ UNCHANGED <<window, mode, arm, flight, store, errors, ends, drops>>

\* A 2xx: record_usage at the pinned charged_at.
Accrue(n, w) ==
    /\ Alive(n) /\ open[n][w] > 0
    /\ CountOn(n, w)
    /\ open' = [open EXCEPT ![n][w] = @ - 1]
    /\ UNCHANGED <<window, mode, arm, flight, store, errors, ends, drops>>

\* Not a 2xx: refund_bucket, a no-op when the cell has another window.
Refund(n, w) ==
    /\ Alive(n) /\ open[n][w] > 0
    /\ open' = [open EXCEPT ![n][w] = @ - 1]
    /\ IF cell[n].win = w
       THEN /\ cell' = [cell EXCEPT ![n].cur = IF @ > 0 THEN @ - 1 ELSE 0, ![n].dirty = TRUE]
            /\ spent' = [spent EXCEPT ![w] = @ - 1]
       ELSE UNCHANGED <<cell, spent>>
    /\ UNCHANGED <<window, mode, arm, flight, store, slips, counts, errors, ends, drops>>

\* The cell of a live node is dropped: by delete_key and reclaim_group_cells,
\* or by the sweep of a later try_admit on the shard, which for a rolling window
\* asks only how old it is.  What it owes is gone, a snapshot of it on its way
\* is not, and a request of its still open counts or refunds on what comes next.
Drop(n) ==
    /\ mode[n] \in {"up", "stopping"}
    /\ cell[n] # NoCell
    /\ drops < MaxDrops
    /\ drops' = drops + 1
    /\ cell'   = [cell EXCEPT ![n] = NoCell]
    /\ flight' = [flight EXCEPT ![n] = [s \in Writers |->
                    [flight[n][s] EXCEPT !.stray = (flight[n][s].st # "idle")]]]
    /\ slips'  = IF \/ \E w \in Windows : Owed(n, w) # 0 \/ open[n][w] # 0
                    \/ \E s \in Writers : flight[n][s] # Idle
                 THEN slips \cup {"dropped"} ELSE slips
    /\ UNCHANGED <<window, mode, arm, open, store, spent, counts, errors, ends>>

\* Store::delete_key: the rows of a key's bucket go with the key.  A second
\* delete of the tombstone changes nothing, and the id is never used again.
DeleteRows(n) ==
    /\ mode[n] \in {"up", "stopping"}
    /\ "deleted" \notin slips
    /\ drops < MaxDrops
    /\ drops' = drops + 1
    /\ store' = [w \in Windows |-> 0]
    /\ slips' = slips \cup {"deleted"}
    /\ UNCHANGED <<window, mode, arm, cell, open, flight, spent, counts, errors, ends>>

\* flush_budgets up to the store call: snapshot a dirty cell's delta and clear
\* the flag; a zero delta is acknowledged without a round trip.
Snapshot(n, s) ==
    LET c == cell[n]
        delta == c.cur - c.flushed IN
    \/ ~c.dirty /\ UNCHANGED <<cell, flight>>
    \/ /\ c.dirty
       /\ cell' = [cell EXCEPT ![n].dirty = FALSE]
       /\ flight' = IF delta = 0 THEN flight
                    ELSE [flight EXCEPT ![n][s] =
                            [st |-> "sent", win |-> c.win, delta |-> delta, cur |-> c.cur,
                             stray |-> FALSE]]

\* The flusher's tick: only when it gets the gate.
Tick(n) ==
    /\ Alive(n) /\ arm[n]
    /\ flight[n]["gate"] = Idle
    /\ cell[n].dirty
    /\ Snapshot(n, "gate")
    /\ UNCHANGED <<window, mode, arm, open, store, spent, slips, counts, errors, ends, drops>>

\* Its shutdown arm: waits for the gate, flushes once more and leaves the loop.
LastTick(n) ==
    /\ mode[n] \in {"stopping", "exiting"} /\ arm[n]
    /\ flight[n]["gate"] = Idle
    /\ arm' = [arm EXCEPT ![n] = FALSE]
    /\ Snapshot(n, "gate")
    /\ UNCHANGED <<window, mode, open, store, spent, slips, counts, errors, ends, drops>>

\* Mutant: the final flush does not wait for the listeners to drain.
MutFinalFlushBeforeDrain(n) ==
    /\ mode[n] = "stopping"
    /\ mode' = [mode EXCEPT ![n] = "exiting"]
    /\ Snapshot(n, "main")
    /\ slips' = IF flight[n]["gate"] # Idle /\ cell[n].dirty
                THEN slips \cup {"overlap"} ELSE slips
    /\ UNCHANGED <<window, arm, open, store, spent, counts, errors, ends, drops>>

\* run(): both listeners have drained, the final flush is made inline and
\* without the gate.
FinalFlush(n) ==
    /\ mode[n] = "stopping"
    /\ \A w \in Windows : open[n][w] = 0
    /\ mode' = [mode EXCEPT ![n] = "exiting"]
    /\ Snapshot(n, "main")
    /\ slips' = IF flight[n]["gate"] # Idle /\ cell[n].dirty
                THEN slips \cup {"overlap"} ELSE slips
    /\ UNCHANGED <<window, arm, open, store, spent, counts, errors, ends, drops>>

\* Store::add_usage takes effect: an atomic add, floored at zero.
Land(n, s) ==
    LET f == flight[n][s] IN
    /\ f.st = "sent"
    /\ store' = [store EXCEPT ![f.win] = IF @ + f.delta > 0 THEN @ + f.delta ELSE 0]
    /\ flight' = [flight EXCEPT ![n][s].st = "landed"]
    /\ UNCHANGED <<window, mode, arm, cell, open, spent, slips, counts, errors, ends, drops>>

\* Mutant: the baseline advances to the cell's present count, not the snapshot's.
MutAckCurrent(n, s) ==
    LET f == flight[n][s] IN
    /\ f.st = "landed"
    /\ cell' = IF cell[n].win = f.win THEN [cell EXCEPT ![n].flushed = cell[n].cur] ELSE cell
    /\ flight' = [flight EXCEPT ![n][s] = Idle]
    /\ UNCHANGED <<window, mode, arm, open, store, spent, slips, counts, errors, ends, drops>>

\* Ok(()): the baseline advances if the node has a cell of the snapshot's window,
\* be it the one that was snapshotted or one counted anew since.
Ack(n, s) ==
    LET f == flight[n][s] IN
    /\ f.st = "landed"
    /\ cell' = IF cell[n].win = f.win THEN [cell EXCEPT ![n].flushed = f.cur] ELSE cell
    /\ flight' = [flight EXCEPT ![n][s] = Idle]
    /\ UNCHANGED <<window, mode, arm, open, store, spent, slips, counts, errors, ends, drops>>

\* The slips that an error adds (history).
FailSlips(n, f) ==
    slips \cup (IF f.st = "landed" THEN {"ack lost"} ELSE {})
          \cup (IF cell[n].win # f.win THEN {"rolled"} ELSE {})
          \cup (IF mode[n] \in {"stopping", "exiting"} THEN {"error at stop"} ELSE {})

\* Mutant: an error after the write sends the whole cell again.
MutFailResendsAll(n, s) ==
    LET f == flight[n][s] IN
    /\ f.st # "idle"
    /\ errors < MaxErrors
    /\ errors' = errors + 1
    /\ cell' = CASE cell[n].win # f.win -> cell
                 [] f.st = "sent" -> [cell EXCEPT ![n].dirty = TRUE]
                 [] OTHER -> [cell EXCEPT ![n].dirty = TRUE, ![n].flushed = 0]
    /\ flight' = [flight EXCEPT ![n][s] = Idle]
    /\ slips' = FailSlips(n, f)
    /\ UNCHANGED <<window, mode, arm, open, store, spent, counts, ends, drops>>

\* Mutant: an error ends the flusher's loop.
MutFailEndsLoop(n, s) ==
    LET f == flight[n][s] IN
    /\ f.st # "idle"
    /\ errors < MaxErrors
    /\ errors' = errors + 1
    /\ cell' = IF cell[n].win = f.win THEN [cell EXCEPT ![n].dirty = TRUE] ELSE cell
    /\ flight' = [flight EXCEPT ![n][s] = Idle]
    /\ arm' = [arm EXCEPT ![n] = FALSE]
    /\ slips' = FailSlips(n, f)
    /\ UNCHANGED <<window, mode, open, store, spent, counts, ends, drops>>

\* Err(e), whether the write took effect or not: the cell is marked dirty again
\* if the node has one of the snapshot's window.
Fail(n, s) ==
    LET f == flight[n][s] IN
    /\ f.st # "idle"
    /\ errors < MaxErrors
    /\ errors' = errors + 1
    /\ cell' = IF cell[n].win = f.win THEN [cell EXCEPT ![n].dirty = TRUE] ELSE cell
    /\ flight' = [flight EXCEPT ![n][s] = Idle]
    /\ slips' = FailSlips(n, f)
    /\ UNCHANGED <<window, mode, arm, open, store, spent, counts, ends, drops>>

\* The wall clock enters the next window.
NextWindow ==
    /\ window < MaxWindow
    /\ window' = window + 1
    /\ UNCHANGED <<mode, arm, cell, open, flight, store, spent, slips, counts, errors, ends, drops>>

\* The shutdown signal.
Stop(n) ==
    /\ mode[n] = "up"
    /\ ends < MaxEnds
    /\ ends' = ends + 1
    /\ mode' = [mode EXCEPT ![n] = "stopping"]
    /\ UNCHANGED <<window, arm, cell, open, flight, store, spent, slips, counts, errors, drops>>

\* The process is gone, and everything it had in memory with it.
Gone(n) ==
    /\ mode'   = [mode EXCEPT ![n] = "down"]
    /\ arm'    = [arm EXCEPT ![n] = FALSE]
    /\ cell'   = [cell EXCEPT ![n] = NoCell]
    /\ open'   = [open EXCEPT ![n] = [w \in Windows |-> 0]]
    /\ flight' = [flight EXCEPT ![n] = [s \in Writers |-> Idle]]
    /\ slips'  = IF \E w \in Windows : Owed(n, w) # 0 \/ Sent(n, w) # 0
                 THEN slips \cup {"down"} ELSE slips

\* run() returns: its own flush is over and the runtime has waited for the
\* flusher's blocking task.
Exit(n) ==
    /\ mode[n] = "exiting"
    /\ \A s \in Writers : flight[n][s] = Idle
    /\ Gone(n)
    /\ UNCHANGED <<window, store, spent, counts, errors, ends, drops>>

\* A crash at any point.
Crash(n) ==
    /\ Alive(n)
    /\ ends < MaxEnds
    /\ ends' = ends + 1
    /\ Gone(n)
    /\ UNCHANGED <<window, store, spent, counts, errors, drops>>

\* Boot: hydrate_budgets seeds the cell of the current window, and its
\* baseline, from the durable ledger.
Boot(n) ==
    /\ mode[n] = "down"
    /\ mode' = [mode EXCEPT ![n] = "up"]
    /\ arm'  = [arm EXCEPT ![n] = TRUE]
    /\ cell' = [cell EXCEPT ![n] =
                  IF store[window] = 0 THEN NoCell
                  ELSE [Fresh(window) EXCEPT !.cur = store[window], !.flushed = store[window]]]
    /\ UNCHANGED <<window, open, flight, store, spent, slips, counts, errors, ends, drops>>

Next ==
    \/ NextWindow
    \/ \E n \in Nodes :
         \/ \E w \in Windows : Charge(n, w) \/ Accrue(n, w) \/ Refund(n, w)
         \/ Drop(n) \/ DeleteRows(n)
         \/ Tick(n) \/ LastTick(n) \/ FinalFlush(n)
         \/ \E s \in Writers : Land(n, s) \/ Ack(n, s) \/ Fail(n, s)
         \/ Stop(n) \/ Exit(n) \/ Crash(n) \/ Boot(n)

\* The runtime runs the flusher, a store call returns.
Fairness == \A n \in Nodes :
    /\ WF_vars(Tick(n))
    /\ \A s \in Writers : WF_vars(Land(n, s)) /\ WF_vars(Ack(n, s))

Spec == Init /\ [][Next]_vars /\ Fairness

----------------------------------------------------------------------------
Cells     == [win : Windows \cup {-1}, cur : Nat, flushed : Nat, dirty : BOOLEAN]
Snapshots == [st : {"idle", "sent", "landed"}, win : Windows, delta : Int, cur : Nat,
              stray : BOOLEAN]

\* The type of every variable; the store's ledger is a natural number.
TypeOK ==
    /\ window \in Windows
    /\ mode \in [Nodes -> {"up", "stopping", "exiting", "down"}]
    /\ arm \in [Nodes -> BOOLEAN]
    /\ cell \in [Nodes -> Cells]
    /\ open \in [Nodes -> [Windows -> Nat]]
    /\ flight \in [Nodes -> [Writers -> Snapshots]]
    /\ store \in [Windows -> Nat]
    /\ spent \in [Windows -> Int]
    /\ slips \subseteq Slips
    /\ counts \in Nat /\ errors \in Nat /\ ends \in Nat /\ drops \in Nat

\* The store holds the true fleet total: with N nodes adding their differences,
\* restarts hydrating from the sum, and writes refused and retried, the durable
\* ledger of a window plus what the nodes have not yet written is exactly what
\* they counted, as long as no window rolled over unsent counts, no cell was
\* dropped with any, or while it was being written or had requests open, no row
\* was deleted, no node went down with unsent counts, no answer was lost and the
\* two last flushes of a stop did not overlap.
FleetTotal ==
    slips = {} =>
        \A w \in Windows :
            store[w] + MapThenSumSet(LAMBDA n : Owed(n, w) + Sent(n, w), Nodes) = spent[w]

\* A graceful stop loses nothing: when the process exits and the store failed
\* neither during its stop nor in an overlapping flush, all that its cell holds
\* is written and acknowledged (main.rs final flush, flusher shutdown arm).
GracefulStopLosesNothing == [][
    \A n \in Nodes :
        /\ mode[n] = "exiting" /\ mode'[n] = "down" /\ ends' = ends
        /\ slips \cap {"overlap", "error at stop"} = {}
        => cell[n].cur = cell[n].flushed]_vars

\* The flush protocol (snapshot, write, acknowledge, baseline, dirty flag, gate,
\* restart) implements the ledger in which amounts only move.
Ledger == INSTANCE UsageLedger WITH
    up      <- [n \in Nodes |-> IF mode[n] = "exiting" THEN "stopping" ELSE mode[n]],
    owed    <- [n \in Nodes |-> [w \in Windows |-> Owed(n, w)]],
    transit <- [n \in Nodes |-> [w \in Windows |-> Sent(n, w)]],
    unsure  <- [n \in Nodes |-> [w \in Windows |-> Landed(n, w)]],
    lapsed  <- Lapsed,
    durable <- store

ImplementsLedger == Ledger!LSpec

\* A serving node always gets its counts into the store: store errors that
\* stop at some point, and any charges, cannot leave a difference unsent for
\* ever (spawn_budget_flusher).
EventuallyFlushed == \A n \in Nodes :
    []<>(mode[n] = "up" => cell[n].cur = cell[n].flushed)
=============================================================================
