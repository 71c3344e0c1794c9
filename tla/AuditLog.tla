------------------------------- MODULE AuditLog ------------------------------
(***************************************************************************)
(* The admin audit log (admin/audit.rs): a bounded ring of hash-chained    *)
(* entries in memory, and a durable copy in the governance store that must *)
(* survive crashes, failed and unacknowledged appends, a boot that cannot  *)
(* read it, and another process writing to it.                             *)
(*                                                                         *)
(* Recorders push under the ring's lock and return; the flusher, and a     *)
(* recorder that finds too much unpersisted, write through under           *)
(* durable_lock.  A store call is a step of its own.  Of a mutation only   *)
(* its number is kept: `what` counts the mutations ever recorded.  Digests *)
(* are taken to be free of collisions.                                     *)
(***************************************************************************)
EXTENDS Integers, Sequences, FiniteSets

CONSTANTS Recorders,
          Flusher,
          Cap,            \* MAX_AUDIT_ENTRIES
          MaxWhats,       \* bound: mutations recorded
          MaxFaults,      \* bound: store calls that fail
          MaxCrashes      \* bound: ends of the process

Threads == Recorders \cup {Flusher}
NoOne   == "no one"

(* Nothing bounds the recorders: record_by runs the write-through in       *)
(* block_in_place, which hands its worker on to the next request.          *)
ASSUME AuditAssumption ==
    /\ Cap \in Nat \ {0}
    /\ Flusher \notin Recorders /\ NoOne \notin Threads
    /\ IsFiniteSet(Recorders)

VARIABLES
    log,        \* the durable records, by seq
    up,         \* the process is running
    ring,       \* entries
    seq,        \* the next number to give
    high,       \* durable_high
    sealed,     \* durable_unreconciled
    sink,       \* the store is attached
    lock,       \* who holds durable_lock
    pc, top,    \* each thread's place, and its new_seq
    whats, faults, crashes,
    other,      \* history: what another writer did to the log, if anything
    clear,      \* history: the write-through in progress has seen the tail
                \* and nobody else wrote since
    calm        \* history: since the boot no store call failed, and no more
                \* recorders were past the valve than it leaves room for

auditVars == <<log, up, ring, seq, high, sealed, sink, lock, pc, top,
               whats, faults, crashes, other, clear, calm>>

ghosts == <<whats, faults, crashes, other, clear, calm>>

\* Mutant: the valve closes only when the ring is full.
MutHeadroom == Cap

Headroom == Cap - Cap \div 4

(* sha256 over the predecessor's digest and the fields. *)
Digest(prev, s, w) == <<prev, s, w>>

Rec(prev, s, w) == [seq |-> s, what |-> w, prev |-> prev, hash |-> Digest(prev, s, w)]
Entry(r, here)  == [seq |-> r.seq, what |-> r.what, prev |-> r.prev, hash |-> r.hash,
                    here |-> here]
to_record(e)    == [seq |-> e.seq, what |-> e.what, prev |-> e.prev, hash |-> e.hash]
NoHash == <<>>

fetch_max(a, b) == IF a < b THEN b ELSE a

(* append_audit: an upsert keyed on the seq, as audit.rs expects of the     *)
(* store.  (busbar_api asks a store to refuse a different record; nothing  *)
(* here relies on that.)                                                   *)
Upsert(r) == [s \in DOMAIN log \cup {r.seq} |-> IF s = r.seq THEN r ELSE log[s]]

(* list_audit_tail(1): the record with the highest seq, if there is one. *)
Newest == IF DOMAIN log = {} THEN 0
          ELSE CHOOSE s \in DOMAIN log : \A u \in DOMAIN log : u <= s
NewestHash == IF DOMAIN log = {} THEN NoHash ELSE log[Newest].hash

(* list_audit_tail(k): the k newest records, oldest first. *)
IsTail(idx, k) ==
    /\ \A i, j \in DOMAIN idx : i < j => idx[i] < idx[j]
    /\ \A s \in DOMAIN log :
          \/ \E i \in DOMAIN idx : idx[i] = s
          \/ Len(idx) = k /\ \A i \in DOMAIN idx : s < idx[i]

AuditInit ==
    /\ log = <<>> /\ up = FALSE
    /\ ring = <<>> /\ seq = 1 /\ high = 0 /\ sealed = FALSE /\ sink = FALSE
    /\ lock = NoOne
    /\ pc = [t \in Threads |-> "idle"] /\ top = [t \in Threads |-> 0]
    /\ whats = 0 /\ faults = 0 /\ crashes = 0
    /\ other = "none" /\ clear = FALSE /\ calm = TRUE

(* A store call fails; how often is bounded. *)
Fault ==
    /\ faults < MaxFaults
    /\ faults' = faults + 1
    /\ calm' = FALSE

-----------------------------------------------------------------------------
(* Boot: set_sink, then restore_from_store. *)

(* Every digest recomputes and every entry links to the one before it; the *)
(* predecessor of the first may lie outside the tail.                      *)
Verifies(tail) ==
    \A i \in DOMAIN tail :
        /\ tail[i].hash = Digest(tail[i].prev, tail[i].seq, tail[i].what)
        /\ i > 1 => tail[i].prev = tail[i - 1].hash

(* The floor is set before the verification; a tail that does not verify   *)
(* leaves the ring empty and the write-through sealed.                     *)
BootRead ==
    \E n \in 0 .. Cap : \E idx \in [1 .. n -> DOMAIN log] :
        LET tail == [i \in 1 .. n |-> log[idx[i]]]
        IN  /\ IsTail(idx, Cap)
            /\ seq' = Newest + 1
            /\ high' = Newest
            /\ sealed' = ~Verifies(tail)
            /\ ring' = IF Verifies(tail) THEN [i \in 1 .. n |-> Entry(tail[i], FALSE)]
                       ELSE <<>>
            /\ calm' = TRUE
            /\ UNCHANGED faults

\* Mutant: a read that fails is taken for an empty log.
MutBootBlind ==
    /\ Fault
    /\ seq' = 1 /\ high' = 0 /\ sealed' = FALSE /\ ring' = <<>>

(* The tail cannot be read: nothing is known of the floor, so seal. *)
BootBlind ==
    /\ Fault
    /\ seq' = 1 /\ high' = 0 /\ sealed' = TRUE /\ ring' = <<>>

Boot ==
    /\ ~up
    /\ up' = TRUE /\ sink' = TRUE /\ lock' = NoOne
    /\ pc' = [t \in Threads |-> "idle"] /\ top' = [t \in Threads |-> 0]
    /\ BootRead \/ BootBlind
    /\ UNCHANGED <<log, whats, crashes, other, clear>>

Crash ==
    /\ up /\ crashes < MaxCrashes
    /\ crashes' = crashes + 1
    /\ up' = FALSE
    /\ ring' = <<>> /\ seq' = 1 /\ high' = 0 /\ sealed' = FALSE /\ sink' = FALSE
    /\ lock' = NoOne
    /\ pc' = [t \in Threads |-> "idle"] /\ top' = [t \in Threads |-> 0]
    /\ clear' = FALSE /\ calm' = TRUE
    /\ UNCHANGED <<log, whats, faults, other>>

-----------------------------------------------------------------------------
(* record_by. *)

Goto(t, place) == pc' = [pc EXCEPT ![t] = place]

Pruned(q) == IF Len(q) >= Cap THEN SubSeq(q, Len(q) - Cap + 2, Len(q)) ELSE q

(* The recorders the valve holds or is about to hold. *)
PastValve == {t \in Recorders : pc[t] # "idle" /\ top[t] >= high + Headroom}

(* Under the ring's lock: number, chain to the back, prune, push. *)
Push(t) ==
    /\ up /\ pc[t] = "idle" /\ whats < MaxWhats
    /\ LET prev == IF ring = <<>> THEN NoHash ELSE ring[Len(ring)].hash
       IN  ring' = Append(Pruned(ring), Entry(Rec(prev, seq, whats + 1), TRUE))
    /\ seq' = seq + 1
    /\ top' = [top EXCEPT ![t] = seq]
    /\ whats' = whats + 1
    /\ Goto(t, "valve")
    /\ UNCHANGED <<log, up, high, sealed, sink, lock, faults, crashes, other, clear>>
    /\ calm' = (calm /\ Cardinality(PastValve') <= Cap \div 4 + 1)

(* The pressure valve: with headroom left the flusher owns the entry. *)
Valve(t) ==
    /\ pc[t] = "valve"
    /\ Goto(t, IF sink /\ top[t] - high >= Headroom THEN "lock" ELSE "idle")
    /\ UNCHANGED <<log, up, ring, seq, high, sealed, sink, lock, top, ghosts>>

(* flush_durable: a tick takes the back of the ring as its target. *)
Flush ==
    /\ up /\ sink /\ pc[Flusher] = "idle" /\ ring # <<>>
    /\ top' = [top EXCEPT ![Flusher] = ring[Len(ring)].seq]
    /\ Goto(Flusher, "lock")
    /\ UNCHANGED <<log, up, ring, seq, high, sealed, sink, lock, ghosts>>

-----------------------------------------------------------------------------
(* durable_write_through. *)

Enter(t) ==
    /\ pc[t] = "lock" /\ lock = NoOne
    /\ lock' = t
    /\ Goto(t, IF sealed THEN "reconcile" ELSE "check")
    /\ clear' = FALSE
    /\ UNCHANGED <<log, up, ring, seq, high, sealed, sink, top,
                   whats, faults, crashes, other, calm>>

Leave(t) == lock' = NoOne /\ Goto(t, "idle")

\* Mutant: the suffix is renumbered and keeps its links.
MutRebased(first, from, anchor) ==
    [i \in 1 .. Len(ring) |->
        IF i < first THEN ring[i]
        ELSE Entry(Rec(ring[i].prev, from + i - first, ring[i].what), TRUE)]

(* rebase_nondurable_suffix: what this process recorded is renumbered onto *)
(* the durable tail, in ring order, and chained to it; a seq never moves   *)
(* down.                                                                   *)
Rebased(first, from, anchor) ==
    LET prev[i \in first .. Len(ring)] ==
            IF i = first THEN anchor
            ELSE Digest(prev[i - 1], from + (i - 1) - first, ring[i - 1].what)
    IN  [i \in 1 .. Len(ring) |->
            IF i < first THEN ring[i]
            ELSE Entry(Rec(prev[i], from + i - first, ring[i].what), TRUE)]

(* Sealed: read the tail first, and rebase onto it when it answers.  (A    *)
(* sealed boot left the ring empty, so whoever comes here finds an entry   *)
(* of this process in it.)                                                 *)
Reconcile(t) ==
    /\ pc[t] = "reconcile"
    /\ \E first \in 1 .. Len(ring) :
          LET from   == fetch_max(Newest + 1, ring[first].seq)
              anchor == IF from = Newest + 1 THEN NewestHash ELSE ring[first].prev
              last   == from + Len(ring) - first
          IN  /\ ring[first].here /\ \A i \in 1 .. first - 1 : ~ring[i].here
              /\ ring' = Rebased(first, from, anchor)
              /\ top' = [top EXCEPT ![t] = last]
              /\ seq' = fetch_max(seq, last + 1)
    /\ high' = fetch_max(high, Newest)
    /\ sealed' = FALSE
    /\ Goto(t, "check")
    /\ UNCHANGED <<log, up, sink, lock, ghosts>>

ReconcileFails(t) ==
    /\ pc[t] = "reconcile"
    /\ Fault
    /\ Leave(t)
    /\ UNCHANGED <<log, up, ring, seq, high, sealed, sink, top, whats, crashes, other, clear>>

(* Past the check: write if the target is not durable yet. *)
Proceed(t) ==
    \/ top[t] > high /\ Goto(t, "append") /\ UNCHANGED lock
    \/ top[t] <= high /\ Leave(t)

(* A tail beyond what this process persisted is another writer's. *)
Check(t) ==
    /\ pc[t] = "check"
    /\ \/ Newest > high /\ sink' = FALSE /\ Leave(t) /\ UNCHANGED clear
       \/ Newest <= high /\ Proceed(t) /\ clear' = TRUE /\ UNCHANGED sink
    /\ UNCHANGED <<log, up, ring, seq, high, sealed, top, whats, faults, crashes, other, calm>>

(* A read error is not evidence of one. *)
CheckFails(t) ==
    /\ pc[t] = "check"
    /\ Fault
    /\ Proceed(t)
    /\ UNCHANGED <<log, up, ring, seq, high, sealed, sink, top, whats, crashes, other, clear>>

(* One entry of the catch-up, from the ring. *)
HeldAt(s) == {i \in 1 .. Len(ring) : ring[i].seq = s}

(* The record found for s in the ring reaches the store. *)
Stored(s) ==
    \E i \in HeldAt(s) : /\ \A j \in HeldAt(s) : i <= j
                         /\ log' = Upsert(to_record(ring[i]))

Hole(t) ==
    /\ pc[t] = "append" /\ HeldAt(high + 1) = {}
    /\ Leave(t)
    /\ UNCHANGED <<log, up, ring, seq, high, sealed, sink, top, ghosts>>

AppendOk(t) ==
    /\ pc[t] = "append" /\ HeldAt(high + 1) # {}
    /\ Stored(high + 1)
    /\ high' = high + 1
    /\ IF high + 1 = top[t] THEN Leave(t) ELSE UNCHANGED <<lock, pc>>
    /\ UNCHANGED <<up, ring, seq, sealed, sink, top, ghosts>>

(* The call fails, before or after the record reached the store. *)
AppendFails(t) ==
    /\ pc[t] = "append" /\ HeldAt(high + 1) # {}
    /\ Fault
    /\ UNCHANGED log \/ Stored(high + 1)
    /\ Leave(t)
    /\ UNCHANGED <<up, ring, seq, high, sealed, sink, top, whats, crashes, other, clear>>

WriteThrough(t) ==
    \/ Enter(t)
    \/ Reconcile(t) \/ ReconcileFails(t)
    \/ Check(t) \/ CheckFails(t)
    \/ Hole(t) \/ AppendOk(t) \/ AppendFails(t)

-----------------------------------------------------------------------------
(* Another busbar on the same store: it has read the tail and appends, or  *)
(* loses the race and overwrites the newest record.                        *)
OtherWriter ==
    /\ other = "none"
    /\ \E s \in {Newest, Newest + 1} \ {0} :
          log' = Upsert(Rec(IF s - 1 \in DOMAIN log THEN log[s - 1].hash ELSE NoHash, s, 0))
    /\ other' = "writer" /\ clear' = FALSE
    /\ UNCHANGED <<up, ring, seq, high, sealed, sink, lock, pc, top,
                   whats, faults, crashes, calm>>

(* Somebody edits a row, and its digest no longer matches.  The process    *)
(* reads what rows say only when it boots: the edit is made before that.   *)
Tamper ==
    /\ other = "none" /\ ~up
    /\ \E s \in DOMAIN log : log' = [log EXCEPT ![s].what = 0]
    /\ other' = "tampered" /\ clear' = FALSE
    /\ UNCHANGED <<up, ring, seq, high, sealed, sink, lock, pc, top,
                   whats, faults, crashes, calm>>

AuditNext ==
    \/ Boot \/ Crash \/ OtherWriter \/ Tamper
    \/ \E t \in Recorders : Push(t) \/ Valve(t)
    \/ Flush
    \/ \E t \in Threads : WriteThrough(t)

AuditSpec == AuditInit /\ [][AuditNext]_auditVars

-----------------------------------------------------------------------------
(* The shape of the state; high never runs ahead of the numbers given. *)
AuditTypeOK ==
    /\ \A s \in DOMAIN log : s \in Nat /\ log[s].seq = s
    /\ {up, sealed, sink, clear, calm} \subseteq BOOLEAN
    /\ Len(ring) <= Cap
    /\ seq \in Nat /\ high \in Nat /\ high < seq
    /\ lock \in Threads \cup {NoOne}
    /\ pc \in [Threads -> {"idle", "valve", "lock", "reconcile", "check", "append"}]
    /\ top \in [Threads -> Nat]

(* No record of the durable log is ever replaced or removed by this        *)
(* process: not after a boot that could not read it and began to number    *)
(* from 1 again, not by a retry of an append that had landed, and not one  *)
(* another writer left there before the write-through looked at the tail.  *)
AppendOnly ==
    [][\A s \in DOMAIN log :
          s \in DOMAIN log'
             /\ (log'[s] = log[s] \/ (other' # "none" /\ ~clear'))]_auditVars

(* Whatever failed and wherever the process ended, the durable log has     *)
(* every number once, verifies, and holds the mutations in the order they  *)
(* were made and none of them twice: the next boot takes it for genuine.   *)
ChainVerifies ==
    other = "none" =>
        /\ DOMAIN log = 1 .. Newest
        /\ \A s \in DOMAIN log :
              /\ log[s].hash = Digest(log[s].prev, s, log[s].what)
              /\ log[s].prev = IF s = 1 THEN NoHash ELSE log[s - 1].hash
        /\ \A s, u \in DOMAIN log : s < u => log[s].what < log[u].what

(* A burst that outruns the store prunes nothing it has not persisted: the *)
(* valve and the ring's reserve are enough while the store answers and no  *)
(* more recorders are past the valve at once than the reserve and one.     *)
(* Nothing in the code keeps their number down: that they are bounded by   *)
(* the worker threads is what audit.rs says of them.                       *)
NothingPruned ==
    up /\ sink /\ calm => \A s \in high + 1 .. seq - 1 : HeldAt(s) # {}
=============================================================================
