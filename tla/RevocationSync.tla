--------------------------- MODULE RevocationSync ---------------------------
(***************************************************************************)
(* One node's revocation denylist and its re-sync with the shared store    *)
(* (governance/revocation.rs, GovState::revoke).                           *)
(*                                                                         *)
(* A request only reads the in-memory set.  When the set is stale the      *)
(* request claims the window, claims the one outstanding read, and leaves  *)
(* the read to a blocking task.  Peers revoke through the store alone;     *)
(* this node writes the store first and its set second.  The store is      *)
(* external: a read takes any time, fails, or never returns.               *)
(***************************************************************************)
EXTENDS Integers, FiniteSets

CONSTANTS Subs,       \* subjects
          Callers,    \* requests inside refresh_if_stale
          Slots,      \* blocking tasks: at most this many unfinished reads
          Ttl,        \* REVOCATION_SYNC_TTL_SECS
          MaxClock    \* bound of the exploration

ASSUME SyncAssumption == Ttl \in Nat \ {0} /\ MaxClock \in Nat

Never == MaxClock + 1

VARIABLES clock,
          stored,      \* when the store's denylist got each subject
          denied,      \* RevocationSync.set
          syncedAt, attemptedAt, inflight,
          caller,      \* where each request is in refresh_if_stale
          reader,      \* where each blocking task is in refresh_blocking
          revoking,    \* subjects this node has written and not yet inserted
          revoked,     \* history: subjects whose local revoke has returned
          calm,        \* history: every second from here on has been a good one
          served, failed \* history: what happened in the current second

vars == <<clock, stored, denied, syncedAt, attemptedAt, inflight, caller, reader,
          revoking, revoked, calm, served, failed>>

Idle == [pc |-> "idle"]
Times == 0..MaxClock

CallerStates == [pc: {"synced", "attempted", "claim"}, now: Times, seen: Times]
ReaderStates == [pc: {"list", "merge", "stamp"}, now: Times, subs: SUBSET Subs]

\* The type of every variable.
TypeOK ==
    /\ clock \in Times /\ syncedAt \in Times /\ attemptedAt \in Times
    /\ inflight \in BOOLEAN /\ served \in BOOLEAN /\ failed \in BOOLEAN
    /\ stored \in [Subs -> 0..Never] /\ calm \in 0..Never
    /\ denied \subseteq Subs /\ revoking \subseteq Subs /\ revoked \subseteq Subs
    /\ caller \in [Callers -> {Idle} \cup CallerStates]
    /\ reader \in [Slots -> {Idle} \cup ReaderStates]

Init ==
    /\ clock = 0 /\ stored = [s \in Subs |-> Never]
    /\ denied = {} /\ syncedAt = 0 /\ attemptedAt = 0 /\ inflight = FALSE
    /\ caller = [c \in Callers |-> Idle] /\ reader = [t \in Slots |-> Idle]
    /\ revoking = {} /\ revoked = {}
    /\ calm = 0 /\ served = FALSE /\ failed = FALSE

-----------------------------------------------------------------------------
(* refresh_if_stale.                                                       *)

Arrive(c) ==
    /\ caller[c] = Idle
    /\ caller' = [caller EXCEPT ![c] = [pc |-> "synced", now |-> clock, seen |-> 0]]
    /\ UNCHANGED <<clock, stored, denied, syncedAt, attemptedAt, inflight, reader,
                   revoking, revoked, calm, served, failed>>

Leave(c) == caller' = [caller EXCEPT ![c] = Idle] /\ served' = TRUE

\* now.saturating_sub(stamp) < Ttl.
Fresh(now, stamp) == now < stamp + Ttl

LoadSynced(c) ==
    /\ caller[c].pc = "synced"
    /\ \/ Fresh(caller[c].now, syncedAt) /\ Leave(c)
       \/ /\ ~Fresh(caller[c].now, syncedAt)
          /\ caller' = [caller EXCEPT ![c].pc = "attempted", ![c].seen = attemptedAt]
          /\ UNCHANGED served
    /\ UNCHANGED <<clock, stored, denied, syncedAt, attemptedAt, inflight, reader,
                   revoking, revoked, calm, failed>>

\* Mutant of ClaimWindow: the attempt closes the staleness window itself.
MutClaimWindow(c) ==
    /\ caller[c].pc = "attempted"
    /\ \/ /\ Fresh(caller[c].now, caller[c].seen) \/ attemptedAt # caller[c].seen
          /\ Leave(c)
          /\ UNCHANGED <<attemptedAt, syncedAt>>
       \/ /\ ~Fresh(caller[c].now, caller[c].seen) /\ attemptedAt = caller[c].seen
          /\ attemptedAt' = caller[c].now /\ syncedAt' = caller[c].now
          /\ caller' = [caller EXCEPT ![c].pc = "claim"]
          /\ UNCHANGED served
    /\ UNCHANGED <<clock, stored, denied, inflight, reader, revoking, revoked, calm, failed>>

\* The rate limit on attempts, then the compare-exchange that gives the window
\* to one caller.
ClaimWindow(c) ==
    /\ caller[c].pc = "attempted"
    /\ \/ /\ Fresh(caller[c].now, caller[c].seen) \/ attemptedAt # caller[c].seen
          /\ Leave(c)
          /\ UNCHANGED attemptedAt
       \/ /\ ~Fresh(caller[c].now, caller[c].seen) /\ attemptedAt = caller[c].seen
          /\ attemptedAt' = caller[c].now
          /\ caller' = [caller EXCEPT ![c].pc = "claim"]
          /\ UNCHANGED served
    /\ UNCHANGED <<clock, stored, denied, syncedAt, inflight, reader, revoking, revoked,
                   calm, failed>>

\* At most one read outstanding: with one in flight the window is given up.
ClaimRead(c) ==
    /\ caller[c].pc = "claim"
    /\ \/ inflight /\ UNCHANGED <<inflight, reader>>
       \/ /\ ~inflight
          /\ \E t \in Slots :
               /\ reader[t] = Idle
               /\ inflight' = TRUE
               /\ reader' = [reader EXCEPT ![t] =
                               [pc |-> "list", now |-> caller[c].now, subs |-> {}]]
    /\ Leave(c)
    /\ UNCHANGED <<clock, stored, denied, syncedAt, attemptedAt, revoking, revoked, calm,
                   failed>>

-----------------------------------------------------------------------------
(* refresh_blocking.                                                       *)

InStore == {s \in Subs : stored[s] # Never}

\* list_denylist returns, and the bound is released before the result is used.
Listed(t) ==
    /\ reader[t].pc = "list"
    /\ inflight' = FALSE
    /\ reader' = [reader EXCEPT ![t].pc = "merge", ![t].subs = InStore]
    /\ UNCHANGED <<clock, stored, denied, syncedAt, attemptedAt, caller, revoking, revoked,
                   calm, served, failed>>

\* Mutant of ListFailed: the error path keeps the bound.
MutListFailed(t) ==
    /\ reader[t].pc = "list"
    /\ reader' = [reader EXCEPT ![t] = Idle]
    /\ failed' = TRUE
    /\ UNCHANGED <<clock, stored, denied, syncedAt, attemptedAt, inflight, caller, revoking,
                   revoked, calm, served>>

\* It fails: the set and syncedAt stay as they are, and the bound is released.
ListFailed(t) ==
    /\ reader[t].pc = "list"
    /\ inflight' = FALSE
    /\ reader' = [reader EXCEPT ![t] = Idle]
    /\ failed' = TRUE
    /\ UNCHANGED <<clock, stored, denied, syncedAt, attemptedAt, caller, revoking, revoked,
                   calm, served>>

\* Union, never replace.
Merge(t) ==
    /\ reader[t].pc = "merge"
    /\ denied' = denied \cup reader[t].subs
    /\ reader' = [reader EXCEPT ![t].pc = "stamp"]
    /\ UNCHANGED <<clock, stored, syncedAt, attemptedAt, inflight, caller, revoking, revoked,
                   calm, served, failed>>

\* fetch_max with the time the request that asked for the read came in.
Stamp(t) ==
    /\ reader[t].pc = "stamp"
    /\ syncedAt' = IF reader[t].now > syncedAt THEN reader[t].now ELSE syncedAt
    /\ reader' = [reader EXCEPT ![t] = Idle]
    /\ UNCHANGED <<clock, stored, denied, attemptedAt, inflight, caller, revoking, revoked,
                   calm, served, failed>>

-----------------------------------------------------------------------------
(* Revocations.                                                            *)

PeerRevoke(s) ==
    /\ stored[s] = Never
    /\ stored' = [stored EXCEPT ![s] = clock]
    /\ UNCHANGED <<clock, denied, syncedAt, attemptedAt, inflight, caller, reader, revoking,
                   revoked, calm, served, failed>>

\* GovState::revoke: add_denylist, then RevocationSync::insert, then it returns.
RevokeWrite(s) ==
    /\ s \notin revoking
    /\ stored' = [stored EXCEPT ![s] = IF @ = Never THEN clock ELSE @]
    /\ revoking' = revoking \cup {s}
    /\ UNCHANGED <<clock, denied, syncedAt, attemptedAt, inflight, caller, reader, revoked,
                   calm, served, failed>>

Insert(s) ==
    /\ s \in revoking
    /\ denied' = denied \cup {s}
    /\ revoking' = revoking \ {s} /\ revoked' = revoked \cup {s}
    /\ UNCHANGED <<clock, stored, syncedAt, attemptedAt, inflight, caller, reader, calm,
                   served, failed>>

-----------------------------------------------------------------------------
\* A good second: some request looked, and everything that ran also ended.
GoodSecond ==
    /\ served /\ ~failed
    /\ \A c \in Callers : caller[c] = Idle
    /\ \A t \in Slots : reader[t] = Idle

Tick ==
    /\ clock < MaxClock
    /\ clock' = clock + 1
    /\ calm' = IF GoodSecond THEN calm ELSE clock + 1
    /\ served' = FALSE /\ failed' = FALSE
    /\ UNCHANGED <<stored, denied, syncedAt, attemptedAt, inflight, caller, reader, revoking,
                   revoked>>

Next ==
    \/ Tick
    \/ \E c \in Callers : Arrive(c) \/ LoadSynced(c) \/ ClaimWindow(c) \/ ClaimRead(c)
    \/ \E t \in Slots : Listed(t) \/ ListFailed(t) \/ Merge(t) \/ Stamp(t)
    \/ \E s \in Subs : PeerRevoke(s) \/ RevokeWrite(s) \/ Insert(s)

Spec == Init /\ [][Next]_vars

-----------------------------------------------------------------------------
(* Properties.                                                             *)

\* The staleness stamp is the truth: every revocation that was in the store
\* before syncedAt is in the set, whatever reads failed, hung or overtook one
\* another (the stamp moves only after a successful read's result is merged).
SyncedMeansSeen == \A s \in Subs : stored[s] < syncedAt => s \in denied

\* A local revoke that has returned is never lost to a read that began earlier.
LocalRevokeSticks == revoked \subseteq denied

\* A peer's revoke is enforced one window and a second after it was written, or
\* after the store last gave trouble: no failed, declined or late read leaves
\* the re-sync wedged.
PeerRevokeVisible ==
    \A s \in Subs :
        stored[s] # Never /\ stored[s] + Ttl < clock /\ calm + Ttl < clock => s \in denied
=============================================================================
