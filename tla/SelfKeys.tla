------------------------------ MODULE SelfKeys ------------------------------
(***************************************************************************)
(* The self-service keys of one subject on one node: GovState's issue_self *)
(* and refresh_self (under self_mint_lock), the admin operations on the    *)
(* same rows (rotate, PATCH enabled, revoke, delete; under EXISTENCE_GATE) *)
(* and the verify path, with the durable store, the by_id cache and the    *)
(* denylist between them (governance/state.rs, admin/mod.rs).              *)
(*                                                                         *)
(* A row's id is derived from the subject and an epoch, so an epoch stands *)
(* for the id.  A generation is the epoch, or after a rotation or a        *)
(* revocation a fresh random value: here a number above every epoch.       *)
(* Every store call is a step of its own and may fail; the two locks that  *)
(* matter between the operations are refresh_lock (held over a load and    *)
(* its swap, and by a revocation throughout) and the lock of the caches.   *)
(***************************************************************************)
EXTENDS Integers, FiniteSets

CONSTANTS
    MaxEpoch,     \* epochs 0..MaxEpoch (bound)
    MaxMints,     \* logins and refreshes (bound)
    MaxAdmin,     \* admin operations (bound)
    MaxFails,     \* store calls that fail (bound)
    MaxRestarts   \* crashes of the process (bound)

ASSUME KeyBounds == {MaxEpoch, MaxMints, MaxAdmin, MaxFails, MaxRestarts} \subseteq Nat

Epochs == 0..MaxEpoch
Actors == {"user", "admin"}
None   == -1

VARIABLES
    row,       \* row[e]: the durable key row of epoch e
    barred,    \* the durable denylist
    cache,     \* cache[e]: by_id
    deny,      \* the in-memory denylist
    lock,      \* the holder of refresh_lock
    snap,      \* snap[a]: what a loaded from the store last
    pc,        \* where each actor is
    user,      \* the mint in progress: [op, old, id, gen]
    admin,     \* the admin operation in progress: [op, id, gen, on]
    tokens,    \* tokens handed out: [id, gen]
    fresh,     \* random generations drawn so far
    \* history
    revokedIds, \* ids whose revoke() returned Ok
    replaced,  \* ids whose tokens a successful refresh_self replaced
    slips,     \* what has happened: "fail", "restart", "unfreeze"
    mints, ops, fails, restarts

kvars == <<row, barred, cache, deny, lock, snap, pc, user, admin, tokens, fresh,
          revokedIds, replaced, slips, mints, ops, fails, restarts>>

NoRow == [st |-> "none", gen |-> None, on |-> FALSE]
Live(g, on) == [st |-> "live", gen |-> g, on |-> on]

\* Store::delete_key.
Tombstone(r) == [r EXCEPT !.st = "dead", !.on = FALSE]

NoMint == [op |-> "none", old |-> None, id |-> None, gen |-> None]
NoOp   == [op |-> "none", id |-> None, gen |-> None, on |-> FALSE]

\* GovState::load: every row that is not a tombstone.
Load == [e \in Epochs |-> IF row[e].st = "live" THEN row[e] ELSE NoRow]

\* A fresh random generation.
NextGen == MaxEpoch + 1 + fresh

\* verify_token, after the signature.
Verifies(t) ==
    /\ t.id \notin deny
    /\ cache[t.id].st = "live" /\ cache[t.id].on
    /\ cache[t.id].gen = t.gen

KInit ==
    /\ row = [e \in Epochs |-> NoRow] /\ cache = row
    /\ barred = {} /\ deny = {}
    /\ lock = "none" /\ snap = [a \in Actors |-> row]
    /\ pc = [a \in Actors |-> "idle"]
    /\ user = NoMint /\ admin = NoOp
    /\ tokens = {} /\ fresh = 0
    /\ revokedIds = {} /\ replaced = {} /\ slips = {}
    /\ mints = 0 /\ ops = 0 /\ fails = 0 /\ restarts = 0

store  == <<row, barred>>
node   == <<cache, deny, lock, snap>>
bounds == <<mints, ops, fails, restarts>>
hist   == <<revokedIds, replaced, slips>>

Goto(a, label) == pc' = [pc EXCEPT ![a] = label]

\* A store call fails.
Failing ==
    /\ fails < MaxFails
    /\ fails' = fails + 1
    /\ slips' = slips \cup {"fail"}
    /\ UNCHANGED <<mints, ops, restarts, revokedIds, replaced>>

(***************************************************************************)
(* refresh(): load and swap under refresh_lock.                            *)
(***************************************************************************)
StartLoad(a) ==
    /\ lock = "none"
    /\ lock' = a
    /\ snap' = [snap EXCEPT ![a] = Load]

Swap(a) ==
    /\ cache' = snap[a]
    /\ lock' = "none"

Evict(e) == cache' = [cache EXCEPT ![e] = NoRow]

(***************************************************************************)
(* The subject's own operations.                                           *)
(***************************************************************************)
\* current_self_binding: an enabled row of the cache, whichever comes first.
Current == {e \in Epochs : cache[e].st = "live" /\ cache[e].on}

Mint(op, old, id, gen) == user' = [op |-> op, old |-> old, id |-> id, gen |-> gen]

StartMint ==
    /\ pc["user"] = "idle"
    /\ mints < MaxMints
    /\ mints' = mints + 1
    /\ UNCHANGED <<store, node, admin, fresh, hist, ops, fails, restarts>>

\* issue_self with a binding and the same pools: a new token over it.
IssueAgain(e) ==
    /\ StartMint /\ e \in Current
    /\ tokens' = tokens \cup {[id |-> e, gen |-> cache[e].gen]}
    /\ UNCHANGED <<pc, user>>

\* issue_self with a binding whose pools changed: the cached row is put back
\* with the new pools.
IssueUpdate(e) ==
    /\ StartMint /\ e \in Current
    /\ Mint("update", None, e, cache[e].gen)
    /\ Goto("user", "put")
    /\ UNCHANGED tokens

\* issue_self without a binding: probe from epoch 0.
IssueNew ==
    /\ StartMint /\ Current = {}
    /\ Mint("issue", None, 0, None)
    /\ Goto("user", "probe")
    /\ UNCHANGED tokens

\* refresh_self: the epoch after the current one; a generation that is not a
\* number counts as epoch 0.
RefreshSelf ==
    /\ StartMint
    /\ IF Current = {} THEN Mint("refresh", None, 0, None)
       ELSE \E e \in Current :
              Mint("refresh", e, (IF cache[e].gen \in Epochs THEN cache[e].gen ELSE 0) + 1, None)
    /\ Goto("user", "probe")
    /\ UNCHANGED tokens

\* first_free_self_epoch: from, from+1, from+2, from+4, ... until the row is not
\* a tombstone.  Tombstones stay, so the last read decides.
Probes(from) == {from} \cup {from + 2^k : k \in 0..MaxEpoch}
Free(e) == row[e].st # "dead"
FirstFree(from) == {e \in Probes(from) \cap Epochs :
    Free(e) /\ \A d \in Probes(from) : d < e => ~Free(d)}

Probe ==
    /\ pc["user"] = "probe"
    /\ \/ \E e \in FirstFree(user.id) :
            /\ Mint(user.op, user.old, e, e)
            /\ Goto("user", "put")
            /\ UNCHANGED <<hist, bounds>>
       \/ /\ Failing
          /\ user' = NoMint /\ Goto("user", "idle")
    /\ UNCHANGED <<store, node, admin, tokens, fresh>>

\* Store::put_key: refused over a tombstone.
UserPut ==
    /\ pc["user"] = "put"
    /\ \/ /\ Free(user.id)
          /\ row' = [row EXCEPT ![user.id] = Live(user.gen, TRUE)]
          /\ Goto("user", "load")
          /\ UNCHANGED <<user, hist, bounds>>
       \/ /\ ~Free(user.id)
          /\ user' = NoMint /\ Goto("user", "idle")
          /\ UNCHANGED <<row, hist, bounds>>
       \/ /\ Failing
          /\ user' = NoMint /\ Goto("user", "idle")
          /\ UNCHANGED row
    /\ UNCHANGED <<barred, node, admin, tokens, fresh>>

\* refresh() after the put; when it fails the mint returns the error and
\* leaves the new row where it is.
UserLoad ==
    /\ pc["user"] = "load"
    /\ \/ /\ StartLoad("user")
          /\ Goto("user", "swap")
          /\ UNCHANGED <<user, hist, bounds>>
       \/ /\ lock = "none" /\ Failing
          /\ user' = NoMint /\ Goto("user", "idle")
          /\ UNCHANGED <<lock, snap>>
    /\ UNCHANGED <<store, cache, deny, admin, tokens, fresh>>

Replaces == user.op = "refresh" /\ user.old \notin {None, user.id}

HandOut ==
    /\ tokens' = tokens \cup {[id |-> user.id, gen |-> user.gen]}
    /\ user' = NoMint /\ Goto("user", "idle")

UserSwap ==
    /\ pc["user"] = "swap"
    /\ Swap("user")
    /\ IF Replaces THEN Goto("user", "tombstone") /\ UNCHANGED <<user, tokens>> ELSE HandOut
    /\ UNCHANGED <<store, deny, snap, admin, fresh, hist, bounds>>

\* The prior row is tombstoned; if that fails the new one is rolled back.
UserTombstone ==
    /\ pc["user"] = "tombstone"
    /\ \/ /\ row' = [row EXCEPT ![user.old] = Tombstone(@)]
          /\ Goto("user", "load2")
          /\ UNCHANGED <<hist, bounds>>
       \/ /\ Failing
          /\ Goto("user", "rollback")
          /\ UNCHANGED row
    /\ UNCHANGED <<barred, node, user, admin, tokens, fresh>>

\* Mutant: no second refresh() after the tombstone.
MutUserLoad2 ==
    /\ pc["user"] = "load2"
    /\ HandOut
    /\ replaced' = replaced \cup {user.old}
    /\ UNCHANGED <<store, node, admin, fresh, revokedIds, slips, bounds>>

\* The second refresh(); when it fails the prior id is evicted directly and the
\* call returns an error.
UserLoad2 ==
    /\ pc["user"] = "load2"
    /\ \/ /\ StartLoad("user")
          /\ Goto("user", "swap2")
          /\ UNCHANGED <<hist, bounds>>
       \/ /\ lock = "none" /\ Failing
          /\ Goto("user", "evict2")
          /\ UNCHANGED <<lock, snap>>
    /\ UNCHANGED <<store, cache, deny, user, admin, tokens, fresh>>

UserEvict2 ==
    /\ pc["user"] = "evict2"
    /\ Evict(user.old)
    /\ user' = NoMint /\ Goto("user", "idle")
    /\ UNCHANGED <<store, deny, lock, snap, admin, tokens, fresh, hist, bounds>>

UserSwap2 ==
    /\ pc["user"] = "swap2"
    /\ Swap("user")
    /\ HandOut
    /\ replaced' = replaced \cup {user.old}
    /\ UNCHANGED <<store, deny, snap, admin, fresh, revokedIds, slips, bounds>>

\* The rollback is delete_key on the new row: tombstone, evict, refresh.
UserRollback ==
    /\ pc["user"] = "rollback"
    /\ \/ /\ row' = [row EXCEPT ![user.id] = Tombstone(@)]
          /\ Goto("user", "evict3")
          /\ UNCHANGED <<user, hist, bounds>>
       \/ /\ Failing
          /\ user' = NoMint /\ Goto("user", "idle")
          /\ UNCHANGED row
    /\ UNCHANGED <<barred, node, admin, tokens, fresh>>

UserEvict3 ==
    /\ pc["user"] = "evict3"
    /\ Evict(user.id)
    /\ Goto("user", "load3")
    /\ UNCHANGED <<store, deny, lock, snap, user, admin, tokens, fresh, hist, bounds>>

UserLoad3 ==
    /\ pc["user"] = "load3"
    /\ \/ /\ StartLoad("user")
          /\ Goto("user", "swap3")
          /\ UNCHANGED <<user, hist, bounds>>
       \/ /\ lock = "none" /\ Failing
          /\ user' = NoMint /\ Goto("user", "idle")
          /\ UNCHANGED <<lock, snap>>
    /\ UNCHANGED <<store, cache, deny, admin, tokens, fresh>>

UserSwap3 ==
    /\ pc["user"] = "swap3"
    /\ Swap("user")
    /\ user' = NoMint /\ Goto("user", "idle")
    /\ UNCHANGED <<store, deny, snap, admin, tokens, fresh, hist, bounds>>

(***************************************************************************)
(* The admin operations, one at a time under EXISTENCE_GATE, which the     *)
(* subject's own operations do not take.                                   *)
(***************************************************************************)
StartAdmin(op, e, gen, on, label) ==
    /\ pc["admin"] = "idle"
    /\ ops < MaxAdmin
    /\ ops' = ops + 1
    /\ admin' = [op |-> op, id |-> e, gen |-> gen, on |-> on]
    /\ Goto("admin", label)
    /\ UNCHANGED <<store, node, user, tokens, revokedIds, replaced, mints, fails, restarts>>

AdminDone == admin' = NoOp /\ Goto("admin", "idle")

\* rotate_key: read the row; a tombstone is not found.
AdmRotate(e) ==
    /\ row[e].st = "live"
    /\ StartAdmin("rotate", e, NextGen, row[e].on, "put")
    /\ fresh' = fresh + 1
    /\ UNCHANGED slips

\* PATCH enabled (update_key): read the row.
AdmUpdate(e, on) ==
    /\ row[e].st = "live"
    /\ StartAdmin("update", e, row[e].gen, on, "put")
    /\ slips' = IF on /\ ~row[e].on THEN slips \cup {"unfreeze"} ELSE slips
    /\ UNCHANGED fresh

\* POST revoke and DELETE: the existence check.
AdmRevoke(e) ==
    /\ row[e].st # "none"
    /\ StartAdmin("revoke", e, None, FALSE, "lock")
    /\ UNCHANGED <<fresh, slips>>

AdmDelete(e) ==
    /\ row[e].st = "live"
    /\ StartAdmin("delete", e, None, FALSE, "lock")
    /\ UNCHANGED <<fresh, slips>>

\* put_key of rotate and PATCH.
AdmPut ==
    /\ pc["admin"] = "put"
    /\ \/ /\ Free(admin.id)
          /\ row' = [row EXCEPT ![admin.id] = Live(admin.gen, admin.on)]
          /\ Goto("admin", "load")
          /\ UNCHANGED <<admin, hist, bounds>>
       \/ /\ ~Free(admin.id) /\ AdminDone
          /\ UNCHANGED <<row, hist, bounds>>
       \/ /\ Failing /\ AdminDone
          /\ UNCHANGED row
    /\ UNCHANGED <<barred, node, user, tokens, fresh>>

\* refresh() after the write.  When it fails a rotation evicts the row from the
\* cache; a PATCH returns the error, a deletion has evicted it already.
AdmLoad ==
    /\ pc["admin"] = "load"
    /\ \/ /\ StartLoad("admin")
          /\ Goto("admin", "swap")
          /\ UNCHANGED <<admin, hist, bounds>>
       \/ /\ lock = "none" /\ Failing
          /\ IF admin.op = "rotate" THEN Goto("admin", "evict") /\ UNCHANGED admin ELSE AdminDone
          /\ UNCHANGED <<lock, snap>>
    /\ UNCHANGED <<store, cache, deny, user, tokens, fresh>>

AdmSwap ==
    /\ pc["admin"] = "swap"
    /\ Swap("admin")
    /\ tokens' = IF admin.op = "rotate"
                 THEN tokens \cup {[id |-> admin.id, gen |-> admin.gen]} ELSE tokens
    /\ AdminDone
    /\ UNCHANGED <<store, deny, snap, user, fresh, hist, bounds>>

\* Mutant: revoke() does not take refresh_lock.
MutAdmLock ==
    /\ pc["admin"] = "lock"
    /\ Goto("admin", "deny")
    /\ UNCHANGED <<store, node, user, admin, tokens, fresh, hist, bounds>>

\* revoke(): refresh_lock is held from here to the patch of the cache.
AdmLock ==
    /\ pc["admin"] = "lock" /\ lock = "none"
    /\ lock' = "admin"
    /\ Goto("admin", "deny")
    /\ UNCHANGED <<store, cache, deny, snap, user, admin, tokens, fresh, hist, bounds>>

RevokeFails ==
    /\ Failing /\ AdminDone
    /\ lock' = "none"

\* Mutant: the durable denylist is left to the row's new generation.
MutAdmDeny ==
    /\ pc["admin"] = "deny"
    /\ Goto("admin", "read")
    /\ UNCHANGED <<row, barred, cache, deny, lock, snap, user, admin, tokens, fresh, hist, bounds>>

\* add_denylist.
AdmDeny ==
    /\ pc["admin"] = "deny"
    /\ \/ /\ barred' = barred \cup {admin.id}
          /\ Goto("admin", "read")
          /\ UNCHANGED <<lock, admin, hist, bounds>>
       \/ /\ RevokeFails
          /\ UNCHANGED barred
    /\ UNCHANGED <<row, cache, deny, snap, user, tokens, fresh>>

\* get_key: a tombstoned row needs no new generation.
AdmRead ==
    /\ pc["admin"] = "read"
    /\ \/ /\ IF row[admin.id].st = "live"
             THEN admin' = [admin EXCEPT !.gen = NextGen] /\ fresh' = fresh + 1 /\ Goto("admin", "bump")
             ELSE Goto("admin", "patch") /\ UNCHANGED <<admin, fresh>>
          /\ UNCHANGED <<lock, hist, bounds>>
       \/ /\ RevokeFails
          /\ UNCHANGED fresh
    /\ UNCHANGED <<store, cache, deny, snap, user, tokens>>

\* put_key: a new generation and enabled = false.
AdmBump ==
    /\ pc["admin"] = "bump"
    /\ \/ /\ Free(admin.id)
          /\ row' = [row EXCEPT ![admin.id] = Live(admin.gen, FALSE)]
          /\ Goto("admin", "patch")
          /\ UNCHANGED <<lock, admin, hist, bounds>>
       \/ /\ ~Free(admin.id) /\ AdminDone
          /\ lock' = "none"
          /\ UNCHANGED <<row, hist, bounds>>
       \/ /\ RevokeFails
          /\ UNCHANGED row
    /\ UNCHANGED <<barred, cache, deny, snap, user, tokens, fresh>>

\* The targeted update of the in-memory state.
AdmPatch ==
    /\ pc["admin"] = "patch"
    /\ deny' = deny \cup {admin.id}
    /\ cache' = IF admin.gen = None THEN cache
                ELSE [cache EXCEPT ![admin.id] = Live(admin.gen, FALSE)]
    /\ lock' = "none"
    /\ revokedIds' = revokedIds \cup {admin.id}
    /\ IF admin.op = "delete" THEN Goto("admin", "tombstone") /\ UNCHANGED admin ELSE AdminDone
    /\ UNCHANGED <<store, snap, user, tokens, fresh, replaced, slips, bounds>>

\* delete_key after the revocation: tombstone, evict, refresh.
AdmTombstone ==
    /\ pc["admin"] = "tombstone"
    /\ \/ /\ row' = [row EXCEPT ![admin.id] = Tombstone(@)]
          /\ Goto("admin", "evict")
          /\ UNCHANGED <<admin, hist, bounds>>
       \/ /\ Failing /\ AdminDone
          /\ UNCHANGED row
    /\ UNCHANGED <<barred, node, user, tokens, fresh>>

AdmEvict ==
    /\ pc["admin"] = "evict"
    /\ Evict(admin.id)
    /\ IF admin.op = "delete" THEN Goto("admin", "load") /\ UNCHANGED admin ELSE AdminDone
    /\ UNCHANGED <<store, deny, lock, snap, user, tokens, fresh, hist, bounds>>

\* sync_revocations_if_stale: the durable denylist is merged into the set.
SyncDenylist ==
    /\ deny # deny \cup barred
    /\ deny' = deny \cup barred
    /\ UNCHANGED <<store, cache, lock, snap, pc, user, admin, tokens, fresh, hist, bounds>>

\* The process dies at any point and boots: GovState loads keys and denylist.
Restart ==
    /\ restarts < MaxRestarts
    /\ restarts' = restarts + 1
    /\ slips' = slips \cup {"restart"}
    /\ cache' = Load /\ deny' = barred
    /\ lock' = "none" /\ snap' = [a \in Actors |-> Load]
    /\ pc' = [a \in Actors |-> "idle"]
    /\ user' = NoMint /\ admin' = NoOp
    /\ UNCHANGED <<store, tokens, fresh, revokedIds, replaced, mints, ops, fails>>

UserStep ==
    \/ \E e \in Epochs : IssueAgain(e) \/ IssueUpdate(e)
    \/ IssueNew \/ RefreshSelf \/ Probe
    \/ UserPut \/ UserLoad \/ UserSwap
    \/ UserTombstone \/ UserLoad2 \/ UserEvict2 \/ UserSwap2
    \/ UserRollback \/ UserEvict3 \/ UserLoad3 \/ UserSwap3

AdminStep ==
    \/ \E e \in Epochs : AdmRotate(e) \/ AdmRevoke(e) \/ AdmDelete(e)
                          \/ \E on \in BOOLEAN : AdmUpdate(e, on)
    \/ AdmPut \/ AdmLoad \/ AdmSwap
    \/ AdmLock \/ AdmDeny \/ AdmRead \/ AdmBump \/ AdmPatch
    \/ AdmTombstone \/ AdmEvict

KNext == UserStep \/ AdminStep \/ SyncDenylist \/ Restart

KSpec == KInit /\ [][KNext]_kvars

----------------------------------------------------------------------------
Gens == Epochs \cup {None} \cup (MaxEpoch + 1)..(MaxEpoch + MaxAdmin)
Rows == [st : {"none", "live", "dead"}, gen : Gens, on : BOOLEAN]

Labels == {"idle", "probe", "put", "load", "swap", "tombstone",
           "load2", "evict2", "swap2", "rollback", "evict3", "load3", "swap3",
           "lock", "deny", "read", "bump", "patch", "evict"}

\* Types; also, a row that is not live is disabled.
KTypeOK ==
    /\ row \in [Epochs -> Rows] /\ cache \in [Epochs -> Rows]
    /\ \A e \in Epochs : row[e].st # "live" => ~row[e].on
    /\ barred \subseteq Epochs /\ deny \subseteq Epochs
    /\ lock \in Actors \cup {"none"} /\ snap \in [Actors -> [Epochs -> Rows]]
    /\ pc \in [Actors -> Labels] /\ fresh \in 0..MaxAdmin
    /\ user \in [op : {"none", "update", "issue", "refresh"}, old : Epochs \cup {None},
                 id : 0..(MaxEpoch + 1) \cup {None}, gen : Gens]
    /\ admin \in [op : {"none", "update", "rotate", "revoke", "delete"},
                  id : Epochs \cup {None}, gen : Gens, on : BOOLEAN]
    /\ tokens \subseteq [id : Epochs, gen : Gens]
    /\ revokedIds \subseteq Epochs /\ replaced \subseteq Epochs
    /\ slips \subseteq {"fail", "restart", "unfreeze"}

\* Once revoke() has returned Ok no token of that id authenticates again,
\* whatever the subject's logins, rotations, PATCHes, failing stores and
\* restarts do to its row afterwards (revoke, verify_token).
RevokedStaysDead ==
    \A t \in tokens : t.id \in revokedIds => ~Verifies(t)

\* Once refresh_self has returned, no token of the id it replaced
\* authenticates again, whatever its generation: no slower refresh of the cache
\* and no admin write racing it brings the tombstoned row back (refresh_self,
\* refresh, put_key).
SupersededStaysDead ==
    \A e \in replaced, g \in Gens : ~Verifies([id |-> e, gen |-> g])

\* The cache agrees with the store whenever nothing is in progress and no load
\* failed: no interleaving of two loads and swaps, a targeted patch and an
\* eviction leaves an older row in it (refresh_lock).
CacheAgrees ==
    "fail" \notin slips /\ (\A a \in Actors : pc[a] = "idle") => cache = Load
=============================================================================
