----------------------------- MODULE ConfigPlane -----------------------------
(***************************************************************************)
(* The config plane: config_transaction and its lock (admin/v1/json/       *)
(* txn.rs), commit_and_swap (state.rs), the overlay file (config/          *)
(* overlay.rs), the handlers that plan a transaction (handlers.rs,         *)
(* admin/mod.rs, auth/self_keys.rs), the version log (admin/versions.rs)   *)
(* and the process-wide limits (limits/mod.rs).                            *)
(*                                                                         *)
(* The configuration is a function from names to definitions, in four      *)
(* sections: groups (a definition is the group's parent), hooks, the root  *)
(* settings and the plugin version pins.  A transaction takes the lock and *)
(* a snapshot and plans, with whatever it must read: bound keys, the file, *)
(* the overlay, the log.  It persists, swaps, perhaps binds a key, and     *)
(* lets go of the lock; the handler then records the version, outside the  *)
(* lock, if its client is still there.  The process may crash at any       *)
(* point; the crash and the boot that follows are one step, since nothing  *)
(* reads the disk in between.                                              *)
(*                                                                         *)
(* A request that is refused before it plans (unknown name, base config's  *)
(* name, stale If-Match) changes nothing and is not a step.  Left out: the *)
(* ceilings on keys and groups (off by default), audit rows, global_hooks, *)
(* the definitions' other fields, the named maps.                          *)
(***************************************************************************)
EXTENDS Rows, FiniteSets

CONSTANTS
    Clients,
    None,
    MaxOps,       \* transactions (bound)
    MaxEdits,     \* saves of config.yaml (bound)
    MaxFails,     \* failed builds, disk writes and store writes (bound)
    MaxCrashes,   \* crashes (bound)
    MaxVersions   \* MAX_VERSIONS, the size of the version ring

ASSUME PlaneBounds ==
    /\ {MaxOps, MaxEdits, MaxFails, MaxCrashes} \subseteq Nat
    /\ MaxVersions \in Nat \ {0}

Groups == {"team", "leaf"}
Hooks  == {"hook"}
Root   == {"root"}
Pins   == {"pin"}
Names  == Groups \cup Hooks \cup Root \cup Pins
Sections == {Groups, Hooks, Root, Pins}
SectionOf(n) == CHOOSE S \in Sections : n \in S

Keys == {"adminKey", "selfKey"}

\* A group's definition is its parent, "top" for none; a hook and a pin are
\* there or not; the root settings have two values.
Defs(n) ==
    CASE n \in Groups -> (Groups \ {n}) \cup {"top"}
      [] n \in Root   -> {"v1", "v2"}
      [] OTHER        -> {"v1"}
AllDefs == UNION {Defs(n) : n \in Names}

ASSUME NoDefinition == None \notin AllDefs

Doc == {f \in [Names -> AllDefs \cup {None}] : \A n \in Names : f[n] \in Defs(n) \cup {None}}

\* config.yaml as first deployed: the team's group, no hook, the default limits.
BaseFile == [n \in Names |-> CASE n = "team" -> "top" [] n = "root" -> "v1" [] OTHER -> None]

NoOverlay == [items |-> [n \in Names |-> None], dead |-> {}]

VARIABLES
    file,     \* config.yaml
    overlay,  \* the overlay document: entries and tombstones
    live,     \* the App behind the handle: registry, base it was built on, version
    limits,   \* the root settings that limits::INSTALLED holds
    log,      \* the VersionLog
    txn,      \* the transaction that holds CONFIG_MUTATION_LOCK
    pc,       \* pc[c]: where the client's handler is
    done,     \* done[c]: the App its transaction installed
    bind,     \* bind[k]: the group of a stored key
    \* history
    hist,     \* hist[v+1]: the hooks of the App installed as version v
    dropped,  \* groups that a rebuild took away
    stuck,    \* a rejected pin could not be taken back from the overlay
    ops, edits, fails, crashes   \* how many of each (bounds)

vars == <<file, overlay, live, limits, log, txn, pc, done, bind, hist, dropped, stuck,
          ops, edits, fails, crashes>>
disk    == <<file, overlay>>
counters == <<ops, edits, fails, crashes>>

HooksOf(items) == [h \in Hooks |-> items[h]]

\* overlay::merge_into (and apply_root_to_deploy): the overlay wins, then the
\* tombstones are subtracted.
Merge(f, o) ==
    [n \in Names |-> IF n \in o.dead THEN None ELSE IF o.items[n] # None THEN o.items[n] ELSE f[n]]

\* OverlayDoc::clear_section and section_is_empty.
ClearSection(o, S) ==
    [items |-> [n \in Names |-> IF n \in S THEN None ELSE o.items[n]], dead |-> o.dead \ S]
SectionIsEmpty(o, S) == ClearSection(o, S) = o

\* overlay::persist, persist_groups, persist_root and
\* try_persist_plugin_versions: the section is replaced by the whole registry
\* to be installed; a tombstone stays only for a name of the base that the
\* registry does not have.
PersistSection(o, S, items, add, base) ==
    [items |-> [n \in Names |-> IF n \in S THEN items[n] ELSE o.items[n]],
     dead  |-> {n \in o.dead \cup add : n \notin S \/ (items[n] = None /\ n \in base)}]

\* validate_groups: parents exist and no group is its own ancestor.
ValidGroups(items) ==
    LET G == {g \in Groups : items[g] # None} IN
    /\ \A g \in G : items[g] \in G \cup {"top"}
    /\ \A S \in (SUBSET G) \ {{}} : \E g \in S : items[g] \notin S

BaseNames(a) == {n \in Groups \cup Hooks : a.base[n] # None}

\* build_app_from_config over a base and an overlay.
Build(f, o, v) == [items |-> Merge(f, o), base |-> f, version |-> v]

\* Mutant: the edit starts from the base and not from what is in force.
MutEdited(a, n, d) == [a EXCEPT !.items = [a.base EXCEPT ![n] = d], !.version = @ + 1]

\* build_with_group, build_without_group, build_with_hook, build_without_hook.
Edited(a, n, d) == [a EXCEPT !.items[n] = d, !.version = @ + 1]

\* VersionLog::record.
Recorded(l, a) ==
    LET kept == Kept(l, {r \in Range(l) : r.version # a.version})
        room == IF Len(kept) >= MaxVersions THEN SubSeq(kept, Len(kept) - MaxVersions + 2, Len(kept))
                ELSE kept IN
    Append(room, [version |-> a.version, hooks |-> HooksOf(a.items)])

Row(l, v) == CHOOSE r \in Range(l) : r.version = v
Retained(l) == {r.version : r \in Range(l)}

NoTxn == [client |-> None]
Nothing == [version |-> -1]

\* A body of config/apply: the deployed file with one more or one fewer entry.
Body(n) == [BaseFile EXCEPT ![n] = IF @ = None THEN CHOOSE d \in Defs(n) : d \notin Groups ELSE None]

Persistless == {"reload", "plugins", "apply", "pin", "auth"}   \* nothing to persist at the commit
Rebuilds    == {"reload", "plugins", "apply", "pin", "reset", "settings"}

Init ==
    /\ file = BaseFile /\ overlay = NoOverlay
    /\ live = Build(BaseFile, NoOverlay, 0)
    /\ limits = BaseFile["root"]
    /\ log = Recorded(<<>>, live) /\ hist = <<HooksOf(live.items)>>
    /\ txn = NoTxn
    /\ pc = [c \in Clients |-> "idle"]
    /\ done = [c \in Clients |-> Nothing]
    /\ bind = [k \in Keys |-> None]
    /\ dropped = {} /\ stuck = FALSE
    /\ ops = 0 /\ edits = 0 /\ fails = 0 /\ crashes = 0

At(step) == txn # NoTxn /\ txn.step = step

Fail == fails < MaxFails /\ fails' = fails + 1

\* config_transaction has the lock and the snapshot, which is `live`, and the
\* plan of request r gives the App `next`.
Begin(c, r, next, step) ==
    /\ ops' = ops + 1
    /\ pc' = [pc EXCEPT ![c] = "section"]
    /\ txn' = [client |-> c, req |-> r, snap |-> live, next |-> next, step |-> step]

\* The guard is dropped.  The handler goes on with `then`, unless its client
\* has gone away and its future with it: the section does not notice.
End(then) ==
    LET c == txn.client IN
    /\ txn' = NoTxn
    /\ \/ /\ pc' = [pc EXCEPT ![c] = then]
          /\ done' = IF then = "record"
                     THEN [done EXCEPT ![c] = [version |-> txn.next.version,
                                               items |-> HooksOf(txn.next.items)]]
                     ELSE done
       \/ pc' = [pc EXCEPT ![c] = "idle"] /\ UNCHANGED done

\* The App with one entry defined, or without it; build_with_group and
\* build_with_hook validate the registry they built.
Edit(c, kind, n, d) ==
    LET next == Edited(live, n, d) IN
    /\ ValidGroups(next.items)
    /\ Begin(c, [kind |-> kind, name |-> n], next, "persist")
    /\ UNCHANGED <<disk, live, limits, log, bind, hist, dropped, stuck, edits, fails, crashes>>

\* An entry that the API may change: it is there and the file does not own it.
Editable(n) == live.items[n] # None /\ n \notin BaseNames(live)

\* register_group and register_hook: an upsert.
RegisterGroup(c, g, d) ==
    g \notin BaseNames(live) /\ Edit(c, "edit", g, d) /\ UNCHANGED done
RegisterHook(c, h, d) ==
    h \notin BaseNames(live) /\ Edit(c, "edit", h, d) /\ UNCHANGED done

\* put_group, patch_group and put_hook.
PutGroup(c, g, d) == Editable(g) /\ Edit(c, "edit", g, d) /\ UNCHANGED done
PutHook(c, h, d)  == Editable(h) /\ Edit(c, "edit", h, d) /\ UNCHANGED done

\* patch_hook_settings pushes the settings to the hook before it takes the
\* lock, and commits them only if nothing was installed meanwhile.  A push
\* that the hook refuses and a version that moved both end the request.
PushSettings(c, h) ==
    /\ Editable(h) /\ pc[c] = "idle" /\ ops < MaxOps
    /\ pc' = [pc EXCEPT ![c] = "push"]
    /\ done' = [done EXCEPT ![c] = [version |-> live.version, items |-> HooksOf(live.items)]]
    /\ UNCHANGED <<disk, live, limits, log, txn, bind, hist, dropped, stuck, counters>>

PatchHookSettings(c, h) ==
    /\ pc[c] = "push" /\ txn = NoTxn
    /\ \/ /\ live.version = done[c].version /\ ops < MaxOps
          /\ Edit(c, "edit", h, done[c].items[h])
       \/ /\ pc' = [pc EXCEPT ![c] = "idle"]
          /\ UNCHANGED <<disk, live, limits, log, txn, bind, hist, dropped, stuck, counters>>
    /\ done' = [done EXCEPT ![c] = Nothing]

\* Mutant: the keys bound to the group are not counted.
MutDeleteGroup(c, g) == Editable(g) /\ Edit(c, "delete", g, None) /\ UNCHANGED done

\* delete_group counts the keys bound to the group first (count_keys_bound_to);
\* delete_hook has nothing to count.
DeleteGroup(c, g) ==
    /\ Editable(g)
    /\ \A k \in Keys : bind[k] # g
    /\ Edit(c, "delete", g, None)
    /\ UNCHANGED done
DeleteHook(c, h) == Editable(h) /\ Edit(c, "delete", h, None) /\ UNCHANGED done

\* put_auth swaps the admin chain, which the overlay does not keep.
PutAuth(c) ==
    /\ Begin(c, [kind |-> "auth"], [live EXCEPT !.version = @ + 1], "swap")
    /\ UNCHANGED <<disk, live, limits, log, done, bind, hist, dropped, stuck, edits, fails, crashes>>

\* plan_mint_group, for create_key ("mint") and ensure_leaf ("leaf"): a leaf
\* that is not there is created under its team.
PlanMintGroup(c, kind) ==
    LET leaf == live.items["leaf"] IN
    /\ \/ /\ leaf = None /\ live.items["team"] # None /\ "leaf" \notin BaseNames(live)
          /\ Begin(c, [kind |-> kind], Edited(live, "leaf", "team"), "persist")
       \/ /\ kind = "mint" /\ leaf = "team"
          /\ Begin(c, [kind |-> kind], live, "bind")
       \/ /\ kind = "leaf" /\ leaf # None
          /\ Begin(c, [kind |-> kind], live, "there")
    /\ UNCHANGED <<disk, live, limits, log, done, bind, hist, dropped, stuck, edits, fails, crashes>>

\* update_key with a group that exists.
UpdateKey(c, g) ==
    /\ live.items[g] # None
    /\ Begin(c, [kind |-> "rebind", name |-> g], live, "bind")
    /\ UNCHANGED <<disk, live, limits, log, done, bind, hist, dropped, stuck, edits, fails, crashes>>

\* rollback_config: a retained row's hooks replace the registry's.
RollbackConfig(c, v) ==
    LET row == Row(log, v) IN
    /\ v \in Retained(log)
    /\ Begin(c, [kind |-> "rollback"],
             [live EXCEPT !.items = [n \in Names |-> IF n \in Hooks THEN row.hooks[n] ELSE @[n]],
                          !.version = @ + 1],
             "persist")
    /\ UNCHANGED <<disk, live, limits, log, done, bind, hist, dropped, stuck, edits, fails, crashes>>

\* A rebuild of the whole App over base f and overlay o: the boot pipeline,
\* which validates, and keeps the limits it installed when it reaches its end
\* (InstallGuard).
Rebuild(c, r, f, o) ==
    LET next == Build(f, o, live.version + 1) IN
    /\ ValidGroups(next.items)
    /\ Begin(c, r, next, IF r.kind \in Persistless THEN "swap" ELSE "persist")
    /\ limits' = next.items["root"]
    /\ UNCHANGED <<disk, live, log, done, bind, hist, dropped, stuck, edits, fails, crashes>>

\* reload_config and reload_plugins: rebuild_app_from_disk.  Only the first
\* records a version.
ReloadConfig(c)  == Rebuild(c, [kind |-> "reload"], file, overlay)
ReloadPlugins(c) == Rebuild(c, [kind |-> "plugins"], file, overlay)

\* apply_config: the request's body under the overlay.
ApplyConfig(c, n) == Rebuild(c, [kind |-> "apply"], Body(n), overlay)

\* reset_overlay_section; an empty section is a no-op.
ResetOverlaySection(c, S) ==
    /\ ~SectionIsEmpty(overlay, S)
    /\ Rebuild(c, [kind |-> "reset", section |-> S], file, ClearSection(overlay, S))

\* put_config_settings.
PutConfigSettings(c, d) ==
    Rebuild(c, [kind |-> "settings"], file, [overlay EXCEPT !.items["root"] = d])

\* rollback_plugin persists the pin before it rebuilds ...
RollbackPlugin(c, d) ==
    /\ Begin(c, [kind |-> "pin"], live, "rebuild")
    /\ overlay' = [overlay EXCEPT !.items["pin"] = d]
    /\ UNCHANGED <<file, live, limits, log, done, bind, hist, dropped, stuck, edits, fails, crashes>>

RebuildPin ==
    LET next == Build(file, overlay, txn.snap.version + 1) IN
    /\ At("rebuild") /\ ValidGroups(next.items)
    /\ txn' = [txn EXCEPT !.next = next, !.step = "swap"]
    /\ limits' = next.items["root"]
    /\ UNCHANGED <<disk, live, log, pc, done, bind, hist, dropped, stuck, counters>>

\* Mutant: the pin stays when the build fails.
MutRevertPin ==
    /\ At("rebuild") /\ Fail
    /\ End("idle")
    /\ UNCHANGED <<disk, live, limits, log, bind, hist, dropped, stuck, ops, edits, crashes>>

\* ... and takes the pin back when the build fails; that write may fail too.
RevertPin ==
    /\ At("rebuild") /\ Fail
    /\ \/ overlay' = [overlay EXCEPT !.items["pin"] = txn.snap.items["pin"]] /\ UNCHANGED stuck
       \/ stuck' = TRUE /\ UNCHANGED overlay
    /\ End("idle")
    /\ UNCHANGED <<file, live, limits, log, bind, hist, dropped, ops, edits, crashes>>

\* ensure_leaf found the leaf: nothing to commit.
LeafThere ==
    /\ At("there") /\ End("selfBind")
    /\ UNCHANGED <<disk, live, limits, log, bind, hist, dropped, stuck, counters>>

\* What the persist closure writes: the section that the request is about.
Persisted ==
    LET r == txn.req
        S == CASE r.kind \in {"edit", "delete"} -> SectionOf(r.name)
               [] r.kind \in {"mint", "leaf"} -> Groups
               [] r.kind = "rollback" -> Hooks
               [] r.kind = "settings" -> Root
        add == IF r.kind = "delete" THEN {r.name} ELSE {} IN
    IF r.kind = "reset" THEN ClearSection(overlay, r.section)
    ELSE PersistSection(overlay, S, txn.next.items, add, BaseNames(txn.next))

Absent(a) == {g \in Groups : a.items[g] = None}

\* The groups that a rebuild takes away (history).
Dropped ==
    dropped \cup (IF txn.req.kind \in Rebuilds THEN Absent(txn.next) \ Absent(live) ELSE {})

\* commit_and_swap: persist first, and swap only what the disk took.
Persist ==
    /\ At("persist")
    /\ overlay' = Persisted
    /\ txn' = [txn EXCEPT !.step = "swap"]
    /\ dropped' = Dropped
    /\ UNCHANGED <<file, live, limits, log, pc, done, bind, hist, stuck, counters>>

PersistFails ==
    /\ At("persist")
    /\ Fail /\ End("idle")
    /\ UNCHANGED <<disk, live, limits, log, bind, hist, dropped, stuck, ops, edits, crashes>>

Swap ==
    LET kind == txn.req.kind IN
    /\ At("swap")
    /\ live' = txn.next
    /\ hist' = Append(hist, HooksOf(txn.next.items))
    /\ dropped' = Dropped \cap Absent(txn.next)
    /\ stuck' = (stuck /\ kind \notin Rebuilds)
    /\ CASE kind = "mint" -> txn' = [txn EXCEPT !.step = "bind"] /\ UNCHANGED <<pc, done>>
         [] kind = "leaf" -> End("selfBind")
         [] kind = "plugins" -> End("idle")
         [] OTHER         -> End("record")
    /\ UNCHANGED <<disk, limits, log, bind, counters>>

\* The store write that ends a mint (which first records the version of the
\* group it created) or a rebind, still under the lock.
Bind ==
    /\ At("bind")
    /\ log' = IF txn.next # txn.snap THEN Recorded(log, txn.next) ELSE log
    /\ \/ /\ bind' = [bind EXCEPT !["adminKey"] =
                        IF txn.req.kind = "mint" THEN "leaf" ELSE txn.req.name]
          /\ UNCHANGED fails
       \/ Fail /\ UNCHANGED bind
    /\ End("idle")
    /\ UNCHANGED <<disk, live, limits, hist, dropped, stuck, ops, edits, crashes>>

\* Mutant: the handler records what is in force when it comes back.
MutRecord(c) ==
    /\ pc[c] = "record"
    /\ log' = Recorded(log, [version |-> done[c].version, items |-> live.items])
    /\ pc' = [pc EXCEPT ![c] = "idle"]
    /\ done' = [done EXCEPT ![c] = Nothing]
    /\ UNCHANGED <<disk, live, limits, txn, bind, hist, dropped, stuck, counters>>

\* The handler, back from config_transaction, records what it installed.
Record(c) ==
    /\ pc[c] = "record"
    /\ log' = Recorded(log, done[c])
    /\ pc' = [pc EXCEPT ![c] = "idle"]
    /\ done' = [done EXCEPT ![c] = Nothing]
    /\ UNCHANGED <<disk, live, limits, txn, bind, hist, dropped, stuck, counters>>

\* issue_self, after ensure_leaf and outside its transaction.
SelfBind(c) ==
    /\ pc[c] = "selfBind"
    /\ bind' = [bind EXCEPT !["selfKey"] = "leaf"]
    /\ pc' = [pc EXCEPT ![c] = "idle"]
    /\ UNCHANGED <<disk, live, limits, log, txn, done, hist, dropped, stuck, counters>>

\* delete_key does not take the config lock.
DeleteKey(k) ==
    /\ bind[k] # None
    /\ bind' = [bind EXCEPT ![k] = None]
    /\ UNCHANGED <<disk, live, limits, log, txn, pc, done, hist, dropped, stuck, counters>>

\* The operator saves config.yaml.
EditFile(n, d) ==
    /\ edits < MaxEdits /\ file[n] # d
    /\ edits' = edits + 1
    /\ file' = [file EXCEPT ![n] = d]
    /\ UNCHANGED <<overlay, live, limits, log, txn, pc, done, bind, hist, dropped, stuck,
                   ops, fails, crashes>>

\* The App in force, or the one that is already durable when its swap is due.
View == IF At("swap") /\ txn.req.kind \notin Persistless THEN txn.next ELSE live

\* The process dies and boots from the disk (it does not boot from an invalid one).
Restart ==
    LET a == Build(file, overlay, 0) IN
    /\ crashes < MaxCrashes /\ ValidGroups(a.items)
    /\ crashes' = crashes + 1
    /\ live' = a
    /\ limits' = a.items["root"]
    /\ log' = Recorded(<<>>, a) /\ hist' = <<HooksOf(a.items)>>
    /\ txn' = NoTxn
    /\ pc' = [c \in Clients |-> "idle"]
    /\ done' = [c \in Clients |-> Nothing]
    /\ dropped' = (IF View.base = file THEN dropped ELSE Groups) \cap Absent(a)
    /\ stuck' = FALSE
    /\ UNCHANGED <<disk, bind, ops, edits, fails>>

\* A client's request, when the lock is free: one lock site for all of them.
Plan(c) ==
    /\ pc[c] = "idle" /\ txn = NoTxn /\ ops < MaxOps
    /\ \/ \E g \in Groups :
            DeleteGroup(c, g) \/ \E d \in Defs(g) : RegisterGroup(c, g, d) \/ PutGroup(c, g, d)
       \/ \E h \in Hooks :
            DeleteHook(c, h) \/ \E d \in Defs(h) : RegisterHook(c, h, d) \/ PutHook(c, h, d)
       \/ \E n \in Groups \cup Hooks : ApplyConfig(c, n)
       \/ PutAuth(c)
       \/ \E kind \in {"mint", "leaf"} : PlanMintGroup(c, kind)
       \/ \E g \in Groups : UpdateKey(c, g)
       \/ \E v \in Retained(log) : RollbackConfig(c, v)
       \/ ReloadConfig(c) \/ ReloadPlugins(c)
       \/ \E S \in Sections : ResetOverlaySection(c, S)
       \/ \E d \in Defs("root") : PutConfigSettings(c, d)
       \/ \E d \in Defs("pin") : RollbackPlugin(c, d)

Section ==
    RebuildPin \/ RevertPin \/ LeafThere \/ Persist \/ PersistFails \/ Swap \/ Bind

Next ==
    \/ \E c \in Clients : Plan(c) \/ Record(c) \/ SelfBind(c)
    \/ \E c \in Clients : \E h \in Hooks : PushSettings(c, h) \/ PatchHookSettings(c, h)
    \/ Section
    \/ \E k \in Keys : DeleteKey(k)
    \/ \E n \in Names \ Pins : \E d \in Defs(n) \cup (IF n \in Root THEN {} ELSE {None}) : EditFile(n, d)
    \/ Restart

Spec == Init /\ [][Next]_vars

-----------------------------------------------------------------------------
TypeOK ==
    /\ file \in Doc
    /\ overlay.items \in Doc /\ overlay.dead \subseteq Groups \cup Hooks
    /\ live.items \in Doc /\ live.base \in Doc /\ live.version \in 0..MaxOps
    /\ limits \in Defs("root")
    /\ Len(log) \in 1..MaxVersions
    /\ pc \in [Clients -> {"idle", "push", "section", "record", "selfBind"}]
    /\ \A c \in Clients : pc[c] = "section" <=> txn # NoTxn /\ txn.client = c
    /\ bind \in [Keys -> Groups \cup {None}]

\* A name that the file does not own is, whenever no transaction is under
\* way, in the overlay exactly as it is in force: a restart keeps every change
\* that the API acknowledged and none that it refused (commit_and_swap's
\* "fail-closed"), whatever was rebuilt, reset, applied or rolled back before.
\* A pin is an exception after its revert failed, which rollback_plugin reports.
DurableEntries ==
    txn = NoTxn =>
      /\ \A n \in (Groups \cup Hooks) \ BaseNames(live) :
           overlay.items[n] = live.items[n] /\ n \notin overlay.dead
      /\ stuck \/ overlay.items["pin"] = live.items["pin"]

\* Nothing in force names a group that is not: a parent that another group names
\* is in force and no group is its own ancestor (admission walks the chain of
\* parents of every request), and an administrator's key is bound to a group in
\* force, unless a rebuild took that group away.  Neither a delete racing a bind,
\* a mint that creates its group nor a rebuild leaves a dangling name, which would
\* fail a key at every admission.
NoDangling ==
    /\ ValidGroups(live.items)
    /\ LET g == bind["adminKey"] IN g # None /\ live.items[g] = None => g \in dropped

\* Every row of the version log holds the hooks that were in force at its
\* version, and no two installs of a process share a version: what a rollback
\* restores is what was there.  The rows are written outside the lock.
HistoryTruthful ==
    /\ Len(hist) = live.version + 1
    /\ \A i \in DOMAIN log : log[i].hooks = hist[log[i].version + 1]

L == INSTANCE ConfigLayers WITH
        Entries <- Groups, Definitions <- Groups \cup {"top"},
        base <- [g \in Groups |-> View.base[g]],
        api  <- [g \in Groups |-> overlay.items[g]],
        reg  <- [g \in Groups |-> View.items[g]]

\* Groups behave as two durable layers: a write of the API changes one entry
\* of what is in force, at one instant (when the disk takes it), and no
\* failure, disconnect, crash or rebuild loses or repeats one.
ImplementsLayers == L!LSpec
=============================================================================
