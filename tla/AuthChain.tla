------------------------------ MODULE AuthChain ------------------------------
(***************************************************************************)
(* The authentication chains of both planes and the credential cache they  *)
(* share (auth/mod.rs, auth_cache.rs).                                     *)
(*                                                                         *)
(* A request's future waits for an offload permit, hands the chain to a    *)
(* blocking task and awaits it; the task outlives the future.  The task    *)
(* reads the clock and the cache's flush generation once, then walks its   *)
(* modules: a live cached verdict is used, otherwise the module is called. *)
(* A module is a loaded plugin, so it is external: it answers anything at  *)
(* any time, panics, or never returns.  A credential presented on the      *)
(* admin plane is a composite of its two carriers, so the two planes never *)
(* share a cache row: Creds of one plane are disjoint from the other's.    *)
(***************************************************************************)
EXTENDS Rows, FiniteSets

CONSTANTS DataReqs, AdminReqs,      \* request slots of the two planes
          DataCreds, AdminCreds,    \* credentials presented on each plane
          DataChain, AdminChain,    \* the configured modules, in order
          DataPermits, AdminPermits,\* AUTH_/ADMIN_OFFLOAD_MAX_INFLIGHT
          MaxEntries,               \* MAX_ENTRIES
          IdentifyTtls,             \* the TTLs modules suggest, clamped to the cap
          PassTtl,                  \* PASS_TTL_SECS and its jitter
          MaxClock, MaxFlushes      \* bounds of the exploration

ASSUME ChainAssumption ==
    /\ DataReqs \cap AdminReqs = {}
    /\ DataChain \in Seq(Range(DataChain)) \ {<<>>}
    /\ AdminChain \in Seq(Range(AdminChain)) \ {<<>>}
    /\ {DataPermits, AdminPermits, MaxEntries, PassTtl} \subseteq Nat \ {0}
    /\ IdentifyTtls \subseteq Nat
    /\ {MaxClock, MaxFlushes} \subseteq Nat

VARIABLES clock,      \* store::now()
          cache,      \* CacheState.entries, oldest insertion first
          flushGen,   \* CacheState.flush_gen
          flushedAt,  \* history: per module, the generation its last flush began
          permits,    \* free offload permits of each plane
          fut,        \* the request's future
          task        \* its blocking task, NoTask when there is none

authVars == <<clock, cache, flushGen, flushedAt, permits, fut, task>>

Reqs == DataReqs \cup AdminReqs
Plane(r) == IF r \in DataReqs THEN "data" ELSE "admin"
Chain(r) == IF r \in DataReqs THEN DataChain ELSE AdminChain
CredsOf(r) == IF r \in DataReqs THEN DataCreds ELSE AdminCreds
Modules == Range(DataChain) \cup Range(AdminChain)
CacheKeys == Modules \X (DataCreds \cup AdminCreds)

\* A module's answer.  An Identify carries the TTL the module suggests, clamped
\* to the cap, and as history when it was given; a Pass has the short TTL.
Identifies == [outcome: {"identify"}, ttl: IdentifyTtls, at: 0..MaxClock,
               gen: 0..MaxFlushes]
PassAnswer == [outcome |-> "pass", ttl |-> PassTtl]
RejectAnswer == [outcome |-> "reject"]
Answers == Identifies \cup {PassAnswer, RejectAnswer}

\* CachedVerdict has no Reject.  Entry.inserted_seq is the position in `cache`.
Entries == [key: CacheKeys, ans: Answers \ {RejectAnswer},
            expires: Nat]

NoTask == [pc |-> "none"]
NoAnswer == RejectAnswer
Tasks == [pc: {"lookup", "call", "put", "commit"},
          cred: DataCreds \cup AdminCreds, now: 0..MaxClock, gen: 0..MaxFlushes,
          at: 1..(Len(DataChain) + Len(AdminChain)),
          ans: Answers, pending: SUBSET Modules]

\* The type of every variable.
AuthTypeOK ==
    /\ clock \in 0..MaxClock /\ flushGen \in 0..MaxFlushes
    /\ Range(cache) \subseteq Entries
    /\ flushedAt \in [Modules -> 0..MaxFlushes]
    /\ permits \in [{"data", "admin"} -> Nat]
    /\ fut \in [Reqs -> {"idle", "permit", "await"}]
    /\ \A r \in Reqs : task[r] = NoTask \/ task[r] \in Tasks

AuthInit ==
    /\ clock = 0 /\ cache = <<>> /\ flushGen = 0
    /\ flushedAt = [m \in Modules |-> 0]
    /\ permits = [p \in {"data", "admin"} |->
                    IF p = "data" THEN DataPermits ELSE AdminPermits]
    /\ fut = [r \in Reqs |-> "idle"]
    /\ task = [r \in Reqs |-> NoTask]

-----------------------------------------------------------------------------
(* The credential cache.                                                   *)

KeyOf(r) == <<Chain(r)[task[r].at], task[r].cred>>

EntryOf(k) == {e \in Range(cache) : e.key = k}

\* `get`: the live verdict under the task's own clock reading, and the cache
\* afterwards (an expired row is removed).
Hit(r) == {e \in EntryOf(KeyOf(r)) : e.expires > task[r].now}
AfterGet(r) ==
    Kept(cache, {e \in Range(cache) : e.key # KeyOf(r) \/ e.expires > task[r].now})

\* Room for one more row: at capacity the expired go, then the oldest.
Trimmed(c, now) ==
    IF Len(c) < MaxEntries THEN c
    ELSE LET live == Kept(c, {e \in Range(c) : e.expires > now})
         IN IF Len(live) < MaxEntries THEN live ELSE Tail(live)

\* Mutant of Put: without the flush check.
MutPut(key, ans, now, gen) ==
    IF ans.outcome = "reject" THEN cache
    ELSE Append(Kept(Trimmed(cache, now), {e \in Range(cache) : e.key # key}),
                [key |-> key, ans |-> ans, expires |-> now + ans.ttl])

\* `put`: Reject is never cached; a flush since `gen` was captured drops the
\* insert; the row is stamped with the clock the run began at.
Put(key, ans, now, gen) ==
    IF ans.outcome = "reject" \/ flushGen # gen THEN cache
    ELSE Append(Kept(Trimmed(cache, now), {e \in Range(cache) : e.key # key}),
                [key |-> key, ans |-> ans, expires |-> now + ans.ttl])

\* `flush_module` and `flush_all`: the generation moves for every module.
Flush(ms) ==
    /\ flushGen < MaxFlushes
    /\ flushGen' = flushGen + 1
    /\ flushedAt' = [m \in Modules |-> IF m \in ms THEN flushGen + 1 ELSE flushedAt[m]]
    /\ cache' = Kept(cache, {e \in Range(cache) : e.key[1] \notin ms})
    /\ UNCHANGED <<clock, permits, fut, task>>

FlushModule == \E m \in Modules : Flush({m})
FlushAll == Flush(Modules)

-----------------------------------------------------------------------------
(* The request's future: idle again once it is answered or dropped.         *)

Arrive(r) ==
    /\ fut[r] = "idle" /\ task[r] = NoTask
    /\ fut' = [fut EXCEPT ![r] = "permit"]
    /\ UNCHANGED <<clock, cache, flushGen, flushedAt, permits, task>>

\* A permit is free: the chain starts on a blocking thread, where it reads the
\* clock and the flush generation before its first module.
Spawn(r) ==
    /\ fut[r] = "permit" /\ permits[Plane(r)] > 0
    /\ permits' = [permits EXCEPT ![Plane(r)] = @ - 1]
    /\ fut' = [fut EXCEPT ![r] = "await"]
    /\ \E c \in CredsOf(r) :
         task' = [task EXCEPT ![r] =
            [pc |-> "lookup", cred |-> c, now |-> clock, gen |-> flushGen, at |-> 1,
             ans |-> NoAnswer, pending |-> {}]]
    /\ UNCHANGED <<clock, cache, flushGen, flushedAt>>

\* No permit within the wait: denied, and the chain never runs.
PermitTimeout(r) ==
    /\ fut[r] = "permit" /\ permits[Plane(r)] = 0
    /\ fut' = [fut EXCEPT ![r] = "idle"]
    /\ UNCHANGED <<clock, cache, flushGen, flushedAt, permits, task>>

\* Mutant of AwaitTimeout: the bound is on the other plane.
MutAwaitTimeout(r) ==
    /\ r \in DataReqs /\ fut[r] = "await"
    /\ fut' = [fut EXCEPT ![r] = "idle"]
    /\ UNCHANGED <<clock, cache, flushGen, flushedAt, permits, task>>

\* Only the admin plane bounds its wait for the chain; the task keeps running.
AwaitTimeout(r) ==
    /\ r \in AdminReqs /\ fut[r] = "await"
    /\ fut' = [fut EXCEPT ![r] = "idle"]
    /\ UNCHANGED <<clock, cache, flushGen, flushedAt, permits, task>>

\* The client goes away: the future is dropped, the task and its permit are not.
Disconnect(r) ==
    /\ fut[r] \in {"permit", "await"}
    /\ fut' = [fut EXCEPT ![r] = "idle"]
    /\ UNCHANGED <<clock, cache, flushGen, flushedAt, permits, task>>

-----------------------------------------------------------------------------
(* The blocking task.                                                      *)

\* The closure returns: its permit is dropped and its verdict goes to the
\* future, if that is still there.
Return(r) ==
    /\ task' = [task EXCEPT ![r] = NoTask]
    /\ permits' = [permits EXCEPT ![Plane(r)] = @ + 1]
    /\ fut' = [fut EXCEPT ![r] = "idle"]

\* What an outcome decides: Identify admits, Reject denies, Pass goes on to the
\* next module.  Past the last one the data plane asks the keys arm, which the
\* cache never sees, and both planes return.
Decide(r, ans) ==
    \/ /\ ans \in Identifies /\ r \in DataReqs
       /\ task' = [task EXCEPT ![r].pc = "commit", ![r].ans = ans]
       /\ UNCHANGED <<permits, fut>>
    \/ /\ ans = PassAnswer /\ task[r].at < Len(Chain(r))
       /\ task' = [task EXCEPT ![r].pc = "lookup", ![r].at = @ + 1, ![r].ans = NoAnswer,
                               ![r].pending = IF r \in DataReqs /\ task[r].pc = "call"
                                              THEN @ \cup {KeyOf(r)[1]} ELSE @]
       /\ UNCHANGED <<permits, fut>>
    \/ /\ \/ ans \in Identifies /\ r \in AdminReqs
          \/ ans = PassAnswer /\ task[r].at = Len(Chain(r))
          \/ ans = RejectAnswer
       /\ Return(r)

\* The cache first; a verdict in it is acted on, whichever plane.
Lookup(r) ==
    /\ task[r].pc = "lookup"
    /\ cache' = AfterGet(r)
    /\ \/ /\ Hit(r) = {}
          /\ task' = [task EXCEPT ![r].pc = "call"]
          /\ UNCHANGED <<permits, fut>>
       \/ \E e \in Hit(r) : Decide(r, e.ans)
    /\ UNCHANGED <<clock, flushGen, flushedAt>>

NewAnswers == {PassAnswer, RejectAnswer}
                \cup {a \in Identifies : a.at = clock /\ a.gen = flushGen}

\* Mutant of Answer: a Pass of the data chain is stored as soon as it is given.
MutAnswer(r) ==
    /\ task[r].pc = "call"
    /\ \E ans \in NewAnswers :
         \/ /\ r \in DataReqs /\ Decide(r, ans)
            /\ cache' = IF ans = PassAnswer
                        THEN Put(KeyOf(r), ans, task[r].now, task[r].gen) ELSE cache
         \/ /\ r \in AdminReqs
            /\ task' = [task EXCEPT ![r].pc = "put", ![r].ans = ans]
            /\ UNCHANGED <<permits, fut, cache>>
    /\ UNCHANGED <<clock, flushGen, flushedAt>>

\* The module answers.  The data chain decides, noting a Pass to be stored if
\* the chain goes on to identify; the admin chain stores every verdict first.
Answer(r) ==
    /\ task[r].pc = "call"
    /\ \E ans \in NewAnswers :
         \/ r \in DataReqs /\ Decide(r, ans)
         \/ /\ r \in AdminReqs
            /\ task' = [task EXCEPT ![r].pc = "put", ![r].ans = ans]
            /\ UNCHANGED <<permits, fut>>
    /\ UNCHANGED <<clock, cache, flushGen, flushedAt>>

\* The module panics: unwinding drops the permit, the join error is a denial.
Panic(r) ==
    /\ task[r].pc = "call"
    /\ Return(r)
    /\ UNCHANGED <<clock, cache, flushGen, flushedAt>>

AdminPut(r) ==
    /\ task[r].pc = "put"
    /\ cache' = Put(KeyOf(r), task[r].ans, task[r].now, task[r].gen)
    /\ Decide(r, task[r].ans)
    /\ UNCHANGED <<clock, flushGen, flushedAt>>

\* The data chain identified: each noted Pass is stored, and then the Identify,
\* also when it came from the cache.
Commit(r) ==
    /\ task[r].pc = "commit"
    /\ \/ \E m \in task[r].pending :
            /\ cache' = Put(<<m, task[r].cred>>, PassAnswer, task[r].now, task[r].gen)
            /\ task' = [task EXCEPT ![r].pending = @ \ {m}]
            /\ UNCHANGED <<permits, fut>>
       \/ /\ task[r].pending = {}
          /\ cache' = Put(KeyOf(r), task[r].ans, task[r].now, task[r].gen)
          /\ Return(r)
    /\ UNCHANGED <<clock, flushGen, flushedAt>>

Tick ==
    /\ clock < MaxClock
    /\ clock' = clock + 1
    /\ UNCHANGED <<cache, flushGen, flushedAt, permits, fut, task>>

PermitWait(r) == Spawn(r) \/ PermitTimeout(r)
Work(r) == Lookup(r) \/ AdminPut(r) \/ Commit(r)

AuthNext ==
    \/ Tick \/ FlushModule \/ FlushAll
    \/ \E r \in Reqs : \/ Arrive(r) \/ PermitWait(r) \/ AwaitTimeout(r)
                       \/ Disconnect(r)
                       \/ Work(r) \/ Answer(r) \/ Panic(r)

\* The admin request's own timers fire.  Nothing is assumed of the modules or of
\* the blocking threads: a module may hang for ever.
Fairness == \A r \in AdminReqs : WF_authVars(PermitWait(r) \/ AwaitTimeout(r))

AuthSpec == AuthInit /\ [][AuthNext]_authVars /\ Fairness

-----------------------------------------------------------------------------
(* Properties.                                                             *)

\* A flush revokes: no row of a flushed module holds an Identify the module gave
\* before the flush, although chains that were already running keep writing
\* afterwards (CacheGeneration, `put`'s check under the flush's own lock).
FlushRevokes ==
    \A e \in Range(cache) : e.ans \in Identifies => e.ans.gen >= flushedAt[e.key[1]]

\* Unauthenticated data-plane traffic writes no row: a row that is new is about
\* the credential of a chain at work, which has identified it if it is the data
\* plane's, so a stream of refused credentials cannot evict a live one.
DeniedAdmitsNothing ==
    [][\A e \in Range(cache') \ Range(cache) :
         \E r \in Reqs : /\ task[r] # NoTask /\ task[r].cred = e.key[2]
                         /\ r \in DataReqs => task[r].ans \in Identifies]_authVars

\* Every admin request is answered (or its client leaves), even when the module
\* its chain called never returns and even when such chains hold every permit.
AdminAnswered == \A r \in AdminReqs : fut[r] # "idle" ~> fut[r] = "idle"
=============================================================================
